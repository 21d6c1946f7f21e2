---------------------------- MODULE PagingProofs ----------------------------
(***************************************************************************)
(* Theorems about the page allocator and the page tables of                *)
(* kernel/mm/paging.c, for every number of pages, every size of a table    *)
(* and every set of directories and virtual pages.                         *)
(*                                                                         *)
(* A call writes several tables in one step: get_pte carries the memory    *)
(* from level to level.  So the invariant is stated of a memory, a bitmap  *)
(* and the use of each page, and shown to hold after every level.          *)
(***************************************************************************)
EXTENDS Paging, WellFoundedInduction, TLAPS

Uses  == {"reserved", "free", "client", "pdpt", "pd", "pt"}
Kinds == {"pml4", "pdpt", "pd"}
Child(k) == CASE k = "pml4" -> "pdpt" [] k = "pdpt" -> "pd" [] k = "pd" -> "pt"

Memories == [Nodes -> [Idx -> Entry]]
Tab(us, k) == IF k = "pml4" THEN Dirs ELSE {p \in Pages : us[p] = k}

(* Entry i of table n is present and names page p. *)
Points(m, n, i, p) == Present(m[n][i]) /\ m[n][i].page = p

(* The processor's walk for v in directory d arrives at the page table n. *)
Path(m, d, v, n) ==
  \E a, b \in Pages : Points(m, d, v[1], a) /\ Points(m, a, v[2], b) /\ Points(m, b, v[3], n)

(* Translate, of a memory of its own. *)
Trans(m, d, v) ==
  LET e1 == m[d][v[1]]
      e2 == m[e1.page][v[2]]
      e3 == m[e2.page][v[3]]
  IN  IF Present(e1) /\ Present(e2) /\ Present(e3) /\ Present(m[e3.page][v[4]])
      THEN m[e3.page][v[4]]
      ELSE EMPTY

-----------------------------------------------------------------------------
(* The invariant. *)

Accounted(b, pr, us) ==
  /\ b = {p \in Pages : us[p] = "free"}
  /\ \A p \in Pages : us[p] \notin {"free", "reserved"} => p \in pr

(* A present entry of a table leads to a table one level down. *)
Leads(m, us) ==
  \A k \in Kinds : \A n \in Tab(us, k), i \in Idx :
    Present(m[n][i]) => us[m[n][i].page] = Child(k)

(* Every table but a directory hangs on exactly one entry. *)
Parent(m, us, k, n, i, p) ==
  \A x \in Tab(us, k), j \in Idx : Points(m, x, j, p) <=> x = n /\ j = i
Parented(m, us) ==
  \A k \in Kinds : \A p \in Tab(us, Child(k)) :
    \E n \in Tab(us, k), i \in Idx : Parent(m, us, k, n, i, p)

Held(m, us) ==
  \A n \in Tab(us, "pt"), i \in Idx :
    Present(m[n][i]) => us[m[n][i].page] \in {"client", "reserved"}

(* Every mapping belongs to a virtual page in use: otherwise a page could be
   mapped where its owner, about to free it, does not look. *)
Covered(m, us) ==
  \A n \in Tab(us, "pt"), i \in Idx :
    Present(m[n][i]) => \E d \in Dirs, v \in Virts : v[4] = i /\ Path(m, d, v, n)

Forest(m, us) == Leads(m, us) /\ Parented(m, us) /\ Held(m, us) /\ Covered(m, us)

-----------------------------------------------------------------------------
(* The scan of the bitmap finds the lowest free page. *)

LessThan == {p \in Nat \X Nat : p[1] < p[2]}

(* A set of natural numbers that is not empty has a least member. *)
LEMMA LeastElement ==
  ASSUME NEW S \in SUBSET Nat, S # {}
  PROVE  \E i \in S : \A j \in S : i <= j
<1>1. IsWellFoundedOn(LessThan, Nat)
  BY NatLessThanWellFounded DEF OpToRel, LessThan
<1>2. PICK i \in S : \A j \in S : ~ (<<j, i>> \in LessThan)
  BY <1>1, WFMin
<1>3. ASSUME NEW j \in S PROVE i <= j
  <2>1. i \in Nat /\ j \in Nat /\ ~ (j < i)
    BY <1>2 DEF LessThan
  <2> QED BY <2>1
<1> QED BY <1>3

(* The page mm_alloc_page takes is free. *)
LEMMA FirstFreeIsFree ==
  ASSUME NEW b \in SUBSET Pages, b # {}
  PROVE  FirstFree(b) \in b
<1>1. b \in SUBSET Nat
  BY PagingAssumption DEF Pages
<1>2. \E p \in b : \A q \in b : p <= q
  BY <1>1, LeastElement
<1> QED BY <1>2 DEF FirstFree

(* The levels of the tree are distinct, and none of them is a client's page. *)
LEMMA KindFacts ==
  \A k \in Kinds :
    /\ Child(k) \in {"pdpt", "pd", "pt"} /\ Child(k) # k
    /\ \A l \in Kinds : Child(k) = Child(l) => k = l
  BY DEF Kinds, Child

(* Which entries are present, and which pages entries name. *)
LEMMA EntryFacts ==
  /\ 0 \in Pages /\ EMPTY \in Entry /\ ~Present(EMPTY) /\ Present(JUNK[0])
  /\ \A e \in Entry : e.page \in Pages
  /\ Pages \subseteq Nat /\ NONE \notin Nodes /\ Dirs \cap Pages = {}
  /\ ZERO \in [Idx -> Entry] /\ JUNK \in [Idx -> Entry]
  /\ \A i \in Idx : ~Present(ZERO[i])
<1>1. 0 \in Pages /\ Pages \subseteq Nat /\ 0 \in Idx
  BY PagingAssumption DEF Pages, Idx
<1>2. EMPTY \in Entry /\ ~Present(EMPTY) /\ [page |-> 0, flags |-> {"P"}] \in Entry
  BY <1>1 DEF EMPTY, Entry, Present
<1>3. NONE \notin Nodes /\ Dirs \cap Pages = {}
  BY PagingAssumption DEF NONE, Nodes, Pages
<1> QED BY <1>1, <1>2, <1>3 DEF ZERO, JUNK, Entry, Present

(* Every table is a node of the memory. *)
LEMMA TabNodes ==
  \A us : \A k : Tab(us, k) \subseteq Nodes
  BY DEF Tab, Nodes

-----------------------------------------------------------------------------
(* Paths. *)

Maps(m, d, v, n) == Path(m, d, v, n) /\ Present(m[n][v[4]])

(* An entry of a memory is an Entry. *)
LEMMA EntryType ==
  ASSUME NEW m \in Memories, NEW n \in Nodes, NEW i \in Idx
  PROVE  m[n][i] \in Entry /\ m[n][i].page \in Pages
  BY EntryFacts DEF Memories

(* What a virtual page translates to is the entry its path ends at. *)
LEMMA TransIsPath ==
  ASSUME NEW m \in Memories, NEW d \in Dirs, NEW v \in [1 .. 4 -> Idx]
  PROVE  /\ \A n : Path(m, d, v, n) => n \in Pages
         /\ \A n : Maps(m, d, v, n) => Trans(m, d, v) = m[n][v[4]]
         /\ (~\E n : Maps(m, d, v, n)) => Trans(m, d, v) = EMPTY
<1> DEFINE e1 == m[d][v[1]]
           e2 == m[e1.page][v[2]]
           e3 == m[e2.page][v[3]]
<1>1. v[1] \in Idx /\ v[2] \in Idx /\ v[3] \in Idx /\ v[4] \in Idx
  OBVIOUS
<1>2. e1.page \in Pages /\ e2.page \in Pages /\ e3.page \in Pages
  <2>1. e1.page \in Pages
    BY <1>1, EntryType DEF Nodes
  <2>2. e2.page \in Pages
    BY <1>1, <2>1, EntryType DEF Nodes
  <2>3. e3.page \in Pages
    BY <1>1, <2>2, EntryType DEF Nodes
  <2> QED BY <2>1, <2>2, <2>3
<1>3. ASSUME NEW n, Path(m, d, v, n)
      PROVE  n = e3.page /\ Present(e1) /\ Present(e2) /\ Present(e3)
  BY <1>3 DEF Path, Points
<1>4. Present(e1) /\ Present(e2) /\ Present(e3) => Path(m, d, v, e3.page)
  BY <1>2 DEF Path, Points
<1>5. Trans(m, d, v) =
        IF Present(e1) /\ Present(e2) /\ Present(e3) /\ Present(m[e3.page][v[4]])
        THEN m[e3.page][v[4]] ELSE EMPTY
  BY DEF Trans
<1> HIDE DEF e1, e2, e3
<1> QED BY <1>2, <1>3, <1>4, <1>5 DEF Maps

(* Two memories with the same paths to the same present entries translate
   alike. *)
LEMMA TransSame ==
  ASSUME NEW m \in Memories, NEW m2 \in Memories, NEW d \in Dirs, NEW v \in [1 .. 4 -> Idx],
         \A n \in Pages : Maps(m, d, v, n) <=> Maps(m2, d, v, n),
         \A n \in Pages : Maps(m, d, v, n) => m2[n][v[4]] = m[n][v[4]]
  PROVE  Trans(m2, d, v) = Trans(m, d, v)
<1>1. CASE \E n \in Pages : Maps(m, d, v, n)
  BY <1>1, TransIsPath
<1>2. CASE ~\E n \in Pages : Maps(m, d, v, n)
  <2>1. (~\E n : Maps(m, d, v, n)) /\ (~\E n : Maps(m2, d, v, n))
    BY <1>2, TransIsPath DEF Maps
  <2> QED BY <2>1, TransIsPath
<1> QED BY <1>1, <1>2

(* A path descends one level at each entry. *)
LEMMA PathDescends ==
  ASSUME NEW m, NEW us, Leads(m, us), NEW d \in Dirs, NEW v \in [1 .. 4 -> Idx],
         NEW n, Path(m, d, v, n), n \in Pages
  PROVE  n \in Tab(us, "pt") /\
         \E a \in Tab(us, "pdpt"), b \in Tab(us, "pd") :
           Points(m, d, v[1], a) /\ Points(m, a, v[2], b) /\ Points(m, b, v[3], n)
<1>1. PICK a \in Pages, b \in Pages :
        Points(m, d, v[1], a) /\ Points(m, a, v[2], b) /\ Points(m, b, v[3], n)
  BY DEF Path
<1>2. v[1] \in Idx /\ v[2] \in Idx /\ v[3] \in Idx
  OBVIOUS
<1>3. us[a] = "pdpt"
  <2>1. d \in Tab(us, "pml4") /\ "pml4" \in Kinds
    BY DEF Tab, Kinds
  <2> QED BY <1>1, <1>2, <2>1 DEF Leads, Points, Child
<1>4. us[b] = "pd"
  <2>1. a \in Tab(us, "pdpt") /\ "pdpt" \in Kinds
    BY <1>3 DEF Tab, Kinds
  <2> QED BY <1>1, <1>2, <2>1 DEF Leads, Points, Child
<1>5. us[n] = "pt"
  <2>1. b \in Tab(us, "pd") /\ "pd" \in Kinds
    BY <1>4 DEF Tab, Kinds
  <2> QED BY <1>1, <1>2, <2>1 DEF Leads, Points, Child
<1> QED BY <1>1, <1>3, <1>4, <1>5 DEF Tab

(* No two entries of one level name the same table. *)
LEMMA OneParent ==
  ASSUME NEW m, NEW us, Parented(m, us), NEW k \in Kinds, NEW p \in Tab(us, Child(k)),
         NEW x \in Tab(us, k), NEW y \in Tab(us, k), NEW i \in Idx, NEW j \in Idx,
         Points(m, x, i, p), Points(m, y, j, p)
  PROVE  x = y /\ i = j
  BY DEF Parented, Parent

(* A page table is reached by one directory only, and by virtual pages that
   differ in the last index only. *)
LEMMA PathUnique ==
  ASSUME NEW m, NEW us, Leads(m, us), Parented(m, us), NEW n \in Pages,
         NEW d \in Dirs, NEW v \in [1 .. 4 -> Idx], Path(m, d, v, n),
         NEW e \in Dirs, NEW w \in [1 .. 4 -> Idx], Path(m, e, w, n)
  PROVE  d = e /\ (v[4] = w[4] => v = w)
<1>0. /\ v[1] \in Idx /\ v[2] \in Idx /\ v[3] \in Idx
      /\ w[1] \in Idx /\ w[2] \in Idx /\ w[3] \in Idx
      /\ {"pml4", "pdpt", "pd"} = Kinds
  BY DEF Kinds
<1>1. PICK a \in Tab(us, "pdpt"), b \in Tab(us, "pd") :
        Points(m, d, v[1], a) /\ Points(m, a, v[2], b) /\ Points(m, b, v[3], n)
  BY PathDescends
<1>2. PICK a2 \in Tab(us, "pdpt"), b2 \in Tab(us, "pd") :
        Points(m, e, w[1], a2) /\ Points(m, a2, w[2], b2) /\ Points(m, b2, w[3], n)
  BY PathDescends
<1>3. b = b2 /\ v[3] = w[3]
  <2>1. n \in Tab(us, Child("pd"))
    BY PathDescends DEF Child
  <2> QED BY <1>0, <1>1, <1>2, <2>1, OneParent
<1>4. a = a2 /\ v[2] = w[2]
  <2>1. b \in Tab(us, Child("pdpt"))
    BY DEF Child
  <2> QED BY <1>0, <1>1, <1>2, <1>3, <2>1, OneParent
<1>5. d = e /\ v[1] = w[1]
  <2>1. a \in Tab(us, Child("pml4")) /\ d \in Tab(us, "pml4") /\ e \in Tab(us, "pml4")
    BY DEF Child, Tab
  <2> QED BY <1>0, <1>1, <1>2, <1>4, <2>1, OneParent
<1>6. ASSUME v[4] = w[4] PROVE v = w
  <2>1. \A i \in 1 .. 4 : v[i] = w[i]
    <3>1. \A i \in 1 .. 4 : i = 1 \/ i = 2 \/ i = 3 \/ i = 4
      OBVIOUS
    <3> QED BY <1>3, <1>4, <1>5, <1>6, <3>1
  <2> QED BY <2>1
<1> QED BY <1>5, <1>6

(* A change that keeps the present entries of the upper levels keeps every
   path. *)
LEMMA PathKept ==
  ASSUME NEW m, NEW m2, NEW us, Leads(m, us),
         \A k \in Kinds : \A x \in Tab(us, k), j \in Idx, q \in Pages :
           Points(m, x, j, q) => Points(m2, x, j, q),
         NEW d \in Dirs, NEW v \in [1 .. 4 -> Idx], NEW n \in Pages, Path(m, d, v, n)
  PROVE  Path(m2, d, v, n)
<1>1. PICK a \in Tab(us, "pdpt"), b \in Tab(us, "pd") :
        Points(m, d, v[1], a) /\ Points(m, a, v[2], b) /\ Points(m, b, v[3], n)
  BY PathDescends
<1>2. d \in Tab(us, "pml4") /\ a \in Pages /\ b \in Pages
  BY DEF Tab
<1>3. "pml4" \in Kinds /\ "pdpt" \in Kinds /\ "pd" \in Kinds
  BY DEF Kinds
<1>4. v[1] \in Idx /\ v[2] \in Idx /\ v[3] \in Idx
  OBVIOUS
<1>5. Points(m2, d, v[1], a) /\ Points(m2, a, v[2], b) /\ Points(m2, b, v[3], n)
  BY <1>1, <1>2, <1>3, <1>4
<1> QED BY <1>2, <1>5 DEF Path

-----------------------------------------------------------------------------
(* What the steps do to the forest. *)

(* Handing out or taking back a page that is not a table. *)
SameTables(m, us, m2, us2) ==
  /\ \A k \in Kinds \cup {"pt"} : Tab(us2, k) = Tab(us, k)
  /\ \A k \in Kinds \cup {"pt"} : \A n \in Tab(us, k) : m2[n] = m[n]

(* A memory whose links are the same has the same trees. *)
LEMMA SameForest ==
  ASSUME NEW m \in Memories, NEW m2 \in Memories,
         NEW us \in [Pages -> Uses], NEW us2 \in [Pages -> Uses],
         Forest(m, us), SameTables(m, us, m2, us2),
         \A n \in Tab(us, "pt"), i \in Idx :
           Present(m[n][i]) => us2[m[n][i].page] \in {"client", "reserved"}
  PROVE  /\ Forest(m2, us2)
         /\ \A d \in Dirs, v \in [1 .. 4 -> Idx] : Trans(m2, d, v) = Trans(m, d, v)
<1>0. \A k \in Kinds : Child(k) \in {"pdpt", "pd", "pt"} /\ Child(k) \in Kinds \cup {"pt"}
  BY KindFacts DEF Kinds
<1>1. \A k \in Kinds \cup {"pt"} : \A x \in Tab(us2, k), j \in Idx : \A q :
        Points(m2, x, j, q) <=> Points(m, x, j, q)
  BY DEF SameTables, Points
<1>2. Leads(m2, us2)
  <2> SUFFICES ASSUME NEW k \in Kinds, NEW n \in Tab(us2, k), NEW i \in Idx, Present(m2[n][i])
               PROVE  us2[m2[n][i].page] = Child(k)
    BY DEF Leads
  <2>1. n \in Tab(us, k) /\ m2[n] = m[n]
    BY DEF SameTables
  <2>2. us[m[n][i].page] = Child(k)
    BY <2>1 DEF Forest, Leads
  <2>3. m[n][i].page \in Pages
    BY <2>1, EntryType, TabNodes
  <2>4. m[n][i].page \in Tab(us, Child(k))
    BY <1>0, <2>2, <2>3 DEF Tab
  <2>5. m[n][i].page \in Tab(us2, Child(k))
    BY <1>0, <2>4 DEF SameTables
  <2> QED BY <1>0, <2>1, <2>5 DEF Tab
<1>3. Parented(m2, us2)
  <2> SUFFICES ASSUME NEW k \in Kinds, NEW p \in Tab(us2, Child(k))
               PROVE  \E n \in Tab(us2, k), i \in Idx : Parent(m2, us2, k, n, i, p)
    BY DEF Parented
  <2>1. Tab(us2, k) = Tab(us, k) /\ Tab(us2, Child(k)) = Tab(us, Child(k))
    BY <1>0 DEF SameTables
  <2>2. PICK n \in Tab(us, k), i \in Idx : Parent(m, us, k, n, i, p)
    BY <2>1 DEF Forest, Parented
  <2>3. Parent(m2, us2, k, n, i, p)
    BY <1>1, <2>1, <2>2 DEF Parent
  <2> QED BY <2>1, <2>3
<1>4. \A d \in Dirs, v \in [1 .. 4 -> Idx], n \in Pages : Path(m2, d, v, n) <=> Path(m, d, v, n)
  <2>1. Leads(m, us) /\ \A k \in Kinds : Tab(us2, k) = Tab(us, k)
    BY DEF Forest, SameTables
  <2>2. \A k \in Kinds : \A x \in Tab(us, k), j \in Idx, q \in Pages :
          Points(m, x, j, q) <=> Points(m2, x, j, q)
    BY <1>1, <2>1
  <2>3. ASSUME NEW d \in Dirs, NEW v \in [1 .. 4 -> Idx], NEW n \in Pages, Path(m, d, v, n)
        PROVE  Path(m2, d, v, n)
    BY <2>1, <2>2, <2>3, PathKept
  <2>4. ASSUME NEW d \in Dirs, NEW v \in [1 .. 4 -> Idx], NEW n \in Pages, Path(m2, d, v, n)
        PROVE  Path(m, d, v, n)
    <3>1. \A k \in Kinds : \A x \in Tab(us2, k), j \in Idx, q \in Pages :
            Points(m2, x, j, q) => Points(m, x, j, q)
      BY <2>1, <2>2
    <3> QED BY <1>2, <2>4, <3>1, PathKept
  <2> QED BY <2>3, <2>4
<1>5. Tab(us2, "pt") = Tab(us, "pt") /\ \A n \in Tab(us, "pt") : n \in Pages /\ m2[n] = m[n]
  BY DEF SameTables, Tab
<1>6. Held(m2, us2)
  BY <1>5 DEF Held
<1>7. Covered(m2, us2)
  <2> SUFFICES ASSUME NEW n \in Tab(us, "pt"), NEW i \in Idx, Present(m[n][i])
               PROVE  \E d \in Dirs, v \in Virts : v[4] = i /\ Path(m2, d, v, n)
    BY <1>5 DEF Covered
  <2>1. PICK d \in Dirs, v \in Virts : v[4] = i /\ Path(m, d, v, n)
    BY DEF Forest, Covered
  <2> QED BY <1>4, <1>5, <2>1, PagingAssumption
<1>8. ASSUME NEW d \in Dirs, NEW v \in [1 .. 4 -> Idx]
      PROVE  Trans(m2, d, v) = Trans(m, d, v)
  <2>1. ASSUME NEW n \in Pages, Path(m, d, v, n)
        PROVE  m2[n] = m[n]
    BY <1>5, <2>1, PathDescends DEF Forest
  <2>2. \A n \in Pages : Maps(m, d, v, n) <=> Maps(m2, d, v, n)
    BY <1>4, <2>1 DEF Maps
  <2>3. \A n \in Pages : Maps(m, d, v, n) => m2[n][v[4]] = m[n][v[4]]
    BY <2>1 DEF Maps
  <2> QED BY <2>2, <2>3, TransSame
<1> QED BY <1>2, <1>3, <1>6, <1>7, <1>8 DEF Forest

(* A new table: a free page p, zeroed, hung on the entry i of the table n that
   was not present. *)
Linked(m, us, k, n, i, p, m2, us2) ==
  /\ n \in Tab(us, k) /\ ~Present(m[n][i])
  /\ us[p] = "free" /\ us2 = [us EXCEPT ![p] = Child(k)]
  /\ m2[p] = ZERO /\ Points(m2, n, i, p)
  /\ \A x \in Nodes, j \in Idx : x # p /\ ~(x = n /\ j = i) => m2[x][j] = m[x][j]

(* The tables of a memory a table was added to, and what their entries name. *)
Extended(m, us, k, n, i, p, m2, us2) ==
  /\ us2 \in [Pages -> Uses] /\ us2[p] = Child(k)
  /\ \A q \in Pages : q # p => us2[q] = us[q]
  /\ \A l \in Kinds \cup {"pt"} :
       /\ p \notin Tab(us, l)
       /\ \A x : x # p => (x \in Tab(us2, l) <=> x \in Tab(us, l))
       /\ p \in Tab(us2, l) <=> l = Child(k)
       /\ n \in Tab(us, l) <=> l = k
  /\ \A j \in Idx : ~Present(m2[p][j])
  /\ \A x \in Nodes, j \in Idx : \A q :
       q # p => (Points(m2, x, j, q) <=> x # p /\ Points(m, x, j, q))
  /\ \A x \in Nodes, j \in Idx :
       Points(m2, x, j, p) => x # p /\ (Points(m, x, j, p) \/ (x = n /\ j = i))

(* Linking a cleared page below n adds that link and no other. *)
LEMMA LinkFacts ==
  ASSUME NEW m \in Memories, NEW m2 \in Memories,
         NEW us \in [Pages -> Uses], NEW us2, NEW k \in Kinds, NEW n,
         NEW i \in Idx, NEW p \in Pages, Linked(m, us, k, n, i, p, m2, us2)
  PROVE  Extended(m, us, k, n, i, p, m2, us2)
<1>1. Child(k) \in {"pdpt", "pd", "pt"} /\ Child(k) # k
  BY KindFacts
<1>2. /\ us2 \in [Pages -> Uses] /\ us2[p] = Child(k)
      /\ \A q \in Pages : q # p => us2[q] = us[q]
  BY <1>1 DEF Linked, Uses
<1>3. \A j \in Idx : ~Present(m2[p][j])
  BY EntryFacts DEF Linked
<1>4. p \notin Dirs
  BY EntryFacts
<1>5. \A l \in Kinds \cup {"pt"} :
        /\ p \notin Tab(us, l)
        /\ \A x : x # p => (x \in Tab(us2, l) <=> x \in Tab(us, l))
        /\ p \in Tab(us2, l) <=> l = Child(k)
  BY <1>1, <1>2, <1>4 DEF Tab, Kinds, Linked
<1>6. \A l \in Kinds \cup {"pt"} : n \in Tab(us, l) <=> l = k
  <2>1. n \in Tab(us, k) /\ Dirs \cap Pages = {}
    BY EntryFacts DEF Linked
  <2> QED BY <2>1 DEF Tab, Kinds
<1>7. \A x \in Nodes, j \in Idx : \A q :
        q # p => (Points(m2, x, j, q) <=> x # p /\ Points(m, x, j, q))
  BY <1>3 DEF Linked, Points
<1>8. \A x \in Nodes, j \in Idx :
        Points(m2, x, j, p) => x # p /\ (Points(m, x, j, p) \/ (x = n /\ j = i))
  BY <1>3 DEF Linked, Points
<1> QED BY <1>2, <1>3, <1>5, <1>6, <1>7, <1>8 DEF Extended

(* The forest stands, and nothing new is mapped. *)
LEMMA LinkTable ==
  ASSUME NEW m \in Memories, NEW m2 \in Memories,
         NEW us \in [Pages -> Uses], NEW us2, NEW k \in Kinds, NEW n,
         NEW i \in Idx, NEW p \in Pages, Linked(m, us, k, n, i, p, m2, us2),
         Forest(m, us)
  PROVE  /\ Forest(m2, us2)
         /\ \A d \in Dirs, v \in [1 .. 4 -> Idx] : Trans(m2, d, v) = Trans(m, d, v)
<1> Extended(m, us, k, n, i, p, m2, us2)
  BY LinkFacts
<1>0. /\ us2 \in [Pages -> Uses] /\ us2[p] = Child(k)
      /\ \A q \in Pages : q # p => us2[q] = us[q]
  BY DEF Extended
<1>1. /\ \A l \in Kinds \cup {"pt"} :
           /\ p \notin Tab(us, l)
           /\ \A x : x # p => (x \in Tab(us2, l) <=> x \in Tab(us, l))
           /\ p \in Tab(us2, l) <=> l = Child(k)
           /\ n \in Tab(us, l) <=> l = k
      /\ \A l : Tab(us2, l) \subseteq Nodes /\ Tab(us, l) \subseteq Nodes
      /\ us[p] = "free" /\ Points(m2, n, i, p) /\ ~Present(m[n][i])
      /\ n \in Tab(us, k)
  BY TabNodes DEF Linked, Extended
<1>2. \A j \in Idx : ~Present(m2[p][j])
  BY DEF Extended
<1>3. \A x \in Nodes, j \in Idx : \A q :
        q # p => (Points(m2, x, j, q) <=> x # p /\ Points(m, x, j, q))
  BY DEF Extended
<1>4. \A x \in Nodes, j \in Idx :
        Points(m2, x, j, p) => x # p /\ (Points(m, x, j, p) \/ (x = n /\ j = i))
  BY DEF Extended
<1>5. \A l \in Kinds : Child(l) \in {"pdpt", "pd", "pt"} /\ Child(l) \in Kinds \cup {"pt"}
  BY KindFacts DEF Kinds
<1>6. \A l \in Kinds : \A x \in Tab(us, l), j \in Idx : ~Points(m, x, j, p)
  BY <1>1, <1>5 DEF Forest, Leads, Points
<1>7. Leads(m2, us2)
  <2> SUFFICES ASSUME NEW l \in Kinds, NEW x \in Tab(us2, l), NEW j \in Idx, Present(m2[x][j])
               PROVE  us2[m2[x][j].page] = Child(l)
    BY DEF Leads
  <2> DEFINE q == m2[x][j].page
  <2>1. Points(m2, x, j, q) /\ x \in Nodes /\ q \in Pages
    BY <1>1, EntryType DEF Points
  <2>2. x # p /\ x \in Tab(us, l)
    BY <1>1, <1>2
  <2> HIDE DEF q
  <2>3. CASE q = p
    <3>1. x = n /\ j = i
      BY <1>4, <1>6, <2>1, <2>2, <2>3
    <3>2. l = k
      BY <1>1, <2>2, <3>1
    <3>3. us2[q] = Child(l)
      BY <1>0, <2>3, <3>2
    <3> QED BY <3>3 DEF q
  <2>4. CASE q # p
    <3>1. Points(m, x, j, q)
      BY <1>3, <2>1, <2>4
    <3>2. us[q] = Child(l)
      BY <2>2, <3>1 DEF Forest, Leads, Points
    <3>3. us2[q] = Child(l)
      BY <1>0, <2>1, <2>4, <3>2
    <3> QED BY <3>3 DEF q
  <2> QED BY <2>3, <2>4
<1>8. Parented(m2, us2)
  <2> SUFFICES ASSUME NEW l \in Kinds, NEW q \in Tab(us2, Child(l))
               PROVE  \E x \in Tab(us2, l), j \in Idx : Parent(m2, us2, l, x, j, q)
    BY DEF Parented
  <2>1. CASE q = p
    <3>1. l = k
      BY <1>1, <1>5, <2>1, KindFacts
    <3>2. n \in Tab(us2, l)
      BY <1>1, <3>1
    <3>3. Parent(m2, us2, l, n, i, q)
      <4> SUFFICES ASSUME NEW x \in Tab(us2, l), NEW j \in Idx
                   PROVE  Points(m2, x, j, q) <=> x = n /\ j = i
        BY DEF Parent
      <4>1. ASSUME Points(m2, x, j, p) PROVE x = n /\ j = i
        <5>1. x # p /\ x \in Tab(us, l)
          BY <1>1, <1>2, <4>1 DEF Points
        <5> QED BY <1>1, <1>4, <1>6, <4>1, <5>1
      <4> QED BY <1>1, <2>1, <4>1
    <3> QED BY <3>2, <3>3
  <2>2. CASE q # p
    <3>1. q \in Tab(us, Child(l))
      BY <1>1, <1>5, <2>2
    <3>2. PICK y \in Tab(us, l), h \in Idx : Parent(m, us, l, y, h, q)
      BY <3>1 DEF Forest, Parented
    <3>3. y # p /\ y \in Tab(us2, l)
      BY <1>1
    <3>4. Parent(m2, us2, l, y, h, q)
      <4> SUFFICES ASSUME NEW x \in Tab(us2, l), NEW j \in Idx
                   PROVE  Points(m2, x, j, q) <=> x = y /\ j = h
        BY DEF Parent
      <4>1. CASE x = p
        BY <1>2, <3>3, <4>1 DEF Points
      <4>2. CASE x # p
        <5>1. x \in Tab(us, l)
          BY <1>1, <4>2
        <5>2. Points(m, x, j, q) <=> x = y /\ j = h
          BY <3>2, <5>1 DEF Parent
        <5> QED BY <1>1, <1>3, <2>2, <4>2, <5>1, <5>2
      <4> QED BY <4>1, <4>2
    <3> QED BY <3>3, <3>4
  <2> QED BY <2>1, <2>2
<1>9. \A x \in Tab(us2, "pt"), j \in Idx :
        Present(m2[x][j]) => x \in Tab(us, "pt") /\ m2[x][j] = m[x][j]
  <2> SUFFICES ASSUME NEW x \in Tab(us2, "pt"), NEW j \in Idx, Present(m2[x][j])
               PROVE  x \in Tab(us, "pt") /\ m2[x][j] = m[x][j]
    OBVIOUS
  <2>1. x # p /\ x \in Tab(us, "pt")
    BY <1>1, <1>2
  <2>2. x # n
    BY <1>1, <2>1 DEF Kinds
  <2> QED BY <1>1, <2>1, <2>2 DEF Linked
<1>10. Held(m2, us2)
  <2> SUFFICES ASSUME NEW x \in Tab(us2, "pt"), NEW j \in Idx, Present(m2[x][j])
               PROVE  us2[m2[x][j].page] \in {"client", "reserved"}
    BY DEF Held
  <2>1. x \in Tab(us, "pt") /\ m2[x][j] = m[x][j]
    BY <1>9
  <2>2. us[m[x][j].page] \in {"client", "reserved"}
    BY <2>1 DEF Forest, Held
  <2>3. m[x][j].page \in Pages
    BY <1>1, <2>1, EntryType
  <2> QED BY <1>0, <1>1, <2>1, <2>2, <2>3
<1>11. \A l \in Kinds : \A x \in Tab(us, l), j \in Idx, q \in Pages :
         Points(m, x, j, q) => Points(m2, x, j, q)
  BY <1>1, <1>3, <1>6
<1>12. \A d \in Dirs, v \in [1 .. 4 -> Idx], q \in Pages :
         Path(m, d, v, q) => Path(m2, d, v, q)
  BY <1>11, PathKept DEF Forest
<1>13. Covered(m2, us2)
  <2> SUFFICES ASSUME NEW x \in Tab(us2, "pt"), NEW j \in Idx, Present(m2[x][j])
               PROVE  \E d \in Dirs, v \in Virts : v[4] = j /\ Path(m2, d, v, x)
    BY DEF Covered
  <2>1. x \in Tab(us, "pt") /\ m2[x][j] = m[x][j] /\ x \in Pages
    BY <1>9 DEF Tab
  <2>2. PICK d \in Dirs, v \in Virts : v[4] = j /\ Path(m, d, v, x)
    BY <2>1 DEF Forest, Covered
  <2> QED BY <1>12, <2>1, <2>2, PagingAssumption
<1>14. ASSUME NEW d \in Dirs, NEW v \in [1 .. 4 -> Idx]
       PROVE  Trans(m2, d, v) = Trans(m, d, v)
  <2>0. v[1] \in Idx /\ v[2] \in Idx /\ v[3] \in Idx /\ v[4] \in Idx
    OBVIOUS
  <2>1. ASSUME NEW q \in Pages, Maps(m, d, v, q)
        PROVE  Maps(m2, d, v, q) /\ m2[q][v[4]] = m[q][v[4]]
    <3>1. Path(m, d, v, q) /\ q \in Tab(us, "pt")
      BY <2>1, PathDescends DEF Maps, Forest
    <3>2. q # p /\ q # n /\ q \in Nodes
      BY <1>1, <3>1 DEF Kinds
    <3>3. m2[q][v[4]] = m[q][v[4]]
      BY <2>0, <3>2 DEF Linked
    <3> QED BY <1>12, <2>1, <3>1, <3>3 DEF Maps
  <2>2. ASSUME NEW q \in Pages, Maps(m2, d, v, q)
        PROVE  Maps(m, d, v, q)
    <3>1. /\ q \in Tab(us2, "pt")
          /\ \E a \in Tab(us2, "pdpt"), b \in Tab(us2, "pd") :
               Points(m2, d, v[1], a) /\ Points(m2, a, v[2], b) /\ Points(m2, b, v[3], q)
      BY <1>7, <2>2, PathDescends DEF Maps
    <3>2. PICK a \in Tab(us2, "pdpt"), b \in Tab(us2, "pd") :
            Points(m2, d, v[1], a) /\ Points(m2, a, v[2], b) /\ Points(m2, b, v[3], q)
      BY <3>1
    <3>3. q # p /\ m2[q][v[4]] = m[q][v[4]]
      BY <1>1, <1>2, <1>9, <2>0, <2>2, <3>1 DEF Maps
    <3>4. b # p /\ Points(m, b, v[3], q)
      BY <1>1, <1>3, <2>0, <3>2, <3>3
    <3>5. a # p /\ Points(m, a, v[2], b)
      BY <1>1, <1>3, <2>0, <3>2, <3>4
    <3>6. Points(m, d, v[1], a)
      BY <1>3, <2>0, <3>2, <3>5 DEF Nodes
    <3>7. a \in Pages /\ b \in Pages
      BY <3>2 DEF Tab
    <3> QED BY <2>2, <3>3, <3>4, <3>5, <3>6, <3>7 DEF Maps, Path
  <2> QED BY <2>1, <2>2, TransSame
<1> QED BY <1>7, <1>8, <1>10, <1>13, <1>14 DEF Forest

(* An entry of the page table that the walk for v reaches is written: what
   translates differently is v in that directory, and nothing else. *)
Wrote(m, n, i, e, m2) == m2 = [m EXCEPT ![n] = [@ EXCEPT ![i] = e]]

Remapped(m, us, d, v, e, m2) ==
  /\ m2 \in Memories /\ Forest(m2, us)
  /\ Trans(m2, d, v) = IF Present(e) THEN e ELSE EMPTY
  /\ \A c \in Dirs, w \in [1 .. 4 -> Idx] :
       ~(c = d /\ w = v) => Trans(m2, c, w) = Trans(m, c, w)

(* An entry stored in the table a walk ends at changes the translation of that walk only. *)
LEMMA WriteEntry ==
  ASSUME NEW m \in Memories, NEW us \in [Pages -> Uses], Forest(m, us),
         NEW d \in Dirs, NEW v \in Virts, NEW n \in Pages, Path(m, d, v, n),
         NEW e \in Entry, Present(e) => us[e.page] \in {"client", "reserved"},
         NEW m2, Wrote(m, n, v[4], e, m2)
  PROVE  Remapped(m, us, d, v, e, m2)
<1>0. /\ v \in [1 .. 4 -> Idx] /\ v[4] \in Idx
      /\ \A k \in Kinds : Tab(us, k) \subseteq Nodes
      /\ \A x \in Tab(us, "pt") : x \in Pages /\ x \in Nodes
  BY PagingAssumption, TabNodes DEF Tab, Nodes
<1>1. n \in Tab(us, "pt") /\ \A k \in Kinds : n \notin Tab(us, k)
  <2>1. n \in Tab(us, "pt")
    BY <1>0, PathDescends DEF Forest
  <2> QED BY <2>1, EntryFacts DEF Tab, Kinds
<1>2. /\ m2 \in Memories /\ m2[n][v[4]] = e
      /\ \A x \in Nodes, j \in Idx : ~(x = n /\ j = v[4]) => m2[x][j] = m[x][j]
  <2>1. n \in Nodes
    BY DEF Nodes
  <2> QED BY <1>0, <2>1 DEF Wrote, Memories
<1>3. \A k \in Kinds : \A x \in Tab(us, k), j \in Idx : m2[x][j] = m[x][j]
  BY <1>0, <1>1, <1>2
<1>4. Leads(m2, us) /\ Parented(m2, us)
  <2>1. Leads(m2, us)
    BY <1>3 DEF Forest, Leads
  <2>2. Parented(m2, us)
    <3> SUFFICES ASSUME NEW k \in Kinds, NEW p \in Tab(us, Child(k))
                 PROVE  \E x \in Tab(us, k), j \in Idx : Parent(m2, us, k, x, j, p)
      BY DEF Parented
    <3>1. PICK x \in Tab(us, k), j \in Idx : Parent(m, us, k, x, j, p)
      BY DEF Forest, Parented
    <3>2. Parent(m2, us, k, x, j, p)
      BY <1>3, <3>1 DEF Parent, Points
    <3> QED BY <3>2
  <2> QED BY <2>1, <2>2
<1>5. \A c \in Dirs, w \in [1 .. 4 -> Idx], q \in Pages : Path(m2, c, w, q) <=> Path(m, c, w, q)
  <2>1. \A k \in Kinds : \A x \in Tab(us, k), j \in Idx, q \in Pages :
          Points(m, x, j, q) <=> Points(m2, x, j, q)
    BY <1>3 DEF Points
  <2>2. ASSUME NEW c \in Dirs, NEW w \in [1 .. 4 -> Idx], NEW q \in Pages, Path(m, c, w, q)
        PROVE  Path(m2, c, w, q)
    BY <2>1, <2>2, PathKept DEF Forest
  <2>3. ASSUME NEW c \in Dirs, NEW w \in [1 .. 4 -> Idx], NEW q \in Pages, Path(m2, c, w, q)
        PROVE  Path(m, c, w, q)
    BY <1>4, <2>1, <2>3, PathKept
  <2> QED BY <2>2, <2>3
<1>6. Held(m2, us)
  <2> SUFFICES ASSUME NEW x \in Tab(us, "pt"), NEW j \in Idx, Present(m2[x][j])
               PROVE  us[m2[x][j].page] \in {"client", "reserved"}
    BY DEF Held
  <2>1. CASE x = n /\ j = v[4]
    BY <1>2, <2>1
  <2>2. CASE ~(x = n /\ j = v[4])
    BY <1>0, <1>2, <2>2 DEF Forest, Held
  <2> QED BY <2>1, <2>2
<1>7. Covered(m2, us)
  <2> SUFFICES ASSUME NEW x \in Tab(us, "pt"), NEW j \in Idx, Present(m2[x][j])
               PROVE  \E c \in Dirs, w \in Virts : w[4] = j /\ Path(m2, c, w, x)
    BY DEF Covered
  <2>1. CASE x = n /\ j = v[4]
    BY <1>0, <1>5, <2>1
  <2>2. CASE ~(x = n /\ j = v[4])
    <3>1. PICK c \in Dirs, w \in Virts : w[4] = j /\ Path(m, c, w, x)
      BY <1>0, <1>2, <2>2 DEF Forest, Covered
    <3> QED BY <1>0, <1>5, <3>1, PagingAssumption
  <2> QED BY <2>1, <2>2
<1>8. Trans(m2, d, v) = IF Present(e) THEN e ELSE EMPTY
  <2>0. Path(m2, d, v, n)
    BY <1>0, <1>5
  <2>1. CASE Present(e)
    <3>1. Maps(m2, d, v, n)
      BY <1>2, <2>0, <2>1 DEF Maps
    <3> QED BY <1>0, <1>2, <2>1, <3>1, TransIsPath
  <2>2. CASE ~Present(e)
    <3>1. ASSUME NEW q, Maps(m2, d, v, q) PROVE FALSE
      <4>1. Trans(m2, d, v) = m2[q][v[4]] /\ Path(m2, d, v, q)
        BY <1>0, <1>2, <3>1, TransIsPath DEF Maps
      <4>2. q = n
        BY <2>0, <4>1 DEF Path, Points
      <4> QED BY <1>2, <2>2, <3>1, <4>2 DEF Maps
    <3> QED BY <1>0, <1>2, <2>2, <3>1, TransIsPath
  <2> QED BY <2>1, <2>2
<1>9. ASSUME NEW c \in Dirs, NEW w \in [1 .. 4 -> Idx], ~(c = d /\ w = v)
      PROVE  Trans(m2, c, w) = Trans(m, c, w)
  <2>1. ASSUME NEW q \in Pages, Path(m, c, w, q)
        PROVE  m2[q][w[4]] = m[q][w[4]]
    <3>1. ~(q = n /\ w[4] = v[4])
      BY <1>0, <1>9, <2>1, PathUnique DEF Forest
    <3>2. q \in Nodes /\ w[4] \in Idx
      BY DEF Nodes
    <3> QED BY <1>2, <3>1, <3>2
  <2>2. \A q \in Pages : Maps(m, c, w, q) <=> Maps(m2, c, w, q)
    BY <1>5, <2>1 DEF Maps
  <2>3. \A q \in Pages : Maps(m, c, w, q) => m2[q][w[4]] = m[q][w[4]]
    BY <2>1 DEF Maps
  <2> QED BY <1>2, <2>2, <2>3, TransSame
<1> QED BY <1>2, <1>4, <1>6, <1>7, <1>8, <1>9 DEF Forest, Remapped

-----------------------------------------------------------------------------
(* The walk of get_pte. *)

Walks == [mem : Memories, bitmap : SUBSET Pages, present : SUBSET Pages,
          use : [Pages -> Uses], node : Nodes \cup {NONE}]

(* A walk that has reached a table of level k, or has failed. *)
WalkOK(s, k) ==
  /\ s \in Walks
  /\ Accounted(s.bitmap, s.present, s.use) /\ Forest(s.mem, s.use)
  /\ s.node # NONE => s.node \in Tab(s.use, k)

(* What a walk leaves as it was: every mapping, every page in use, and every
   present entry of a directory or of a page in use. *)
Grows(s, t) ==
  /\ \A d \in Dirs, v \in [1 .. 4 -> Idx] : Trans(t.mem, d, v) = Trans(s.mem, d, v)
  /\ \A q \in Pages : s.use[q] # "free" => t.use[q] = s.use[q]
  /\ \A x \in Nodes, j \in Idx, q \in Pages :
       (x \in Pages => s.use[x] # "free") /\ Points(s.mem, x, j, q) => Points(t.mem, x, j, q)

Unwritten(s, t) ==
  t.mem = s.mem /\ t.bitmap = s.bitmap /\ t.present = s.present /\ t.use = s.use

(* One level of the walk: t is s one table further down, a new one if need be
   and if a page is left. *)
Descends(s, t, k, i, create) ==
  /\ WalkOK(t, Child(k)) /\ Grows(s, t)
  /\ s.node = NONE => t = s
  /\ t.node # NONE => s.node # NONE /\ Points(t.mem, s.node, i, t.node)
  /\ t.node = NONE /\ s.node # NONE /\ create => t.bitmap = {}
  /\ ~create => Unwritten(s, t)

(* Every level of a walk does so. *)
LEMMA LevelDescends ==
  ASSUME NEW k \in Kinds, NEW s, WalkOK(s, k), NEW i \in Idx, NEW create \in BOOLEAN
  PROVE  Descends(s, Level(s, i, create, Child(k)), k, i, create)
<1> DEFINE t == Level(s, i, create, Child(k))
<1>0. /\ s \in Walks /\ s.mem \in Memories /\ s.bitmap \in SUBSET Pages
      /\ s.present \in SUBSET Pages /\ s.use \in [Pages -> Uses]
      /\ s.node \in Nodes \cup {NONE}
      /\ Accounted(s.bitmap, s.present, s.use) /\ Forest(s.mem, s.use)
  BY DEF WalkOK, Walks
<1>k. Child(k) \in {"pdpt", "pd", "pt"} /\ Child(k) # k
  BY KindFacts
<1>1. CASE s.node = NONE
  <2>1. t = s
    BY <1>1 DEF Level
  <2> HIDE DEF t
  <2> QED BY <1>1, <2>1 DEF Descends, WalkOK, Grows, Unwritten, t
<1>2. CASE s.node # NONE /\ Present(s.mem[s.node][i])
  <2> DEFINE q == s.mem[s.node][i].page
  <2>1. t = [s EXCEPT !.node = q]
    BY <1>2 DEF Level
  <2>2. s.node \in Tab(s.use, k) /\ s.node \in Nodes
    BY <1>0, <1>2 DEF WalkOK
  <2>3. q \in Pages
    BY <1>0, <2>2, EntryType
  <2>4. s.use[q] = Child(k)
    BY <1>0, <1>2, <2>2 DEF Forest, Leads
  <2>5. q \in Tab(s.use, Child(k)) /\ q # NONE /\ q \in Nodes
    BY <1>k, <2>3, <2>4, EntryFacts DEF Tab, Nodes
  <2>6. Points(s.mem, s.node, i, q)
    BY <1>2 DEF Points
  <2> HIDE DEF t, q
  <2>7. t \in Walks /\ t.node = q /\ Unwritten(s, t)
    BY <1>0, <2>1, <2>5 DEF Walks, Unwritten
  <2>8. WalkOK(t, Child(k))
    BY <1>0, <2>5, <2>7 DEF WalkOK, Unwritten
  <2>9. Grows(s, t)
    BY <2>7 DEF Grows, Unwritten
  <2>10. Descends(s, t, k, i, create)
    BY <1>2, <2>5, <2>6, <2>7, <2>8, <2>9 DEF Descends, Unwritten
  <2> QED BY <2>10 DEF t
<1>3. CASE s.node # NONE /\ ~Present(s.mem[s.node][i]) /\ (~create \/ s.bitmap = {})
  <2>1. t = [s EXCEPT !.node = NONE]
    BY <1>3 DEF Level
  <2> HIDE DEF t
  <2>2. t \in Walks /\ t.node = NONE /\ Unwritten(s, t)
    BY <1>0, <2>1 DEF Walks, Unwritten
  <2>3. WalkOK(t, Child(k)) /\ Grows(s, t)
    BY <1>0, <2>2 DEF WalkOK, Grows, Unwritten
  <2>4. Descends(s, t, k, i, create)
    BY <1>3, <2>2, <2>3 DEF Descends, Unwritten
  <2> QED BY <2>4 DEF t
<1>4. CASE s.node # NONE /\ ~Present(s.mem[s.node][i]) /\ create /\ s.bitmap # {}
  <2> DEFINE n  == s.node
             p  == FirstFree(s.bitmap)
             e  == [page |-> p, flags |-> {"P", "W", "U"}]
             m2 == [[s.mem EXCEPT ![p] = ZERO] EXCEPT ![n] = [@ EXCEPT ![i] = e]]
             u2 == [s.use EXCEPT ![p] = Child(k)]
  <2>1. t = [mem |-> m2, bitmap |-> s.bitmap \ {p}, present |-> s.present \cup {p},
             use |-> u2, node |-> p]
    BY <1>4 DEF Level, NewTable, Taken
  <2>2. p \in s.bitmap /\ p \in Pages
    BY <1>0, <1>4, FirstFreeIsFree
  <2>3. n \in Tab(s.use, k) /\ n \in Nodes
    BY <1>0, <1>4 DEF WalkOK
  <2>4. e \in Entry /\ Present(e) /\ e.page = p
    BY <2>2 DEF Entry, Present
  <2> HIDE DEF t, p, e
  <2>5. s.use[p] = "free" /\ p # n
    BY <1>0, <2>2, <2>3, EntryFacts DEF Accounted, Tab, Kinds
  <2>6. /\ m2 \in Memories /\ m2[p] = ZERO /\ m2[n][i] = e
        /\ \A x \in Nodes, j \in Idx : x # p /\ ~(x = n /\ j = i) => m2[x][j] = s.mem[x][j]
    BY <1>0, <2>2, <2>3, <2>4, <2>5, EntryFacts DEF Memories, Nodes
  <2> HIDE DEF n, m2, u2
  <2>7. Points(m2, n, i, p)
    BY <2>4, <2>6 DEF Points
  <2>8. Linked(s.mem, s.use, k, n, i, p, m2, u2)
    BY <1>4, <2>3, <2>5, <2>6, <2>7 DEF Linked, n, u2
  <2>9. /\ Forest(m2, u2)
        /\ \A d \in Dirs, v \in [1 .. 4 -> Idx] : Trans(m2, d, v) = Trans(s.mem, d, v)
    BY <1>0, <2>2, <2>6, <2>8, LinkTable
  <2>10. u2 \in [Pages -> Uses] /\ u2[p] = Child(k) /\ \A q \in Pages : q # p => u2[q] = s.use[q]
    BY <1>0, <1>k, <2>2 DEF u2, Uses
  <2>11. /\ t.mem = m2 /\ t.bitmap = s.bitmap \ {p} /\ t.present = s.present \cup {p}
         /\ t.use = u2 /\ t.node = p /\ t \in Walks
    BY <1>0, <2>1, <2>2, <2>6, <2>10 DEF Walks, Nodes
  <2>12. Accounted(s.bitmap \ {p}, s.present \cup {p}, u2)
    BY <1>0, <1>k, <2>2, <2>5, <2>10 DEF Accounted
  <2>13. p \in Tab(u2, Child(k)) /\ p # NONE
    BY <1>k, <2>2, <2>10, EntryFacts DEF Tab, Nodes
  <2>14. WalkOK(t, Child(k))
    BY <2>9, <2>11, <2>12, <2>13 DEF WalkOK
  <2>15. \A x \in Nodes, j \in Idx, q \in Pages :
           (x \in Pages => s.use[x] # "free") /\ Points(s.mem, x, j, q) => Points(m2, x, j, q)
    BY <1>4, <2>2, <2>5, <2>6 DEF Points, n
  <2>16. Grows(s, t)
    BY <2>5, <2>9, <2>10, <2>11, <2>15 DEF Grows
  <2>17. Descends(s, t, k, i, create)
    BY <1>4, <2>7, <2>11, <2>13, <2>14, <2>16 DEF Descends, n
  <2> QED BY <2>17 DEF t
<1> QED BY <1>1, <1>2, <1>3, <1>4

(* What one walk leaves and a second leaves, both leave. *)
LEMMA GrowsOn ==
  ASSUME NEW r, NEW s, NEW t, Grows(r, s), Grows(s, t),
         r.use \in [Pages -> Uses], s.use \in [Pages -> Uses]
  PROVE  Grows(r, t)
<1>1. \A d \in Dirs, v \in [1 .. 4 -> Idx] : Trans(t.mem, d, v) = Trans(r.mem, d, v)
  BY DEF Grows
<1>2. \A q \in Pages : r.use[q] # "free" => s.use[q] = r.use[q] /\ t.use[q] = r.use[q]
  BY DEF Grows
<1>3. \A x \in Nodes, j \in Idx, q \in Pages :
        (x \in Pages => r.use[x] # "free") /\ Points(r.mem, x, j, q) => Points(t.mem, x, j, q)
  BY <1>2 DEF Grows
<1> QED BY <1>1, <1>2, <1>3 DEF Grows

-----------------------------------------------------------------------------
(* The inductive invariant.  What a run checks follows from it; what makes it
   inductive is that the tables of every level stand as a forest and that
   whatever a page table maps belongs to a virtual page in use. *)
IInv ==
  /\ TypeOK
  /\ Accounted(page_bitmap, present, use) /\ Forest(mem, use)
  /\ TlbCoherent

(* The type invariant in terms of the sets the lemmas quantify over. *)
LEMMA TypeFacts ==
  TypeOK => /\ mem \in Memories /\ use \in [Pages -> Uses]
            /\ page_bitmap \in SUBSET Pages /\ present \in SUBSET Pages
            /\ current_dir \in Dirs /\ tlb \in [Virts -> Entry]
  BY DEF TypeOK, Memories, Uses

(* Translate is Trans in the present memory. *)
LEMMA TranslateIsTrans ==
  \A d, v : Translate(d, v) = Trans(mem, d, v)
  BY DEF Translate, Trans

Start == [mem |-> mem, bitmap |-> page_bitmap, present |-> present, use |-> use,
          node |-> current_dir]

(* What get_pte returns: a table that the walk for v reaches, or a failure,
   which with create set takes an empty bitmap. *)
Found(s, v, create) ==
  /\ WalkOK(s, "pt") /\ Grows(Start, s)
  /\ s.node # NONE => s.node \in Pages /\ Path(s.mem, current_dir, v, s.node)
  /\ s.node = NONE /\ create => s.bitmap = {}
  /\ ~create => Unwritten(Start, s)

(* get_pte, three levels, finds it. *)
LEMMA GetPte ==
  ASSUME IInv, NEW v \in [1 .. 4 -> Idx], NEW create \in BOOLEAN
  PROVE  Found(get_pte(v, create), v, create)
<1> DEFINE s0 == Start
           s1 == Level(s0, v[1], create, Child("pml4"))
           s2 == Level(s1, v[2], create, Child("pdpt"))
           s3 == Level(s2, v[3], create, Child("pd"))
<1>0. v[1] \in Idx /\ v[2] \in Idx /\ v[3] \in Idx
  OBVIOUS
<1>k. /\ "pml4" \in Kinds /\ "pdpt" \in Kinds /\ "pd" \in Kinds
      /\ Child("pml4") = "pdpt" /\ Child("pdpt") = "pd" /\ Child("pd") = "pt"
  BY DEF Kinds, Child
<1>1. get_pte(v, create) = s3
  BY <1>k DEF get_pte, Start
<1>2. WalkOK(s0, "pml4") /\ s0.node = current_dir /\ current_dir \in Dirs
  <2>1. current_dir \in Nodes /\ current_dir \in Tab(use, "pml4")
    BY TypeFacts DEF IInv, Nodes, Tab
  <2> QED BY <2>1, TypeFacts DEF IInv, WalkOK, Walks, Start
<1> HIDE DEF s0
<1>3. Descends(s0, s1, "pml4", v[1], create)
  BY <1>0, <1>k, <1>2, LevelDescends
<1> HIDE DEF s1
<1>4. WalkOK(s1, "pdpt")
  BY <1>k, <1>3 DEF Descends
<1>5. Descends(s1, s2, "pdpt", v[2], create)
  BY <1>0, <1>k, <1>4, LevelDescends
<1> HIDE DEF s2
<1>6. WalkOK(s2, "pd")
  BY <1>k, <1>5 DEF Descends
<1>7. Descends(s2, s3, "pd", v[3], create)
  BY <1>0, <1>k, <1>6, LevelDescends
<1> HIDE DEF s3
<1>8. WalkOK(s3, "pt")
  BY <1>k, <1>7 DEF Descends
<1>9. /\ s0.use \in [Pages -> Uses] /\ s1.use \in [Pages -> Uses]
      /\ s2.use \in [Pages -> Uses] /\ s3.use \in [Pages -> Uses]
  BY <1>2, <1>4, <1>6, <1>8 DEF WalkOK, Walks
<1>10. Grows(s0, s1) /\ Grows(s1, s2) /\ Grows(s2, s3)
  BY <1>3, <1>5, <1>7 DEF Descends
<1>11. Grows(s0, s3)
  BY <1>9, <1>10, GrowsOn
<1>12. ASSUME s3.node # NONE
       PROVE  s3.node \in Pages /\ Path(s3.mem, current_dir, v, s3.node)
  <2>1. /\ s2.node # NONE /\ Points(s3.mem, s2.node, v[3], s3.node)
        /\ s1.node # NONE /\ Points(s2.mem, s1.node, v[2], s2.node)
        /\ Points(s1.mem, current_dir, v[1], s1.node)
    BY <1>2, <1>3, <1>5, <1>7, <1>12 DEF Descends
  <2>2. /\ s1.node \in Pages /\ s1.use[s1.node] = "pdpt"
        /\ s2.node \in Pages /\ s2.use[s2.node] = "pd"
        /\ s3.node \in Pages
    BY <1>4, <1>6, <1>8, <1>12, <2>1 DEF WalkOK, Tab
  <2>3. current_dir \in Nodes /\ s1.node \in Nodes /\ current_dir \notin Pages
    BY <1>2, <2>2, EntryFacts DEF Nodes
  <2>4. Grows(s1, s3)
    BY <1>9, <1>10, GrowsOn
  <2>5. Points(s3.mem, current_dir, v[1], s1.node)
    BY <1>0, <2>1, <2>2, <2>3, <2>4 DEF Grows
  <2>6. Points(s3.mem, s1.node, v[2], s2.node)
    BY <1>0, <1>10, <1>5, <2>1, <2>2, <2>3 DEF Grows
  <2> QED BY <2>1, <2>2, <2>5, <2>6 DEF Path
<1>13. s3.node = NONE /\ create => s3.bitmap = {}
  <2>1. s0.node # NONE
    BY <1>2, EntryFacts DEF Nodes
  <2> QED BY <1>3, <1>5, <1>7, <2>1 DEF Descends
<1>14. ~create => Unwritten(s0, s3)
  BY <1>3, <1>5, <1>7 DEF Descends, Unwritten
<1> QED BY <1>1, <1>8, <1>11, <1>12, <1>13, <1>14 DEF Found, s0

-----------------------------------------------------------------------------
(* The steps, each with what it does to the mappings. *)

SameMaps ==
  \A d \in Dirs, w \in [1 .. 4 -> Idx] : Trans(mem', d, w) = Trans(mem, d, w)

(* v of the current directory becomes e. *)
MapsOnly(v, e) ==
  \A d \in Dirs, w \in [1 .. 4 -> Idx] :
    Trans(mem', d, w) = IF d = current_dir /\ w = v THEN e ELSE Trans(mem, d, w)

(* The empty directories of the start share nothing and map nothing. *)
LEMMA InitIInv == Init => IInv
<1> SUFFICES ASSUME Init PROVE IInv
  OBVIOUS
<1> USE DEF Init
<1>1. mm_init \in SUBSET Pages
  BY DEF mm_init
<1>2. mem \in Memories /\ \A d \in Dirs : mem[d] = ZERO
  BY EntryFacts DEF Memories, Nodes
<1>3. use \in [Pages -> Uses] /\ \A p \in Pages : use[p] \in {"free", "reserved"}
  BY DEF Uses
<1>4. Accounted(page_bitmap, present, use)
  BY <1>1, <1>3 DEF Accounted
<1>5. /\ Tab(use, "pml4") = Dirs /\ Tab(use, "pdpt") = {}
      /\ Tab(use, "pd") = {} /\ Tab(use, "pt") = {}
  BY <1>3 DEF Tab
<1>6. \A k \in Kinds : \A n \in Tab(use, k), i \in Idx : ~Present(mem[n][i])
  BY <1>2, <1>5, EntryFacts DEF Kinds
<1>7. Forest(mem, use)
  <2>1. Leads(mem, use)
    BY <1>6 DEF Leads
  <2>2. Parented(mem, use)
    BY <1>5, KindFacts DEF Parented
  <2> QED BY <1>5, <2>1, <2>2 DEF Forest, Held, Covered
<1>8. TypeOK
  <2>1. current_dir \in Dirs /\ cr3 \in Dirs \cup {BOOT}
    BY PagingAssumption
  <2>2. tlb \in [Virts -> Entry]
    BY EntryFacts
  <2> QED BY <1>1, <1>2, <1>3, <2>1, <2>2 DEF TypeOK, Memories, Uses
<1>9. TlbCoherent
  BY EntryFacts DEF TlbCoherent
<1> QED BY <1>4, <1>7, <1>8, <1>9 DEF IInv

(* A step that changes no mapping, loads no cr3 and leaves the TLB alone keeps
   the TLB coherent. *)
LEMMA TlbKept ==
  ASSUME TypeOK, TlbCoherent, SameMaps, UNCHANGED <<cr3, tlb>>
  PROVE  TlbCoherent'
<1>1. \A v \in Virts : Present(tlb[v]) => cr3 \in Dirs /\ tlb[v] = Trans(mem, cr3, v)
  BY TranslateIsTrans DEF TlbCoherent
<1>2. \A v \in Virts : v \in [1 .. 4 -> Idx]
  BY PagingAssumption
<1>3. \A v \in Virts : Present(tlb'[v]) => cr3' \in Dirs /\ tlb'[v] = Trans(mem', cr3', v)
  BY <1>1, <1>2 DEF SameMaps
<1>4. \A d, v : Translate(d, v)' = Trans(mem', d, v)
  BY DEF Translate, Trans
<1> QED BY <1>3, <1>4 DEF TlbCoherent

(* mm_alloc_page hands out a page no entry names. *)
LEMMA AllocStep ==
  ASSUME IInv, mm_alloc_page
  PROVE  IInv' /\ SameMaps
<1> DEFINE p == FirstFree(page_bitmap)
<1>0. /\ mem \in Memories /\ use \in [Pages -> Uses] /\ Forest(mem, use)
      /\ page_bitmap \in SUBSET Pages /\ present \in SUBSET Pages
      /\ Accounted(page_bitmap, present, use)
  BY TypeFacts DEF IInv
<1>1. p \in page_bitmap /\ p \in Pages /\ use[p] = "free"
  BY <1>0, FirstFreeIsFree DEF mm_alloc_page, Accounted
<1>2. /\ page_bitmap' = page_bitmap \ {p} /\ present' = present \cup {p}
      /\ use' = [use EXCEPT ![p] = "client"] /\ mem' = [mem EXCEPT ![p] = JUNK]
      /\ UNCHANGED <<current_dir, cr3, tlb>>
  BY DEF mm_alloc_page, Taken
<1> HIDE DEF p
<1>3. mem' \in Memories /\ use' \in [Pages -> Uses]
  BY <1>0, <1>1, <1>2, EntryFacts DEF Memories, Uses, Nodes
<1>4. Accounted(page_bitmap', present', use')
  BY <1>0, <1>1, <1>2 DEF Accounted
<1>5. SameTables(mem, use, mem', use')
  BY <1>0, <1>1, <1>2, EntryFacts DEF SameTables, Tab, Kinds, Memories, Nodes
<1>6. \A n \in Tab(use, "pt"), i \in Idx :
        Present(mem[n][i]) => use'[mem[n][i].page] \in {"client", "reserved"}
  BY <1>0, <1>1, <1>2, EntryType, TabNodes DEF Forest, Held
<1>7. Forest(mem', use') /\ SameMaps
  BY <1>0, <1>3, <1>5, <1>6, SameForest DEF SameMaps
<1>8. TypeOK'
  BY <1>0, <1>1, <1>2, <1>3 DEF IInv, TypeOK, Memories, Uses
<1>9. TlbCoherent'
  BY <1>2, <1>7, TlbKept DEF IInv
<1> QED BY <1>4, <1>7, <1>8, <1>9 DEF IInv

(* A page is freed that nothing maps, so no entry names a free page. *)
LEMMA FreeStep ==
  ASSUME IInv, NEW p \in Pages, mm_free_page(p)
  PROVE  IInv' /\ SameMaps
<1>0. /\ mem \in Memories /\ use \in [Pages -> Uses] /\ Forest(mem, use)
      /\ page_bitmap \in SUBSET Pages /\ present \in SUBSET Pages
      /\ Accounted(page_bitmap, present, use)
  BY TypeFacts DEF IInv
<1>1. use[p] = "client"
  BY DEF mm_free_page
<1>2. /\ page_bitmap' = page_bitmap \cup {p} /\ present' = present \ {p}
      /\ use' = [use EXCEPT ![p] = "free"]
      /\ UNCHANGED <<mem, current_dir, cr3, tlb>>
  BY DEF mm_free_page, Freed
<1>3. mem' \in Memories /\ use' \in [Pages -> Uses]
  BY <1>0, <1>2 DEF Uses
<1>4. Accounted(page_bitmap', present', use')
  BY <1>0, <1>1, <1>2 DEF Accounted
<1>5. SameTables(mem, use, mem', use')
  BY <1>0, <1>1, <1>2 DEF SameTables, Tab, Kinds
(* The page is not mapped: its caller has looked at every virtual page in use,
   and no entry belongs to another. *)
<1>6. ASSUME NEW n \in Tab(use, "pt"), NEW i \in Idx, Present(mem[n][i])
      PROVE  mem[n][i].page # p
  <2>1. PICK d \in Dirs, v \in Virts : v[4] = i /\ Path(mem, d, v, n)
    BY <1>0, <1>6 DEF Forest, Covered
  <2>2. v \in [1 .. 4 -> Idx] /\ Maps(mem, d, v, n)
    BY <1>6, <2>1, PagingAssumption DEF Maps
  <2>3. Translate(d, v) = mem[n][i]
    BY <1>0, <2>1, <2>2, TransIsPath, TranslateIsTrans
  <2>4. ~Mapped(p)
    BY DEF mm_free_page
  <2> QED BY <1>6, <2>1, <2>3, <2>4 DEF Mapped
<1>7. \A n \in Tab(use, "pt"), i \in Idx :
        Present(mem[n][i]) => use'[mem[n][i].page] \in {"client", "reserved"}
  BY <1>0, <1>2, <1>6, EntryType, TabNodes DEF Forest, Held
<1>8. Forest(mem', use') /\ SameMaps
  BY <1>0, <1>3, <1>5, <1>7, SameForest DEF SameMaps
<1>9. TypeOK'
  BY <1>0, <1>2, <1>3 DEF IInv, TypeOK, Memories, Uses
<1>10. TlbCoherent'
  BY <1>2, <1>8, TlbKept DEF IInv
<1> QED BY <1>4, <1>8, <1>9, <1>10 DEF IInv

(* A write to the page table entry of v evicts v, and no other virtual page
   needs it. *)
LEMMA TlbEvicted ==
  ASSUME TypeOK, TlbCoherent, NEW v \in Virts, NEW e, MapsOnly(v, e),
         Invalidate(v), UNCHANGED cr3
  PROVE  TlbCoherent'
<1>1. \A w \in Virts : Present(tlb[w]) => cr3 \in Dirs /\ tlb[w] = Trans(mem, cr3, w)
  BY TranslateIsTrans DEF TlbCoherent
<1>2. \A w \in Virts : w \in [1 .. 4 -> Idx]
  BY PagingAssumption
<1>3. tlb' = [tlb EXCEPT ![v] = EMPTY] /\ tlb \in [Virts -> Entry] /\ ~Present(EMPTY)
  BY EntryFacts DEF Invalidate, TypeOK
<1>4. \A w \in Virts : Present(tlb'[w]) => w # v /\ tlb'[w] = tlb[w]
  BY <1>3
<1>5. \A w \in Virts : Present(tlb'[w]) => cr3' \in Dirs /\ tlb'[w] = Trans(mem', cr3', w)
  BY <1>1, <1>2, <1>4 DEF MapsOnly
<1>6. \A d, w : Translate(d, w)' = Trans(mem', d, w)
  BY DEF Translate, Trans
<1> QED BY <1>5, <1>6 DEF TlbCoherent

(* mm_map_page changes one translation or, out of pages, none. *)
LEMMA MapStep ==
  ASSUME IInv, NEW p \in Pages, NEW v \in Virts, NEW flags \in Flags, mm_map_page(p, v, flags)
  PROVE  /\ IInv' /\ UNCHANGED current_dir
         /\ \/ SameMaps /\ page_bitmap' = {}
            \/ MapsOnly(v, [page |-> p, flags |-> flags \cup {"P"}])
<1> DEFINE s == get_pte(v, TRUE)
           e == [page |-> p, flags |-> flags \cup {"P"}]
<1>0. v \in [1 .. 4 -> Idx] /\ tlb \in [Virts -> Entry] /\ EMPTY \in Entry
  BY PagingAssumption, TypeFacts, EntryFacts DEF IInv
<1>1. Found(s, v, TRUE)
  BY <1>0, GetPte
<1>2. e \in Entry /\ Present(e) /\ e.page = p
  BY DEF Entry, Present
<1>3. /\ use[p] \in {"client", "reserved"}
      /\ page_bitmap' = s.bitmap /\ present' = s.present /\ use' = s.use
      /\ \/ s.node = NONE /\ mem' = s.mem /\ UNCHANGED tlb
         \/ /\ s.node # NONE
            /\ mem' = [s.mem EXCEPT ![s.node] = [@ EXCEPT ![v[4]] = e]]
            /\ Invalidate(v)
      /\ UNCHANGED <<current_dir, cr3>>
  BY DEF mm_map_page, PtIdx
<1> HIDE DEF s, e
<1>4. /\ s.mem \in Memories /\ s.use \in [Pages -> Uses] /\ Forest(s.mem, s.use)
      /\ s.bitmap \in SUBSET Pages /\ s.present \in SUBSET Pages
      /\ Accounted(s.bitmap, s.present, s.use)
  BY <1>1 DEF Found, WalkOK, Walks
<1>5. /\ \A d \in Dirs, w \in [1 .. 4 -> Idx] : Trans(s.mem, d, w) = Trans(mem, d, w)
      /\ s.use[p] = use[p]
  BY <1>1, <1>3 DEF Found, Grows, Start
<1>6. Accounted(page_bitmap', present', use')
  BY <1>3, <1>4
<1>7. ASSUME mem' \in Memories, tlb' \in [Virts -> Entry] PROVE TypeOK'
  BY <1>3, <1>4, <1>7 DEF IInv, TypeOK, Memories, Uses
<1>8. CASE s.node = NONE
  <2>1. mem' = s.mem /\ UNCHANGED <<cr3, tlb>>
    BY <1>3, <1>8
  <2>2. SameMaps
    BY <1>5, <2>1 DEF SameMaps
  <2>3. page_bitmap' = {}
    BY <1>1, <1>3, <1>8 DEF Found
  <2>4. TlbCoherent'
    BY <2>1, <2>2, TlbKept DEF IInv
  <2>5. TypeOK' /\ Forest(mem', use')
    BY <1>0, <1>3, <1>4, <1>7, <2>1
  <2> QED BY <1>3, <1>6, <2>2, <2>3, <2>4, <2>5 DEF IInv
<1>9. CASE s.node # NONE
  <2>1. mem' = [s.mem EXCEPT ![s.node] = [@ EXCEPT ![v[4]] = e]] /\ Invalidate(v)
    BY <1>3, <1>9
  <2>2. s.node \in Pages /\ Path(s.mem, current_dir, v, s.node) /\ current_dir \in Dirs
    BY <1>1, <1>9, TypeFacts DEF Found, IInv
  <2>3. s.use[e.page] \in {"client", "reserved"}
    BY <1>2, <1>3, <1>5
  <2>4. Wrote(s.mem, s.node, v[4], e, mem')
    BY <2>1 DEF Wrote
  <2>5. Remapped(s.mem, s.use, current_dir, v, e, mem')
    BY <1>2, <1>4, <2>2, <2>3, <2>4, WriteEntry
  <2>6. MapsOnly(v, e)
    BY <1>2, <1>5, <2>5 DEF MapsOnly, Remapped
  <2>7. TlbCoherent'
    BY <1>3, <2>1, <2>6, TlbEvicted DEF IInv
  <2>8. tlb' \in [Virts -> Entry]
    BY <1>0, <2>1 DEF Invalidate
  <2>9. TypeOK' /\ Forest(mem', use')
    BY <1>3, <1>7, <2>5, <2>8 DEF Remapped
  <2>10. MapsOnly(v, [page |-> p, flags |-> flags \cup {"P"}])
    BY <2>6 DEF e
  <2> QED BY <1>3, <1>6, <2>7, <2>9, <2>10 DEF IInv
<1> QED BY <1>8, <1>9

(* mm_unmap_page clears the one entry of its page, if there is one. *)
LEMMA UnmapStep ==
  ASSUME IInv, NEW v \in Virts, mm_unmap_page(v)
  PROVE  /\ IInv' /\ UNCHANGED current_dir
         /\ MapsOnly(v, EMPTY) /\ Trans(mem, current_dir, v) # EMPTY
<1> DEFINE s == get_pte(v, FALSE)
<1>0. /\ v \in [1 .. 4 -> Idx] /\ tlb \in [Virts -> Entry] /\ EMPTY \in Entry
      /\ ~Present(EMPTY) /\ mem \in Memories /\ use \in [Pages -> Uses]
      /\ current_dir \in Dirs /\ Forest(mem, use)
  BY PagingAssumption, TypeFacts, EntryFacts DEF IInv
<1>1. Found(s, v, FALSE)
  BY <1>0, GetPte
<1>2. /\ s.node # NONE /\ Present(mem[s.node][v[4]])
      /\ mem' = [mem EXCEPT ![s.node] = [@ EXCEPT ![v[4]] = EMPTY]]
      /\ Invalidate(v)
      /\ UNCHANGED <<alloc, use, current_dir, cr3>>
  BY DEF mm_unmap_page, PtIdx
<1> HIDE DEF s
<1>3. s.mem = mem
  BY <1>1 DEF Found, Unwritten, Start
<1>4. s.node \in Pages /\ Path(mem, current_dir, v, s.node)
  BY <1>1, <1>2, <1>3 DEF Found
<1>5. Wrote(mem, s.node, v[4], EMPTY, mem')
  BY <1>2 DEF Wrote
<1>6. Remapped(mem, use, current_dir, v, EMPTY, mem')
  BY <1>0, <1>4, <1>5, WriteEntry
<1>7. MapsOnly(v, EMPTY)
  BY <1>0, <1>6 DEF MapsOnly, Remapped
<1>8. TlbCoherent'
  BY <1>2, <1>7, TlbEvicted DEF IInv
<1>9. TypeOK'
  <2>1. tlb' \in [Virts -> Entry]
    BY <1>0, <1>2 DEF Invalidate
  <2> QED BY <1>2, <1>6, <2>1 DEF IInv, TypeOK, Memories, Remapped, alloc
<1>10. Trans(mem, current_dir, v) # EMPTY
  <2>1. Maps(mem, current_dir, v, s.node)
    BY <1>2, <1>4 DEF Maps
  <2>2. Trans(mem, current_dir, v) = mem[s.node][v[4]]
    BY <1>0, <2>1, TransIsPath
  <2> QED BY <1>0, <1>2, <2>2
<1>11. Accounted(page_bitmap', present', use') /\ Forest(mem', use')
  BY <1>2, <1>6 DEF IInv, Remapped, alloc
<1> QED BY <1>2, <1>7, <1>8, <1>9, <1>10, <1>11 DEF IInv

(* A load of cr3 empties the TLB. *)
LEMMA SwitchStep ==
  ASSUME IInv, NEW d \in Dirs, paging_switch_directory(d)
  PROVE  IInv' /\ current_dir' = d /\ SameMaps
<1>1. /\ UNCHANGED <<page_bitmap, present, mem, use>> /\ current_dir' = d /\ cr3' = d
      /\ tlb' = [v \in Virts |-> EMPTY]
  BY DEF paging_switch_directory, LoadCr3, alloc
<1>2. TlbCoherent'
  BY <1>1, EntryFacts DEF TlbCoherent
<1>3. TypeOK'
  BY <1>1, EntryFacts DEF IInv, TypeOK
<1> QED BY <1>1, <1>2, <1>3 DEF IInv, SameMaps

(* The TLB loads what the active tables say. *)
LEMMA FillStep ==
  ASSUME IInv, NEW v \in Virts, TlbFill(v)
  PROVE  IInv' /\ UNCHANGED current_dir /\ SameMaps
<1>1. /\ UNCHANGED <<page_bitmap, present, mem, use, current_dir, cr3>> /\ cr3 \in Dirs
      /\ tlb' = [tlb EXCEPT ![v] = Translate(cr3, v)]
  BY DEF TlbFill, alloc
<1>2. tlb \in [Virts -> Entry] /\ mem \in Memories /\ v \in [1 .. 4 -> Idx]
  BY TypeFacts, PagingAssumption DEF IInv
<1>3. Translate(cr3, v) \in Entry
  <2>1. CASE \E n : Maps(mem, cr3, v, n)
    <3>1. PICK n : Maps(mem, cr3, v, n)
      BY <2>1
    <3>2. n \in Pages /\ Trans(mem, cr3, v) = mem[n][v[4]] /\ v[4] \in Idx
      BY <1>1, <1>2, <3>1, TransIsPath DEF Maps
    <3> QED BY <1>2, <3>2, EntryType, TranslateIsTrans DEF Nodes
  <2>2. CASE ~\E n : Maps(mem, cr3, v, n)
    BY <1>1, <1>2, <2>2, TransIsPath, TranslateIsTrans, EntryFacts
  <2> QED BY <2>1, <2>2
<1>4. TypeOK'
  BY <1>1, <1>2, <1>3 DEF IInv, TypeOK
<1>5. \A c, w : Translate(c, w)' = Translate(c, w)
  BY <1>1 DEF Translate
<1>6. TlbCoherent'
  <2> SUFFICES ASSUME NEW w \in Virts, Present(tlb'[w])
               PROVE  cr3' \in Dirs /\ tlb'[w] = Translate(cr3', w)
    BY <1>5 DEF TlbCoherent
  <2>1. CASE w = v
    BY <1>1, <1>2, <2>1
  <2>2. CASE w # v
    BY <1>1, <1>2, <2>2 DEF IInv, TlbCoherent
  <2> QED BY <2>1, <2>2
<1> QED BY <1>1, <1>4, <1>6 DEF IInv, SameMaps

-----------------------------------------------------------------------------
(* Every step keeps the invariant. *)
LEMMA NextIInv == IInv /\ [Next]_vars => IInv'
<1> SUFFICES ASSUME IInv, [Next]_vars PROVE IInv'
  OBVIOUS
<1>1. CASE mm_alloc_page
  BY <1>1, AllocStep
<1>2. ASSUME NEW p \in Pages, mm_free_page(p) PROVE IInv'
  BY <1>2, FreeStep
<1>3. ASSUME NEW p \in Pages, NEW v \in Virts, NEW flags \in Flags, mm_map_page(p, v, flags)
      PROVE  IInv'
  BY <1>3, MapStep
<1>4. ASSUME NEW v \in Virts, mm_unmap_page(v) PROVE IInv'
  BY <1>4, UnmapStep
<1>5. ASSUME NEW v \in Virts, TlbFill(v) PROVE IInv'
  BY <1>5, FillStep
<1>6. ASSUME NEW d \in Dirs, paging_switch_directory(d) PROVE IInv'
  BY <1>6, SwitchStep
<1>7. CASE UNCHANGED vars
  <2>1. UNCHANGED <<page_bitmap, present, mem, current_dir, cr3, tlb, use>>
    BY <1>7 DEF vars, alloc
  <2>2. \A d, v : Translate(d, v)' = Translate(d, v)
    BY <2>1 DEF Translate
  <2>3. TlbCoherent'
    BY <2>1, <2>2 DEF IInv, TlbCoherent
  <2>4. TypeOK'
    BY <2>1 DEF IInv, TypeOK
  <2> QED BY <2>1, <2>3, <2>4 DEF IInv
<1> QED BY <1>1, <1>2, <1>3, <1>4, <1>5, <1>6, <1>7 DEF Next

(* The invariant holds in every reachable state. *)
LEMMA Invariance == Spec => []IInv
  BY InitIInv, NextIInv, PTL DEF Spec

(* Every variable keeps its type: no walk leaves the memory, whatever the
   pages it builds tables in held before. *)
THEOREM PagingTypeCorrect == Spec => []TypeOK
<1>1. IInv => TypeOK
  BY DEF IInv
<1> QED BY <1>1, Invariance, PTL

(* A page is free exactly while nobody holds it, through every mm_map_page
   that takes up to three pages and may fail after any of them. *)
THEOREM PagesAreAccounted == Spec => []PagesAccounted
<1>1. IInv => PagesAccounted
  BY DEF IInv, Accounted, PagesAccounted
<1> QED BY <1>1, Invariance, PTL

(* The tables under each directory are trees that share no table. *)
THEOREM TablesFormTrees == Spec => []TreeShaped
<1>1. ASSUME Forest(mem, use), NEW k \in Kinds
      PROVE  /\ \A l \in Links(k) : use[Target(l)] = Child(k)
             /\ \A p \in Tables(Child(k)) :
                  \E l \in Links(k) : \A h \in Links(k) : Target(h) = p <=> h = l
  <2>0. Tables(k) = Tab(use, k) /\ Tables(Child(k)) = Tab(use, Child(k))
    BY DEF Tables, Tab
  <2>1. \A l \in Links(k) :
          /\ l = <<l[1], l[2]>> /\ l[1] \in Tab(use, k) /\ l[2] \in Idx
          /\ Present(mem[l[1]][l[2]])
    BY <2>0 DEF Links
  <2>2. \A l \in Links(k) : use[Target(l)] = Child(k)
    BY <1>1, <2>1 DEF Forest, Leads, Target
  <2>3. ASSUME NEW p \in Tables(Child(k))
        PROVE  \E l \in Links(k) : \A h \in Links(k) : Target(h) = p <=> h = l
    <3>1. PICK n \in Tab(use, k), i \in Idx : Parent(mem, use, k, n, i, p)
      BY <1>1, <2>0, <2>3 DEF Forest, Parented
    <3>2. Points(mem, n, i, p)
      BY <3>1 DEF Parent
    <3>3. <<n, i>> \in Links(k)
      BY <2>0, <3>2 DEF Links, Points
    <3>4. ASSUME NEW h \in Links(k) PROVE Target(h) = p <=> h = <<n, i>>
      <4>1. Target(h) = p <=> Points(mem, h[1], h[2], p)
        BY <2>1 DEF Target, Points
      <4>2. Points(mem, h[1], h[2], p) <=> h[1] = n /\ h[2] = i
        BY <2>1, <3>1 DEF Parent
      <4>3. h = <<n, i>> <=> h[1] = n /\ h[2] = i
        BY <2>1
      <4> QED BY <4>1, <4>2, <4>3
    <3> QED BY <3>3, <3>4
  <2> QED BY <2>2, <2>3
<1>2. IInv => TreeShaped
  <2> SUFFICES ASSUME Forest(mem, use) PROVE TreeShaped
    BY DEF IInv
  <2>1. /\ "pml4" \in Kinds /\ "pdpt" \in Kinds /\ "pd" \in Kinds
        /\ Child("pml4") = "pdpt" /\ Child("pdpt") = "pd" /\ Child("pd") = "pt"
    BY DEF Kinds, Child
  <2>2. ASSUME NEW u \in {<<"pml4", "pdpt">>, <<"pdpt", "pd">>, <<"pd", "pt">>}
        PROVE  u[1] \in Kinds /\ u[2] = Child(u[1])
    BY <2>1, <2>2
  <2> QED BY <1>1, <2>2 DEF TreeShaped
<1> QED BY <1>2, Invariance, PTL

(* No mapping reaches a free page or a page table: a page is freed only when
   its owner finds it unmapped, and there is no entry the owner cannot see. *)
THEOREM MappingsReachHeldPages == Spec => []MappedPagesHeld
<1>1. IInv => MappedPagesHeld
  <2> SUFFICES ASSUME Forest(mem, use), NEW l \in Links("pt")
               PROVE  use[Target(l)] \in {"client", "reserved"}
    BY DEF IInv, MappedPagesHeld
  <2>1. l[1] \in Tab(use, "pt") /\ l[2] \in Idx /\ Present(mem[l[1]][l[2]])
    BY DEF Links, Tables, Tab
  <2> QED BY <2>1 DEF Forest, Held, Target
<1> QED BY <1>1, Invariance, PTL

(* What the TLB holds is what the active tables say: the invlpg of one page is
   enough for any change mm_map_page and mm_unmap_page make. *)
THEOREM TlbStaysCoherent == Spec => []TlbCoherent
<1>1. IInv => TlbCoherent
  BY DEF IInv
<1> QED BY <1>1, Invariance, PTL

(* mm_map_page maps the page, or fails with the bitmap empty and no mapping
   changed, wherever in the three levels it ran out of pages. *)
THEOREM MapFailsOnlyAtTheEnd == Spec => MapFailsOnlyWhenExhausted
<1>1. ASSUME IInv, NEW p \in Pages, NEW v \in Virts, NEW flags \in Flags, mm_map_page(p, v, flags)
      PROVE  \/ Translate(current_dir, v)' = [page |-> p, flags |-> flags \cup {"P"}]
             \/ /\ page_bitmap' = {}
                /\ \A w \in Virts : Translate(current_dir, w)' = Translate(current_dir, w)
  <2>1. /\ UNCHANGED current_dir /\ current_dir \in Dirs
        /\ \/ SameMaps /\ page_bitmap' = {}
           \/ MapsOnly(v, [page |-> p, flags |-> flags \cup {"P"}])
    BY <1>1, MapStep, TypeFacts DEF IInv
  <2>2. \A w : /\ Translate(current_dir, w)' = Trans(mem', current_dir', w)
               /\ Translate(current_dir, w) = Trans(mem, current_dir, w)
    BY DEF Translate, Trans
  <2>3. \A w \in Virts : w \in [1 .. 4 -> Idx]
    BY PagingAssumption
  <2>4. CASE SameMaps /\ page_bitmap' = {}
    BY <2>1, <2>2, <2>3, <2>4 DEF SameMaps
  <2>5. CASE MapsOnly(v, [page |-> p, flags |-> flags \cup {"P"}])
    <3>1. Trans(mem', current_dir, v) = [page |-> p, flags |-> flags \cup {"P"}]
      BY <2>1, <2>3, <2>5 DEF MapsOnly
    <3> QED BY <2>1, <2>2, <3>1
  <2> QED BY <2>1, <2>4, <2>5
<1>2. IInv /\ [Next]_vars =>
        [\A p \in Pages, v \in Virts, flags \in Flags :
           mm_map_page(p, v, flags) =>
             \/ Translate(current_dir, v)' = [page |-> p, flags |-> flags \cup {"P"}]
             \/ /\ page_bitmap' = {}
                /\ \A w \in Virts : Translate(current_dir, w)' = Translate(current_dir, w)]_vars
  BY <1>1
<1> QED BY <1>2, Invariance, PTL DEF Spec, MapFailsOnlyWhenExhausted

-----------------------------------------------------------------------------
(* The refinement of AddressSpaces. *)

SpaceMap == [d \in Dirs |-> [v \in Virts |-> Translate(d, v)]]

(* The map of AddressSpaces before and after a step. *)
LEMMA SpacePrimed ==
  /\ SpaceMap  = [d \in Dirs |-> [v \in Virts |-> Trans(mem, d, v)]]
  /\ SpaceMap' = [d \in Dirs |-> [v \in Virts |-> Trans(mem', d, v)]]
  BY DEF SpaceMap, Translate, Trans

(* A step that changes no mapping is a stutter. *)
LEMMA StutterStep ==
  ASSUME SameMaps
  PROVE  SpaceMap' = SpaceMap
<1>1. \A v \in Virts : v \in [1 .. 4 -> Idx]
  BY PagingAssumption
<1>2. \A d \in Dirs, v \in Virts : Trans(mem', d, v) = Trans(mem, d, v)
  BY <1>1 DEF SameMaps
<1> QED BY <1>2, SpacePrimed

(* A step that changes v of the current directory changes that place of the
   abstract map. *)
LEMMA ChangeStep ==
  ASSUME current_dir \in Dirs, NEW v \in Virts, NEW e, MapsOnly(v, e)
  PROVE  /\ SpaceMap'[current_dir][v] = e
         /\ SpaceMap' = [SpaceMap EXCEPT ![current_dir][v] = e]
         /\ SpaceMap[current_dir][v] = Trans(mem, current_dir, v)
<1>1. \A w \in Virts : w \in [1 .. 4 -> Idx]
  BY PagingAssumption
<1>2. \A d \in Dirs, w \in Virts :
        Trans(mem', d, w) = IF d = current_dir /\ w = v THEN e ELSE Trans(mem, d, w)
  BY <1>1 DEF MapsOnly
<1>3. /\ SpaceMap = [d \in Dirs |-> [w \in Virts |-> Trans(mem, d, w)]]
      /\ SpaceMap' = [d \in Dirs |-> [w \in Virts |-> Trans(mem', d, w)]]
  BY SpacePrimed
<1>4. SpaceMap' = [SpaceMap EXCEPT ![current_dir][v] = e]
  BY <1>2, <1>3
<1> QED BY <1>2, <1>3, <1>4

(* The page tables implement one map per directory: however the tables are
   built and whatever the pages held, a call changes the one virtual page it
   names, of the current directory only, or nothing at all. *)
THEOREM TablesAreMaps == Spec => RefinesAddressSpaces
<1>1. Init => Spaces!Init
  <2> SUFFICES ASSUME Init PROVE Spaces!Init
    OBVIOUS
  <2>1. \A d \in Dirs : mem[d] = ZERO
    BY DEF Init, Nodes
  <2>2. \A v \in Virts : v[1] \in Idx
    BY PagingAssumption
  <2>3. \A d \in Dirs, v \in Virts : Translate(d, v) = EMPTY
    BY <2>1, <2>2, EntryFacts DEF Translate
  <2> QED BY <2>3 DEF Spaces!Init, Init
<1>2. IInv /\ [Next]_vars => [Spaces!Next]_Spaces!vars
  <2> SUFFICES ASSUME IInv, [Next]_vars PROVE [Spaces!Next]_Spaces!vars
    OBVIOUS
  <2>0. current_dir \in Dirs
    BY TypeFacts DEF IInv
  <2>s. ASSUME SameMaps, UNCHANGED current_dir PROVE UNCHANGED Spaces!vars
    BY <2>s, StutterStep DEF Spaces!vars, SpaceMap
  <2>1. CASE mm_alloc_page
    BY <2>1, <2>s, AllocStep DEF mm_alloc_page
  <2>2. ASSUME NEW p \in Pages, mm_free_page(p) PROVE UNCHANGED Spaces!vars
    BY <2>2, <2>s, FreeStep DEF mm_free_page
  <2>3. ASSUME NEW p \in Pages, NEW v \in Virts, NEW flags \in Flags, mm_map_page(p, v, flags)
        PROVE  [Spaces!Next]_Spaces!vars
    <3> DEFINE e == [page |-> p, flags |-> flags \cup {"P"}]
    <3>1. /\ UNCHANGED current_dir
          /\ \/ SameMaps
             \/ MapsOnly(v, e)
      BY <2>3, MapStep
    <3>2. e \in [page : Pages, flags : {f \cup {"P"} : f \in Flags}]
      OBVIOUS
    <3> HIDE DEF e
    <3>3. CASE SameMaps
      BY <2>s, <3>1, <3>3
    <3>4. CASE MapsOnly(v, e)
      <4>1. /\ SpaceMap'[current_dir][v] = e
            /\ SpaceMap' = [SpaceMap EXCEPT ![current_dir][v] = e]
        BY <2>0, <3>4, ChangeStep
      <4>2. Spaces!Map(v)
        BY <3>1, <3>2, <4>1 DEF Spaces!Map, SpaceMap
      <4> QED BY <4>2 DEF Spaces!Next
    <3> QED BY <3>1, <3>3, <3>4
  <2>4. ASSUME NEW v \in Virts, mm_unmap_page(v) PROVE Spaces!Next
    <3>1. UNCHANGED current_dir /\ MapsOnly(v, EMPTY) /\ Trans(mem, current_dir, v) # EMPTY
      BY <2>4, UnmapStep
    <3>2. /\ SpaceMap' = [SpaceMap EXCEPT ![current_dir][v] = EMPTY]
          /\ SpaceMap[current_dir][v] # EMPTY
      BY <2>0, <3>1, ChangeStep
    <3>3. Spaces!Unmap(v)
      BY <3>1, <3>2 DEF Spaces!Unmap, SpaceMap
    <3> QED BY <3>3 DEF Spaces!Next
  <2>5. ASSUME NEW v \in Virts, TlbFill(v) PROVE UNCHANGED Spaces!vars
    BY <2>5, <2>s, FillStep
  <2>6. ASSUME NEW d \in Dirs, paging_switch_directory(d) PROVE Spaces!Next
    <3>1. current_dir' = d /\ SameMaps
      BY <2>6, SwitchStep
    <3>2. Spaces!Switch(d)
      BY <3>1, StutterStep DEF Spaces!Switch, SpaceMap
    <3> QED BY <3>2 DEF Spaces!Next
  <2>7. CASE UNCHANGED vars
    BY <2>7 DEF Spaces!vars, vars, alloc, Translate
  <2> QED BY <2>1, <2>2, <2>3, <2>4, <2>5, <2>6, <2>7 DEF Next
<1> QED BY <1>1, <1>2, Invariance, PTL DEF Spec, RefinesAddressSpaces, Spaces!Spec
=============================================================================
