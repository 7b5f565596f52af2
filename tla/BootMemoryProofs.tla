-------------------------- MODULE BootMemoryProofs --------------------------
(***************************************************************************)
(* The properties of BootMemory hold for every size of memory and of the   *)
(* bitmap's words, every memory map and every length of the kernel image   *)
(* that LayoutAssumption admits.                                           *)
(***************************************************************************)
EXTENDS BootMemory, WellFoundedInduction, TLAPS

(***************************************************************************)
(* The inductive invariant                                                 *)
(***************************************************************************)
HasBitmap == phase \notin {"kbdinit", "setup_bitmap"}
HasTables == HasBitmap /\ phase # "setup_initial_pgtables"
HasArray  == HasTables /\ phase # "setup_page_array"

\* What a page of an area holds, from the step of mm_init on that wrote it.
AreaKept(p) ==
    /\ p \in Kernel /\ (p # stdin_page \/ phase = "kbdinit") => content[p] = <<"kernel">>
    /\ HasBitmap /\ p # stdin_page /\ p \in BitmapArea => content[p] = <<"bitmap">>
    /\ HasTables /\ p # stdin_page =>
          /\ p \in Span(Pte(0), Pte(PMD_T_NUM)) => content[p] = <<"pte", p - Pte(0)>>
          /\ p = pgd_start => content[p] = <<"pgd", pgd_start>>
    /\ HasArray /\ p # stdin_page /\ p \in PageArray => content[p] = <<"array">>

\* A reserved page is busy: first in the bitmap, then in the page array, and
\* once the loader's pages are given back the others are never handed out.
ReservedIsBusy(p) ==
    p \in Reserved =>
        /\ HasBitmap /\ ~Running => BitsOf(p) \subseteq bitmap
        /\ HasArray /\ (~Running \/ p \notin Loader) => ref[p] >= 1

\* A page that is held lies where get_free_page looks, in none of the areas;
\* its count is right and its content that of its first use.
HeldPage(p) ==
    holders[p] > 0 =>
        /\ Running /\ ref[p] = holders[p]
        /\ p \in Span(NormalStart, NormalEnd) /\ p \notin Reserved
        /\ p # stdin_page => content[p] = <<"data">> \/ content[p] = <<"pgd", p>>

\* q is a pgd that nobody takes away or writes to.
PgdKept(q) ==
    q # stdin_page =>
        content[q] = <<"pgd", q>> /\ (holders[q] > 0 \/ q = pgd_start)

PgdsKept ==
    /\ Running => PgdKept(cr3)
    /\ \A t \in Tasks : pgd[t] # 0 => Running /\ PgdKept(pgd[t])

PagesInv == \A p \in Pages : AreaKept(p) /\ ReservedIsBusy(p) /\ HeldPage(p)

Inv == TypeOK /\ DOMAIN content = Pages /\ PagesInv /\ PgdsKept

(***************************************************************************)
(* Numbers, bits and the smallest free page                                *)
(***************************************************************************)
\* get_free_page finds the smallest free page, if there is one.
LEMMA MinIsElement ==
    ASSUME NEW S \in SUBSET Nat, S # {}
    PROVE  Min(S) \in S
<1>1. \E x \in S : \A y \in S : ~(<<y, x>> \in OpToRel(<, Nat))
    BY NatLessThanWellFounded, WFMin
<1>2. PICK x \in S : \A y \in S : ~(<<y, x>> \in OpToRel(<, Nat))
    BY <1>1
<1>3. ASSUME NEW y \in S
      PROVE  x =< y
  <2>1. x \in Nat /\ y \in Nat
      OBVIOUS
  <2>2. y < x => <<y, x>> \in OpToRel(<, Nat)
      BY <2>1 DEF OpToRel
  <2>3. ~(y < x)
      BY <1>2, <2>2, Zenon
  <2>. QED
      BY <2>1, <2>3
<1>. QED
    BY <1>3 DEF Min

LEMMA WordsOfPages ==
    ASSUME NEW i \in Pages
    PROVE  i \div Word \in 0 .. NPages \div Word - 1
    BY WordAssumption, LayoutAssumption DEF Pages

LEMMA MaskIsSmall ==
    ASSUME NEW n \in Nat
    PROVE  Mask(n) \subseteq 0 .. Word - 1 /\ Mask(n) # {}
    BY WordAssumption DEF Mask

LEMMA BitsInBitmap ==
    ASSUME NEW i \in Pages
    PROVE  /\ BitsOf(i) \subseteq (0 .. NPages \div Word - 1) \X (0 .. Word - 1)
           /\ BitsOf(i) # {}
<1>1. i % Word \in Nat
    BY WordAssumption, LayoutAssumption DEF Pages
<1>2. Mask(i % Word) \subseteq 0 .. Word - 1 /\ Mask(i % Word) # {}
    BY <1>1, MaskIsSmall
<1>3. i \div Word \in 0 .. NPages \div Word - 1
    BY WordsOfPages
<1>4. BitsOf(i) # {}
    BY <1>2 DEF BitsOf
<1>5. ASSUME NEW b \in BitsOf(i)
      PROVE  b \in (0 .. NPages \div Word - 1) \X (0 .. Word - 1)
  <2>1. PICK m \in Mask(i % Word) : b = <<i \div Word, m>>
      BY <1>5 DEF BitsOf
  <2>2. m \in 0 .. Word - 1
      BY <1>2
  <2>. QED
      BY <1>3, <2>1, <2>2
<1>. QED
    BY <1>4, <1>5

(***************************************************************************)
(* Layout                                                                  *)
(***************************************************************************)
\* The areas in their order: loader, image, bitmap, tables, page array.
LEMMA Layout ==
    ASSUME pmb_array \in Maps, physfree \in PhysFrees
    PROVE  /\ pmb_array[1].base \in Nat /\ EndOf(pmb_array[1]) \in Nat
           /\ EndOf(pmb_array[1]) <= PhysBase /\ EndOf(pmb_array[1]) <= NormalStart
           /\ physfree \in Nat /\ PhysBase <= physfree
           /\ physfree + 4 + PMD_T_NUM + ArrayPages <= NPages
           /\ physfree \in Pages /\ pgd_start \in Pages
<1>1. pmb_array \in Seq(Blocks) /\ Len(pmb_array) >= 2
    BY MapsAssumption
<1>2. pmb_array[1] \in Blocks
    BY <1>1
<1>3. pmb_array[1].base \in Nat /\ EndOf(pmb_array[1]) \in Nat
    BY <1>2 DEF Blocks, EndOf
<1>. QED
    BY <1>3, LayoutAssumption DEF Pages, pgd_start

LEMMA AreasAreReserved ==
    ASSUME pmb_array \in Maps, physfree \in PhysFrees
    PROVE  /\ \A p \in Span(NormalStart, NormalEnd) : p \in Pages /\ p \notin Loader
           /\ pgd_start \in Reserved /\ pgd_start \notin Loader
           /\ \A p \in Pages : p \in Loader => p \notin Span(NormalStart, NormalEnd)
           /\ \A p \in Kernel \cup BitmapArea \cup PgTables \cup PageArray :
                 p \in Reserved /\ p \notin Loader
    BY Layout, LayoutAssumption, RangeAssumption
    DEF Pages, Span, Loader, Reserved, pgd_start, pgtable_end, PgTables, Pte, Kernel, BitmapArea,
        PageArray

\* The map and the end of the image are all that the areas depend on.
LEMMA SameAreas ==
    ASSUME UNCHANGED <<pmb_array, physfree>>
    PROVE  UNCHANGED <<Reserved, Loader, Kernel, BitmapArea, PageArray, pgd_start>>
    BY DEF Reserved, Loader, Hole, Kernel, Padding, BitmapArea, PgTables, PageArray, Span,
        pgtable_end, pgd_start, Pte

(***************************************************************************)
(* start() up to the end of mm_init                                        *)
(***************************************************************************)
LEMMA InitInv == Init => Inv
<1>. SUFFICES ASSUME Init
              PROVE  Inv
    OBVIOUS
<1>1. TypeOK /\ DOMAIN content = Pages
    BY LayoutAssumption, RangeAssumption DEF Init, TypeOK, Pages
<1>2. PagesInv
    BY DEF Init, PagesInv, AreaKept, ReservedIsBusy, HeldPage, HasBitmap, HasTables, HasArray,
        Running
<1>3. PgdsKept
    BY DEF Init, PgdsKept, Running
<1>. QED
    BY <1>1, <1>2, <1>3 DEF Inv

LEMMA KbdInitInv ==
    ASSUME Inv, NEW q \in Pages, KbdInit(q)
    PROVE  Inv'
<1>1. TypeOK' /\ DOMAIN content' = Pages
    BY DEF Inv, TypeOK, KbdInit
<1>2. PagesInv'
    BY DEF Inv, TypeOK, KbdInit, PagesInv, AreaKept, ReservedIsBusy, HeldPage, HasBitmap, HasTables,
        HasArray, Running, Kernel
<1>3. PgdsKept'
    BY DEF Inv, KbdInit, PgdsKept, Running
<1>. QED
    BY <1>1, <1>2, <1>3 DEF Inv

LEMMA SetupBitmapInv ==
    ASSUME Inv, SetupBitmap
    PROVE  Inv'
<1>. USE DEF SetupBitmap
<1>1. pmb_array \in Maps /\ physfree \in PhysFrees
    BY DEF Inv, TypeOK
<1>2. bitmap' \subseteq (0 .. NPages \div Word - 1) \X (0 .. Word - 1)
    BY BitsInBitmap
<1>3. TypeOK' /\ DOMAIN content' = Pages
    BY <1>2 DEF Inv, TypeOK
<1>4. ASSUME NEW p \in Pages
      PROVE  AreaKept(p)'
    BY <1>1, Layout DEF Inv, PagesInv, AreaKept, HasBitmap, HasTables, HasArray, Kernel, Span,
        BitmapArea
<1>5. ASSUME NEW p \in Pages
      PROVE  ReservedIsBusy(p)'
  <2>1. p \in Reserved => BitsOf(p) \subseteq bitmap'
      OBVIOUS
  <2>2. UNCHANGED Reserved
      BY SameAreas
  <2>. QED
      BY <2>1, <2>2 DEF ReservedIsBusy, HasArray, HasTables, HasBitmap, Running
<1>6. ASSUME NEW p \in Pages
      PROVE  HeldPage(p)'
    BY DEF Inv, PagesInv, HeldPage, Running
<1>7. PgdsKept'
    BY DEF Inv, PgdsKept, Running
<1>. QED
    BY <1>3, <1>4, <1>5, <1>6, <1>7 DEF Inv, PagesInv

LEMMA SetupInitialPgtablesInv ==
    ASSUME Inv, SetupInitialPgtables
    PROVE  Inv'
<1>. USE DEF SetupInitialPgtables
<1>1. pmb_array \in Maps /\ physfree \in PhysFrees
    BY DEF Inv, TypeOK
<1>2. TypeOK' /\ DOMAIN content' = Pages
    BY DEF Inv, TypeOK, PgTablesWritten
<1>3. ASSUME NEW p \in Pages
      PROVE  AreaKept(p)'
  <2>0. /\ pgd_start \in Nat /\ p \in Nat
        /\ p \in Span(Pte(0), Pte(PTE_T_NUM)) => p > pgd_start + 2
        /\ p \in Span(Pte(0), Pte(PMD_T_NUM)) => p \in Span(Pte(0), Pte(PTE_T_NUM))
        /\ p \in Kernel \cup BitmapArea => p < pgd_start
      BY <1>1, Layout, LayoutAssumption DEF pgd_start, Pte, Span, Kernel, BitmapArea, Pages
  <2>1. p \in Kernel \cup BitmapArea => content'[p] = content[p]
      BY <2>0 DEF PgTablesWritten
  <2>2. p = pgd_start => content'[p] = <<"pgd", pgd_start>>
    <3>1. p = pgd_start => /\ p # pgd_start + 1 /\ p # pgd_start + 2
                           /\ p \notin Span(Pte(0), Pte(PTE_T_NUM))
        BY <2>0
    <3>. QED
        BY <3>1 DEF PgTablesWritten
  <2>3. p \in Span(Pte(0), Pte(PMD_T_NUM)) => content'[p] = <<"pte", p - Pte(0)>>
    <3>1. p \in Span(Pte(0), Pte(PMD_T_NUM)) =>
             /\ p # pgd_start /\ p # pgd_start + 1 /\ p # pgd_start + 2
             /\ p \in Span(Pte(0), Pte(PTE_T_NUM))
        BY <2>0
    <3>. QED
        BY <3>1 DEF PgTablesWritten
  <2>4. UNCHANGED <<Kernel, BitmapArea, pgd_start, Pte(0), Pte(PMD_T_NUM)>>
      BY SameAreas DEF Pte, pgd_start
  <2>. QED
      BY <2>1, <2>2, <2>3, <2>4 DEF Inv, PagesInv, AreaKept, HasBitmap, HasTables, HasArray
<1>4. ASSUME NEW p \in Pages
      PROVE  ReservedIsBusy(p)'
    BY SameAreas DEF Inv, PagesInv, ReservedIsBusy, HasArray, HasTables, HasBitmap, Running
<1>5. ASSUME NEW p \in Pages
      PROVE  HeldPage(p)'
    BY DEF Inv, PagesInv, HeldPage, Running
<1>6. PgdsKept'
    BY DEF Inv, PgdsKept, Running
<1>. QED
    BY <1>2, <1>3, <1>4, <1>5, <1>6 DEF Inv, PagesInv

LEMMA SetupPageArrayInv ==
    ASSUME Inv, SetupPageArray
    PROVE  Inv'
<1>. USE DEF SetupPageArray
<1>1. pmb_array \in Maps /\ physfree \in PhysFrees
    BY DEF Inv, TypeOK
<1>2. TypeOK' /\ DOMAIN content' = Pages
    BY LayoutAssumption DEF Inv, TypeOK, ArrayWritten
<1>3. ASSUME NEW p \in Pages
      PROVE  AreaKept(p)'
  <2>1. p \in Kernel \cup BitmapArea \cup {pgd_start} \cup Span(Pte(0), Pte(PMD_T_NUM))
           => content'[p] = content[p]
    <3>1. p \in Kernel \cup BitmapArea \cup {pgd_start} \cup Span(Pte(0), Pte(PMD_T_NUM))
             => p \notin PageArray
      <4>1. /\ pgtable_end \in Nat /\ pgtable_end = physfree + 4 + PMD_T_NUM
            /\ p \in PageArray => p >= pgtable_end
          BY <1>1, Layout, LayoutAssumption DEF pgd_start, pgtable_end, Pte, Span, PageArray
      <4>2. /\ p \in Kernel => p < physfree
            /\ p \in BitmapArea => p = physfree
            /\ p \in Span(Pte(0), Pte(PMD_T_NUM)) => p < physfree + 4 + PMD_T_NUM
          BY <1>1, Layout, LayoutAssumption DEF pgd_start, Pte, Span, Kernel, BitmapArea
      <4>. QED
          BY <1>1, <4>1, <4>2, Layout, LayoutAssumption DEF pgd_start, Pages
    <3>. QED
        BY <3>1 DEF ArrayWritten
  <2>2. p \in PageArray => content'[p] = <<"array">>
      BY DEF ArrayWritten
  <2>3. UNCHANGED <<Kernel, BitmapArea, PageArray, pgd_start, Pte(0), Pte(PMD_T_NUM)>>
      BY SameAreas DEF Pte, pgd_start
  <2>. QED
      BY <2>1, <2>2, <2>3 DEF Inv, PagesInv, AreaKept, HasBitmap, HasTables, HasArray
<1>4. ASSUME NEW p \in Pages
      PROVE  ReservedIsBusy(p)'
  <2>1. p \in Reserved => BitsOf(p) \subseteq bitmap
      BY DEF Inv, PagesInv, ReservedIsBusy, HasBitmap, Running
  <2>2. p \in Reserved => ReadsBusy(p)
      BY <2>1, BitsInBitmap DEF ReadsBusy
  <2>3. p \in Reserved => ref'[p] = 1
      BY <2>2
  <2>. QED
      BY <2>1, <2>3, SameAreas DEF ReservedIsBusy
<1>5. ASSUME NEW p \in Pages
      PROVE  HeldPage(p)'
    BY DEF Inv, PagesInv, HeldPage, Running
<1>6. PgdsKept'
    BY DEF Inv, PgdsKept, Running
<1>. QED
    BY <1>2, <1>3, <1>4, <1>5, <1>6 DEF Inv, PagesInv

LEMMA FreeInitmemInv ==
    ASSUME Inv, FreeInitmem
    PROVE  Inv'
<1>. USE DEF FreeInitmem, LoaderFreed
<1>1. pmb_array \in Maps /\ physfree \in PhysFrees
    BY DEF Inv, TypeOK
<1>2. TypeOK' /\ DOMAIN content' = Pages
  <2>1. cr3' \in Pages
      BY <1>1, Layout
  <2>2. ref' \in [Pages -> 0 .. MaxRef]
      BY LayoutAssumption DEF Inv, TypeOK
  <2>3. bitmap' \subseteq (0 .. NPages \div Word - 1) \X (0 .. Word - 1)
      BY DEF Inv, TypeOK
  <2>4. phase' = "run" /\ DOMAIN content' = Pages
      BY DEF Inv
  <2>. QED
      BY <2>1, <2>2, <2>3, <2>4 DEF Inv, TypeOK
<1>3. ASSUME NEW p \in Pages
      PROVE  AreaKept(p)'
  <2>1. UNCHANGED <<Kernel, BitmapArea, PageArray, pgd_start, Pte(0), Pte(PMD_T_NUM)>>
      BY SameAreas DEF Pte, pgd_start
  <2>. QED
      BY <2>1 DEF Inv, PagesInv, AreaKept, HasBitmap, HasTables, HasArray
<1>4. ASSUME NEW p \in Pages
      PROVE  ReservedIsBusy(p)'
    BY SameAreas DEF Inv, PagesInv, ReservedIsBusy, HasArray, HasTables, HasBitmap, Running
<1>5. ASSUME NEW p \in Pages
      PROVE  HeldPage(p)'
    BY DEF Inv, PagesInv, HeldPage, Running
<1>6. PgdsKept'
  <2>1. pgd_start # stdin_page => content[pgd_start] = <<"pgd", pgd_start>>
      BY <1>1, Layout DEF Inv, PagesInv, AreaKept, HasTables, HasBitmap
  <2>2. (PgdKept(cr3))'
      BY <2>1, SameAreas DEF PgdKept
  <2>. QED
      BY <2>2 DEF Inv, PgdsKept, Running
<1>. QED
    BY <1>2, <1>3, <1>4, <1>5, <1>6 DEF Inv, PagesInv

(***************************************************************************)
(* Run time                                                                *)
(***************************************************************************)
\* A free page belongs to nobody: to no area, to no process, and it is no pgd.
LEMMA FreePagesAreNobodys ==
    ASSUME Inv, phase = "run", FreePages # {}
    PROVE  /\ Min(FreePages) \in Pages /\ Min(FreePages) \in Span(NormalStart, NormalEnd)
           /\ ref[Min(FreePages)] = 0 /\ holders[Min(FreePages)] = 0
           /\ Min(FreePages) \notin Reserved /\ Min(FreePages) # pgd_start
<1>1. pmb_array \in Maps /\ physfree \in PhysFrees
    BY DEF Inv, TypeOK
<1>2. FreePages \subseteq Nat
    BY RangeAssumption DEF FreePages, Span, Pages
<1>3. Min(FreePages) \in FreePages
    BY <1>2, MinIsElement
<1>. DEFINE m == Min(FreePages)
<1>4. m \in Span(NormalStart, NormalEnd) /\ ref[m] = 0
    BY <1>3 DEF FreePages
<1>. HIDE DEF m
<1>5. m \in Pages /\ m \notin Loader
    BY <1>1, <1>4, AreasAreReserved
<1>6. m \notin Reserved
    BY <1>4, <1>5 DEF Inv, PagesInv, ReservedIsBusy, HasArray, HasTables, HasBitmap, Running
<1>7. holders[m] = 0
  <2>1. holders[m] \in Nat
      BY <1>5, LayoutAssumption DEF Inv, TypeOK
  <2>2. holders[m] > 0 => ref[m] = holders[m]
      BY <1>5 DEF Inv, PagesInv, HeldPage
  <2>. QED
      BY <2>1, <2>2, <1>4
<1>8. m # pgd_start
    BY <1>1, <1>6, AreasAreReserved
<1>. QED
    BY <1>4, <1>5, <1>6, <1>7, <1>8 DEF m

\* The areas are full of what they hold once the system runs.
LEMMA AreaStep ==
    ASSUME Inv, phase = "run", phase' \in {"run", "panic"},
           UNCHANGED <<pmb_array, physfree, stdin_page>>,
           NEW p \in Pages, p \in Reserved /\ p # stdin_page => content'[p] = content[p]
    PROVE  AreaKept(p)'
<1>1. pmb_array \in Maps /\ physfree \in PhysFrees
    BY DEF Inv, TypeOK
<1>2. UNCHANGED <<Kernel, BitmapArea, PageArray, pgd_start, Pte(0), Pte(PMD_T_NUM)>>
    BY SameAreas DEF Pte, pgd_start
<1>3. p \in Kernel \cup BitmapArea \cup PageArray => p \in Reserved
    BY DEF Reserved
<1>4. p \in {pgd_start} \cup Span(Pte(0), Pte(PMD_T_NUM)) => p \in Reserved
  <2>1. p \in Span(Pte(0), Pte(PMD_T_NUM)) => p \in PgTables
      BY <1>1, Layout, LayoutAssumption DEF PgTables, Span, Pte, pgd_start, pgtable_end
  <2>. QED
      BY <1>1, <2>1, AreasAreReserved DEF Reserved
<1>. QED
    BY <1>2, <1>3, <1>4 DEF Inv, PagesInv, AreaKept, HasBitmap, HasTables, HasArray

LEMMA GetZeroPageInv ==
    ASSUME Inv, NEW tag, GetZeroPage(tag), UNCHANGED <<phase, pmb_array, physfree, stdin_page>>,
           NEW m, m = Min(FreePages), tag = <<"data">> \/ tag = <<"pgd", m>>
    PROVE  /\ m \in Pages
           /\ bitmap' \subseteq (0 .. NPages \div Word - 1) \X (0 .. Word - 1)
           /\ ref' \in [Pages -> 0 .. MaxRef] /\ holders' \in [Pages -> 0 .. MaxRef]
           /\ DOMAIN content' = Pages
           /\ PagesInv'
           /\ \A q \in Pages : PgdKept(q) => PgdKept(q)'
           /\ tag = <<"pgd", m>> => PgdKept(m)'
<1>1. phase = "run" /\ FreePages # {}
    BY DEF GetZeroPage
<1>2. /\ m \in Pages /\ m \in Span(NormalStart, NormalEnd)
      /\ ref[m] = 0 /\ holders[m] = 0
      /\ m \notin Reserved /\ m # pgd_start
    BY <1>1, FreePagesAreNobodys
<1>3. /\ ref' = [ref EXCEPT ![m] = 1]
      /\ bitmap' = bitmap \cup BitsOf(m)
      /\ content' = [content EXCEPT ![m] = tag]
      /\ holders' = [holders EXCEPT ![m] = @ + 1]
    BY DEF GetZeroPage
<1>4. bitmap' \subseteq (0 .. NPages \div Word - 1) \X (0 .. Word - 1)
  <2>1. BitsOf(m) \subseteq (0 .. NPages \div Word - 1) \X (0 .. Word - 1)
      BY <1>2, BitsInBitmap
  <2>2. bitmap \subseteq (0 .. NPages \div Word - 1) \X (0 .. Word - 1)
      BY DEF Inv, TypeOK
  <2>. QED
      BY <2>1, <2>2, <1>3
<1>5. ref' \in [Pages -> 0 .. MaxRef] /\ holders' \in [Pages -> 0 .. MaxRef]
    BY <1>2, <1>3, LayoutAssumption DEF Inv, TypeOK
<1>6. /\ DOMAIN content' = Pages /\ content'[m] = tag /\ ref'[m] = 1 /\ holders'[m] = 1
      /\ \A p \in Pages \ {m} :
            content'[p] = content[p] /\ ref'[p] = ref[p] /\ holders'[p] = holders[p]
    BY <1>2, <1>3 DEF Inv, TypeOK
<1>. HIDE DEF Inv
<1>7. ASSUME NEW p \in Pages
      PROVE  AreaKept(p)' /\ ReservedIsBusy(p)' /\ HeldPage(p)'
  <2>1. AreaKept(p)'
      BY <1>1, <1>2, <1>6, AreaStep
  <2>2. UNCHANGED <<Reserved, Loader>>
      BY SameAreas
  <2>3. ReservedIsBusy(p)'
      BY <1>1, <1>2, <1>6, <2>2
      DEF Inv, PagesInv, ReservedIsBusy, HasArray, HasTables, HasBitmap, Running
  <2>4. HeldPage(p)'
      BY <1>1, <1>2, <1>6, <2>2 DEF Inv, PagesInv, HeldPage, Running
  <2>. QED
      BY <2>1, <2>3, <2>4
<1>8. ASSUME NEW q \in Pages, PgdKept(q)
      PROVE  PgdKept(q)'
  <2>1. UNCHANGED pgd_start
      BY SameAreas
  <2>2. q # stdin_page => q # m
      BY <1>2, <1>8 DEF PgdKept
  <2>. QED
      BY <1>6, <1>8, <2>1, <2>2 DEF PgdKept
<1>9. tag = <<"pgd", m>> => PgdKept(m)'
    BY <1>6 DEF PgdKept
<1>. QED
    BY <1>2, <1>4, <1>5, <1>6, <1>7, <1>8, <1>9 DEF PagesInv

LEMMA TakePageInv ==
    ASSUME Inv, TakePage
    PROVE  Inv'
<1>1. PICK m : m = Min(FreePages)
    OBVIOUS
<1>2. phase = "run" /\ UNCHANGED <<phase, pmb_array, physfree, stdin_page, pgd, cr3>>
    BY DEF TakePage, GetZeroPage
<1>3. /\ bitmap' \subseteq (0 .. NPages \div Word - 1) \X (0 .. Word - 1)
      /\ ref' \in [Pages -> 0 .. MaxRef] /\ holders' \in [Pages -> 0 .. MaxRef]
      /\ DOMAIN content' = Pages
      /\ PagesInv'
      /\ \A q \in Pages : PgdKept(q) => PgdKept(q)'
    BY <1>1, GetZeroPageInv DEF TakePage
<1>4. TypeOK'
    BY <1>2, <1>3 DEF Inv, TypeOK
<1>5. PgdsKept'
  <2>1. (PgdKept(cr3))'
      BY <1>2, <1>3 DEF Inv, TypeOK, PgdsKept, PgdKept, Running
  <2>2. ASSUME NEW t \in Tasks, pgd'[t] # 0
        PROVE  (PgdKept(pgd[t]))'
      BY <1>2, <1>3, <2>2 DEF Inv, TypeOK, PgdsKept, PgdKept, Running
  <2>. QED
      BY <1>2, <2>1, <2>2 DEF PgdsKept, Running
<1>. QED
    BY <1>3, <1>4, <1>5 DEF Inv

\* fork and exec: the new pgd is m, and the other address spaces stay.
LEMMA NewPgdInv ==
    ASSUME Inv, NEW m, m = Min(FreePages), GetZeroPage(PgdCopy(m)), NEW t \in Tasks,
           UNCHANGED <<phase, pmb_array, physfree, stdin_page>>,
           pgd' = [pgd EXCEPT ![t] = m], cr3' = cr3 \/ cr3' = m
    PROVE  Inv'
<1>1. phase = "run"
    BY DEF GetZeroPage
<1>2. /\ m \in Pages
      /\ bitmap' \subseteq (0 .. NPages \div Word - 1) \X (0 .. Word - 1)
      /\ ref' \in [Pages -> 0 .. MaxRef] /\ holders' \in [Pages -> 0 .. MaxRef]
      /\ DOMAIN content' = Pages
      /\ PagesInv'
      /\ \A q \in Pages : PgdKept(q) => PgdKept(q)'
      /\ PgdKept(m)'
    BY GetZeroPageInv DEF PgdCopy
<1>3. TypeOK'
    BY <1>1, <1>2 DEF Inv, TypeOK
<1>4. PgdsKept'
  <2>1. (PgdKept(cr3))'
      BY <1>1, <1>2 DEF Inv, TypeOK, PgdsKept, PgdKept, Running
  <2>2. ASSUME NEW u \in Tasks, pgd'[u] # 0
        PROVE  (PgdKept(pgd[u]))'
    <3>1. CASE u = t
        BY <1>2, <3>1 DEF Inv, TypeOK, PgdKept
    <3>2. CASE u # t
      <4>1. pgd'[u] = pgd[u] /\ pgd[u] \in Pages
          BY <3>2 DEF Inv, TypeOK
      <4>2. PgdKept(pgd[u])
          BY <2>2, <4>1 DEF Inv, PgdsKept
      <4>. QED
          BY <1>2, <4>1, <4>2 DEF PgdKept
    <3>. QED
        BY <3>1, <3>2
  <2>. QED
      BY <1>1, <2>1, <2>2 DEF PgdsKept, Running
<1>. QED
    BY <1>2, <1>3, <1>4 DEF Inv

LEMMA ForkMmInv ==
    ASSUME Inv, NEW t \in Tasks, ForkMm(t)
    PROVE  Inv'
<1>1. PICK m : m = Min(FreePages)
    OBVIOUS
<1>. QED
    BY <1>1, NewPgdInv DEF ForkMm

LEMMA ExecMmInv ==
    ASSUME Inv, NEW t \in Tasks, ExecMm(t)
    PROVE  Inv'
<1>1. PICK m : m = Min(FreePages)
    OBVIOUS
<1>. QED
    BY <1>1, NewPgdInv DEF ExecMm

\* add_page_ref, deduct_page_ref and free_page move the two counts of a page
\* that is no pgd together.
LEMMA CountStep ==
    ASSUME Inv, phase = "run", UNCHANGED <<phase, pmb_array, physfree, content, stdin_page, pgd, cr3>>,
           NEW x \in Pages, IsShareable(x),
           NEW n \in 0 .. MaxRef, n = holders[x] + 1 \/ n = holders[x] - 1,
           ref' = [ref EXCEPT ![x] = n], holders' = [holders EXCEPT ![x] = n],
           bitmap' \subseteq bitmap
    PROVE  Inv'
<1>1. TypeOK' /\ DOMAIN content' = Pages
    BY DEF Inv, TypeOK
<1>2. holders[x] > 0 /\ ref[x] = holders[x] /\ x \notin Reserved
    BY DEF IsShareable, Inv, PagesInv, HeldPage
<1>3. /\ ref'[x] = n /\ holders'[x] = n
      /\ \A p \in Pages \ {x} : ref'[p] = ref[p] /\ holders'[p] = holders[p]
    BY DEF Inv, TypeOK
<1>4. UNCHANGED <<Reserved, Loader, pgd_start>>
    BY SameAreas
<1>5. ASSUME NEW p \in Pages
      PROVE  AreaKept(p)' /\ ReservedIsBusy(p)' /\ HeldPage(p)'
  <2>1. AreaKept(p)'
      BY AreaStep
  <2>2. ReservedIsBusy(p)'
      BY <1>2, <1>3, <1>4
      DEF Inv, PagesInv, ReservedIsBusy, HasArray, HasTables, HasBitmap, Running
  <2>3. HeldPage(p)'
      BY <1>2, <1>3, <1>4 DEF Inv, PagesInv, HeldPage, Running
  <2>. QED
      BY <2>1, <2>2, <2>3
<1>6. ASSUME NEW q \in Pages, PgdKept(q)
      PROVE  PgdKept(q)'
  <2>1. q # stdin_page => q # x
      BY <1>6 DEF PgdKept, IsShareable
  <2>. QED
      BY <1>3, <1>4, <1>6, <2>1 DEF PgdKept
<1>7. PgdsKept'
  <2>1. (PgdKept(cr3))'
      BY <1>6 DEF Inv, TypeOK, PgdsKept, PgdKept, Running
  <2>2. ASSUME NEW u \in Tasks, pgd'[u] # 0
        PROVE  (PgdKept(pgd[u]))'
      BY <1>6, <2>2 DEF Inv, TypeOK, PgdsKept, PgdKept
  <2>. QED
      BY <2>1, <2>2 DEF PgdsKept, Running
<1>. QED
    BY <1>1, <1>5, <1>7 DEF Inv, PagesInv

LEMMA AddPageRefInv ==
    ASSUME Inv, NEW p \in Pages, AddPageRef(p)
    PROVE  Inv'
<1>1. phase = "run" /\ IsShareable(p) /\ holders[p] \in 0 .. MaxRef /\ ref[p] = holders[p]
    BY DEF Inv, TypeOK, PagesInv, HeldPage, AddPageRef, IsShareable
<1>2. PICK n \in 0 .. MaxRef : n = holders[p] + 1
    BY <1>1, LayoutAssumption DEF AddPageRef
<1>. QED
    BY <1>1, <1>2, CountStep DEF AddPageRef

LEMMA DeductPageRefInv ==
    ASSUME Inv, NEW p \in Pages, DeductPageRef(p) \/ FreePage(p)
    PROVE  Inv'
<1>1. phase = "run" /\ IsShareable(p) /\ holders[p] \in 1 .. MaxRef /\ ref[p] = holders[p]
    BY DEF Inv, TypeOK, PagesInv, HeldPage, DeductPageRef, FreePage, IsShareable
<1>2. PICK n \in 0 .. MaxRef : n = holders[p] - 1
    BY <1>1, LayoutAssumption
<1>3. /\ UNCHANGED <<phase, pmb_array, physfree, content, stdin_page, pgd, cr3>>
      /\ ref' = [ref EXCEPT ![p] = n] /\ holders' = [holders EXCEPT ![p] = n]
      /\ bitmap' \subseteq bitmap
    BY <1>1, <1>2 DEF DeductPageRef, FreePage
<1>. QED
    BY <1>1, <1>2, <1>3, CountStep

\* Steps that touch no page but the one of the keyboard.
LEMMA QuietStep ==
    ASSUME Inv, phase = "run", phase' \in {"run", "panic"},
           UNCHANGED <<pmb_array, physfree, stdin_page, bitmap, ref, holders>>,
           DOMAIN content' = Pages, \A p \in Pages \ {stdin_page} : content'[p] = content[p],
           cr3' = cr3 \/ \E t \in Tasks : pgd[t] # 0 /\ cr3' = pgd[t],
           pgd' \in [Tasks -> Pages],
           \A t \in Tasks : pgd'[t] = pgd[t] \/ pgd'[t] = 0
    PROVE  Inv'
<1>1. TypeOK'
    BY DEF Inv, TypeOK
<1>2. UNCHANGED <<Reserved, Loader, pgd_start>>
    BY SameAreas
<1>3. ASSUME NEW p \in Pages
      PROVE  AreaKept(p)' /\ ReservedIsBusy(p)' /\ HeldPage(p)'
  <2>1. AreaKept(p)'
      BY AreaStep
  <2>2. ReservedIsBusy(p)'
      BY <1>2 DEF Inv, PagesInv, ReservedIsBusy, HasArray, HasTables, HasBitmap, Running
  <2>3. HeldPage(p)'
      BY <1>2 DEF Inv, PagesInv, HeldPage, Running
  <2>. QED
      BY <2>1, <2>2, <2>3
<1>4. ASSUME NEW q \in Pages, PgdKept(q)
      PROVE  PgdKept(q)'
    BY <1>2, <1>4 DEF PgdKept
<1>5. PgdsKept'
  <2>1. cr3' \in Pages /\ PgdKept(cr3')
    <3>1. CASE cr3' = cr3
        BY <3>1 DEF Inv, TypeOK, PgdsKept, Running
    <3>2. ASSUME NEW t \in Tasks, pgd[t] # 0, cr3' = pgd[t]
          PROVE  cr3' \in Pages /\ PgdKept(cr3')
        BY <3>2 DEF Inv, TypeOK, PgdsKept
    <3>. QED
        BY <3>1, <3>2
  <2>2. (PgdKept(cr3))'
      BY <1>4, <2>1 DEF PgdKept
  <2>3. ASSUME NEW u \in Tasks, pgd'[u] # 0
        PROVE  (PgdKept(pgd[u]))'
      BY <1>4, <2>3 DEF Inv, TypeOK, PgdsKept, PgdKept
  <2>. QED
      BY <2>2, <2>3 DEF PgdsKept, Running
<1>. QED
    BY <1>1, <1>3, <1>5 DEF Inv, PagesInv

LEMMA QuietInv ==
    ASSUME Inv,
           \/ OutOfMemory \/ StoreKey
           \/ \E t \in Tasks : SwitchMm(t) \/ FreeProcess(t)
    PROVE  Inv'
<1>1. DOMAIN content = Pages /\ pgd \in [Tasks -> Pages] /\ 0 \in Pages
    BY RangeAssumption, LayoutAssumption DEF Inv, TypeOK, Pages
<1>2. CASE OutOfMemory
    BY <1>1, <1>2, QuietStep DEF OutOfMemory
<1>3. CASE StoreKey
    BY <1>1, <1>3, QuietStep DEF StoreKey
<1>4. ASSUME NEW t \in Tasks, SwitchMm(t)
      PROVE  Inv'
    BY <1>1, <1>4, QuietStep DEF SwitchMm
<1>5. ASSUME NEW t \in Tasks, FreeProcess(t)
      PROVE  Inv'
    BY <1>1, <1>5, QuietStep DEF FreeProcess
<1>. QED
    BY <1>2, <1>3, <1>4, <1>5

(***************************************************************************)
(* The theorems                                                            *)
(***************************************************************************)
LEMMA StepInv == Inv /\ [Next]_vars => Inv'
<1>. SUFFICES ASSUME Inv, [Next]_vars
              PROVE  Inv'
    OBVIOUS
<1>1. ASSUME NEW p \in Pages, KbdInit(p)
      PROVE  Inv'
    BY <1>1, KbdInitInv
<1>2. CASE SetupBitmap \/ SetupInitialPgtables \/ SetupPageArray \/ FreeInitmem
    BY <1>2, SetupBitmapInv, SetupInitialPgtablesInv, SetupPageArrayInv, FreeInitmemInv
<1>3. CASE TakePage
    BY <1>3, TakePageInv
<1>4. CASE OutOfMemory \/ StoreKey
    BY <1>4, QuietInv
<1>5. ASSUME NEW p \in Pages, AddPageRef(p) \/ DeductPageRef(p) \/ FreePage(p)
      PROVE  Inv'
    BY <1>5, AddPageRefInv, DeductPageRefInv
<1>6. ASSUME NEW t \in Tasks, ForkMm(t) \/ ExecMm(t)
      PROVE  Inv'
    BY <1>6, ForkMmInv, ExecMmInv
<1>7. ASSUME NEW t \in Tasks, SwitchMm(t) \/ FreeProcess(t)
      PROVE  Inv'
    BY <1>7, QuietInv
<1>8. CASE UNCHANGED vars
    BY <1>8 DEF vars, Inv, TypeOK, PagesInv, AreaKept, ReservedIsBusy, HeldPage, PgdsKept, PgdKept,
        HasBitmap, HasTables, HasArray, Running, Reserved, Loader, Hole, Kernel, Padding,
        BitmapArea, PgTables, PageArray, Span, pgtable_end, pgd_start, Pte, BitsOf
<1>. QED
    BY <1>1, <1>2, <1>3, <1>4, <1>5, <1>6, <1>7, <1>8 DEF Next

\* From kbdinit through mm_init to the running system: the areas hold what
\* mm_init wrote, reserved pages are busy, held pages are outside the areas and
\* counted right, and every pgd in use is held and refers to itself.
THEOREM Invariance == Spec => []Inv
    BY InitInv, StepInv, PTL DEF Spec

\* TypeOK: no reference count of the page array goes below zero, no bit outside
\* the bitmap is set, and pgds and cr3 are pages.
THEOREM TypeCorrect == Spec => []TypeOK
<1>1. Inv => TypeOK
    BY DEF Inv
<1>. QED
    BY <1>1, Invariance, PTL

\* The kernel image, the bitmap, the page tables, the page array and every page
\* that get_zero_page hands out keep their contents, for every length of the
\* image and every memory map; only the page kbdinit took is shared.
THEOREM PagesKeepTheirUse == Spec => []OnlyStdinPageIsShared
<1>1. ASSUME Inv, Running, NEW p \in Pages \ {stdin_page}
      PROVE  Intact(p)
  <2>1. HasBitmap /\ HasTables /\ HasArray
      BY <1>1 DEF Running, HasBitmap, HasTables, HasArray
  <2>2. holders[p] > 0 => content[p][1] \in {"data", "pgd"}
      BY <1>1 DEF Inv, PagesInv, HeldPage
  <2>. QED
      BY <1>1, <2>1, <2>2 DEF Inv, PagesInv, AreaKept, Intact
<1>2. Inv => OnlyStdinPageIsShared
    BY <1>1 DEF OnlyStdinPageIsShared
<1>. QED
    BY <1>2, Invariance, PTL

\* switch_mm, alloc_pgd and free_process: the address space in use is a pgd
\* whose self-reference is its own, unless kbdinit's early page is that pgd.
THEOREM AddressSpacesReferToThemselves == Spec => []SelfMapIsOwn
<1>1. Inv => SelfMapIsOwn
    BY DEF Inv, PgdsKept, PgdKept, SelfMapIsOwn
<1>. QED
    BY <1>1, Invariance, PTL

\* get_zero_page, free_page and the two counters: a page in use is counted once
\* per reference, and with two blocks of memory it is memory.
THEOREM HeldPagesAreCounted == Spec => []HeldIsCounted
<1>1. ASSUME Inv, Running, NEW p \in Pages, holders[p] > 0
      PROVE  /\ ref[p] = holders[p]
             /\ Len(pmb_array) = 2 =>
                   \E b \in {1, 2} : p \in Span(pmb_array[b].base, EndOf(pmb_array[b]))
  <2>1. /\ ref[p] = holders[p]
        /\ p \in Span(NormalStart, NormalEnd) /\ p \notin Reserved
      BY <1>1 DEF Inv, PagesInv, HeldPage
  <2>2. pmb_array \in Maps /\ physfree \in PhysFrees
      BY <1>1 DEF Inv, TypeOK
  <2>3. ASSUME Len(pmb_array) = 2
        PROVE  p \in Span(pmb_array[2].base, EndOf(pmb_array[2]))
    <3>1. pmb_array[2] \in Blocks
        BY <2>2, <2>3, MapsAssumption
    <3>2. pmb_array[2].base \in Nat /\ EndOf(pmb_array[2]) \in Nat
        BY <3>1 DEF Blocks, EndOf
    <3>3. p \in Nat /\ p < NPages /\ NormalStart <= p /\ EndOf(pmb_array[1]) \in Nat
          /\ EndOf(pmb_array[1]) <= NormalStart /\ NormalStart \in Nat /\ NPages \in Nat
        BY <2>1, <2>2, Layout, LayoutAssumption, RangeAssumption DEF Pages, Span
    <3>4. p \notin Hole /\ p \notin Padding
        BY <2>1 DEF Reserved
    <3>5. pmb_array[2].base <= p
        BY <3>2, <3>3, <3>4 DEF Hole, Span
    <3>6. p < EndOf(pmb_array[2])
        BY <2>3, <3>2, <3>3, <3>4 DEF Padding, Span
    <3>. QED
        BY <3>2, <3>3, <3>5, <3>6 DEF Span
  <2>. QED
      BY <2>1, <2>3
<1>2. Inv => HeldIsCounted
    BY <1>1 DEF HeldIsCounted
<1>. QED
    BY <1>2, Invariance, PTL

=============================================================================
