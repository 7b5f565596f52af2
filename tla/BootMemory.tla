----------------------------- MODULE BootMemory -----------------------------
(***************************************************************************)
(* Physical memory of PLUM_OS from start() on: the keyboard's early page,  *)
(* mm_init (bitmap, first page tables, page array, release of the loader), *)
(* and then get_zero_page, free_page, the reference counts, alloc_pgd and  *)
(* switch_mm.                                                              *)
(*                                                                         *)
(* Memory is a row of pages; what a page holds is a tag for the last thing *)
(* stored there.  A word of the bitmap has Word bits and an int Word / 2:  *)
(* masks are computed as an int, 1 << (i % 64), so that the shift count is *)
(* taken modulo Word / 2 and the highest bit of the int is extended to the *)
(* rest of the word.                                                       *)
(***************************************************************************)
EXTENDS Integers, Sequences, FiniteSets, FiniteSetsExt

CONSTANTS
    NPages,        \* PHYMEM_SIZE >> PG_BITS
    Word,          \* bits of a bitmap word (64)
    PMD_T_NUM,     \* page tables that are reserved and linked (64)
    PTE_T_NUM,     \* page tables that are filled (512)
    ArrayPages,    \* pages of page_array (32)
    NormalStart,   \* normal_pfn_start (671)
    NormalEnd,     \* normal_pfn_end (32766)
    PhysBase,      \* first page of the kernel image
    PhysFrees,     \* first pages after the image, as the loader may pass them
    Maps,          \* memory maps the BIOS may report: sequences of blocks
    Tasks,         \* processes
    MaxRef         \* bound: references to one page

Pages == 0 .. NPages - 1
Blocks == [base : Nat, length : Nat]

ASSUME WordAssumption == Word \in Nat /\ Word > 1 /\ Word % 2 = 0 /\ NPages % Word = 0
ASSUME MapsAssumption == \A m \in Maps : m \in Seq(Blocks) /\ Len(m) >= 2
ASSUME RangeAssumption == NormalStart \in Pages /\ NormalEnd \in Pages

VARIABLES
    phase,       \* what start() does next; "run" after mm_init
    pmb_array,   \* the memory map
    physfree,
    bitmap,      \* the set of <<word, bit>> that are 1
    ref,         \* page_array
    content,     \* what each page holds
    stdin_page,  \* the page kbdinit took
    holders,     \* references the kernel and its processes hold
    pgd,         \* mm->pgd of each process, 0 for none
    cr3

vars == <<phase, pmb_array, physfree, bitmap, ref, content, stdin_page, holders, pgd, cr3>>

-----------------------------------------------------------------------------
(* Layout *)

EndOf(block) == block.base + block.length
Span(from, to) == from .. to - 1   \* for (i = from; i < to; i++)

Loader == Span(pmb_array[1].base, EndOf(pmb_array[1]))
Hole == Span(EndOf(pmb_array[1]), pmb_array[2].base)
Kernel == Span(PhysBase, physfree)

Padding == Span(EndOf(pmb_array[Len(pmb_array)]), NPages)

BitmapArea == {physfree}
pgd_start == physfree + 1
Pte(i) == pgd_start + 3 + i

\* Mutant: one of the upper tables is not counted.
PgtableEndShort == Pte(PMD_T_NUM - 1)

pgtable_end == Pte(PMD_T_NUM)
PgTables == Span(pgd_start, pgtable_end)
PageArray == Span(pgtable_end, pgtable_end + ArrayPages)

\* What the linker script, mm.h and the BIOS make true: the loader's block ends
\* below the kernel image and below the range of get_free_page, and the areas
\* that mm_init puts behind the image fit into memory.
ASSUME LayoutAssumption ==
    /\ NPages \in Nat /\ ArrayPages \in Nat /\ PhysBase \in Nat /\ MaxRef \in Nat \ {0}
    /\ PMD_T_NUM \in Nat /\ PTE_T_NUM \in Nat /\ PMD_T_NUM <= PTE_T_NUM
    /\ \A m \in Maps : EndOf(m[1]) <= PhysBase /\ EndOf(m[1]) <= NormalStart
    /\ \A f \in PhysFrees :
          f \in Nat /\ PhysBase <= f /\ f + 4 + PMD_T_NUM + ArrayPages <= NPages

\* What setup_bitmap marks busy.
Reserved == Loader \cup Hole \cup Kernel \cup Padding \cup BitmapArea \cup PgTables \cup PageArray

-----------------------------------------------------------------------------
(* Bits *)

\* (uint64_t)(1 << n) in int arithmetic: the bits that are set.
Mask(n) ==
    LET k == n % (Word \div 2)
    IN  IF k = Word \div 2 - 1 THEN k .. Word - 1 ELSE {k}

\* The bits of bitmap[i/64] that an operation on page i touches.
BitsOf(i) == {<<i \div Word, b>> : b \in Mask(i % Word)}

ReadsBusy(i) == BitsOf(i) \cap bitmap # {}

-----------------------------------------------------------------------------
(* start() up to the end of mm_init *)

Init ==
    /\ phase = "kbdinit"
    /\ pmb_array \in Maps
    /\ physfree \in PhysFrees
    /\ bitmap = {}
    /\ ref = [p \in Pages |-> 0]
    /\ content = [p \in Pages |-> IF p \in Kernel THEN <<"kernel">> ELSE <<"ram">>]
    /\ stdin_page = 0
    /\ holders = [p \in Pages |-> 0]
    /\ pgd = [t \in Tasks |-> 0]
    /\ cr3 = 0

\* kbdinit calls get_zero_page while page_array is still NULL: which page it
\* takes for stdin_buf depends on what lies at address 0.  That memory is not
\* the page array, so that nothing is left of it.
KbdInit(p) ==
    /\ phase = "kbdinit"
    /\ p \in Span(NormalStart, NormalEnd)
    /\ stdin_page' = p
    /\ content' = [content EXCEPT ![p] = <<"stdin">>]
    /\ phase' = "setup_bitmap"
    /\ UNCHANGED <<pmb_array, physfree, bitmap, ref, holders, pgd, cr3>>

SetupBitmap ==
    /\ phase = "setup_bitmap"
    /\ bitmap' = UNION {BitsOf(i) : i \in Reserved \cap Pages}
    /\ content' = [content EXCEPT ![physfree] = <<"bitmap">>]
    /\ phase' = "setup_initial_pgtables"
    /\ UNCHANGED <<pmb_array, physfree, ref, stdin_page, holders, pgd, cr3>>

\* pgd, pud and pmd, then PTE_T_NUM tables one after the other, although only
\* PMD_T_NUM of them are linked and reserved.  A pgd is tagged with the page
\* that its entry 0x1fe refers to.
PgTablesWritten(c) ==
    [p \in Pages |->
        CASE p = pgd_start     -> <<"pgd", pgd_start>>
          [] p = pgd_start + 1 -> <<"pud">>
          [] p = pgd_start + 2 -> <<"pmd">>
          [] p \in Span(Pte(0), Pte(PTE_T_NUM)) -> <<"pte", p - Pte(0)>>
          [] OTHER -> c[p]]

SetupInitialPgtables ==
    /\ phase = "setup_initial_pgtables"
    /\ content' = PgTablesWritten(content)
    /\ phase' = "setup_page_array"
    /\ UNCHANGED <<pmb_array, physfree, bitmap, ref, stdin_page, holders, pgd, cr3>>

\* What storing to page_array leaves in its pages.
ArrayWritten(c) == [p \in Pages |-> IF p \in PageArray THEN <<"array">> ELSE c[p]]

SetupPageArray ==
    /\ phase = "setup_page_array"
    /\ ref' = [p \in Pages |-> IF ReadsBusy(p) THEN 1 ELSE 0]
    /\ content' = ArrayWritten(content)
    /\ phase' = "free_initmem"
    /\ UNCHANGED <<pmb_array, physfree, bitmap, stdin_page, holders, pgd, cr3>>

\* free_initmem gives back the page array's and the bitmap's entries of the loader.
LoaderFreed ==
    /\ bitmap' = bitmap \ UNION {BitsOf(i) : i \in Loader}
    /\ ref' = [p \in Pages |-> IF p \in Loader THEN 0 ELSE ref[p]]

\* The end of mm_init: free_initmem, move_vaddr, and the load of cr3.
FreeInitmem ==
    /\ phase = "free_initmem"
    /\ LoaderFreed
    /\ cr3' = pgd_start
    /\ phase' = "run"
    /\ UNCHANGED <<pmb_array, physfree, content, stdin_page, holders, pgd>>

-----------------------------------------------------------------------------
(* Pages at run time *)

\* Mutant: a page with one reference counts as free.
FreePagesOffByOne == {p \in Span(NormalStart, NormalEnd) : ref[p] <= 1}

FreePages == {p \in Span(NormalStart, NormalEnd) : ref[p] = 0}

\* get_zero_page and the first use of the page, which leaves a tag there.
GetZeroPage(tag) ==
    LET p == Min(FreePages)
    IN  /\ phase = "run" /\ FreePages # {}
        /\ ref' = [ref EXCEPT ![p] = 1]
        /\ bitmap' = bitmap \cup BitsOf(p)
        /\ content' = [content EXCEPT ![p] = tag]
        /\ holders' = [holders EXCEPT ![p] = @ + 1]

TakePage ==
    /\ GetZeroPage(<<"data">>)
    /\ UNCHANGED <<phase, pmb_array, physfree, stdin_page, pgd, cr3>>

\* panic: out of memory
OutOfMemory ==
    /\ phase = "run" /\ FreePages = {}
    /\ phase' = "panic"
    /\ UNCHANGED <<pmb_array, physfree, bitmap, ref, content, stdin_page, holders, pgd, cr3>>

\* Pages that come and go: a pgd stays, for unmap_mm is commented out.
IsShareable(p) ==
    /\ phase = "run" /\ holders[p] > 0
    /\ content[p][1] # "pgd" /\ \A t \in Tasks : pgd[t] # p

\* add_page_ref, of a page some process maps.
AddPageRef(p) ==
    /\ IsShareable(p) /\ holders[p] < MaxRef
    /\ ref' = [ref EXCEPT ![p] = @ + 1]
    /\ holders' = [holders EXCEPT ![p] = @ + 1]
    /\ UNCHANGED <<phase, pmb_array, physfree, bitmap, content, stdin_page, pgd, cr3>>

\* deduct_page_ref leaves the bitmap alone.
DeductPageRef(p) ==
    /\ IsShareable(p)
    /\ ref' = [ref EXCEPT ![p] = @ - 1]
    /\ holders' = [holders EXCEPT ![p] = @ - 1]
    /\ UNCHANGED <<phase, pmb_array, physfree, bitmap, content, stdin_page, pgd, cr3>>

\* Mutant: a page that was shared is counted down twice.
FreePageTwice(p) ==
    /\ IsShareable(p)
    /\ ref' = [ref EXCEPT ![p] = @ - 2]
    /\ holders' = [holders EXCEPT ![p] = @ - 1]
    /\ UNCHANGED <<phase, pmb_array, physfree, bitmap, content, stdin_page, pgd, cr3>>

FreePage(p) ==
    /\ IsShareable(p)
    /\ ref' = [ref EXCEPT ![p] = @ - 1]
    /\ holders' = [holders EXCEPT ![p] = @ - 1]
    /\ bitmap' = IF ref[p] = 1 THEN bitmap \ BitsOf(p) ELSE bitmap
    /\ UNCHANGED <<phase, pmb_array, physfree, content, stdin_page, pgd, cr3>>

-----------------------------------------------------------------------------
(* Address spaces *)

\* Mutant: the copy keeps the entry of the kernel's pgd that refers to itself.
PgdOfKernel(p) == <<"pgd", pgd_start>>

\* alloc_pgd: a copy of the kernel's pgd, with a reference to itself.
PgdCopy(p) == <<"pgd", p>>

\* fork, for its child.
ForkMm(t) ==
    /\ pgd[t] = 0
    /\ GetZeroPage(PgdCopy(Min(FreePages)))
    /\ pgd' = [pgd EXCEPT ![t] = Min(FreePages)]
    /\ UNCHANGED <<phase, pmb_array, physfree, stdin_page, cr3>>

\* exec: a new pgd, and switch_mm(NULL, current) right away.
ExecMm(t) ==
    /\ GetZeroPage(PgdCopy(Min(FreePages)))
    /\ pgd' = [pgd EXCEPT ![t] = Min(FreePages)]
    /\ cr3' = Min(FreePages)
    /\ UNCHANGED <<phase, pmb_array, physfree, stdin_page>>

\* switch_mm; a kernel thread stays in the address space it finds.
SwitchMm(next) ==
    /\ phase = "run" /\ pgd[next] # 0
    /\ cr3' = pgd[next]
    /\ UNCHANGED <<phase, pmb_array, physfree, bitmap, ref, content, stdin_page, holders, pgd>>

\* free_process: the pgd is left behind, cr3 may still point at it.
FreeProcess(t) ==
    /\ phase = "run" /\ pgd[t] # 0
    /\ pgd' = [pgd EXCEPT ![t] = 0]
    /\ UNCHANGED <<phase, pmb_array, physfree, bitmap, ref, content, stdin_page, holders, cr3>>

\* kbdintr stores a key in stdin_buf.
StoreKey ==
    /\ phase = "run"
    /\ content' = [content EXCEPT ![stdin_page] = <<"stdin">>]
    /\ UNCHANGED <<phase, pmb_array, physfree, bitmap, ref, stdin_page, holders, pgd, cr3>>

Next ==
    \/ \E p \in Pages : KbdInit(p)
    \/ SetupBitmap \/ SetupInitialPgtables \/ SetupPageArray \/ FreeInitmem
    \/ TakePage \/ OutOfMemory \/ StoreKey
    \/ \E p \in Pages : AddPageRef(p) \/ DeductPageRef(p) \/ FreePage(p)
    \/ \E t \in Tasks : ForkMm(t) \/ ExecMm(t) \/ SwitchMm(t) \/ FreeProcess(t)

Spec == Init /\ [][Next]_vars

-----------------------------------------------------------------------------
(* Properties *)

\* Every variable has its type.
TypeOK ==
    /\ phase \in {"kbdinit", "setup_bitmap", "setup_initial_pgtables", "setup_page_array",
                  "free_initmem", "run", "panic"}
    /\ pmb_array \in Maps /\ physfree \in PhysFrees
    /\ bitmap \subseteq (0 .. NPages \div Word - 1) \X (0 .. Word - 1)
    /\ ref \in [Pages -> 0 .. MaxRef] /\ holders \in [Pages -> 0 .. MaxRef]
    /\ stdin_page \in Pages /\ cr3 \in Pages
    /\ pgd \in [Tasks -> Pages]

Running == phase \in {"run", "panic"}

\* The content that the owner of a page relies on.
Intact(p) ==
    /\ p \in Kernel => content[p] = <<"kernel">>
    /\ p \in BitmapArea => content[p] = <<"bitmap">>
    /\ p \in Span(Pte(0), Pte(PMD_T_NUM)) => content[p] = <<"pte", p - Pte(0)>>
    /\ p = pgd_start => content[p] = <<"pgd", pgd_start>>
    /\ p \in PageArray => content[p] = <<"array">>
    /\ holders[p] > 0 => content[p][1] \in {"data", "pgd"}

\* The kernel image, the bitmap, the page tables, the page array and every
\* page that is handed out keep their contents: neither the tables that
\* setup_initial_pgtables writes past the end of their area, nor the masks
\* computed in an int, nor freeing and taking pages lets two uses of a page
\* meet.  The page that kbdinit took before mm_init is the one exception.
OnlyStdinPageIsShared == Running => \A p \in Pages \ {stdin_page} : Intact(p)

\* The address space in use is a pgd whose entry 0x1fe refers to itself (or
\* the copy-on-write code would edit the tables of another process), also when
\* a kernel thread runs in the address space of a process that is gone.
SelfMapIsOwn == Running /\ cr3 # stdin_page => content[cr3] = <<"pgd", cr3>>

\* A page in use counts as busy, once per reference, through all that
\* get_zero_page, free_page and the two counters of references do; and with two
\* blocks of memory, the case setup_bitmap is written for, it is memory.
HeldIsCounted ==
    Running => \A p \in Pages : holders[p] > 0 =>
        /\ ref[p] = holders[p]
        /\ Len(pmb_array) = 2 =>
              \E b \in {1, 2} : p \in Span(pmb_array[b].base, EndOf(pmb_array[b]))
=============================================================================
