------------------------------- MODULE Malloc -------------------------------
(***************************************************************************)
(* The user-level allocator of libc/malloc.c, with sbrk and brk under it:  *)
(* an implicit free list with boundary tags.  Addresses and sizes are in   *)
(* bytes, counted from the start of the heap; a word has WSIZE bytes.  One *)
(* program uses it, so every call is one step.                             *)
(***************************************************************************)
EXTENDS Integers

CONSTANTS
    CHUNK_SIZE,  \* 4096 in the code
    MaxAddr,     \* __max_addr, from the start of the heap: sbrk fails beyond
    Sizes        \* what the program asks malloc for

ASSUME ChunkAssumption == CHUNK_SIZE \in Nat /\ CHUNK_SIZE % 8 = 0 /\ CHUNK_SIZE >= 16
ASSUME SizesAssumption == Sizes \subseteq Nat
\* minit does not fail: it would write through the NULL that sbrk returns.
ASSUME RoomAssumption == MaxAddr \in Nat /\ MaxAddr >= 16 + CHUNK_SIZE

WSIZE == 4
DSIZE == 8
NULL  == -1                         \* no address of the heap
Words == {a \in 0..MaxAddr : a % WSIZE = 0}
Payloads == Words \ {0}             \* what has a header below it

VARIABLES
    mem,       \* the word at each address: a tag, or what the program put there
    curbrk,    \* __curbrk
    listp,     \* heap_listp, NULL before minit
    live       \* the blocks the program holds: payload address |-> size asked for

vars == <<mem, curbrk, listp, live>>

\* The GET, PUT, HDRP, FTRP, NEXT_BLKP and PREV_BLKP macros, for the memory m.
PACK(size, alloc) == [size |-> size, alloc |-> alloc]
PUT(m, a, tag) == [m EXCEPT ![a] = tag]
GET_SIZE(m, a) == m[a].size
GET_ALLOC(m, a) == m[a].alloc
HDRP(bp) == bp - WSIZE
FTRP(m, bp) == bp + GET_SIZE(m, HDRP(bp)) - DSIZE
NEXT_BLKP(m, bp) == FTRP(m, bp) + DSIZE
PREV_BLKP(m, bp) == bp - GET_SIZE(m, bp - DSIZE)

\* Program data read as a tag would send the allocator off the heap.
Payload == PACK(MaxAddr + DSIZE, 1)
Fresh   == PACK(0, 0)               \* a page from the kernel is zeroed

Init ==
    /\ mem = [a \in Words |-> Fresh]
    /\ curbrk = 0
    /\ listp = NULL
    /\ live = << >>

\* Mutant: case 3 forgets the footer of the merged block.
CoalesceNoFooter(m, bp) ==
    LET prev == PREV_BLKP(m, bp)
        next == NEXT_BLKP(m, bp)
        size == GET_SIZE(m, HDRP(bp))
        prevFree == GET_ALLOC(m, FTRP(m, prev)) = 0
        nextFree == GET_ALLOC(m, HDRP(next)) = 0
        first == IF prevFree THEN prev ELSE bp
        total == size + (IF prevFree THEN GET_SIZE(m, HDRP(prev)) ELSE 0)
                      + (IF nextFree THEN GET_SIZE(m, HDRP(next)) ELSE 0)
        last == IF nextFree THEN next ELSE bp
    IN  [bp |-> first,
         mem |-> IF nextFree
                 THEN PUT(PUT(m, HDRP(first), PACK(total, 0)), FTRP(m, last), PACK(total, 0))
                 ELSE PUT(m, HDRP(first), PACK(total, 0))]

\* Mutant: only the block above is merged.
CoalesceForward(m, bp) ==
    LET next == NEXT_BLKP(m, bp)
        nextFree == GET_ALLOC(m, HDRP(next)) = 0
        total == GET_SIZE(m, HDRP(bp)) + (IF nextFree THEN GET_SIZE(m, HDRP(next)) ELSE 0)
        last == IF nextFree THEN next ELSE bp
    IN  [bp |-> bp,
         mem |-> PUT(PUT(m, HDRP(bp), PACK(total, 0)), FTRP(m, last), PACK(total, 0))]

\* coalesce: merge bp with its free neighbours.  Cases 2 to 4 write the
\* header of the first block and the footer of the last, case 1 nothing.
Coalesce(m, bp) ==
    LET prev == PREV_BLKP(m, bp)
        next == NEXT_BLKP(m, bp)
        size == GET_SIZE(m, HDRP(bp))
        prevFree == GET_ALLOC(m, FTRP(m, prev)) = 0
        nextFree == GET_ALLOC(m, HDRP(next)) = 0
        first == IF prevFree THEN prev ELSE bp
        last == IF nextFree THEN next ELSE bp
        total == size + (IF prevFree THEN GET_SIZE(m, HDRP(prev)) ELSE 0)
                      + (IF nextFree THEN GET_SIZE(m, HDRP(next)) ELSE 0)
    IN  [bp |-> first,
         mem |-> IF prevFree \/ nextFree
                 THEN PUT(PUT(m, HDRP(first), PACK(total, 0)), FTRP(m, last), PACK(total, 0))
                 ELSE m]

\* Mutant: the limit is tested one double word too late.
SbrkOkPastEnd(brk, size) == brk + size <= MaxAddr + DSIZE

\* sbrk: does the heap have room for size more bytes?
SbrkOk(brk, size) == brk + size <= MaxAddr

\* extend_heap: the old epilogue becomes the header of the new block.
ExtendHeap(m, brk, words) ==
    LET size == IF words % 2 = 1 THEN (words + 1) * WSIZE ELSE words * WSIZE
        m1 == PUT(m, HDRP(brk), PACK(size, 0))
        m2 == PUT(m1, FTRP(m1, brk), PACK(size, 0))
        m3 == PUT(m2, HDRP(NEXT_BLKP(m2, brk)), PACK(0, 1))
    IN  IF SbrkOk(brk, size)
        THEN LET c == Coalesce(m3, brk) IN [bp |-> c.bp, mem |-> c.mem, brk |-> brk + size]
        ELSE [bp |-> NULL, mem |-> m, brk |-> brk]

\* minit, on a heap that is still empty: padding, prologue, epilogue, and a
\* first free block.
Minit ==
    LET m1 == PUT(mem, WSIZE, PACK(DSIZE, 1))
        m2 == PUT(m1, 2 * WSIZE, PACK(DSIZE, 1))
        m3 == PUT(m2, 3 * WSIZE, PACK(0, 1))
    IN  ExtendHeap(m3, 4 * WSIZE, CHUNK_SIZE \div WSIZE)

\* find_fit: the first free block that is large enough.  A walk that left the
\* heap would find nothing; HeapIsTiled shows that none does.
FindFit(m, size) ==
    LET from[p \in Payloads] ==
            IF GET_SIZE(m, HDRP(p)) = 0 THEN NULL
            ELSE IF GET_ALLOC(m, HDRP(p)) = 0 /\ GET_SIZE(m, HDRP(p)) >= size THEN p
            ELSE IF NEXT_BLKP(m, p) \notin Payloads THEN NULL
            ELSE from[NEXT_BLKP(m, p)]
    IN  from[NEXT_BLKP(m, 2 * WSIZE)]

\* place: tags for the rest of the block are written first, then the block is
\* marked allocated, with its whole size.
Place(m, bp, rsize) ==
    LET bsize == GET_SIZE(m, HDRP(bp))
        rest == bp + rsize
        m1 == PUT(m, HDRP(rest), PACK(bsize - rsize, 0))
        split == IF bsize > rsize THEN PUT(m1, FTRP(m1, rest), PACK(bsize - rsize, 0)) ELSE m
        m2 == PUT(split, HDRP(bp), PACK(bsize, 1))
    IN  PUT(m2, FTRP(m2, bp), PACK(bsize, 1))

\* Mutant: no room for the boundary tags.
AdjustedNoTags(size) == IF size <= DSIZE THEN DSIZE ELSE ((size + 7) \div 8) * 8

\* asize: room for the tags, a multiple of DSIZE, at least two of them.
Adjusted(size) == IF size <= DSIZE THEN 2 * DSIZE ELSE ((size + DSIZE + 7) \div 8) * 8

LargerOf(a, b) == IF a > b THEN a ELSE b

\* malloc.  extend_heap counts in words and is given bytes.
Malloc(size) ==
    LET start == IF listp = NULL THEN Minit ELSE [bp |-> 0, mem |-> mem, brk |-> curbrk]
        asize == Adjusted(size)
        fit == FindFit(start.mem, asize)
        more == IF fit # NULL THEN [start EXCEPT !.bp = fit]
                ELSE ExtendHeap(start.mem, start.brk, LargerOf(asize, CHUNK_SIZE))
    IN
    /\ listp' = 2 * WSIZE
    /\ IF size = 0 \/ more.bp = NULL
       THEN mem' = start.mem /\ curbrk' = start.brk /\ UNCHANGED live
       ELSE /\ mem' = Place(more.mem, more.bp, asize)
            /\ curbrk' = more.brk
            /\ live' = [p \in DOMAIN live \cup {more.bp} |->
                           IF p = more.bp THEN size ELSE live[p]]

\* Mutant: the tags of the block are left as they are.
FreeNoTags(p) ==
    /\ mem' = Coalesce(mem, p).mem
    /\ live' = [q \in DOMAIN live \ {p} |-> live[q]]
    /\ UNCHANGED <<curbrk, listp>>

\* free, of a block the program holds.
Free(p) ==
    LET size == GET_SIZE(mem, HDRP(p))
        m1 == PUT(mem, HDRP(p), PACK(size, 0))
        m2 == PUT(m1, FTRP(m1, p), PACK(size, 0))
    IN
    /\ mem' = Coalesce(m2, p).mem
    /\ live' = [q \in DOMAIN live \ {p} |-> live[q]]
    /\ UNCHANGED <<curbrk, listp>>

\* The program fills what it asked for.
WordsOf(p) == {a \in Words : p <= a /\ a < p + live[p]}

Use(p) ==
    /\ mem' = [a \in Words |-> IF a \in WordsOf(p) THEN Payload ELSE mem[a]]
    /\ UNCHANGED <<curbrk, listp, live>>

Next ==
    \/ \E size \in Sizes : Malloc(size)
    \/ \E p \in DOMAIN live : Free(p) \/ Use(p)

Spec == Init /\ [][Next]_vars

(***************************************************************************)
(* Correctness                                                             *)
(***************************************************************************)
\* The blocks of the heap and its end, by walking the headers as find_fit does.
Blocks ==
    LET from[p \in Payloads] ==
            IF GET_SIZE(mem, HDRP(p)) \notin 1..(curbrk - p) \/ NEXT_BLKP(mem, p) \notin Payloads
            THEN {p}
            ELSE {p} \cup from[NEXT_BLKP(mem, p)]
    IN  IF listp = NULL THEN {} ELSE from[listp]

Block == Blocks \ {curbrk}

TypeOK ==
    /\ mem \in [Words -> [size : 0..(MaxAddr + DSIZE), alloc : 0..1]]
    /\ curbrk \in 0..MaxAddr
    /\ listp \in {NULL, 2 * WSIZE}
    /\ \A p \in DOMAIN live : p \in Words /\ live[p] \in Sizes

\* Boundary tags (place, coalesce, extend_heap, free): after any sequence of
\* calls, and whatever the program stores, header and footer of every block
\* agree and the blocks fill the heap exactly up to the epilogue at the break.
HeapIsTiled ==
    listp # NULL =>
        /\ \A p \in Block : mem[HDRP(p)] = mem[FTRP(mem, p)]
        /\ curbrk \in Blocks
        /\ mem[HDRP(curbrk)] = PACK(0, 1)

\* malloc never gives memory away twice: every block the program holds is a
\* block of the heap, marked allocated, aligned, and as large as it asked for
\* with both tags outside the part it may use.
HeldBlocksAreSafe ==
    \A p \in DOMAIN live :
        /\ p \in Block /\ GET_ALLOC(mem, HDRP(p)) = 1
        /\ p % DSIZE = 0
        /\ p + live[p] <= FTRP(mem, p)

\* coalesce: no two neighbours are free, so find_fit sees every run of free
\* memory as one block.
FreeBlocksAreMerged ==
    \A p \in Block :
        GET_ALLOC(mem, HDRP(p)) = 0 /\ NEXT_BLKP(mem, p) # curbrk
            => GET_ALLOC(mem, HDRP(NEXT_BLKP(mem, p))) = 1

\* An allocated block is a block somebody holds (or the prologue): free gives
\* every byte back and malloc marks nothing else.
NothingLeaks ==
    \A p \in Block : GET_ALLOC(mem, HDRP(p)) = 1 => p = listp \/ p \in DOMAIN live
=============================================================================
