--------------------------- MODULE PrivateMemory ---------------------------
(***************************************************************************)
(* What a program of PLUM_OS may count on: every process has an address    *)
(* space of its own.  fork copies it, exec replaces it by the program's    *)
(* image, brk adds zeroed pages, and what a program writes is seen by no   *)
(* other.  Frames, page tables, reference counts and copy-on-write do not  *)
(* exist here; CowMemory implements this module with them.                 *)
(*                                                                         *)
(* The code breaks the promise in two places, and they are actions here:   *)
(* KernelStore and Spoil.  Whatever is not one of them is kept.            *)
(***************************************************************************)
CONSTANTS
    Procs,         \* processes that ever exist
    Pages,         \* user pages of an address space
    Writable,      \* the pages a program may write
    FromFile,      \* the pages that are read from the program file
    Bss,           \* of these, the ones that lie beyond the file's data
    Heap,          \* the pages that brk can add
    Image,         \* page |-> what exec puts there, Nothing where it puts nothing
    Writes,        \* what programs write
    KernelWrites,  \* what the kernel writes for them
    Zero,          \* the content of a page nobody has written
    Junk,          \* bytes that are not the program's
    Nothing        \* the "content" of a page the process does not have

VARIABLES
    mem,           \* mem[p][v]: what p finds at page v
    freed          \* the processes whose task_struct was given back

NoPages == [v \in Pages |-> Nothing]

Exists(p) == mem[p] # NoPages

Init ==
    /\ \E p \in Procs : mem = [q \in Procs |-> IF q = p THEN Image ELSE NoPages]
    /\ freed = {}

Write(p, v, d) ==
    /\ v \in Writable
    /\ mem[p][v] # Nothing
    /\ mem' = [mem EXCEPT ![p][v] = d]

\* The kernel writes into the buffer of p and does not look at PTE_COW: the
\* store may be seen by processes whose page has been the same up to now.
KernelStore(p, sharers, v, d) ==
    /\ p \in sharers
    /\ mem[p][v] # Nothing
    /\ \A q \in sharers : mem[q][v] = mem[p][v]
    /\ mem' = [q \in Procs |-> IF q \in sharers THEN [mem[q] EXCEPT ![v] = d] ELSE mem[q]]

\* A page comes from the file as something else: the copy runs on beyond the
\* data of the file, or it starts from a task_struct that was given back.
Spoil(p, v) ==
    /\ v \in FromFile
    /\ v \in Bss \/ freed # {}
    /\ mem[p][v] = Image[v]
    /\ mem' = [mem EXCEPT ![p][v] = Junk]

Fork(p, c) ==
    /\ Exists(p)
    /\ ~Exists(c)
    /\ mem' = [mem EXCEPT ![c] = mem[p]]

Exec(p) ==
    /\ Exists(p)
    /\ mem' = [mem EXCEPT ![p] = Image]

Grow(p, new) ==
    /\ Exists(p)
    /\ mem' = [mem EXCEPT ![p] = [v \in Pages |->
                   IF v \in new /\ mem[p][v] = Nothing THEN Zero ELSE mem[p][v]]]

End(p) == mem' = [mem EXCEPT ![p] = NoPages]

Step ==
    \E p \in Procs :
        \/ \E v \in Pages :
              \/ \E d \in Writes : Write(p, v, d)
              \/ \E d \in KernelWrites, sharers \in SUBSET Procs : KernelStore(p, sharers, v, d)
              \/ Spoil(p, v)
        \/ \E c \in Procs : Fork(p, c)
        \/ Exec(p)
        \/ \E new \in SUBSET Heap : Grow(p, new)
        \/ End(p)

GiveBack(p) == ~Exists(p) /\ freed' = freed \cup {p}

Next ==
    \/ Step /\ UNCHANGED freed
    \/ \E p \in Procs : GiveBack(p) /\ UNCHANGED mem

Spec == Init /\ [][Next]_<<mem, freed>>
=============================================================================
