----------------------------- MODULE CowMemory -----------------------------
(***************************************************************************)
(* User memory of PLUM_OS: demand paging from the program file, fork with  *)
(* copy-on-write, the page reference counts, brk, exec, exit, and the      *)
(* kernel's own accesses to user buffers (mm.c, mmap.c and the memory half *)
(* of syscall.c and exec()).                                               *)
(*                                                                         *)
(* System calls and the page-fault handler run with interrupts off, so     *)
(* each is one step; the processes interleave between steps.  A user       *)
(* access that faults is several steps, as on the machine: the fault, then *)
(* the instruction again.  The frames that hold page tables, vm areas and  *)
(* kernel stacks are left out; task_structs are in: vm_file points into    *)
(* one.                                                                    *)
(***************************************************************************)
EXTENDS Naturals, Sequences, FiniteSets

CONSTANTS
    Procs,                   \* tasks that ever exist; a pid is never reused
    NFrames,                 \* bound: page frames that get_free_page hands out
    Text, Data, Bss, Stack,  \* the pages of a program, by segment
    HeapMax,                 \* bound: pages of heap; they are 1..HeapMax
    MaxVmas,                 \* bound: vm areas of one process
    Writes,                  \* what programs write into pages
    KernelWrites             \* what the kernel writes into their buffers

ASSUME NFramesAssumption == NFrames \in Nat /\ NFrames >= 2
ASSUME HeapMaxAssumption == HeapMax \in Nat
\* A content tells who has written it.
ASSUME WritesAssumption == Writes \cap KernelWrites = {}

Frames == 1..NFrames
Heap  == 1..HeapMax
Pages == Text \cup Data \cup Bss \cup Stack \cup Heap

ASSUME ProcsAssumption == IsFiniteSet(Procs) /\ Procs # {}
\* The segments of a program are page-aligned and lie apart.
ASSUME SegmentsAssumption ==
    /\ IsFiniteSet(Pages)
    /\ Stack # {}
    /\ Text \cap (Data \cup Bss \cup Stack \cup Heap) = {}
    /\ (Data \cup Bss) \cap (Stack \cup Heap) = {}
    /\ Stack \cap Heap = {}

\* Contents of a frame.  "image" stands for the bytes the program file has for
\* the page, "junk" for bytes that are not the program's: what follows the
\* segment in the file, or what a wild pointer reads.
Values   == Writes \cup KernelWrites \cup {"zero", "image", "junk", "args"}
Contents == Values \cup Procs        \* p: the task_struct of p

NoFrame == 0
NoFile  == "no file"
NoPte   == [frame |-> NoFrame, rw |-> FALSE, cow |-> FALSE]

\* The names that stand for "none" name nothing else.
ASSUME NamesAssumption == NoFile \notin Procs /\ "nothing" \notin Contents

VARIABLES
    ref,       \* page_array: ref[f]
    data,      \* data[f]: what frame f holds
    status,    \* of a task: "none", "alive", "zombie" or "freed"
    task,      \* the frame of its task_struct
    vmas,      \* mm->mmap, in list order
    pte,       \* pte[p][v]: the page table entry of page v
    panicked   \* the kernel has stopped

vars == <<ref, data, status, task, vmas, pte, panicked>>

Pte == [frame : Frames \cup {NoFrame}, rw : BOOLEAN, cow : BOOLEAN]
Vma == [pages : SUBSET Pages, rw : BOOLEAN, file : Procs \cup {NoFile}]

TypeOK ==
    /\ ref \in [Frames -> Nat]
    /\ data \in [Frames -> Contents]
    /\ status \in [Procs -> {"none", "alive", "zombie", "freed"}]
    /\ task \in [Procs -> Frames \cup {NoFrame}]
    /\ vmas \in [Procs -> Seq(Vma)]
    /\ pte \in [Procs -> [Pages -> Pte]]
    /\ panicked \in BOOLEAN

Mapped(p, v) == pte[p][v].frame # NoFrame

\* Mutant: an off-by-one in the test of get_free_page.
FreeOffByOne == {f \in Frames : ref[f] <= 1}

\* get_free_page: the first frame without a reference.
Free == {f \in Frames : ref[f] = 0}
GetFreePage == CHOOSE f \in Free : \A g \in Free : f <= g

\* The vm areas exec() sets up from the program headers, and the stack.
ProgramVmas(p) ==
    <<[pages |-> Text, rw |-> FALSE, file |-> p],
      [pages |-> Data \cup Bss, rw |-> TRUE, file |-> p],
      [pages |-> Stack, rw |-> TRUE, file |-> NoFile]>>

\* The new page table: only the stack page with argc, argv and envp is there.
ProgramPtes(v, f) ==
    [w \in Pages |-> IF w = v THEN [frame |-> f, rw |-> TRUE, cow |-> FALSE] ELSE NoPte]

ArgPage == CHOOSE v \in Stack : TRUE

\* The first shell, after its exec: its task_struct and its stack page.
Shell == CHOOSE p \in Procs : TRUE

Init ==
    /\ ref = [f \in Frames |-> IF f <= 2 THEN 1 ELSE 0]
    /\ data = [f \in Frames |-> CASE f = 1 -> Shell [] f = 2 -> "args" [] OTHER -> "zero"]
    /\ status = [p \in Procs |-> IF p = Shell THEN "alive" ELSE "none"]
    /\ task = [p \in Procs |-> IF p = Shell THEN 1 ELSE NoFrame]
    /\ vmas = [p \in Procs |-> IF p = Shell THEN ProgramVmas(p) ELSE <<>>]
    /\ pte = [p \in Procs |-> IF p = Shell THEN ProgramPtes(ArgPage, 2)
                                           ELSE [v \in Pages |-> NoPte]]
    /\ panicked = FALSE

Runs(p) == ~panicked /\ status[p] = "alive"

Panic == panicked' = TRUE /\ UNCHANGED <<ref, data, status, task, vmas, pte>>

ExitSt(p) ==
    /\ status' = [status EXCEPT ![p] = "zombie"]
    /\ UNCHANGED <<ref, data, task, vmas, pte, panicked>>

(***************************************************************************)
(* mm.c                                                                    *)
(***************************************************************************)
\* search_vma: the first area that covers v, in a set of at most one index.
SearchVma(p, v) ==
    {i \in DOMAIN vmas[p] :
        /\ v \in vmas[p][i].pages
        /\ \A j \in 1..(i - 1) : v \notin vmas[p][j].pages}

\* vm_file points into the task_struct of the process that ran exec.  Once
\* that struct is freed and its frame used again, start_addr is anything.
Intact(file) == file = NoFile \/ data[task[file]] = file

\* What the copy loop of map_a_page leaves in the new frame.  It copies a
\* whole page from the file, also beyond vm_filesz.
Loaded(vma, v) ==
    IF vma.file = NoFile THEN "zero"
    ELSE IF ~Intact(vma.file) \/ v \in Bss THEN "junk"
    ELSE "image"

\* get_zero_page panics when memory is out; a wild start_addr may fault in
\* kernel mode, which panics too.
MapMayPanic(vma) == Free = {} \/ ~Intact(vma.file)

Install(p, v, f, rw, d) ==
    /\ ref' = [ref EXCEPT ![f] = 1]
    /\ data' = [data EXCEPT ![f] = d]
    /\ pte' = [pte EXCEPT ![p][v] = [frame |-> f, rw |-> rw, cow |-> FALSE]]

\* map_a_page for a page that is not mapped yet.
MapAPage(p, v) ==
    \E i \in SearchVma(p, v) :
        LET vma == vmas[p][i] IN
        \/ /\ Free # {}
           /\ Install(p, v, GetFreePage, vma.rw, Loaded(vma, v))
           /\ UNCHANGED <<status, task, vmas, panicked>>
        \/ MapMayPanic(vma) /\ Panic

(***************************************************************************)
(* page_fault_handler, for an access in user mode, and the accesses that   *)
(* do not fault.                                                           *)
(***************************************************************************)
FaultNotPresent(p, v) ==
    /\ Runs(p)
    /\ ~Mapped(p, v)
    /\ \/ MapAPage(p, v)
       \/ SearchVma(p, v) = {} /\ ExitSt(p)

\* Mutant: two references count as one.
SharedOffByOne(f) == ref[f] > 2

\* "it's shared, ref > 1"
Shared(f) == ref[f] > 1

\* A write to a present, read-only page.  With one reference left the page
\* becomes writable where it is; otherwise the process gets a copy.
FaultWrite(p, v) ==
    /\ Runs(p)
    /\ Mapped(p, v) /\ ~pte[p][v].rw
    /\ LET old == pte[p][v].frame IN
       \/ /\ pte[p][v].cow /\ Shared(old)
          /\ \/ /\ Free # {}
                /\ ref' = [ref EXCEPT ![GetFreePage] = 1, ![old] = @ - 1]
                /\ data' = [data EXCEPT ![GetFreePage] = data[old]]
                /\ pte' = [pte EXCEPT ![p][v] =
                               [frame |-> GetFreePage, rw |-> TRUE, cow |-> FALSE]]
                /\ UNCHANGED <<status, task, vmas, panicked>>
             \/ Free = {} /\ Panic
       \/ /\ pte[p][v].cow /\ ~Shared(old)
          /\ pte' = [pte EXCEPT ![p][v] = [frame |-> old, rw |-> TRUE, cow |-> FALSE]]
          /\ UNCHANGED <<ref, data, status, task, vmas, panicked>>
       \/ ~pte[p][v].cow /\ ExitSt(p)

UserWrite(p, v, d) ==
    /\ Runs(p)
    /\ pte[p][v].rw
    /\ data' = [data EXCEPT ![pte[p][v].frame] = d]
    /\ UNCHANGED <<ref, status, task, vmas, pte, panicked>>

(***************************************************************************)
(* System calls                                                            *)
(***************************************************************************)
\* copy_from_user: an address without an area is read all the same, and the
\* fault in kernel mode is a panic.
CopyFromUser(p, v) ==
    /\ Runs(p)
    /\ ~Mapped(p, v)
    /\ \/ MapAPage(p, v)
       \/ SearchVma(p, v) = {} /\ Panic

\* copy_from_kernel: map the page if need be, then write d into it.  Nothing
\* here looks at PTE_COW, and CR0.WP is set nowhere in the source: the store
\* goes through a read-only entry too, into a frame that others may share.
CopyFromKernel(p, v, d) ==
    /\ Runs(p)
    /\ \E i \in SearchVma(p, v) :
         LET vma == vmas[p][i] IN
         \/ /\ Mapped(p, v)
            /\ data' = [data EXCEPT ![pte[p][v].frame] = d]
            /\ UNCHANGED <<ref, status, task, vmas, pte, panicked>>
         \/ /\ ~Mapped(p, v)
            /\ Free # {}
            /\ Install(p, v, GetFreePage, vma.rw, d)
            /\ UNCHANGED <<status, task, vmas, panicked>>
         \/ ~Mapped(p, v) /\ MapMayPanic(vma) /\ Panic

\* copy_mm and copy_vma_deep: area by area, every mapped page is shared with
\* the child, copy-on-write on both sides if the area is writable, and its
\* frame gets one more reference, once for every area that covers it.
Covering(p, v) == {i \in DOMAIN vmas[p] : v \in vmas[p][i].pages}

\* Mutant: the entries of a writable area are copied as they are.
SharedPteUnmarked(p, v) == pte[p][v]

SharedPte(p, v) ==
    IF Mapped(p, v) /\ \E i \in Covering(p, v) : vmas[p][i].rw
    THEN [frame |-> pte[p][v].frame, rw |-> FALSE, cow |-> TRUE]
    ELSE pte[p][v]

\* Mutant: add_page_ref only for writable areas.
NewRefsWritable(p, f) ==
    Cardinality({vi \in Pages \X DOMAIN vmas[p] :
                    /\ pte[p][vi[1]].frame = f /\ vi[1] \in vmas[p][vi[2]].pages
                    /\ vmas[p][vi[2]].rw})

NewRefs(p, f) ==
    Cardinality({vi \in Pages \X DOMAIN vmas[p] :
                    pte[p][vi[1]].frame = f /\ vi[1] \in vmas[p][vi[2]].pages})

Unborn == {c \in Procs : status[c] = "none"}
NextTask == CHOOSE c \in Unborn : TRUE

Fork(p) ==
    /\ Runs(p)
    /\ Unborn # {}
    /\ LET c == NextTask
           t == GetFreePage
       IN
       \/ /\ Free # {}
          /\ ref' = [f \in Frames |-> IF f = t THEN 1 ELSE ref[f] + NewRefs(p, f)]
          /\ data' = [data EXCEPT ![t] = c]
          /\ task' = [task EXCEPT ![c] = t]
          /\ status' = [status EXCEPT ![c] = "alive"]
          /\ vmas' = [vmas EXCEPT ![c] = vmas[p]]
          /\ LET shared == [v \in Pages |-> SharedPte(p, v)]
             IN pte' = [pte EXCEPT ![p] = shared, ![c] = shared]
          /\ UNCHANGED panicked
       \/ Free = {} /\ Panic

\* brk: mm->brk is never stored, so it is always the start of the heap and
\* every call adds an area that begins there.  n is the new break in pages.
Brk(p, n) ==
    /\ Runs(p)
    /\ \/ /\ n > 0
          /\ Len(vmas[p]) < MaxVmas
          /\ vmas' = [vmas EXCEPT ![p] =
                        Append(@, [pages |-> 1..n, rw |-> TRUE, file |-> NoFile])]
          /\ UNCHANGED <<ref, data, status, task, pte, panicked>>
       \/ n = 0 /\ Panic

\* The new program of p, its arguments in frame f; lost are the frames that
\* only the old page table knew.
NewProgram(p, v, lost, f) ==
    /\ ref' = [g \in Frames |-> IF g = f \/ g \in lost THEN 1 ELSE ref[g]]
    /\ data' = [g \in Frames |->
          IF g = f THEN "args"
          ELSE IF g \in lost THEN Loaded(vmas[p][CHOOSE i \in SearchVma(p, v) : TRUE], v)
          ELSE data[g]]
    /\ pte' = [pte EXCEPT ![p] = ProgramPtes(ArgPage, f)]
    /\ vmas' = [vmas EXCEPT ![p] = ProgramVmas(p)]
    /\ UNCHANGED <<status, task, panicked>>

\* exec, called with argv in page v: that page is mapped in the old address
\* space, which is then dropped without giving anything back.
Exec(p, v) ==
    /\ Runs(p)
    /\ LET area == SearchVma(p, v)
           lost == IF Mapped(p, v) \/ Free = {} THEN {} ELSE {GetFreePage}
           rest == Free \ lost
           f == CHOOSE x \in rest : \A y \in rest : x <= y
       IN
       \/ /\ Mapped(p, v) \/ (area # {} /\ Free # {})
          /\ rest # {}
          /\ NewProgram(p, v, lost, f)
       \/ /\ \/ rest = {}
             \/ ~Mapped(p, v) /\ (area = {} \/ \E i \in area : MapMayPanic(vmas[p][i]))
          /\ Panic

Exit(p) == Runs(p) /\ ExitSt(p)

\* Mutant: the page of the task_struct is given back twice.
FreeProcessTwice(p) ==
    /\ ~panicked
    /\ status[p] = "zombie"
    /\ status' = [status EXCEPT ![p] = "freed"]
    /\ ref' = [ref EXCEPT ![task[p]] = @ - 2]
    /\ UNCHANGED <<data, task, vmas, pte, panicked>>

\* free_process: the frame of the task_struct goes back, user memory does not.
FreeProcess(p) ==
    /\ ~panicked
    /\ status[p] = "zombie"
    /\ status' = [status EXCEPT ![p] = "freed"]
    /\ ref' = [ref EXCEPT ![task[p]] = @ - 1]
    /\ UNCHANGED <<data, task, vmas, pte, panicked>>

Next ==
    \/ \E p \in Procs, v \in Pages :
          \/ FaultNotPresent(p, v)
          \/ FaultWrite(p, v)
          \/ CopyFromUser(p, v)
          \/ Exec(p, v)
          \/ \E d \in Writes : UserWrite(p, v, d)
          \/ \E d \in KernelWrites : CopyFromKernel(p, v, d)
    \/ \E p \in Procs, n \in 0..HeapMax : Brk(p, n)
    \/ \E p \in Procs : Fork(p) \/ Exit(p) \/ FreeProcess(p)

Spec == Init /\ [][Next]_vars

(***************************************************************************)
(* Correctness                                                             *)
(***************************************************************************)
\* Everything that still refers to frame f: page table entries, those of dead
\* processes included (their page tables are never torn down), and tasks.
Mappers(f) == {pv \in Procs \X Pages : pte[pv[1]][pv[2]].frame = f}
Owners(f) == {p \in Procs : status[p] \in {"alive", "zombie"} /\ task[p] = f}

\* page_array never undercounts (add_page_ref, deduct_page_ref, free_page):
\* a frame has at least as many references as there are page table entries
\* and task_structs in it, so get_free_page never hands out a used frame and
\* the "ref == 1" case of the COW handler is right to keep the frame.
RefCoversUsers ==
    \A f \in Frames : ref[f] >= Cardinality(Mappers(f)) + Cardinality(Owners(f))

\* Copy-on-write (copy_vma_deep, page_fault_handler): a frame that any entry
\* lets its process write is mapped nowhere else and is no task_struct.
WritableIsPrivate ==
    \A p \in Procs, v \in Pages : pte[p][v].rw =>
        /\ Mappers(pte[p][v].frame) = {<<p, v>>}
        /\ Owners(pte[p][v].frame) = {}

\* get_free_page, free_page and deduct_page_ref together: however many forks,
\* copies, execs and reaps have gone before, no page of a program, and no
\* store into one, ever lands on the task_struct of a process that is alive or
\* waits to be reaped.
TasksKeepTheirFrames ==
    \A p \in Procs : status[p] \in {"alive", "zombie"} => data[task[p]] = p

(***************************************************************************)
(* CowMemory implements PrivateMemory                                      *)
(***************************************************************************)
Promised(vma, v) ==
    IF vma.file = NoFile \/ v \in Bss THEN "zero" ELSE "image"

View(p) ==
    [v \in Pages |->
        IF status[p] # "alive" THEN "nothing"
        ELSE IF Mapped(p, v) THEN data[pte[p][v].frame]
        ELSE IF SearchVma(p, v) = {} THEN "nothing"
        ELSE Promised(vmas[p][CHOOSE i \in SearchVma(p, v) : TRUE], v)]

ImageOf(v) ==
    CASE v \in Heap -> "nothing"
      [] v = ArgPage -> "args"
      [] v \in (Stack \ {ArgPage}) \cup Bss -> "zero"
      [] OTHER -> "image"

Private == INSTANCE PrivateMemory WITH
    mem <- [p \in Procs |-> View(p)],
    freed <- {p \in Procs : status[p] = "freed"},
    Writable <- Pages \ Text,
    FromFile <- Text \cup Data \cup Bss,
    Image <- [v \in Pages |-> ImageOf(v)],
    Zero <- "zero",
    Junk <- "junk",
    Nothing <- "nothing"

\* fork, exec, brk, demand paging and copy-on-write give every process a memory
\* of its own, with the two exceptions that PrivateMemory names: what a program
\* writes is seen by that program alone, over every history of faults, forks,
\* copies, execs, exits and frees; only a store of the kernel (copy_from_kernel
\* does not look at PTE_COW) may show in the processes that still share the
\* page, and only a page that map_a_page reads from the file may come out as
\* junk, for bss always (mm.c:613), for the rest once a task was freed.
Refines == Private!Spec
=============================================================================
