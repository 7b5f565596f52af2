# A verification project for PLUM_OS

PLUM_OS is a small x86-64 operating system: a kernel (`sys/`), a C library
(`libc/`), a shell and a few programs (`bin/`). These modules model the parts of
it that carry its logic, TLC checks them on small instances, and TLAPS proves
all of their invariants for instances of every size.

## 1. The system

| Part | State | Operations | Hard because |
|---|---|---|---|
| Processes (`process.c`, `syscall.c`, `main.c`, `timer.c`) | `task_struct`s on four linked lists (`task_headp`, `sleep_task_list`, `wait_stdin_list`, `zombie_list`), `current`, `zombie_count`, `pid_count` | `schedule`, `sleep`, `wakeup`, `fork`, `waitpid`, `exit_st`, `kill_by_pid`, `kernel_thread`, the init loop, `thread_clear` | kernel code that resumes after a switch runs with interrupts on; exits nest inside `schedule()` |
| User memory (`mm.c`, `mmap.c`, parts of `syscall.c` and `exec`) | `page_array` reference counts, vm areas, page tables | page faults, `fork`/`copy_mm`, `brk`, `exec`, `copy_from_user`, `copy_from_kernel`, `free_process` | sharing, counts over long histories, pointers into other tasks' structures |
| Files (`tarfs.c`, parts of `syscall.c`) | the tar archive in the kernel image, `file_array` and `cwd` of each task | `open`, `read`, `close`, `getdents`, `chdir`, and what `fork` and `exec` do to the table | positions are offsets in a flat archive in any order |
| Terminal (`kbd.c`, `read_stdin`) | decoder (`normal_key_pressed`, `special_key_pressed`), `stdin_buf`, its size and state | `kbdintr` per scan code, `read_stdin` | keys overlap; the interrupt strikes inside a read |
| Allocator (`libc/malloc.c`, `sbrk.c`, `brk.c`) | boundary tags in the heap, `__curbrk` | `malloc`, `free`, `sbrk` | one wrong tag is found many calls later |
| Kernel stacks (`switch_to.s`, `entry.s`, `timer.s`, `pgfault.s`, `schedule`, `fork`, `exec`) | `rsp`, `tss.rsp0`, `kernel_stack` of each task | interrupt, fault, system call and their returns, `__switch_to`, the first stack of a task | three words must agree across paths written in assembly; windows with interrupts on |
| Boot and physical memory (`mm.c`, `main.c`, `kbdinit`) | `bitmap`, `page_array`, the first page tables, `cr3` | `mm_init`, `get_zero_page`, `free_page`, `alloc_pgd`, `switch_mm` | areas laid out one after the other without checks, masks in a too narrow type, order of initialisation |
| Shell (`sbush.c`, `shlib.c`) | `SH_VAR_LIST`, prompt, cwd, children | `parse_cmds`, assignments, `cd`, `ls`, program lookup, fork/exec/wait, scripts | quoting in any order, a list at its limit, children that end at any moment |
| libc wrappers, console, GDT/IDT/PIC | | | not modelled, see section 8 |

They meet in `task_struct`: the keyboard interrupt wakes readers and kills
(Terminal and Processes), `fork` copies lists, memory and files at once,
`free_process` gives back the page that holds `file_array`, into which vm areas
point (Memory and Files), and `malloc` lives on what `brk` maps.

**Interrupts decide what is atomic.** `__syscall_handler` is `cli ... sti;
sysret`; `__switch_to` is `cli ... sti; ret`; interrupt gates and the page-fault
stub run with interrupts off. So a system call is atomic until it switches away,
and everything a task does in the kernel *after* it was switched back in (the
tail of `waitpid`, the loop of `read`), and everything kernel threads do, can be
interrupted anywhere. All modules cut the code into steps along this line.

## 2. The modules

`TaskLists` - the list operations of `process.c` on sequences of pids.
`remove_from_tasklist` has no end test; `RunsOff` says when it falls off.

`Process` - the life cycle. A task is its pid (never reused); each field of
`task_struct` is a function. `cpu`, `depth` and `frames` describe `schedule()`:
when the chosen task has `sigterm` set, `schedule()` calls `exit_st` for it, which
calls `schedule()` again, so calls nest (`depth`) and a task switched away inside
such a nest returns into the outer loop when it is resumed (`frames`). `pc` is
where the kernel code of a task stands. System calls of programs are one action
each (`Fork`, `Wait`, `Read`, `ReadSleeps`, `Kill`, `Exit`); the preemptible code
is one action per statement that touches shared state (`SleepRemove`, `SleepAdd`,
`SleepYield`, `Reap`, `InitFind`, ..., `ClearReset`). `fault` names the operation
with which the kernel goes wrong (`Faults`): a removal that ran off its list in `exit_st`,
in `sleep()`, in the wakeup of a father or of the collector or in `free_process`, the
assertion of `free_process`, or the use of a freed `task_struct`, by a reaper or by the
collector in one of its two walks. After a fault nothing happens any more, as after
`panic()`. A list operation is one step, also where it runs with interrupts on.

`ProcessLiveness` - fairness and what must eventually happen.
`ProcessClaims` - what the repository says and the code does not keep.

`ProcessProofs`, `CowMemoryProofs`, `ContextProofs`, `TerminalProofs`, `BootMemoryProofs`,
`FilesProofs`, `MallocProofs`, `ShellProofs` - theorems (section 6).

`CowMemory` - frames with reference counts and contents, vm areas in list order,
page table entries. Faults, user stores, `copy_from_user`, `copy_from_kernel`,
`fork`, `brk`, `exec`, `exit`, `free_process`. Contents are `image`, `zero`,
`args`, `junk`, what programs write, or a `task_struct` (its owner's name): that
is enough to tell whether a page holds what it should, and whether `vm_file`
still points at a live structure. Page-table frames and kernel stacks are left out.
`PrivateMemory` - the abstract specification: each process has a memory of its
own, which changes by its own calls and writes. The code breaks this in two places, and
they are actions of the specification with guards as narrow as the code allows:
`KernelStore` (CR0.WP is set nowhere, so `copy_from_kernel` writes through a
copy-on-write entry; it may be seen by processes whose page has been the same until
then) and `Spoil` (a page of the file is
loaded as junk: of bss, since `map_a_page` copies beyond `vm_filesz`, or, once some
`task_struct` was given back, through a `vm_file` that points into it; only a page that
has not been touched). `Refines` maps a process's page to the content of its frame, or to what the
first fault would put there if it is not mapped yet.

`Files` - the archive as a sequence of headers, an address as the number of a
header, a path as its components. `held` and `listed` record what the program
asked for and was told; no action of the kernel depends on them. A descriptor knows
whether its process opened it or inherited it: through `fork` only place, size and
position survive, the name is empty and the type is `FT_DIR`. `exec` of a
`#!` script takes two slots of the table, one for the script and one for its
interpreter, and gives neither back. `MCFiles` holds the archives and paths for
TLC, and the constraint that keeps the run small: one process for every archive,
or two processes and reads for the most tangled one.

`Terminal` - the decoder and the buffer. `held` are the keys that are really down. A
stroke is the key pressed last and the map it is looked up in, `Char` the character that
goes to the buffer: Enter is the same newline in both maps, but only without Shift does
it make a line ready. A `read` that finds a line ready is one step; one that has slept is
cut into the statements of `read` and `read_stdin`, with keys and other readers in
between, and may fail in `copy_from_kernel`. An interrupt without data returns without EOI
(`KbdNoData`), and no key comes any more. Backspace goes below zero, up to `MaxUnder`.
Four variables only remember what happened: `unread` (strokes typed and not copied to a
program), `disturbed` (a key or a reader came at a bad moment), `ahead` (something was
typed behind a line that is ready), `vanished` (characters that a one-character read took
and reported as 0, because `readsz = stdin_buf_size` follows `stdin_buf_size = 0`).
`MCTerminal` has the symmetry of the readers and the constraint of the run.

`Malloc` - the heap word by word; a tag is a record of size and alloc bit, and a
word the program has filled is an absurd tag, so that the allocator reading it
shows. The macros keep their names. A walk along the headers that left the heap would
end there (`Payloads`); that none does is `HeapIsTiled`.

`ContextSwitch` - a kernel stack is the sequence of its frames (`irq`, `trap`, `sc`,
`sched`, `ctx`, ...), each with its depth in words, so that `kernel_stack` and
`tss.rsp0` are depths. An interrupt or fault of user code starts at `rsp0`, a system
call at `kernel_stack`; `SwitchTo` pushes a context, stores the depth and pops that
of the next task. `schedule()` is two steps, `SchedulePicks` and `SwitchTo`, because
between them `current` and the stack differ. A tick in that window with interrupts
on, or in ring 0 on the user's stack (before the `cli` and at the end of
`__syscall_handler`), sets `fault`: the kernel has no defence there and the model
stops. Which task is picked is open; the lists are `Process`'s. `MCContext` has the
word counts of the frames.

`BootMemory` - memory as a row of pages with a tag for what was stored there last,
from `start()` through `mm_init` to the allocator at run time. Masks are computed as
the code does, in an `int`. `holders` counts the references that really exist, to
compare `page_array` with. `MCBootMemory` has the BIOS maps.

`Shell` - lines as sequences of symbols (space, quote, `#`, pieces of words), the
variable list, prompt, cwd, descriptor slots and children. `ParseLoop` is the state of
the loop of `parse_cmds` after each turn; the inner loops are given by the position where
they stop first. `IsSplit` is the reference: words as stretches of the line, without a
loop. `waitpid` is two steps so that a child
can end before and after the call looks for it. `open` takes files and directories
alike (`Archive`): a directory can be run as a program, whose child dies at once, and an
`ls` of a file reaches the assertion of `getdents`, after which nothing in the machine
moves (`Halts`). Lengths in characters are left out, so the cut of a word at
`MAX_CMD_SIZE - 1` (`shlib.c:215`) is. `MCShell` has the lines.

## 3. The runs

| Run | Module | Checks |
|---|---|---|
| `process` | Process | `TypeOK`, `ListsExclusive`, `NoTaskLost`, `KernelThreadsImmortal`, `WaiterHasLiveChild`, `ReaperOwnsZombie`, `OnlyCollectorFaults`, `DeadStaysDead`: three user pids, kills and Ctrl-C |
| `process_live` | ProcessLiveness | `WaiterReturns`, `SilentKeyboardRoundRobin`, with blocking reads and the keyboard |
| `memory` | CowMemory | `TypeOK`, `RefCoversUsers`, `WritableIsPrivate`, `TasksKeepTheirFrames`, `Refines` (CowMemory implements PrivateMemory): two processes, all operations, bss, reaping, CR0.WP clear |
| `files` | MCFiles | `TypeOK` (reads stay in the content), `HeldFdsKeepTheirFile`, `ListingIsExact` |
| `terminal` | MCTerminal | `TypeOK`, `NoGhostKeys`, `TypedIsKept`, `LineIsReady` |
| `malloc` | Malloc | `TypeOK`, `HeapIsTiled`, `HeldBlocksAreSafe`, `FreeBlocksAreMerged`, `NothingLeaks` |
| `context` | MCContext | `TypeOK`, `SuspendedIsResumable`, `SyscallsGiveStackBack` |
| `boot` | MCBootMemory | `TypeOK`, `OnlyStdinPageIsShared`, `SelfMapIsOwn`, `HeldIsCounted` |
| `shell` | MCShell | `TypeOK`, `ParseIsSplit`, `VarsAreAMap`, `PromptIsCurrent`, `ForegroundBeforePrompt`, `PromptComesBack` |
| `claim_init_is_woken` | ProcessClaims | violated: init can sleep for a shell that is already dead |
| `claim_stack` | MCContext | violated: a program that is preempted in user code again and again leaves its stack page |
| `claim_child_has_files` | MCFiles | violated: a file the father has open is a directory for the child |

What they show. The four lists stay consistent under every interleaving; a
program's `waitpid`, being atomic, has no lost wakeup and frees exactly its own
zombie (provided it waits for a child of its own: `WaitAny` is FALSE in the runs),
and of all operations that could fail on a list or a `task_struct` three remain:
`exit_st` waking a `clear_zombie` that is not asleep, and the two walks of `clear_zombie`
itself, whose pointer may be stale. Reference counts never fall below the number of users, a writable frame
has one user, no page lands on a live `task_struct`, and a process's memory changes
behind its back in two ways only (`KernelStore`, `Spoil`). Listings are exact and reads
stay inside the (padded) content; a descriptor keeps its file, name and type, unless it
came through `fork`. What is typed and a line that is ready are kept until a key or a
second reader comes at one of the moments the properties name. The allocator keeps its heap tiled. Outside the
two windows every suspended task can be resumed, entries land on the stack of the
running task and sleeping inside system calls costs no stack, also when
`schedule()` kills tasks inside `schedule()`. Of all pages only the keyboard's, taken
before `mm_init`, can have two uses, although eight times the reserved page tables
are written and half the bits of the bitmap alias others. The shell's parser
splits as its reference does, its variables are a map, its prompt is never stale,
it does not prompt before a foreground program is over, and no line but an `ls` of a
file keeps it from prompting again or ending.

### Bounds

- `MaxPid`: 4 gives two programs beside the three kernel threads, so init's
  restart of the shell, a father and a child all occur; 5 adds a second child or a
  grandchild, which the wait protocol needs (one wait interrupted by another exit).
  Reads together with kills are in no run; the proofs, which are for every set of
  inputs, cover them, as they do `IndInv`, of which the run checks the parts that
  say something to a user of the kernel.
- `ZombieLimit` is 50 in the code; 1 or 2 lets the collector be woken.
- `NFrames = 4`: two `task_struct`s and two pages, so memory runs out, frames
  are reused after a reap, and copy-on-write finds both a shared and a sole user. One
  page each of text, bss, stack and heap (a page of data is like one of bss without its
  failure), one value programs write and one the kernel writes.
  `MaxVmas = 5` allows two calls of `brk` after `exec`.
- `CHUNK_SIZE = 16` instead of 4096, `MaxAddr = 252`: the heap grows several times
  and then `sbrk` fails; sizes 0, 1 and 9 meet the early return, the minimum block
  and rounding.
- `MAX_FILE_NUM` 5 instead of 20: two slots, and the table fills. `BLOCK = 2` instead of
  512, with files of sizes 1, 2 and 3, on both sides of the padding. The archives
  have a directory in a directory, and `files` takes every order of them.
- `Terminal`: buffer of 3, one below zero, two keys down at once, Shift and Ctrl (Alt
  does what Ctrl does), two readers, reads of 1 and 2. After a bad moment nothing is
  explored, since `TypedIsKept` and `LineIsReady` say nothing then, and two programs read
  at a time only while two characters are enough (`Explored`). `TypeOK` and `NoGhostKeys`
  are proved for the states beyond as well.
- `ContextSwitch`: two programs and init, `MaxDepth = 62` words lets a stack take one
  preemption on top of what a system call or an earlier one left, `MaxNest = 4`
  frames when `schedule()` kills; the claim's run has one program and 600 words.
- `BootMemory`: 20 pages, words of four bits with the same ratio of int and word as
  the code, several image sizes, maps with two and with three blocks, memory that
  ends inside and behind the allocator's range, and memory that runs out.
- `Shell`: every line of up to three symbols and some forty longer ones, three
  argument and three variable slots, three descriptors, so each limit is reached.

### Fairness

`schedule()` runs to its end and the timer ticks (weak fairness: both are
hardware or straight-line code). Kernel code of each task, the init loop and the
collector are strongly fair: each is enabled only while its task has the
processor, and a task that gets the processor again and again executes its next
statements (a time slice is ten ticks). Programs are not fair: they may never
call the kernel.

`Shell`: its own steps are weakly fair (the scheduler's part is `process_live`), and so
is the end of each child, for a foreground program that never ends rightly keeps the
shell waiting. Nobody has to type.

## 4. What holds only under conditions

- `WaiterHasLiveChild`, `ReaperOwnsZombie`, `OnlyCollectorFaults`: programs wait for
  their own children. `waitpid` accepts any pid; a program that waits for another
  can be woken by its child's exit and run into the assertion of `free_process`.
- `Refines` has no condition; the two ways in which the code does not keep memory
  private are actions of `PrivateMemory` (section 2).
- `TypedIsKept`, `LineIsReady`: until one of three kinds of moments. `TooLate`: a
  character comes after a read that has slept has looked at the size for the last time,
  and is dropped or left in a buffer that is not ready. `TakesTooMuch`: Backspace on an
  empty buffer, or on characters a read has decided to copy. `Overlaps`: two reads
  between the statements of `read_stdin`. And what a one-character read reports is
  claimed only of lines behind which nothing was typed: a read that takes all there is
  returns 0 and `myfgets` ignores what it got, so that the end of the line is dropped,
  as it would be anyway, but of characters typed ahead the last one is lost.
- `HeldFdsKeepTheirFile`: name and type only for descriptors the process opened itself.
- `PromptComesBack`: for every line but an `ls` of a path that names a file. That the
  children end is assumed; a child that lists a file stops the machine in the same way.
- `HeldBlocksAreSafe` and the other properties of the allocator: for sizes whose
  rounding does not wrap in `size_t` (`malloc.c:83`, `malloc.c:187`).
- `OnlyStdinPageIsShared`: the keyboard writes its own page only (`StoreKey`);
  `stdin_buf_size` has no limit (`kbd.c:59`), so enough characters would leave it.

## 5. Disagreements between the code and what is said about it

Shown by runs (quotations in PROJECT.json): init's lost wakeup, the kernel stack
that gets shorter with each time slice that ends in user code, and the type and name of
open files that `fork` does not copy (`syscall.c:683`), so that the child's read stops the
machine (`Stuck`).

Seen with the same models and easy to reproduce:

- the scheduler skips the head of its list when `current` has left it, so it is not
  "round-robin" (`process.c:136`): `EveryActiveTaskRuns` without the premise
  `KeyboardFallsSilent` fails for two readers the keyboard wakes again and again.

Met while modelling, and visible in the models: `sleep()` with interrupts on
leaves its task on no list for a moment (`SleepRemove`, against the three states of
`proc.h:50`); Enter between the test of `stdin_buf_state` and the sleep of a resumed
`read` is lost (the TODO at `syscall.c:342`); the collector keeps a pointer to a
zombie across preemption (`ClearStale`); a father killed after the wakeup leaves a
zombie nobody frees (`syscall.c:965`, "father will free me"); init's search of three
lists can miss a shell that moves between them; `brk` never stores `mm->brk`, so
areas overlap and `fork` counts a page twice (`mmap.c:46`, "it's shared, ref > 1");
`free_process` frees no user page (`process.c:628`); `tarfs_close` clears a copy of
the slot; `read` goes on to the padded size (`syscall.c:351`); `getdents` keeps its
page at the end of a directory (`syscall.c:588`); `stdin_buf_size` has no limits
(`kbd.c:13`); `place` never splits a block (`malloc.c:147`).

Terminal: Shift+Enter stores a newline and readies nothing (`kbd.h:29`, `kbd.c:74`); a
read that takes the whole buffer returns 0 (`syscall.c:279`), which `myfgets` takes for
nothing read (`shlib.c:339`), so a character typed ahead can be lost without any race;
"only when buffer is empty, set it not ready" (`syscall.c:282`) is not kept when a key
comes between the statements; a key between the comparison and the copy makes the copy
longer than the program asked for (`ReadCopies`); an interrupt without data gets no EOI
and silences the keyboard (`kbd.c:42`).

Stacks: a slice that ends between `current = next` and the `cli` of `__switch_to`
saves the old stack as the new task's (`TickInWindow`); one that ends in ring 0 on the
user's stack, at `entry.s:35` or behind `entry.s:73` when the call has slept, makes
the user stack the kernel stack (`TickOnUserStack`). The page-fault gate is a trap
gate (`idt.c:76`), so a tick can precede its `cli`, which the model shows to be
harmless for the stacks.

Boot: `kbdinit` runs before `mm_init`, so `stdin_buf`'s page may be handed out again or
lie in the page tables (`KbdInit`, the exception of `OnlyStdinPageIsShared`); the masks
`1 << (i%64)` are ints, so pages i and i+32 of a word share a bit (`mm.c:94`); 512
page tables are written where 64 are reserved (`mm.c:220`); holes behind the second
block are never marked and `pmb_count` is not compared with `MAX_PHY_BLOCK`; kernel
threads go on in the address space of dead processes, which is safe only because
`unmap_mm` is commented out (`process.c:640`).

Shell: `does_file_exist`, `list_file` and `chdir` leave a descriptor behind each time, and
after seventeen the kernel ends the shell; `cd` alone asks for "HOME" without the
'=' and never goes home (`sbush.c:132`); the last entry of PATH always gets a slash,
so `/lib/` finds nothing (`shlib.c:313`); "current working directory" in
`locate_executable_file` is the root (`shlib.c:277`); a script line that `parse_cmds`
refuses is a NULL dereference (`sbush.c:64`); a full variable list without PATH makes
`get_var` read past it (`shlib.c:23`); `myfgets` stores one character too many for a line
of 256 (`shlib.c:342`); `ls` of a file stops the machine (`dir.c:16`, `syscall.c:532`); a
directory counts as a program (`shlib.c:267`), and its child is ended by a page fault.

## 6. What is proved

Every proof has the same shape: an inductive invariant (`Init => Inv`,
`Inv /\ [Next]_vars => Inv'`, one lemma per action), which TLC checked on the
constants of a run before it was proved, and theorems that follow from it. Each
module's invariant is larger than its properties, because these are not
inductive; what had to be added is the reason why the code is right.

| Module | Theorems | For every |
|---|---|---|
| `ProcessProofs` | `TypeCorrect`, `TaskListsExclusive`, `TasksAreNotLost`, `KernelThreadsSurvive`, `TheDeadStayDead`, `WaitersHaveLiveChildren`, `ReapersOwnTheirZombies`, `OnlyTheCollectorWakeupFaults` | `MaxPid >= 3`, `ZombieLimit > 0`, `WaitAny`, set of inputs |
| `CowMemoryProofs` | `TypeCorrect`, `PageArrayNeverUndercounts`, `WritableFramesArePrivate`, `TaskStructsSurvive`, `MemoryIsPrivate` | finite set of processes, number of frames, program layout, heap and number of areas, values written |
| `ContextProofs` | `TypeCorrect`, `SuspendedTasksResume`, `SystemCallsGiveStackBack` | set of threads and programs, frame sizes, stack size |
| `TerminalProofs` | `TypeCorrect`, `OnlyHeldKeysCount`, `TypedCharactersAreKept`, `LinesStayReady` | keyboard, buffer size, finite set of readers, sizes asked for |
| `BootMemoryProofs` | `TypeCorrect`, `PagesKeepTheirUse`, `AddressSpacesReferToThemselves`, `HeldPagesAreCounted` | memory and word size, BIOS map, image length, tables reserved and written, number of tasks |
| `FilesProofs` | `TypeCorrect`, `DescriptorsKeepTheirFile`, `ListingsAreExact` | archive, number of processes and slots, block size, paths and sizes |
| `MallocProofs` | `TypeCorrect`, `BoundaryTagsAgree`, `HeldBlocksStaySafe`, `FreeBlocksStayMerged`, `AllocatedBlocksAreHeld` | heap limit, chunk size (a multiple of 8, at least 16), sizes asked for |
| `ShellProofs` | `ParserSplits`, `TypeCorrect`, `LinesAreSplit`, `VariablesAreAMap`, `PromptStaysCurrent`, `ForegroundIsOver` | set of lines and scripts (strings of any length), archive, `MAX_ARG_NUM`, `MAX_SH_VAR_NUM >= 2`, `FreeFds >= 2` |

**Processes, lists.** `ListsExclusive` alone is not inductive: `exit_st` takes the task
*from the active list*, so one must know that whoever is running, or selected,
is there. `Placement` says so for the running task, with the window of `sleep()`
as the exception, and says that a task inside that window is on no list, so that
its insertion cannot duplicate it. `NoTaskLost` ties the zombie list to the state
`ZOMBIE`. `Unborn` keeps pids not yet handed out off all lists, so `fork` cannot
link a pid twice. `SelectTask` is only defined when the active list is not empty:
`KernelThreadsImmortal` keeps idle on it, which holds because a task with
`sigterm` has an `mm` and the kernel threads have none
(`KernelThreadsHaveNoMm`), so neither `kill` nor Ctrl-C reaches them. Sequences enter
through the first lemmas of the module, about removal, insertion and reversal.

**Processes, the wait protocol.** `WaitersInv` is a second inductive invariant on top of
the first. A program inside `waitpid` has a child of its own that is marked as waited
for: alive while the program sleeps, a zombie not yet freed once it is awake
(`Waiting`); conversely a live task that is marked has a father that waits for it and
for no other (`Expected`), so the wakeup of `exit_st` finds it. Init has the weaker
`InitWaiting`, for its shell can die before init is asleep. It needs `~WaitAny` (section
4) and holds as long as nothing has gone wrong; `OnlyTheCollectorWakeupFaults` says in
which way alone it can.

**User memory.** `RefCoversUsers` counts users, so the proof works with the finite sets
of entries that refer to a frame: what a fault, `fork` or `exec` adds to the set it
adds to the count. Needed besides: an entry that is absent is empty, a mapped page
lies in an area, a task that does not exist has no entries, and the frame of a
`task_struct` has no other user (`TaskIsPrivate`), or a free count of one would
let it go. `MemoryIsPrivate` is the refinement, for the code as it is (CR0.WP clear, bss,
reaping): each step of `CowMemory` is a step of
`PrivateMemory` or changes nothing there; a fault fills a page with what the
mapping already promised, or is a `Spoil`, a copy leaves every process its contents, and
the users of a frame the kernel writes to have held the same until then. It needs
that areas stay sound (`RInv`): the stack exists, and of overlapping areas the first
in the list decides.

**Kernel stacks.** A stack that is not in use ends in a context on top of `schedule()` or
of a first return address, at the depth in `kernel_stack` (`Resumable`); `rsp0`
belongs to `current`; a zombie that runs is inside the `schedule()` of its `exit_st`
for good (`Leaving`), so that it never returns to a frame; a task that lost the
processor only inside system calls has used up no stack (`Unpreempted`).

**Terminal.** Until a bad moment one reader at most is inside `read_stdin` (`AloneInv`).
While it has copied characters and not put the size right, the buffer and what is unread
differ, and `KeptAt` says for each statement how, whatever keys have come since; outside
these statements they agree (`KeptInv`). `ReadyInv` has what the readiness of a line rests
on: the state is true from the test of a resumed read on until the statement that resets
it; and a line that is ready and that nobody has typed behind ends in a newline, so that
this is what a read of all there is reports as 0. Types and the decoder's part need none
of this and hold after a bad moment, too.

**Boot.** Per page: what its area holds from the step that wrote it on; a reserved page is
busy, first in the bitmap, then in `page_array` (a page's own bits are always among
the ones that were set for it, whatever they alias); a held page is outside all areas
and counted; a pgd in use is held, so that nobody takes or writes it.
`LayoutAssumption` says what the proof needs of the layout: loader below the image
and below `normal_pfn_start`, and room for the areas behind the image.

**Files.** A held descriptor has the slot `tarfs_open` filled for its path, or what `fork`
keeps of it, and its
listing names in order exactly the entries that lie before its position
(`ListsUpTo`). That all entries lie behind the directory's own header, where the
search starts, follows from the order in which tar writes (`ArchivesAssumption`),
and that the search misses none from the smallest element of a set of numbers.

**Allocator.** The invariant has the set of block addresses as a witness (`Tiled`): blocks
begin at the prologue, each ends where the next begins or at the break, each but the
first begins where one ends, none overlap, header and footer agree. One lemma carries
the tags: writing one block over the blocks from f to e, with anything between its
tags, keeps the heap tiled (`Retagged`); `place`, `free`, the merge in `coalesce` and the
program's stores are instances, for the tags that `place` writes for the rest lie inside
the block it then marks whole. `coalesce` must know that only the block it is given can
have free neighbours (`MergedExcept`), and that the prologue and the epilogue, being
allocated, stop it at both ends. That the recursive walks of `find_fit` and of the
properties exist at all is `WalkExists`; that they visit these blocks and no others is
shown at the largest place where they would not. TLC checked the invariant with the
walked blocks as the witness.

**Shell.** `ParserSplits` says of every string that `parse_cmds` gives its words or refuses
it, and rests on a loop invariant (`LoopOK`): the loop never stands inside a word or
inside quotes (`Reaches`), the arguments so far are the words that end before it, and
each turn took one unless only spaces are left. The loop looks at quotes from the start
of a word and the reference from the start of the line; they agree because a word holds
no quote, or two, or one and then the rest of the line. Words are the same or apart
(`WordsApart`), so one more argument is one more word, and too many arguments are too many
words. The recursive function `ParseLoop` exists for every length (`LoopExists`), and
`LoopOK` has no first turn after which it fails. The rest of the invariant: names in
`SH_VAR_LIST` differ and PS1 is among them with a format that `parse_PS1` takes (`ListOK`),
so that a prompt can always be made; the prompt is current at every moment, not only
at the prompt; each child that runs is in the background or the one waited for; and
children are no more than the descriptors that were lost with them.

The assumptions are the named ones of the modules; TLC evaluates them in every run.
They say that bounds are numbers, sets of tasks are finite where something is counted,
segments lie apart, NULL is no string, and what tar, the linker script and the BIOS guarantee.

## 7. What is only model-checked

- Liveness (`process_live`, and `PromptComesBack` of the shell): the prover does not do
  fairness. Its safety side is proved: `WaitersHaveLiveChildren` and `ForegroundIsOver`.
- The three claims, which are violated.

## 8. What is not modelled, and the plan

Modelling that is left: list operations cut into loads and stores where they run
with interrupts on (`process.c:535`), and the composition of `Process` with
`ContextSwitch`, whose state spaces multiply beyond what TLC can search.

Left out for good: formatting and the screen (`printf.c`), string helpers, system
call wrappers without state (`readdir`'s buffer never holds more than the one entry
`getdents` returns), the ELF structures and the reading of program headers in `exec`
beyond the areas they create, `newfs`, the boot loader's files, descriptor tables and
PIC programming (only their effect on interrupts matters), lengths in characters,
the programs of `bin/` other than the shell (any program may make any call), and
`map_vma`, `unmap_mm`, `free_vma`, which nothing calls.
