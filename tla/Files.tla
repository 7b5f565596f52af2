------------------------------- MODULE Files -------------------------------
(***************************************************************************)
(* Open files of PLUM_OS: the read-only tar archive (tarfs.c), the         *)
(* file_array of every process, and the system calls on it in syscall.c:   *)
(* open, read, close, getdents, chdir, and what fork and exec do to it.    *)
(* System calls run with interrupts off, so each is one step.              *)
(*                                                                         *)
(* A path is its sequence of components, without the slash that ends a     *)
(* directory's name in the archive; the faked root is the empty sequence.  *)
(* An address in the archive is the number of a header.                    *)
(***************************************************************************)
EXTENDS Naturals, Sequences, FiniteSets, SequencesExt

CONSTANTS
    Archives,      \* the archives the kernel may have been linked with
    Paths,         \* the paths programs use
    ReadSizes,     \* the sizes programs read
    BLOCK,         \* 512: content is padded to a multiple of it
    MAX_FILE_NUM,  \* slots of file_array (20)
    Procs,         \* tasks that ever exist
    MaxPages,      \* bound: kernel pages getdents allocates and keeps
    Ops            \* the operations that happen in this instance

START_FD == 3
Fds  == START_FD..(MAX_FILE_NUM - 1)
Root == << >>
NoName == <<"">>      \* the empty string

ASSUME OpsAssumption ==
    Ops \subseteq {"open", "read", "close", "getdents", "chdir", "fork", "exec"}
ASSUME BlockAssumption == BLOCK \in Nat \ {0}
ASSUME ProgramsAssumption ==
    /\ Paths \subseteq Seq(STRING) /\ ReadSizes \subseteq Nat
    /\ Procs # {} /\ MaxPages \in Nat /\ MAX_FILE_NUM \in Nat

Headers == [path : Seq(STRING), dir : BOOLEAN, size : Nat, interp : Seq(STRING)]

\* tar writes a directory before what is in it, and everything once, by a name.
\* The interpreter of a script is not a script.
ASSUME ArchivesAssumption ==
    \A a \in Archives : a \in Seq(Headers) /\ \A i \in DOMAIN a :
        /\ a[i].path # Root /\ a[i].path # NoName
        /\ \A j \in DOMAIN a : a[j].path = a[i].interp => a[j].interp = NoName
        /\ \A j \in DOMAIN a : a[i].path = a[j].path => i = j
        /\ Len(a[i].path) > 1 =>
              \E j \in 1..(i - 1) : a[j].dir /\ a[j].path = Front(a[i].path)

VARIABLES
    tar,         \* the archive: its headers in order
    alive,       \* the processes that exist
    file_array,  \* file_array[p][fd]
    cwd,         \* cwd[p]
    kpages,      \* kernel pages getdents has not given back
    stuck,       \* a failed assert spins for ever, with interrupts off
    held,        \* what the program did: its open fds, with the path
    listed       \* what getdents told it about each fd: headers, and the end

vars == <<tar, alive, file_array, cwd, kpages, stuck, held, listed>>

\* ROUND_TO_512
Pad(n) == ((n + BLOCK - 1) \div BLOCK) * BLOCK

\* The zeroed slot of a new task_struct.  FT_DIR is 0, so it is a directory's.
FreeSlot == [free |-> 0, type |-> "FT_DIR", name |-> NoName, start |-> 0, size |-> 0, pos |-> 0]
Unlisted == [found |-> << >>, end |-> FALSE]
NotHeld  == [open |-> FALSE, own |-> FALSE, path |-> Root]

Init ==
    /\ tar \in Archives
    /\ alive = {CHOOSE p \in Procs : TRUE}
    /\ file_array = [p \in Procs |-> [fd \in Fds |-> FreeSlot]]
    /\ cwd = [p \in Procs |-> Root]
    /\ kpages = 0
    /\ stuck = FALSE
    /\ held = [p \in Procs |-> [fd \in Fds |-> NotHeld]]
    /\ listed = [p \in Procs |-> [fd \in Fds |-> Unlisted]]

Runs(p, op) == ~stuck /\ p \in alive /\ op \in Ops

Stuck == stuck' = TRUE /\ UNCHANGED <<tar, alive, file_array, cwd, kpages, held, listed>>

(***************************************************************************)
(* tarfs.c                                                                 *)
(***************************************************************************)
\* traverse_tarfs with strcmp: the header of a path, in a set of at most one.
Lookup(path) ==
    {i \in DOMAIN tar : /\ tar[i].path = path
                        /\ \A j \in 1..(i - 1) : tar[j].path # path}

\* Mutant: belongs_to_dir accepts everything below the directory.
BelongsToDirDeep(dir, path) == IF dir = NoName THEN FALSE ELSE IsPrefix(dir, path)

\* belongs_to_dir: dir/bla and dir/bla/ but not dir/bla/blabla.  A directory
\* belongs to itself.  The empty name, for which traverse_tarfs looks at the
\* byte before the string, matches nothing or passes for the root.
BelongsToDir(dir, path) ==
    IF dir = Root THEN Len(path) = 1
    ELSE dir # NoName /\ IsPrefix(dir, path) /\ Len(path) <= Len(dir) + 1

RootDirectory(i) == tar[i].dir /\ Len(tar[i].path) = 1

\* traverse_tarfs with belongs_to_dir, from header start on.
FirstIn(start, S) == {i \in S : i >= start /\ \A j \in S : j >= start => i <= j}

NextEntry(slot) ==
    FirstIn(slot.start + slot.pos, {i \in DOMAIN tar : BelongsToDir(slot.name, tar[i].path)})

\* Mutant: tarfs_open takes the first slot, free or not.
NewFdAnySlot(p) == {START_FD}

\* tarfs_open: the first free slot, in a set of at most one.
NewFd(p) == FirstIn(START_FD, {fd \in Fds : file_array[p][fd].free = 0})

\* The slot that tarfs_open fills.  A directory starts at the header after its
\* own; the root starts at the first.
Opened(path) ==
    IF path = Root
    THEN [free |-> 1, type |-> "FT_DIR", name |-> Root, start |-> 1, size |-> 0, pos |-> 0]
    ELSE LET i == CHOOSE i \in Lookup(path) : TRUE IN
         IF tar[i].dir
         THEN [free |-> 1, type |-> "FT_DIR", name |-> path, start |-> i + 1, size |-> 0, pos |-> 0]
         ELSE [free |-> 1, type |-> "FT_FILE", name |-> path, start |-> i,
               size |-> Pad(tar[i].size), pos |-> 0]

Exists(path) == path = Root \/ Lookup(path) # {}

\* The part of exit_st that matters here: the process is gone.
ExitSt(p) ==
    /\ alive' = alive \ {p}
    /\ UNCHANGED <<tar, file_array, cwd, kpages, stuck, held, listed>>

(***************************************************************************)
(* The system calls                                                        *)
(***************************************************************************)
Open(p, path) ==
    /\ Runs(p, "open")
    /\ Exists(path)
    /\ \/ \E fd \in NewFd(p) :
            /\ file_array' = [file_array EXCEPT ![p][fd] = Opened(path)]
            /\ held' = [held EXCEPT ![p][fd] = [open |-> TRUE, own |-> TRUE, path |-> path]]
            /\ listed' = [listed EXCEPT ![p][fd] = Unlisted]
            /\ UNCHANGED <<tar, alive, cwd, kpages, stuck>>
       \/ NewFd(p) = {} /\ ExitSt(p)

\* Mutant: the read position moves by what was asked for.
ReadAmountUncut(slot, size) == size

\* How much a read hands out: up to the padded size of the file.
ReadAmount(slot, size) ==
    IF slot.pos + size <= slot.size THEN size ELSE slot.size - slot.pos

Read(p, fd, size) ==
    LET slot == file_array[p][fd] IN
    /\ Runs(p, "read")
    /\ held[p][fd].open
    /\ \/ slot.type # "FT_FILE" /\ Stuck
       \/ /\ slot.type = "FT_FILE"
          /\ slot.pos # slot.size
          /\ file_array' = [file_array EXCEPT ![p][fd].pos = @ + ReadAmount(slot, size)]
          /\ UNCHANGED <<tar, alive, cwd, kpages, stuck, held, listed>>

\* close: tarfs_close hands zero_tarfs_file_entry a copy of the slot.
Close(p, fd) ==
    /\ Runs(p, "close")
    /\ held[p][fd].open
    /\ held' = [held EXCEPT ![p][fd] = NotHeld]
    /\ UNCHANGED <<tar, alive, file_array, cwd, kpages, stuck, listed>>

\* The new position: the header behind the one found and its content.
AfterEntry(slot, i) == i + 1 - slot.start

\* getdents: the next entry of a directory, or the end, where kbuf is kept.
Getdents(p, fd) ==
    LET slot == file_array[p][fd]
        Found(i) ==
            /\ file_array' = [file_array EXCEPT ![p][fd].pos = AfterEntry(slot, i)]
            /\ listed' = [listed EXCEPT ![p][fd].found = Append(@, i)]
            /\ UNCHANGED <<tar, alive, cwd, kpages, stuck, held>>
        End ==
            /\ kpages < MaxPages
            /\ kpages' = kpages + 1
            /\ listed' = [listed EXCEPT ![p][fd].end = TRUE]
            /\ UNCHANGED <<tar, alive, file_array, cwd, stuck, held>>
    IN
    /\ Runs(p, "getdents")
    /\ held[p][fd].open
    /\ \/ slot.type # "FT_DIR" /\ Stuck
       \/ /\ slot.type = "FT_DIR"
          /\ \/ \E i \in NextEntry(slot) : Found(i)
             \/ NextEntry(slot) = {} /\ End
             \/ /\ slot.name = NoName
                /\ \E i \in FirstIn(slot.start + slot.pos, {j \in DOMAIN tar : RootDirectory(j)}) :
                      Found(i)

\* chdir: a path that ends in "/.." goes to the parent; then the path is
\* opened, its name becomes the cwd, and the slot stays taken.
Parent(path) == IF path = Root THEN Root ELSE Front(path)

Chdir(p, path, up) ==
    LET to == IF up THEN Parent(path) ELSE path IN
    /\ Runs(p, "chdir")
    /\ Exists(to)
    /\ \/ \E fd \in NewFd(p) :
            /\ file_array' = [file_array EXCEPT ![p][fd] = Opened(to)]
            /\ cwd' = [cwd EXCEPT ![p] = to]
            /\ UNCHANGED <<tar, alive, kpages, stuck, held, listed>>
       \/ NewFd(p) = {} /\ ExitSt(p)

\* The slots that are left when fd is taken.
FreeAfter(p, fd) == FirstIn(fd + 1, {g \in Fds : file_array[p][g].free = 0})

\* A missing program or interpreter, or a full table, ends the caller.
ExecFails(p, path) ==
    \/ ~Exists(path)
    \/ NewFd(p) = {}
    \/ \E i \in Lookup(path), fd \in NewFd(p) :
          tar[i].interp # NoName /\ (~Exists(tar[i].interp) \/ FreeAfter(p, fd) = {})

\* exec opens the program, and for a script ("#!") its interpreter too, and
\* never closes them.  Programs do not execute a directory.
Exec(p, path) ==
    /\ Runs(p, "exec")
    /\ \/ /\ ~ExecFails(p, path)
          /\ \E i \in Lookup(path), fd \in NewFd(p) :
               /\ ~tar[i].dir
               /\ \/ /\ tar[i].interp = NoName
                     /\ file_array' = [file_array EXCEPT ![p][fd] = Opened(path)]
                  \/ \E fd2 \in FreeAfter(p, fd) :
                        /\ tar[i].interp # NoName
                        /\ file_array' = [file_array EXCEPT ![p][fd] = Opened(path),
                                                            ![p][fd2] = Opened(tar[i].interp)]
          /\ UNCHANGED <<tar, alive, cwd, kpages, stuck, held, listed>>
       \/ ExecFails(p, path) /\ ExitSt(p)

\* copy_file_array: neither the name nor the type of a file is copied.
Inherited(slot) ==
    IF slot.free = 0 THEN FreeSlot
    ELSE [slot EXCEPT !.name = NoName, !.type = "FT_DIR"]

Fork(p, c) ==
    /\ Runs(p, "fork")
    /\ c \notin alive /\ cwd[c] = Root /\ file_array[c] = [fd \in Fds |-> FreeSlot]
    /\ alive' = alive \cup {c}
    /\ file_array' = [file_array EXCEPT ![c] = [fd \in Fds |-> Inherited(file_array[p][fd])]]
    /\ cwd' = [cwd EXCEPT ![c] = cwd[p]]
    /\ held' = [held EXCEPT ![c] = [fd \in Fds |-> [held[p][fd] EXCEPT !.own = FALSE]]]
    /\ UNCHANGED <<tar, kpages, stuck, listed>>

Next ==
    \E p \in Procs :
        \/ \E path \in Paths :
              \/ Open(p, path)
              \/ Exec(p, path)
              \/ \E up \in BOOLEAN : Chdir(p, path, up)
        \/ \E fd \in Fds :
              \/ Close(p, fd)
              \/ Getdents(p, fd)
              \/ \E size \in ReadSizes : Read(p, fd, size)
        \/ \E c \in Procs : Fork(p, c)

Spec == Init /\ [][Next]_vars

(***************************************************************************)
(* Correctness                                                             *)
(***************************************************************************)
\* Every variable has its type, and the position of a file never leaves its
\* padded content, so that no read copies from the next header.
TypeOK ==
    /\ alive \subseteq Procs
    /\ \A p \in Procs, fd \in Fds :
          LET slot == file_array[p][fd] IN
          /\ slot.free \in 0..1 /\ slot.type \in {"FT_DIR", "FT_FILE"}
          /\ slot.start \in 0..(Len(tar) + 1) /\ slot.pos \in Nat
          /\ slot.size \in Nat /\ slot.size % BLOCK = 0
          /\ slot.type = "FT_FILE" => slot.pos <= slot.size
    /\ kpages \in 0..MaxPages
    /\ stuck \in BOOLEAN

\* What a listing should name: the headers of the directory's entries.
EntriesOf(dir) == {i \in DOMAIN tar : tar[i].path # Root /\ Front(tar[i].path) = dir}

\* getdents, traverse_tarfs and belongs_to_dir: for every archive, a listing
\* names the entries of its directory in order, none twice, none skipped and
\* none of another directory, and when it ends it has named them all, however
\* calls on other descriptors, forks and closes come in between.
ListingIsExact ==
    \A p \in Procs, fd \in Fds :
        LET found == listed[p][fd].found
            entries == EntriesOf(held[p][fd].path)
        IN
        held[p][fd].open /\ held[p][fd].own =>
            /\ \A k \in DOMAIN found :
                  found[k] \in entries /\ \A l \in 1..(k - 1) : found[l] < found[k]
            /\ \A i \in entries :
                  listed[p][fd].end \/ (\E k \in DOMAIN found : i < found[k])
                      => \E k \in DOMAIN found : found[k] = i

\* A slot is still the one tarfs_open filled for path.
IsSlotOf(slot, path) ==
    slot.free = 1 /\ slot.start = Opened(path).start /\ slot.size = Opened(path).size

\* tarfs_open: a descriptor that its process opened keeps file, name and type,
\* whatever open, chdir and exec do with a table that fills up.  One that came
\* through fork keeps the place in the archive and the size, and nothing else:
\* for the child every file is a directory without a name.
HeldFdsKeepTheirFile ==
    \A p \in Procs, fd \in Fds :
        LET slot == file_array[p][fd]
            h == held[p][fd]
        IN
        h.open =>
            /\ IsSlotOf(slot, h.path)
            /\ h.own => slot.name = h.path /\ slot.type = Opened(h.path).type
            /\ ~h.own => slot.name = NoName /\ slot.type = "FT_DIR"
=============================================================================
