--------------------------- MODULE ContextSwitch ---------------------------
(***************************************************************************)
(* Kernel stacks of PLUM_OS: who runs on which stack, and where the next   *)
(* entry into the kernel will start.  Three words decide that: rsp,        *)
(* tss.rsp0 (interrupts and faults of user code) and the kernel_stack of   *)
(* current (system calls, and the stack pointer of a task that is switched *)
(* away).  They are written by schedule(), __switch_to, __syscall_handler, *)
(* ret_from_fork and exec.                                                 *)
(*                                                                         *)
(* A stack is the sequence of its frames in use, each with the depth of    *)
(* its end below the top of the page, in words.  Which task schedule()     *)
(* picks is left open: the lists are the matter of module Process.         *)
(* Interrupts that end without a switch leave no trace and are left out,   *)
(* and so is the part of a stack below rsp.                                *)
(***************************************************************************)
EXTENDS Naturals, Sequences, FiniteSets

CONSTANTS
    KThreads,     \* the threads start() makes, the running one included
    Users,        \* tasks that kernel_thread(run_init_process) and fork make
    Boot,         \* the task of start() itself, on the boot stack
    STACK,        \* words of a kernel stack (512)
    SizeOf,       \* words of each kind of frame
    MaxDepth,     \* bound: how deep a tick may take a stack
    MaxTicks,     \* bound: interrupts that are nested on one stack
    MaxNest       \* bound: frames on a stack when schedule() kills a task

Tasks == KThreads \cup Users
Kinds == {"sc", "irq", "trap", "sched", "ret", "ctx", "exec"}

ASSUME TasksAssumption == KThreads \cap Users = {} /\ Boot \in KThreads
ASSUME BoundsAssumption == STACK \in Nat /\ MaxDepth \in Nat /\ MaxTicks \in Nat /\ MaxNest \in Nat
ASSUME SizeAssumption == SizeOf \in [Kinds -> Nat] /\ SizeOf["ctx"] > 0

VARIABLES
    life,          \* none, kernel, user, zombie
    frames,        \* frames[t]: the frames in use on t's kernel stack
    kernel_stack,  \* depth, in the task's own stack
    rsp0,          \* tss.rsp0: whose stack, and the depth
    current,
    onstack,       \* the task whose stack rsp is in, or was in last
    intr,          \* interrupts are on
    preempted,     \* the task was switched away outside a system call
    fault          \* a tick struck where the kernel cannot bear it

vars == <<life, frames, kernel_stack, rsp0, current, onstack, intr, preempted, fault>>

-----------------------------------------------------------------------------
(* Stacks *)

DepthOf(s) == IF s = << >> THEN 0 ELSE s[Len(s)].at
TopKind(s) == IF s = << >> THEN "none" ELSE s[Len(s)].kind
Pop(s) == SubSeq(s, 1, Len(s) - 1)
PushAt(s, kind, at) == Append(s, [kind |-> kind, at |-> at + SizeOf[kind]])
Push(s, kind) == PushAt(s, kind, DepthOf(s))
Ticks(s) == {i \in DOMAIN s : s[i].kind = "irq"}

\* What kernel_thread builds on a new stack: f, and a context to pop.
NewThread == Push(Push(<< >>, "ret"), "ctx")

\* What fork builds: the father's sc_frame, ret_from_fork and a context.
Child == Push(Push(Push(<< >>, "sc"), "ret"), "ctx")

\* start() before its first schedule(): the boot stack, interrupts off.
Init ==
    /\ life = [t \in Tasks |-> IF t \in KThreads THEN "kernel" ELSE "none"]
    /\ frames = [t \in Tasks |-> IF t \in KThreads \ {Boot} THEN NewThread ELSE << >>]
    /\ kernel_stack = [t \in Tasks |-> DepthOf(frames[t])]
    /\ rsp0 = [of |-> Boot, at |-> 0]
    /\ current = Boot
    /\ onstack = Boot
    /\ intr = FALSE
    /\ preempted = [t \in Tasks |-> FALSE]
    /\ fault = "none"

-----------------------------------------------------------------------------
(* Where the processor is *)

\* The task that runs, outside the window between current = next and the switch.
Runs(t) == fault = "none" /\ current = t /\ onstack = t

InUser(t) == life[t] = "user" /\ frames[t] = << >>
At(t, kind) == Runs(t) /\ TopKind(frames[t]) = kind

\* Kernel code proper: a system call, or the loop of a kernel thread.
InKernel(t) == Runs(t) /\ (TopKind(frames[t]) = "sc" \/ (life[t] = "kernel" /\ frames[t] = << >>))

SetFrames(t, s) == frames' = [frames EXCEPT ![t] = s]

-----------------------------------------------------------------------------
(* Ways into the kernel and back *)

\* The processor switches to tss.rsp0 for an interrupt or a fault of user code.
FromUser(t, kind) ==
    /\ Runs(t) /\ InUser(t)
    /\ SetFrames(t, PushAt(<< >>, kind, rsp0.at))
    /\ UNCHANGED <<life, kernel_stack, rsp0, current, onstack, preempted, fault>>

\* The bound on depth, for a tick that takes the processor away.
TickFits(at) == at + SizeOf["irq"] + SizeOf["sched"] + SizeOf["ctx"] <= MaxDepth

\* _isr_wrapper_timer at the end of a time slice of user code.
TickInUser(t) ==
    /\ TickFits(rsp0.at)
    /\ FromUser(t, "irq")
    /\ intr' = FALSE

\* _isr_wrapper_timer in kernel code that runs with interrupts on: same stack.
TickInKernel(t) ==
    /\ Runs(t) /\ intr /\ ~InUser(t)
    /\ Cardinality(Ticks(frames[t])) < MaxTicks /\ TickFits(DepthOf(frames[t]))
    /\ SetFrames(t, Push(frames[t], "irq"))
    /\ intr' = FALSE
    /\ UNCHANGED <<life, kernel_stack, rsp0, current, onstack, preempted, fault>>

\* A fault of user code (a fault of the kernel panics).  Gate 14 is a trap gate:
\* interrupts stay on until ...
PageFault(t) == FromUser(t, "trap") /\ UNCHANGED intr

\* ... the cli of _page_fault_handler.
PageFaultCli(t) ==
    /\ At(t, "trap") /\ intr
    /\ intr' = FALSE
    /\ UNCHANGED <<life, frames, kernel_stack, rsp0, current, onstack, preempted, fault>>

\* sti; iretq
Iret(t) ==
    /\ At(t, "irq") \/ (At(t, "trap") /\ ~intr)
    /\ SetFrames(t, Pop(frames[t]))
    /\ intr' = TRUE
    /\ UNCHANGED <<life, kernel_stack, rsp0, current, onstack, preempted, fault>>

\* __syscall_handler up to the call: rsp comes from current->kernel_stack.
SyscallEnter(t) ==
    /\ Runs(t) /\ InUser(t)
    /\ SetFrames(t, PushAt(<< >>, "sc", kernel_stack[t]))
    /\ intr' = FALSE
    /\ UNCHANGED <<life, kernel_stack, rsp0, current, onstack, preempted, fault>>

\* Mutant: one register more is popped than __syscall_handler has pushed.
SyscallReturnPopsMore(t) ==
    /\ At(t, "sc")
    /\ SetFrames(t, Pop(frames[t]))
    /\ kernel_stack' = [kernel_stack EXCEPT ![t] = DepthOf(frames[t]) - SizeOf["sc"] - 1]
    /\ intr' = TRUE
    /\ UNCHANGED <<life, rsp0, current, onstack, preempted, fault>>

\* Mutant: kernel_stack keeps what sleeping in the call has stored there.
SyscallReturnKept(t) ==
    /\ At(t, "sc")
    /\ SetFrames(t, Pop(frames[t]))
    /\ intr' = TRUE
    /\ UNCHANGED <<life, kernel_stack, rsp0, current, onstack, preempted, fault>>

\* The rest of __syscall_handler, and ret_from_fork: rsp goes to kernel_stack.
SyscallReturn(t) ==
    /\ At(t, "sc")
    /\ SetFrames(t, Pop(frames[t]))
    /\ kernel_stack' = [kernel_stack EXCEPT ![t] = DepthOf(frames[t]) - SizeOf["sc"]]
    /\ intr' = TRUE
    /\ UNCHANGED <<life, rsp0, current, onstack, preempted, fault>>

\* A time slice ends in ring 0 with the user's rsp: before the cli of
\* __syscall_handler, or at its end when the call has slept and interrupts are
\* on.  The processor stays on the user's stack, and __switch_to makes that
\* stack the task's kernel_stack.
TickOnUserStack(t) ==
    /\ Runs(t) /\ life[t] = "user"
    /\ InUser(t) \/ (TopKind(frames[t]) = "sc" /\ intr)
    /\ fault' = "user stack"
    /\ UNCHANGED <<life, frames, kernel_stack, rsp0, current, onstack, intr, preempted>>

-----------------------------------------------------------------------------
(* schedule() *)

\* Called at the end of a slice, by sleep(), by exit_st and by start().
CallSchedule(t) ==
    /\ InKernel(t) \/ At(t, "irq")
    /\ SetFrames(t, Push(frames[t], "sched"))
    /\ UNCHANGED <<life, kernel_stack, rsp0, current, onstack, intr, preempted, fault>>

\* if(next == me) return
ScheduleStay(t) ==
    /\ At(t, "sched") /\ life[t] # "zombie"
    /\ SetFrames(t, Pop(frames[t]))
    /\ UNCHANGED <<life, kernel_stack, rsp0, current, onstack, intr, preempted, fault>>

\* current = next; tss.rsp0 = next->kernel_stack
SchedulePicks(t, next) ==
    /\ At(t, "sched")
    /\ next # t /\ life[next] \in {"kernel", "user"}
    /\ current' = next
    /\ rsp0' = [of |-> next, at |-> kernel_stack[next]]
    /\ UNCHANGED <<life, frames, kernel_stack, onstack, intr, preempted, fault>>

\* schedule() was called with interrupts on and a slice ends in the window:
\* the handler's schedule() saves this stack as that of next.
TickInWindow ==
    /\ fault = "none" /\ current # onstack /\ intr
    /\ fault' = "window"
    /\ UNCHANGED <<life, frames, kernel_stack, rsp0, current, onstack, intr, preempted>>

\* Mutant: the stack pointer is saved before the registers are pushed.
SavedEarly(s) == DepthOf(s)

\* What __switch_to stores in me->kernel_stack.
Saved(s) == DepthOf(Push(s, "ctx"))

\* No system call will put kernel_stack back: the switch interrupts user code,
\* a fault of user code, or exec after it has set kernel_stack.
LosesStack(s) ==
    \/ \A i \in DOMAIN s : s[i].kind # "sc"
    \/ \E i \in DOMAIN s : s[i].kind = "exec"

\* __switch_to: push the context, swap stacks, pop the context, return from
\* schedule() or into a new task; sti.
SwitchTo ==
    /\ fault = "none" /\ current # onstack
    /\ frames' = [frames EXCEPT ![onstack] = Push(@, "ctx"), ![current] = Pop(Pop(@))]
    /\ kernel_stack' = [kernel_stack EXCEPT ![onstack] = Saved(frames[onstack])]
    /\ preempted' = [preempted EXCEPT ![onstack] = @ \/ LosesStack(frames[onstack])]
    /\ onstack' = current
    /\ intr' = TRUE
    /\ UNCHANGED <<life, rsp0, current, fault>>

-----------------------------------------------------------------------------
(* Tasks come and go *)

\* kernel_thread(run_init_process, _), by the loop of start().
SpawnShell(t) ==
    /\ InKernel(Boot)
    /\ life[t] = "none" /\ t \in Users
    /\ life' = [life EXCEPT ![t] = "kernel"]
    /\ SetFrames(t, NewThread)
    /\ kernel_stack' = [kernel_stack EXCEPT ![t] = DepthOf(NewThread)]
    /\ preempted' = [preempted EXCEPT ![t] = FALSE]
    /\ UNCHANGED <<rsp0, current, onstack, intr, fault>>

\* kernel_stack of a child.
ForkDepth == DepthOf(Child)

Fork(t, child) ==
    /\ At(t, "sc") /\ ~intr
    /\ life[child] = "none" /\ child \in Users
    /\ life' = [life EXCEPT ![child] = "user"]
    /\ SetFrames(child, Child)
    /\ kernel_stack' = [kernel_stack EXCEPT ![child] = ForkDepth]
    /\ preempted' = [preempted EXCEPT ![child] = FALSE]
    /\ UNCHANGED <<rsp0, current, onstack, intr, fault>>

\* exec, from run_init_process or execve: a fresh page for future entries,
\* while the code still runs on the old one ...
ExecStack(t) ==
    /\ t \in Users
    /\ \/ At(t, "sc") /\ ~intr
       \/ life[t] = "kernel" /\ InKernel(t)
    /\ SetFrames(t, Push(frames[t], "exec"))
    /\ kernel_stack' = [kernel_stack EXCEPT ![t] = 0]
    /\ rsp0' = [of |-> t, at |-> 0]
    /\ preempted' = [preempted EXCEPT ![t] = FALSE]
    /\ UNCHANGED <<life, current, onstack, intr, fault>>

\* ... until __ret_to_user.
RetToUser(t) ==
    /\ At(t, "exec")
    /\ life' = [life EXCEPT ![t] = "user"]
    /\ SetFrames(t, << >>)
    /\ intr' = TRUE
    /\ UNCHANGED <<kernel_stack, rsp0, current, onstack, preempted, fault>>

\* exit_st(current): its schedule() does not come back.
ExitSt(t) ==
    /\ t \in Users
    /\ At(t, "sc") \/ (At(t, "trap") /\ ~intr) \/ (life[t] = "kernel" /\ InKernel(t))
    /\ life' = [life EXCEPT ![t] = "zombie"]
    /\ SetFrames(t, Push(frames[t], "sched"))
    /\ UNCHANGED <<kernel_stack, rsp0, current, onstack, intr, preempted, fault>>

\* exit_st(next) in the loop of schedule(), for a task with sigterm, which may
\* be current: a schedule() inside schedule().
KillNext(t, next) ==
    /\ At(t, "sched")
    /\ next \in Users /\ life[next] \in {"kernel", "user"} /\ frames[next] # NewThread
    /\ Len(frames[t]) < MaxNest
    /\ life' = [life EXCEPT ![next] = "zombie"]
    /\ SetFrames(t, Push(frames[t], "sched"))
    /\ UNCHANGED <<kernel_stack, rsp0, current, onstack, intr, preempted, fault>>

\* free_process, by waitpid or thread_clear: frees the page that kernel_stack
\* points into.
FreeProcess(t, z) ==
    /\ InKernel(t)
    /\ life[z] = "zombie"
    /\ life' = [life EXCEPT ![z] = "none"]
    /\ SetFrames(z, << >>)
    /\ UNCHANGED <<kernel_stack, rsp0, current, onstack, intr, preempted, fault>>

Halted == fault # "none" /\ UNCHANGED vars

Next ==
    \/ \E t \in Tasks :
        \/ TickInUser(t) \/ TickInKernel(t) \/ PageFault(t) \/ PageFaultCli(t) \/ Iret(t)
        \/ SyscallEnter(t) \/ SyscallReturn(t) \/ TickOnUserStack(t)
        \/ CallSchedule(t) \/ ScheduleStay(t)
        \/ \E next \in Tasks : SchedulePicks(t, next) \/ KillNext(t, next)
        \/ SpawnShell(t)
        \/ \E child \in Tasks : Fork(t, child)
        \/ ExecStack(t) \/ RetToUser(t) \/ ExitSt(t)
        \/ \E z \in Tasks : FreeProcess(t, z)
    \/ TickInWindow
    \/ SwitchTo
    \/ Halted

Spec == Init /\ [][Next]_vars

-----------------------------------------------------------------------------
(* Properties *)

Frame == [kind : Kinds, at : Nat]

\* Every variable has its type: lives, stacks of frames, depths, tasks.
TypeOK ==
    /\ life \in [Tasks -> {"none", "kernel", "user", "zombie"}]
    /\ frames \in [Tasks -> Seq(Frame)]
    /\ kernel_stack \in [Tasks -> Nat]
    /\ rsp0 \in [of : Tasks, at : Nat]
    /\ current \in Tasks /\ onstack \in Tasks
    /\ intr \in BOOLEAN
    /\ preempted \in [Tasks -> BOOLEAN]
    /\ fault \in {"none", "window", "user stack"}

\* As long as no tick strikes in a window, every task that is not running can
\* be resumed: kernel_stack points at the context that __switch_to or the
\* maker of the task has put on top of its stack, and below it is the return
\* into schedule(), the thread's function or ret_from_fork.  This holds of
\* zombies too, so that free_process frees the page of their own stack.
SuspendedIsResumable ==
    fault = "none" =>
        \A t \in Tasks \ {onstack} :
            life[t] # "none" =>
                /\ TopKind(frames[t]) = "ctx"
                /\ TopKind(Pop(frames[t])) \in {"sched", "ret"}
                /\ kernel_stack[t] = DepthOf(frames[t]) /\ kernel_stack[t] > 0

\* A program that runs its own code enters the kernel on its own stack,
\* whatever schedule(), exec and kills inside schedule() did before: tss.rsp0 is
\* in it.  And if the program has lost the processor only inside system calls
\* its stack is empty: the return paths of __syscall_handler and ret_from_fork
\* give back all that sleeping in the call has used.
SyscallsGiveStackBack ==
    \A t \in Tasks :
        Runs(t) /\ InUser(t) =>
            /\ rsp0.of = t
            /\ ~preempted[t] => kernel_stack[t] = 0
=============================================================================
