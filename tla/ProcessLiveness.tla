-------------------------- MODULE ProcessLiveness --------------------------
(***************************************************************************)
(* What must eventually happen, under the fairness the hardware and the    *)
(* timer give: schedule() runs to its end, the timer keeps ticking, and a  *)
(* task that gets the processor again and again makes progress in kernel   *)
(* code (a time slice is ten ticks, interrupt_handler_timer).  Programs    *)
(* owe nothing: a program may compute forever and never call the kernel.   *)
(***************************************************************************)
EXTENDS Process

Fairness ==
    /\ WF_vars(Schedule)
    /\ WF_vars(TimerTick)
    /\ \A p \in Pids : SF_vars(KernelCode(p))
    /\ SF_vars(InitLoop)
    /\ SF_vars(Collector)

FairSpec == Spec /\ Fairness

\* From some moment on nobody presses Enter.
KeyboardFallsSilent == <>[][~KbdEnter]_vars

Halted == fault # "none"

\* Every task on the active list gets the processor, or leaves the list
\* (killed, or removed by its own sleep).
EveryActiveTaskRuns ==
    \A p \in Pids : On(task_headp, p) ~> (current = p \/ ~On(task_headp, p) \/ Halted)

\* select_task_struct skips the head of the list whenever the task before it
\* has gone to sleep, but unless wakeups from the keyboard go on forever the
\* round robin still reaches every active task.
SilentKeyboardRoundRobin == KeyboardFallsSilent => EveryActiveTaskRuns

\* The child of a program in waitpid has exited.
ChildIsDead(p) == pc[p] = "reap" /\ child[p] # NoPid /\ Dead(child[p])

\* Once the child it waits for has exited, a program in waitpid is woken, gets
\* the processor, frees the child and returns, unless it is killed, and unless
\* wakeups from the keyboard go on forever (they can starve it: it may be the
\* head of the list that select_task_struct skips).
WaiterReturns ==
    KeyboardFallsSilent =>
        \A p \in Users : ChildIsDead(p) ~> (pc[p] # "reap" \/ Dead(p) \/ Halted)
=============================================================================
