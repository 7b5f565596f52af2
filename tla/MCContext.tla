----------------------------- MODULE MCContext -----------------------------
(* Word counts of the frames, as the assembly pushes them.                   *)
EXTENDS ContextSwitch, TLC

\* irq: 5 words by the processor, 15 registers, the call; trap: an error code
\* more; sched: the calls of schedule() and __switch_to; ctx: 16 registers;
\* sc: 13 registers and the call; exec runs in the frame it is called from.
WordsOf ==
    "irq" :> 21 @@ "trap" :> 22 @@ "sched" :> 2 @@ "ctx" :> 16
        @@ "sc" :> 14 @@ "ret" :> 1 @@ "exec" :> 0

\* The programs are alike.
Symmetry == Permutations(Users)

\* exec's comment on the stack it makes (process.c:456): "when we fall back to
\* kernel, we should be at the top of the stack", so that no entry of a program
\* into the kernel leaves that page.  But __switch_to stores the depth it saves
\* at in kernel_stack, schedule() copies it to tss.rsp0, and nothing puts it back
\* when the interrupt that took the processor away returns to user code.
ClaimStackHolds ==
    \A t \in Users : life[t] = "user" => DepthOf(frames[t]) <= STACK
=============================================================================
