--------------------------- MODULE ProcessClaims ---------------------------
(***************************************************************************)
(* What a comment of the repository says about processes and the code does *)
(* not keep.  The run that checks it ends in a counterexample.             *)
(***************************************************************************)
EXTENDS ProcessLiveness

\* syscall.c:954, waitpid: "set child, hope it will wait me up".  The init
\* loop runs waitpid with interrupts on, so the shell can exit between the
\* search and the sleep and nobody is left to wake init.
ClaimInitIsWoken ==
    fault = "none" /\ On(sleep_task_list, INIT) => ~Dead(child[INIT])
=============================================================================
