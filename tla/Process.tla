------------------------------ MODULE Process ------------------------------
(***************************************************************************)
(* The process life cycle of PLUM_OS: the scheduler, sleep and wakeup,     *)
(* fork, waitpid, exit, kill, the blocking read of stdin, the init loop of *)
(* main.c and the zombie collector, on one processor.                      *)
(*                                                                         *)
(* Interrupts.  A system call runs with interrupts off (entry.s: cli ...   *)
(* sti; sysret) until it switches away; __switch_to ends with sti, so      *)
(* whatever kernel code a task resumes into runs with interrupts ON.       *)
(* System calls are therefore single steps, and the code that runs after a *)
(* switch (the tail of waitpid, the loop of read) and all kernel threads   *)
(* are cut into steps between which the timer and the keyboard may strike. *)
(* One C list operation, and one pass of schedule(), is one step.          *)
(*                                                                         *)
(* Tasks are named by their pids, which are never reused.                  *)
(***************************************************************************)
EXTENDS Naturals, Sequences, FiniteSets, TaskLists

CONSTANTS
    MaxPid,       \* bound: the last pid that fork and kernel_thread hand out
    ZombieLimit,  \* zombie_count at which exit_st wakes clear_zombie (50)
    WaitAny,      \* may a program wait for a pid that is not its child?
    Inputs        \* the system calls programs make and the keys that are typed

ASSUME MaxPidAssumption == MaxPid \in Nat /\ MaxPid >= 3
ASSUME ZombieLimitAssumption == ZombieLimit \in Nat \ {0}
ASSUME WaitAnyAssumption == WaitAny \in BOOLEAN
ASSUME InputsAssumption ==
    Inputs \subseteq {"fork", "wait", "read", "kill", "exit", "enter", "ctrl-c"}

INIT  == 0    \* main.c: start(), the loop that restarts the shell
IDLE  == 1    \* thread_idle
CLEAR == 2    \* thread_clear, the zombie collector
FirstShell == 3
Pids   == 0..MaxPid
Users  == FirstShell..MaxPid
NoPid  == MaxPid + 1
States == {"none", "NEW", "ACTIVE", "SLEEP", "ZOMBIE", "FREED"}
Pcs    == {"none", "idle", "exec", "user", "read", "sleep1", "sleep2", "sleep3",
           "find1", "find2", "find3", "mark", "reap", "spawn", "yield",
           "sweep", "visit", "reset"}
\* What can go wrong, by the operation in which it does: a list removal that
\* runs off its list (in exit_st, sleep, free_process, and the two wakeups of
\* exit_st), the assertions of free_process, and uses of a freed task_struct.
Faults == {"none", "exit", "sleep", "free", "wake father", "wake clear",
           "assert", "stale free", "stale mark", "stale sweep"}

VARIABLES
    \* task_struct, one function per field
    state, ppid, waited, orphan, sigterm, mm,
    \* the four lists
    task_headp, sleep_task_list, wait_stdin_list, zombie_list,
    \* the processor: who runs, in schedule() or not, exit_st frames that
    \* schedule() has stacked up, interrupts enabled
    current, cpu, depth, intr,
    \* per task: where its kernel code stands, the outer schedule() calls it
    \* returns into when it is resumed, the child it waits for
    pc, frames, child,
    \* p of thread_clear
    cp,
    zombie_count, pid_count, stdin_buf_state,
    \* how the kernel went wrong; it stops there
    fault

fields  == <<state, ppid, waited, orphan, sigterm, mm>>
lists   == <<task_headp, sleep_task_list, wait_stdin_list, zombie_list>>
control == <<current, cpu, depth, intr, frames>>
locals  == <<pc, child, cp>>
globals == <<zombie_count, pid_count, stdin_buf_state>>
vars == <<fields, lists, control, locals, globals, fault>>

TypeOK ==
    /\ state \in [Pids -> States]
    /\ ppid \in [Pids -> Pids]
    /\ waited \in [Pids -> BOOLEAN]
    /\ orphan \in [Pids -> BOOLEAN]
    /\ sigterm \in [Pids -> BOOLEAN]
    /\ mm \in [Pids -> BOOLEAN]
    /\ task_headp \in Seq(Pids)
    /\ sleep_task_list \in Seq(Pids)
    /\ wait_stdin_list \in Seq(Pids)
    /\ zombie_list \in Seq(Pids)
    /\ current \in Pids
    /\ cpu \in {"run", "sched"}
    /\ depth \in Nat
    /\ intr \in BOOLEAN
    /\ pc \in [Pids -> Pcs]
    /\ frames \in [Pids -> Nat]
    /\ child \in [Pids -> Pids \cup {NoPid}]
    /\ cp \in Pids \cup {NoPid}
    /\ zombie_count \in Nat
    /\ pid_count \in 0..MaxPid + 1
    /\ stdin_buf_state \in BOOLEAN
    /\ fault \in Faults

(***************************************************************************)
(* main.c, when it reaches its while(1): init_proc and three               *)
(* kernel_thread calls have run, with interrupts still off.                *)
(***************************************************************************)
Init ==
    /\ state = [p \in Pids |-> IF p > FirstShell THEN "none" ELSE "NEW"]
    /\ ppid = [p \in Pids |-> INIT]
    /\ waited = [p \in Pids |-> FALSE]
    /\ orphan = [p \in Pids |-> FALSE]
    /\ sigterm = [p \in Pids |-> FALSE]
    /\ mm = [p \in Pids |-> FALSE]
    /\ task_headp = <<FirstShell, CLEAR, IDLE, INIT>>
    /\ sleep_task_list = <<>>
    /\ wait_stdin_list = <<>>
    /\ zombie_list = <<>>
    /\ current = INIT
    /\ cpu = "run"
    /\ depth = 0
    /\ intr = FALSE
    /\ pc = [p \in Pids |-> CASE p = INIT -> "find1" [] p = IDLE -> "idle"
                              [] p = CLEAR -> "sweep" [] p = FirstShell -> "exec"
                              [] OTHER -> "none"]
    /\ frames = [p \in Pids |-> 0]
    /\ child = [p \in Pids |-> IF p = INIT THEN FirstShell ELSE NoPid]
    /\ cp = NoPid
    /\ zombie_count = 0
    /\ pid_count = FirstShell + 1
    /\ stdin_buf_state = FALSE
    /\ fault = "none"

-----------------------------------------------------------------------------
(* Who runs. *)

Running(p) == fault = "none" /\ cpu = "run" /\ current = p

\* The timer and the keyboard may interrupt.
Interruptible == fault = "none" /\ cpu = "run" /\ intr

\* Task p, running, stands at l.
At(p, l) == Running(p) /\ pc[p] = l

\* A program, in user mode, makes the system call.
Calls(p, call) == call \in Inputs /\ p \in Users /\ At(p, "user")

\* The lists kill_by_pid and waitpid search.
Findable(p) == \/ On(task_headp, p)
               \/ On(sleep_task_list, p)
               \/ On(wait_stdin_list, p)

-----------------------------------------------------------------------------
(* schedule() *)

\* Mutant: the end of the list does not wrap around to the head.
SelectTaskNoWrap ==
    LET i == IF On(task_headp, current) THEN Pos(task_headp, current) ELSE 1
    IN  IF i < Len(task_headp) THEN task_headp[i + 1] ELSE task_headp[i]

\* select_task_struct: the task after current, or the SECOND task of the
\* list when current has just left it.
SelectTask ==
    LET i == IF On(task_headp, current) THEN Pos(task_headp, current) ELSE 1
    IN  IF i < Len(task_headp) THEN task_headp[i + 1] ELSE task_headp[1]

\* Mutant: the parent is looked up on the wrong list.
FatherSleepsWrongList(ts) == waited[ts] /\ On(wait_stdin_list, ppid[ts])

\* Mutant: the parent is woken without a search of the sleep list.
FatherSleepsUnsought(ts) == waited[ts]

\* exit_st(ts, _) finds the parent of a waited-for ts asleep.
FatherSleeps(ts) == waited[ts] /\ On(sleep_task_list, ppid[ts])

\* The exit of ts makes zombie_count reach the limit.
WakesClear(ts) == ~FatherSleeps(ts) /\ zombie_count + 1 = ZombieLimit

\* Whom exit_st wakes, if anybody.
WokenBy(ts) == IF FatherSleeps(ts) THEN ppid[ts]
               ELSE IF WakesClear(ts) /\ On(sleep_task_list, CLEAR) THEN CLEAR
               ELSE NoPid

(***************************************************************************)
(* exit_st(ts, _) up to its trailing schedule(), which it enters with d    *)
(* outer schedule() calls pending.                                         *)
(***************************************************************************)
ExitSt(ts, d) ==
    LET w == WokenBy(ts)
        a == RemoveFromTasklist(task_headp, ts)
    IN
    /\ state' = [p \in Pids |-> CASE p = ts -> "ZOMBIE" [] p = w -> "ACTIVE"
                                  [] OTHER -> state[p]]
    /\ orphan' = [orphan EXCEPT ![ts] = ~FatherSleeps(ts)]
    /\ zombie_list' = AddToTasklist(zombie_list, ts)
    /\ task_headp' = IF w = NoPid THEN a ELSE AddToTasklist(a, w)
    /\ sleep_task_list' = RemoveFromTasklist(sleep_task_list, w)
    /\ zombie_count' = IF FatherSleeps(ts) THEN zombie_count ELSE zombie_count + 1
    /\ fault' = IF RunsOff(task_headp, ts) THEN "exit"
                ELSE IF FatherSleeps(ts) /\ RunsOff(sleep_task_list, ppid[ts]) THEN "wake father"
                ELSE IF WakesClear(ts) /\ RunsOff(sleep_task_list, CLEAR) THEN "wake clear"
                ELSE "none"
    /\ cpu' = "sched"
    /\ depth' = d
    /\ UNCHANGED <<ppid, waited, sigterm, mm, wait_stdin_list, current, intr,
                   frames, locals, pid_count, stdin_buf_state>>

\* The loop of schedule(): the chosen task has been killed, so it exits
\* instead of running, and exit_st calls schedule() again.
ScheduleKill ==
    /\ fault = "none" /\ cpu = "sched"
    /\ sigterm[SelectTask]
    /\ ExitSt(SelectTask, depth + 1)

\* "give up, maybe no process to schedule": every stacked call of
\* schedule() selects current again and returns.
ScheduleStay ==
    /\ fault = "none" /\ cpu = "sched"
    /\ ~sigterm[SelectTask]
    /\ SelectTask = current
    /\ cpu' = "run"
    /\ depth' = 0
    /\ UNCHANGED <<fields, lists, current, intr, frames, locals, globals, fault>>

\* Mutant: a resumed task is always taken to be inside exit_st.
ScheduleSwitchNested ==
    /\ fault = "none" /\ cpu = "sched"
    /\ ~sigterm[SelectTask]
    /\ SelectTask # current
    /\ current' = SelectTask
    /\ intr' = TRUE
    /\ cpu' = "run"
    /\ depth' = frames[SelectTask] - 1
    /\ frames' = [frames EXCEPT ![current] = depth, ![SelectTask] = 0]
    /\ UNCHANGED <<fields, lists, locals, globals, fault>>

(***************************************************************************)
(* current = next; __switch_to(me, next).  A task that was switched away   *)
(* inside exit_st resumes in the loop of the schedule() that called it.    *)
(* A zombie that switches away never comes back.                           *)
(***************************************************************************)
ScheduleSwitch ==
    /\ fault = "none" /\ cpu = "sched"
    /\ ~sigterm[SelectTask]
    /\ SelectTask # current
    /\ current' = SelectTask
    /\ intr' = TRUE
    /\ cpu' = IF frames[SelectTask] > 0 THEN "sched" ELSE "run"
    /\ depth' = IF frames[SelectTask] > 0 THEN frames[SelectTask] - 1 ELSE 0
    /\ frames' = [frames EXCEPT
                    ![current] = IF state[current] = "ZOMBIE" THEN 0 ELSE depth,
                    ![SelectTask] = 0]
    /\ UNCHANGED <<fields, lists, locals, globals, fault>>

\* interrupt_handler_timer at the end of a time slice.
TimerTick ==
    /\ Interruptible
    /\ cpu' = "sched"
    /\ depth' = 0
    /\ UNCHANGED <<fields, lists, current, intr, frames, locals, globals, fault>>

-----------------------------------------------------------------------------
(* System calls of a program: interrupts are off from entry to return or   *)
(* to the switch inside schedule().                                        *)

\* The task_struct of a new pid, linked at the head of the active list.
NewTask(father, s, hasMm, l) ==
    /\ pid_count <= MaxPid
    /\ state' = [state EXCEPT ![pid_count] = s]
    /\ ppid' = [ppid EXCEPT ![pid_count] = father]
    /\ mm' = [mm EXCEPT ![pid_count] = hasMm]
    /\ task_headp' = AddToTasklist(task_headp, pid_count)
    /\ pc' = [pc EXCEPT ![pid_count] = l, ![INIT] = IF father = INIT THEN "yield" ELSE @]
    /\ child' = [child EXCEPT ![INIT] = IF father = INIT THEN pid_count ELSE @]
    /\ pid_count' = pid_count + 1
    /\ UNCHANGED <<waited, orphan, sigterm, sleep_task_list, wait_stdin_list,
                   zombie_list, control, cp, zombie_count, stdin_buf_state, fault>>

Fork(p) ==
    /\ Calls(p, "fork")
    /\ NewTask(p, "ACTIVE", TRUE, "user")

\* sleep(list, _): from the active list to a wait list, in one step.
SleepOn(p) ==
    /\ task_headp' = RemoveFromTasklist(task_headp, p)
    /\ fault' = IF RunsOff(task_headp, p) THEN "sleep" ELSE "none"
    /\ cpu' = "sched"
    /\ depth' = 0

\* The pids a program may pass to waitpid.
Waitable(p) == {c \in Pids : Findable(c) /\ (WaitAny \/ ppid[c] = p)}

\* waitpid(c) up to the sleep; a c that is not found returns at once and
\* changes nothing.
Wait(p, c) ==
    /\ Calls(p, "wait")
    /\ c \in Waitable(p)
    /\ waited' = [waited EXCEPT ![c] = TRUE]
    /\ SleepOn(p)
    /\ sleep_task_list' = AddToTasklist(sleep_task_list, p)
    /\ state' = [state EXCEPT ![p] = "SLEEP"]
    /\ child' = [child EXCEPT ![p] = c]
    /\ pc' = [pc EXCEPT ![p] = "reap"]
    /\ UNCHANGED <<ppid, orphan, sigterm, mm, wait_stdin_list, zombie_list,
                   current, intr, frames, cp, globals>>

\* read(0, ...) with data in stdin_buf: read_stdin drains it or leaves the
\* rest, as the size asks.
Read(p) ==
    /\ Calls(p, "read")
    /\ stdin_buf_state
    /\ stdin_buf_state' \in BOOLEAN
    /\ UNCHANGED <<fields, lists, control, locals, zombie_count, pid_count, fault>>

\* read(0, ...) with no line ready: the first turn of the loop.
ReadSleeps(p) ==
    /\ Calls(p, "read")
    /\ ~stdin_buf_state
    /\ SleepOn(p)
    /\ wait_stdin_list' = AddToTasklist(wait_stdin_list, p)
    /\ state' = [state EXCEPT ![p] = "SLEEP"]
    /\ pc' = [pc EXCEPT ![p] = "read"]
    /\ UNCHANGED <<ppid, waited, orphan, sigterm, mm, sleep_task_list, zombie_list,
                   current, intr, frames, child, cp, globals>>

\* Mutant: kernel threads can be killed.
KillByPidAnyTask(q) ==
    /\ Findable(q)
    /\ sigterm' = [sigterm EXCEPT ![q] = TRUE]
    /\ UNCHANGED <<state, ppid, waited, orphan, mm, lists, control, locals,
                   globals, fault>>

\* kill_by_pid(q, SIGKILL): kernel threads have no mm and are spared.
KillByPid(q) ==
    /\ Findable(q) /\ mm[q]
    /\ sigterm' = [sigterm EXCEPT ![q] = TRUE]
    /\ UNCHANGED <<state, ppid, waited, orphan, mm, lists, control, locals,
                   globals, fault>>

Kill(p, q) == Calls(p, "kill") /\ KillByPid(q)

\* exit, a segmentation fault, an unknown system call, exec of a file that
\* does not exist: all end in exit_st(current, _).
Exit(p) == Calls(p, "exit") /\ ExitSt(p, 0)

-----------------------------------------------------------------------------
(* Kernel code that runs with interrupts on. *)

\* Task p goes from the statement "from" to "to"; nothing else changes.
Goto(p, from, to) ==
    /\ At(p, from)
    /\ pc' = [pc EXCEPT ![p] = to]

\* run_init_process: exec gives the kernel thread an mm and enters sbush.
ExecShell(p) ==
    /\ Goto(p, "exec", "user")
    /\ mm' = [mm EXCEPT ![p] = TRUE]
    /\ UNCHANGED <<state, ppid, waited, orphan, sigterm, lists, control, child,
                   cp, globals, fault>>

\* The loop of read() after a wakeup: test stdin_buf_state again ...
ReadAgain(p) ==
    /\ stdin_buf_state
    /\ Goto(p, "read", "user")
    /\ stdin_buf_state' \in BOOLEAN
    /\ UNCHANGED <<fields, lists, control, child, cp, zombie_count, pid_count, fault>>

\* ... and go back to sleep.
ReadSleepsAgain(p) ==
    /\ ~stdin_buf_state
    /\ Goto(p, "read", "sleep1")
    /\ UNCHANGED <<fields, lists, control, child, cp, globals, fault>>

\* sleep(), preemptible: remove_from_tasklist(&task_headp, current) ...
SleepRemove(p) ==
    /\ Goto(p, "sleep1", "sleep2")
    /\ task_headp' = RemoveFromTasklist(task_headp, p)
    /\ fault' = IF RunsOff(task_headp, p) THEN "sleep" ELSE "none"
    /\ UNCHANGED <<fields, sleep_task_list, wait_stdin_list, zombie_list, control,
                   child, cp, globals>>

\* ... add_to_tasklist(list, current) ...
SleepAdd(p) ==
    /\ Goto(p, "sleep2", "sleep3")
    /\ IF p \in Users
       THEN /\ wait_stdin_list' = AddToTasklist(wait_stdin_list, p)
            /\ UNCHANGED sleep_task_list
       ELSE /\ sleep_task_list' = AddToTasklist(sleep_task_list, p)
            /\ UNCHANGED wait_stdin_list
    /\ UNCHANGED <<fields, task_headp, zombie_list, control, child, cp, globals, fault>>

\* Where sleep() returns to once the task is woken.
AfterSleep(p) == CASE p = INIT -> "reap" [] p = CLEAR -> "sweep" [] OTHER -> "read"

\* ... state = SLEEP; schedule().
SleepYield(p) ==
    /\ Goto(p, "sleep3", AfterSleep(p))
    /\ state' = [state EXCEPT ![p] = "SLEEP"]
    /\ cpu' = "sched"
    /\ depth' = 0
    /\ UNCHANGED <<ppid, waited, orphan, sigterm, mm, lists, current, intr, frames,
                   child, cp, globals, fault>>

(***************************************************************************)
(* free_process(c) and what its assert and its list removal do: c must be  *)
(* a zombie with an mm.  A task_struct that was freed already is a page    *)
(* that anybody may own by now.                                            *)
(***************************************************************************)
FreeProcess(c) ==
    /\ state' = IF state[c] = "ZOMBIE" THEN [state EXCEPT ![c] = "FREED"] ELSE state
    /\ zombie_list' = RemoveFromTasklist(zombie_list, c)
    /\ fault' = IF state[c] = "FREED" THEN "stale free"
                ELSE IF state[c] # "ZOMBIE" \/ ~mm[c] THEN "assert"
                ELSE IF RunsOff(zombie_list, c) THEN "free" ELSE "none"
    /\ UNCHANGED <<ppid, waited, orphan, sigterm, mm, task_headp,
                   sleep_task_list, wait_stdin_list>>

\* The tail of waitpid, after sleep() returned.
Reap(p) ==
    /\ Goto(p, "reap", IF p = INIT THEN "spawn" ELSE "user")
    /\ FreeProcess(child[p])
    /\ child' = [child EXCEPT ![p] = NoPid]
    /\ UNCHANGED <<control, cp, globals>>

-----------------------------------------------------------------------------
(* The while(1) of main.c, as task INIT: waitpid(kinit_pid), then a new    *)
(* shell.                                                                  *)

\* waitpid searches the three lists one after the other.
InitFind ==
    \E s \in {<<"find1", task_headp, "find2">>,
              <<"find2", sleep_task_list, "find3">>,
              <<"find3", wait_stdin_list, "spawn">>} :
        /\ Goto(INIT, s[1], IF On(s[2], child[INIT]) THEN "mark" ELSE s[3])
        /\ UNCHANGED <<fields, lists, control, child, cp, globals, fault>>

\* child->waited = 1, through a pointer found some steps ago.
InitMark ==
    /\ Goto(INIT, "mark", "sleep1")
    /\ waited' = [waited EXCEPT ![child[INIT]] = TRUE]
    /\ fault' = IF state[child[INIT]] = "FREED" THEN "stale mark" ELSE "none"
    /\ UNCHANGED <<state, ppid, orphan, sigterm, mm, lists, control, child, cp,
                   globals>>

\* kernel_thread(run_init_process, ...): ppid and state stay zero.
InitSpawn ==
    /\ At(INIT, "spawn")
    /\ NewTask(INIT, "NEW", FALSE, "exec")

InitYield ==
    /\ Goto(INIT, "yield", "find1")
    /\ cpu' = "sched"
    /\ depth' = 0
    /\ UNCHANGED <<fields, lists, current, intr, frames, child, cp, globals, fault>>

-----------------------------------------------------------------------------
(* thread_clear, as task CLEAR. *)

\* p = zombie_list
ClearSweep ==
    /\ Goto(CLEAR, "sweep", "visit")
    /\ cp' = IF zombie_list = <<>> THEN NoPid ELSE Head(zombie_list)
    /\ UNCHANGED <<fields, lists, control, child, globals, fault>>

\* Mutant: the collector frees zombies that a parent is about to free.
ClearOrphanAny ==
    /\ At(CLEAR, "visit") /\ cp # NoPid
    /\ state[cp] # "FREED"
    /\ FreeProcess(cp)
    /\ cp' = NextOn(zombie_list, cp, NoPid)
    /\ UNCHANGED <<control, pc, child, globals>>

\* One turn of the inner loop: next = p->next; an orphan is freed; p = next.
ClearOrphan ==
    /\ At(CLEAR, "visit") /\ cp # NoPid
    /\ state[cp] # "FREED" /\ orphan[cp]
    /\ FreeProcess(cp)
    /\ cp' = NextOn(zombie_list, cp, NoPid)
    /\ UNCHANGED <<control, pc, child, globals>>

ClearSkip ==
    /\ At(CLEAR, "visit") /\ cp # NoPid
    /\ state[cp] # "FREED" /\ ~orphan[cp]
    /\ cp' = NextOn(zombie_list, cp, NoPid)
    /\ UNCHANGED <<fields, lists, control, pc, child, globals, fault>>

\* A parent freed p while the collector was preempted: the page still holds
\* orphan == 0 and the cleared ->next, or somebody else's data.
ClearStale ==
    /\ At(CLEAR, "visit") /\ cp # NoPid
    /\ state[cp] = "FREED"
    /\ cp' = NoPid
    /\ fault' \in {"none", "stale sweep"}
    /\ UNCHANGED <<fields, lists, control, pc, child, globals>>

\* zombie_count = 0; sleep follows.
ClearReset ==
    /\ cp = NoPid
    /\ Goto(CLEAR, "visit", "sleep1")
    /\ zombie_count' = 0
    /\ UNCHANGED <<fields, lists, control, child, cp, pid_count, stdin_buf_state, fault>>

-----------------------------------------------------------------------------
(* kbdintr *)

\* Enter: the line is ready and everybody who waits for stdin is woken.
KbdEnter ==
    /\ Interruptible /\ "enter" \in Inputs
    /\ stdin_buf_state' = TRUE
    /\ state' = [p \in Pids |-> IF On(wait_stdin_list, p) THEN "ACTIVE" ELSE state[p]]
    /\ task_headp' = WakeAllOnto(wait_stdin_list, task_headp)
    /\ wait_stdin_list' = <<>>
    /\ UNCHANGED <<ppid, waited, orphan, sigterm, mm, sleep_task_list, zombie_list,
                   control, locals, zombie_count, pid_count, fault>>

\* Ctrl-C: kills the task that has waited longest for stdin, else the
\* running program.
KbdCtrlC ==
    /\ Interruptible /\ "ctrl-c" \in Inputs
    /\ KillByPid(IF wait_stdin_list # <<>> THEN Last(wait_stdin_list) ELSE current)

-----------------------------------------------------------------------------
\* panic() never returns.
Panicked == fault # "none" /\ UNCHANGED vars

Schedule == ScheduleKill \/ ScheduleStay \/ ScheduleSwitch

Syscall(p) == \/ Fork(p)
              \/ \E c \in Pids : Wait(p, c)
              \/ Read(p)
              \/ ReadSleeps(p)
              \/ \E q \in Pids : Kill(p, q)
              \/ Exit(p)

KernelCode(p) == \/ ExecShell(p)
                 \/ ReadAgain(p)
                 \/ ReadSleepsAgain(p)
                 \/ SleepRemove(p)
                 \/ SleepAdd(p)
                 \/ SleepYield(p)
                 \/ Reap(p)

InitLoop == InitFind \/ InitMark \/ InitSpawn \/ InitYield

Collector == ClearSweep \/ ClearOrphan \/ ClearSkip \/ ClearStale \/ ClearReset

Next ==
    \/ Schedule
    \/ TimerTick
    \/ \E p \in Pids : Syscall(p) \/ KernelCode(p)
    \/ InitLoop
    \/ Collector
    \/ KbdEnter
    \/ KbdCtrlC
    \/ Panicked

Spec == Init /\ [][Next]_vars
-----------------------------------------------------------------------------
(* Safety. *)

Dead(p) == state[p] \in {"ZOMBIE", "FREED"}

\* Every live task is linked into exactly one list, and into it once: the
\* links of sleep, wakeup, exit_st, kernel_thread and fork never lose or
\* duplicate a task, except in the window of sleep() between its removal
\* from one list and its insertion into the next.
ListsExclusive ==
    /\ NoRepeats(task_headp) /\ NoRepeats(sleep_task_list)
    /\ NoRepeats(wait_stdin_list) /\ NoRepeats(zombie_list)
    /\ Apart(task_headp, sleep_task_list) /\ Apart(task_headp, wait_stdin_list)
    /\ Apart(task_headp, zombie_list) /\ Apart(sleep_task_list, wait_stdin_list)
    /\ Apart(sleep_task_list, zombie_list) /\ Apart(wait_stdin_list, zombie_list)

\* The other half: a task that exists and is not being moved by sleep() is on
\* a list, the zombie list holds exactly the zombies, and no list still
\* points at a task_struct that was freed.
NoTaskLost ==
    fault = "none" =>
        \A p \in Pids :
            /\ (p < pid_count /\ state[p] # "FREED" /\ pc[p] # "sleep2")
                  => Findable(p) \/ On(zombie_list, p)
            /\ On(zombie_list, p) <=> state[p] = "ZOMBIE"
            /\ state[p] = "FREED" => ~Findable(p)

\* A program asleep in waitpid has a child that will wake it: the child is
\* alive, marked as waited for, and names the sleeper as its parent.
WaiterHasLiveChild ==
    ~WaitAny /\ fault = "none" =>
        \A p \in Users : On(sleep_task_list, p) =>
            /\ child[p] \in Users /\ ~Dead(child[p])
            /\ waited[child[p]] /\ ppid[child[p]] = p

\* The zombie a woken waitpid is about to free is still there, is its own,
\* and is not one the collector may free first.
ReaperOwnsZombie ==
    ~WaitAny /\ fault = "none" =>
        \A p \in Users : (pc[p] = "reap" /\ ~On(sleep_task_list, p) /\ ~Dead(p)) =>
            /\ state[child[p]] = "ZOMBIE" /\ ~orphan[child[p]]
            /\ ppid[child[p]] = p

\* While programs wait for their own children, only three things can go wrong,
\* all around the collector: exit_st wakes clear_zombie when it is not asleep,
\* and init's waitpid and thread_clear use a pointer to a task that was freed
\* since they found it.  No other removal from a list (of exit_st, sleep,
\* free_process or the wakeup of a father) runs off its list, free_process is
\* given no task twice, and its assertions hold.
OnlyCollectorFaults ==
    ~WaitAny => fault \in {"none", "wake clear", "stale mark", "stale sweep"}

\* The scheduler always has something to run that cannot be killed: the
\* three kernel threads never die and idle never leaves the active list.
KernelThreadsImmortal ==
    /\ On(task_headp, IDLE)
    /\ \A p \in {INIT, IDLE, CLEAR} : ~Dead(p) /\ ~sigterm[p]

(* The inductive invariant behind these. *)

\* The three kernel threads never exec, so they have no mm and kill_by_pid
\* spares them.
KernelThreadsHaveNoMm ==
    /\ pc[IDLE] = "idle"
    /\ \A p \in {INIT, IDLE, CLEAR} : ~mm[p] /\ pc[p] # "exec"
    /\ \A p \in Pids : sigterm[p] => mm[p]

\* A pid that has not been handed out is on no list and cannot be killed.
Unborn ==
    /\ pid_count > FirstShell
    /\ \A p \in Pids : p >= pid_count => state[p] = "none" /\ ~Findable(p) /\ ~sigterm[p]
    /\ \A p \in Pids : p < pid_count => state[p] # "none"

\* Whoever runs is alive and linked in the active list, unless it is inside
\* sleep(); a task between the two list operations of sleep() is on no list.
Placement ==
    /\ cpu = "run" =>
         /\ ~Dead(current) /\ state[current] # "none"
         /\ pc[current] \notin {"sleep2", "sleep3"} => On(task_headp, current)
    /\ \A p \in Pids : pc[p] = "sleep2" => ~Findable(p)

\* Everything above, together: preserved by every step.
IndInv ==
    /\ TypeOK
    /\ ListsExclusive
    /\ KernelThreadsImmortal
    /\ KernelThreadsHaveNoMm
    /\ Unborn
    /\ NoTaskLost
    /\ fault = "none" => Placement

(* Action properties. *)

\* What a step may do to the dead: a zombie may be freed, nothing else.
StaysDead ==
    \A p \in Pids :
        /\ state[p] = "ZOMBIE" => state'[p] \in {"ZOMBIE", "FREED"}
        /\ state[p] = "FREED" => state'[p] = "FREED"

\* A dead task is never put back on its feet by wakeup or sleep, and a freed
\* task_struct is never written again.
DeadStaysDead == [][StaysDead]_vars
=============================================================================
