--------------------------- MODULE ProcessProofs ---------------------------
(***************************************************************************)
(* The invariants of Process hold for every number of tasks, every zombie  *)
(* limit and every discipline of waiting.                                  *)
(***************************************************************************)
EXTENDS Process, SequenceTheorems, TLAPS

-----------------------------------------------------------------------------
(* What the list operations do to the set of tasks on a list of any length *)

\* add_to_tasklist puts p on the list and leaves the others where they were.
LEMMA AddLemma ==
    ASSUME NEW S, NEW l \in Seq(S), NEW p \in S
    PROVE  /\ AddToTasklist(l, p) \in Seq(S)
           /\ \A q : On(AddToTasklist(l, p), q) <=> (q = p \/ On(l, q))
           /\ NoRepeats(l) /\ ~On(l, p) => NoRepeats(AddToTasklist(l, p))
<1> DEFINE m == AddToTasklist(l, p)
<1>1. /\ m \in Seq(S) /\ Len(m) = Len(l) + 1 /\ Len(l) \in Nat
      /\ m[1] = p
      /\ \A i \in 1..Len(l) : m[i + 1] = l[i]
      /\ \A i \in 2..Len(m) : m[i] = l[i - 1]
  BY DEF AddToTasklist
<1> HIDE DEF m
<1>2. ASSUME NEW q PROVE On(m, q) <=> (q = p \/ On(l, q))
  <2>1. On(m, q) => q = p \/ On(l, q)
    <3> SUFFICES ASSUME NEW i \in 1..Len(m), m[i] = q, i # 1
                 PROVE  \E j \in 1..Len(l) : l[j] = q
      BY <1>1 DEF On
    <3>1. i - 1 \in 1..Len(l) /\ l[i - 1] = q
      BY <1>1
    <3> QED BY <3>1
  <2>2. q = p => On(m, q)
    BY <1>1 DEF On
  <2>3. ASSUME NEW i \in 1..Len(l), l[i] = q PROVE On(m, q)
    <3>1. i + 1 \in 1..Len(m) /\ m[i + 1] = q
      BY <1>1, <2>3
    <3> QED BY <3>1 DEF On
  <2> QED BY <2>1, <2>2, <2>3 DEF On
<1>3. ASSUME NoRepeats(l), ~On(l, p), NEW i \in 1..Len(m), NEW j \in 1..Len(m),
             m[i] = m[j]
      PROVE  i = j
  <2>1. i > 1 => i - 1 \in 1..Len(l) /\ m[i] = l[i - 1]
    BY <1>1
  <2>2. j > 1 => j - 1 \in 1..Len(l) /\ m[j] = l[j - 1]
    BY <1>1
  <2>3. CASE i > 1 /\ j > 1
    <3>1. i - 1 = j - 1
      BY <2>1, <2>2, <2>3, <1>3 DEF NoRepeats
    <3> QED BY <3>1, <1>1
  <2>4. CASE i = 1 /\ j > 1
    BY <2>2, <2>4, <1>3, <1>1 DEF On
  <2>5. CASE i > 1 /\ j = 1
    BY <2>1, <2>5, <1>3, <1>1 DEF On
  <2> QED BY <2>3, <2>4, <2>5, <1>1
<1> QED BY <1>1, <1>2, <1>3 DEF m, NoRepeats

\* remove_from_tasklist takes p off a list that holds it once, and only p.
LEMMA RemoveLemma ==
    ASSUME NEW S, NEW l \in Seq(S), NEW p, NoRepeats(l)
    PROVE  /\ RemoveFromTasklist(l, p) \in Seq(S)
           /\ \A q : On(RemoveFromTasklist(l, p), q) <=> (q # p /\ On(l, q))
           /\ NoRepeats(RemoveFromTasklist(l, p))
<1> DEFINE m == RemoveFromTasklist(l, p)
<1>1. CASE ~On(l, p)
  <2>1. m = l
    BY <1>1 DEF RemoveFromTasklist
  <2> QED BY <1>1, <2>1
<1>2. CASE On(l, p)
  <2> DEFINE k == Pos(l, p)
  <2>1. k \in 1..Len(l) /\ l[k] = p
    BY <1>2 DEF On, Pos
  <2>2. Len(l) \in Nat /\ \A i \in 1..Len(l) : l[i] \in S
    OBVIOUS
  <2>3. m = SubSeq(l, 1, k - 1) \o SubSeq(l, k + 1, Len(l))
    BY <1>2 DEF RemoveFromTasklist, RemoveAt
  <2> HIDE DEF k, m
  <2> DEFINE a == SubSeq(l, 1, k - 1)
             b == SubSeq(l, k + 1, Len(l))
  <2>4. a \in Seq(S) /\ Len(a) = k - 1 /\ \A i \in 1..(k - 1) : a[i] = l[i]
    BY <2>1, <2>2
  <2>5. b \in Seq(S) /\ Len(b) = Len(l) - k /\ \A i \in 1..(Len(l) - k) : b[i] = l[k + i]
    BY <2>1, <2>2
  <2> HIDE DEF a, b
  <2>6. /\ m \in Seq(S) /\ Len(m) = Len(l) - 1
        /\ \A i \in 1..(k - 1) : m[i] = l[i]
        /\ \A i \in k..(Len(l) - 1) : m[i] = l[i + 1]
    <3>1. m = a \o b
      BY <2>3 DEF a, b
    <3>2. m \in Seq(S) /\ Len(m) = Len(l) - 1
      <4>1. a \o b \in Seq(S) /\ Len(a \o b) = Len(a) + Len(b)
        BY <2>4, <2>5, ConcatProperties
      <4> QED BY <4>1, <3>1, <2>1, <2>2, <2>4, <2>5, SMTT(30)
    <3>3. ASSUME NEW i \in 1..(k - 1) PROVE m[i] = l[i]
      <4>1. i \in 1..Len(a) /\ i \in 1..(Len(a) + Len(b)) /\ i <= Len(a)
        BY <2>1, <2>2, <2>4, <2>5
      <4>2. m[i] = a[i]
        BY <3>1, <4>1, <2>4, <2>5
      <4> QED BY <4>2, <2>4
    <3>4. ASSUME NEW i \in k..(Len(l) - 1) PROVE m[i] = l[i + 1]
      <4>1. i - Len(a) \in 1..Len(b) /\ i \in 1..(Len(a) + Len(b)) /\ i > Len(a)
        BY <2>1, <2>2, <2>4, <2>5
      <4>2. m[i] = b[i - Len(a)]
        BY <3>1, <4>1, <2>4, <2>5
      <4> QED BY <4>1, <4>2, <2>1, <2>2, <2>4, <2>5
    <3> QED BY <3>2, <3>3, <3>4
  <2>7. \A i \in 1..Len(l) : i # k => l[i] # p
    BY <2>1 DEF NoRepeats
  <2>8. ASSUME NEW q PROVE On(m, q) <=> (q # p /\ On(l, q))
    <3>1. On(m, q) => q # p /\ On(l, q)
      BY <2>1, <2>2, <2>6, <2>7 DEF On
    <3>2. ASSUME q # p, On(l, q) PROVE On(m, q)
      <4>1. PICK i \in 1..Len(l) : l[i] = q
        BY <3>2 DEF On
      <4>2. i # k
        BY <4>1, <3>2, <2>1
      <4>3. CASE i < k
        BY <4>1, <4>3, <2>1, <2>2, <2>6 DEF On
      <4>4. CASE i > k
        <5>1. i - 1 \in k..(Len(l) - 1) /\ i - 1 \in 1..Len(m)
          BY <4>4, <2>1, <2>2, <2>6
        <5>2. m[i - 1] = q
          BY <5>1, <4>1, <2>6, <2>2
        <5> QED BY <5>1, <5>2 DEF On
      <4> QED BY <4>2, <4>3, <4>4, <2>1, <2>2
    <3> QED BY <3>1, <3>2
  <2>9. NoRepeats(m)
    BY <2>1, <2>2, <2>6 DEF NoRepeats
  <2> QED BY <2>6, <2>8, <2>9 DEF m
<1> QED BY <1>1, <1>2

\* wakeup of a whole list: its tasks join the active ones, nobody is lost.
LEMMA WakeAllLemma ==
    ASSUME NEW S, NEW l \in Seq(S), NEW a \in Seq(S)
    PROVE  /\ WakeAllOnto(l, a) \in Seq(S)
           /\ \A q : On(WakeAllOnto(l, a), q) <=> (On(l, q) \/ On(a, q))
           /\ NoRepeats(l) /\ NoRepeats(a) /\ Apart(l, a)
                => NoRepeats(WakeAllOnto(l, a))
<1> DEFINE r == Reverse(l)
           m == WakeAllOnto(l, a)
<1>1. r \in Seq(S) /\ Len(r) = Len(l) /\ Len(l) \in Nat /\ Len(a) \in Nat
  BY DEF Reverse
<1>2. \A i \in 1..Len(l) : r[i] = l[Len(l) - i + 1]
  BY DEF Reverse
<1>3. m = r \o a
  BY DEF WakeAllOnto
<1> HIDE DEF r, m
<1>4. m \in Seq(S) /\ Len(m) = Len(l) + Len(a)
  <2>1. r \o a \in Seq(S) /\ Len(r \o a) = Len(r) + Len(a)
    BY <1>1, ConcatProperties
  <2> QED BY <2>1, <1>1, <1>3
<1>5. ASSUME NEW i \in 1..Len(l) PROVE m[i] = l[Len(l) - i + 1]
  <2>1. i \in 1..Len(r) /\ i \in 1..(Len(r) + Len(a)) /\ i <= Len(r)
    BY <1>1
  <2>2. m[i] = r[i]
    BY <2>1, <1>1, <1>3
  <2> QED BY <2>2, <1>2
<1>6. ASSUME NEW i \in (Len(l) + 1)..Len(m) PROVE m[i] = a[i - Len(l)]
  <2>1. i \in 1..(Len(r) + Len(a)) /\ i > Len(r)
    BY <1>1, <1>4
  <2> QED BY <2>1, <1>1, <1>3
<1>7. ASSUME NEW i \in 1..Len(m)
      PROVE  /\ i <= Len(l) => i \in 1..Len(l) /\ Len(l) - i + 1 \in 1..Len(l)
             /\ i > Len(l) => i \in (Len(l) + 1)..Len(m) /\ i - Len(l) \in 1..Len(a)
  BY <1>1, <1>4
<1>8. ASSUME NEW q PROVE On(m, q) <=> (On(l, q) \/ On(a, q))
  <2>1. ASSUME NEW i \in 1..Len(m), m[i] = q PROVE On(l, q) \/ On(a, q)
    <3>1. CASE i <= Len(l)
      <4>1. Len(l) - i + 1 \in 1..Len(l) /\ l[Len(l) - i + 1] = q
        BY <2>1, <3>1, <1>1, <1>5, <1>7
      <4> QED BY <4>1 DEF On
    <3>2. CASE i > Len(l)
      <4>1. i - Len(l) \in 1..Len(a) /\ a[i - Len(l)] = q
        BY <2>1, <3>2, <1>1, <1>6, <1>7
      <4> QED BY <4>1 DEF On
    <3> QED BY <3>1, <3>2, <1>1, <1>4
  <2>2. ASSUME NEW i \in 1..Len(l), l[i] = q PROVE On(m, q)
    <3> DEFINE j == Len(l) - i + 1
    <3>1. j \in 1..Len(l) /\ j \in 1..Len(m) /\ Len(l) - j + 1 = i
      BY <1>1, <1>4
    <3>2. m[j] = q
      BY <3>1, <1>5, <2>2
    <3> QED BY <3>1, <3>2 DEF On
  <2>3. ASSUME NEW i \in 1..Len(a), a[i] = q PROVE On(m, q)
    <3> DEFINE j == Len(l) + i
    <3>1. j \in (Len(l) + 1)..Len(m) /\ j \in 1..Len(m) /\ j - Len(l) = i
      BY <1>1, <1>4
    <3>2. m[j] = q
      BY <3>1, <1>6, <2>3
    <3> QED BY <3>1, <3>2 DEF On
  <2> QED BY <2>1, <2>2, <2>3 DEF On
<1>9. NoRepeats(l) /\ NoRepeats(a) /\ Apart(l, a) => NoRepeats(m)
  <2> SUFFICES ASSUME NoRepeats(l), NoRepeats(a), Apart(l, a),
                      NEW i \in 1..Len(m), NEW j \in 1..Len(m), m[i] = m[j]
               PROVE  i = j
    BY DEF NoRepeats
  <2>1. CASE i <= Len(l) /\ j <= Len(l)
    <3>1. l[Len(l) - i + 1] = l[Len(l) - j + 1]
      BY <2>1, <1>5, <1>7, <1>1
    <3>2. Len(l) - i + 1 = Len(l) - j + 1
      BY <3>1, <2>1, <1>7, <1>1 DEF NoRepeats
    <3> QED BY <3>2, <1>1, <1>4
  <2>2. CASE i > Len(l) /\ j > Len(l)
    <3>1. a[i - Len(l)] = a[j - Len(l)]
      BY <2>2, <1>6, <1>7, <1>1
    <3>2. i - Len(l) = j - Len(l)
      BY <3>1, <2>2, <1>7, <1>1 DEF NoRepeats
    <3> QED BY <3>2, <1>1, <1>4
  <2>3. CASE i <= Len(l) /\ j > Len(l)
    <3>1. l[Len(l) - i + 1] = a[j - Len(l)]
      BY <2>3, <1>5, <1>6, <1>7, <1>1
    <3> QED BY <3>1, <2>3, <1>7, <1>1 DEF Apart
  <2>4. CASE i > Len(l) /\ j <= Len(l)
    <3>1. l[Len(l) - j + 1] = a[i - Len(l)]
      BY <2>4, <1>5, <1>6, <1>7, <1>1
    <3> QED BY <3>1, <2>4, <1>7, <1>1 DEF Apart
  <2> QED BY <2>1, <2>2, <2>3, <2>4, <1>1, <1>4
<1> QED BY <1>4, <1>8, <1>9 DEF m

\* Two lists are apart when no task is on both.
LEMMA ApartLemma ==
    ASSUME NEW l, NEW m
    PROVE  Apart(l, m) <=> \A p : ~(On(l, p) /\ On(m, p))
BY DEF Apart, On

\* The empty list has nobody on it.
LEMMA EmptyLemma ==
    ASSUME NEW S
    PROVE  <<>> \in Seq(S) /\ NoRepeats(<<>>) /\ \A p : ~On(<<>>, p)
BY DEF NoRepeats, On

\* The task found on a list of tasks is a task, and the list is not empty.
LEMMA OnLemma ==
    ASSUME NEW S, NEW l \in Seq(S), NEW p, On(l, p)
    PROVE  /\ p \in S /\ Len(l) \in Nat /\ Len(l) > 0
           /\ Pos(l, p) \in 1..Len(l) /\ l[Pos(l, p)] = p
BY DEF On, Pos
\* ->next of a task on the list is a task, or NULL at the end.
LEMMA NextOnLemma ==
    ASSUME NEW S, NEW l \in Seq(S), NEW p, NEW none
    PROVE  NextOn(l, p, none) \in S \cup {none}
<1>1. CASE On(l, p) /\ Pos(l, p) < Len(l)
  <2>1. Pos(l, p) + 1 \in 1..Len(l)
    BY <1>1, OnLemma
  <2> QED BY <1>1, <2>1 DEF NextOn
<1> QED BY <1>1 DEF NextOn

-----------------------------------------------------------------------------
(* The inductive invariant *)

\* The parts of the inductive invariant that do not speak of types.
Shape == /\ ListsExclusive
         /\ KernelThreadsImmortal
         /\ KernelThreadsHaveNoMm
         /\ Unborn
         /\ NoTaskLost
         /\ fault = "none" => Placement

\* The end of a time slice (interrupt_handler_timer) keeps the invariant.
LEMMA TimerTickInv == IndInv /\ TimerTick => IndInv'
<1> SUFFICES ASSUME IndInv, TimerTick PROVE IndInv'
  OBVIOUS
<1>1. TypeOK'
  BY DEF IndInv, TypeOK, TimerTick, fields, lists, locals, globals
<1>2. Shape'
  BY DEF Shape, IndInv, TimerTick, Interruptible, fields, lists, locals, globals, ListsExclusive, KernelThreadsImmortal, KernelThreadsHaveNoMm, Unborn, NoTaskLost, Placement, Findable, Dead
<1> QED BY <1>1, <1>2 DEF Shape, IndInv

\* select_task_struct returns a task of the active list.
LEMMA SelectLemma == IndInv => SelectTask \in Pids /\ On(task_headp, SelectTask)
<1> SUFFICES ASSUME IndInv PROVE SelectTask \in Pids /\ On(task_headp, SelectTask)
  OBVIOUS
<1>1. Len(task_headp) \in Nat /\ Len(task_headp) > 0
  BY OnLemma DEF IndInv, KernelThreadsImmortal, TypeOK
<1> DEFINE i == IF On(task_headp, current) THEN Pos(task_headp, current) ELSE 1
<1>2. i \in 1..Len(task_headp)
  BY <1>1, OnLemma DEF IndInv, TypeOK
<1>3. \A j \in 1..Len(task_headp) : task_headp[j] \in Pids /\ On(task_headp, task_headp[j])
  BY DEF On, IndInv, TypeOK
<1> QED BY <1>1, <1>2, <1>3 DEF SelectTask

\* Switching to another task (schedule, __switch_to) keeps the invariant.
LEMMA SwitchInv == IndInv /\ ScheduleSwitch => IndInv'
<1> SUFFICES ASSUME IndInv, ScheduleSwitch PROVE IndInv'
  OBVIOUS
<1>0. SelectTask \in Pids /\ On(task_headp, SelectTask)
  BY SelectLemma
<1>1. TypeOK'
  <2>1. depth' \in Nat /\ cpu' \in {"run", "sched"}
    BY <1>0 DEF IndInv, TypeOK, ScheduleSwitch
  <2>2. frames' \in [Pids -> Nat]
    BY <1>0 DEF IndInv, TypeOK, ScheduleSwitch
  <2> QED BY <1>0, <2>1, <2>2 DEF IndInv, TypeOK, ScheduleSwitch, fields, lists, locals, globals
<1>2. UNCHANGED <<fields, lists, locals, globals, fault>>
  BY DEF ScheduleSwitch
<1>3. ~Dead(SelectTask) /\ state[SelectTask] # "none"
  BY <1>0, ApartLemma DEF IndInv, TypeOK, ScheduleSwitch, ListsExclusive, NoTaskLost, Unborn, Findable, Dead, Pids
<1>4. Placement'
  BY <1>0, <1>2, <1>3 DEF IndInv, ScheduleSwitch, Placement, Dead, Findable, fields, lists, locals, globals
<1>5. Shape'
  BY <1>2, <1>4 DEF Shape, IndInv, fields, lists, locals, globals, ListsExclusive, KernelThreadsImmortal, KernelThreadsHaveNoMm, Unborn, NoTaskLost, Findable, Dead
<1> QED BY <1>1, <1>5 DEF Shape, IndInv

\* schedule() that selects current again keeps the invariant.
LEMMA StayInv ==
    ASSUME IndInv, ScheduleStay
    PROVE  IndInv'
<1>0. On(task_headp, current) /\ ~Dead(current) /\ state[current] # "none"
  BY SelectLemma, ApartLemma
     DEF IndInv, TypeOK, ScheduleStay, ListsExclusive, NoTaskLost, Unborn,
         Findable, Dead, Pids
<1>1. TypeOK'
  BY DEF IndInv, TypeOK, ScheduleStay, fields, lists, control, locals, globals
<1>2. Shape'
  BY <1>0 DEF TypeOK, ScheduleStay,
         fields, lists, control, locals, globals,
         Shape, IndInv, ListsExclusive, KernelThreadsImmortal, KernelThreadsHaveNoMm,
         Unborn, NoTaskLost, Placement, Findable, Dead
<1> QED BY <1>1, <1>2 DEF Shape, IndInv

\* A read that finds a line keeps the invariant.
LEMMA ReadInv ==
    ASSUME IndInv, NEW p \in Pids, Read(p)
    PROVE  IndInv'
<1>1. TypeOK'
  BY DEF IndInv, TypeOK, Read, Calls, At, Running, fields, lists, control, locals, globals
<1>2. Shape'
  BY DEF TypeOK, Read, Calls, At, Running,
         fields, lists, control, locals, globals,
         Shape, IndInv, ListsExclusive, KernelThreadsImmortal, KernelThreadsHaveNoMm,
         Unborn, NoTaskLost, Placement, Findable, Dead
<1> QED BY <1>1, <1>2 DEF Shape, IndInv

\* exec in run_init_process keeps the invariant: the shell is no kernel thread.
LEMMA ExecShellInv ==
    ASSUME IndInv, NEW p \in Pids, ExecShell(p)
    PROVE  IndInv'
<1>1. TypeOK'
  BY DEF IndInv, TypeOK, ExecShell, Goto, At, Running, Pcs, INIT, IDLE, CLEAR, fields, lists, control, locals, globals
<1>2. Shape'
  BY DEF TypeOK, ExecShell, Goto, At, Running, Pcs, INIT, IDLE, CLEAR,
         fields, lists, control, locals, globals,
         Shape, IndInv, ListsExclusive, KernelThreadsImmortal, KernelThreadsHaveNoMm,
         Unborn, NoTaskLost, Placement, Findable, Dead
<1> QED BY <1>1, <1>2 DEF Shape, IndInv

\* A woken read that finds a line keeps the invariant.
LEMMA ReadAgainInv ==
    ASSUME IndInv, NEW p \in Pids, ReadAgain(p)
    PROVE  IndInv'
<1>1. TypeOK'
  BY DEF IndInv, TypeOK, ReadAgain, Goto, At, Running, Pcs, fields, lists, control, locals, globals
<1>2. Shape'
  BY DEF TypeOK, ReadAgain, Goto, At, Running, Pcs,
         fields, lists, control, locals, globals,
         Shape, IndInv, ListsExclusive, KernelThreadsImmortal, KernelThreadsHaveNoMm,
         Unborn, NoTaskLost, Placement, Findable, Dead
<1> QED BY <1>1, <1>2 DEF Shape, IndInv

\* A woken read that finds no line keeps the invariant.
LEMMA ReadSleepsAgainInv ==
    ASSUME IndInv, NEW p \in Pids, ReadSleepsAgain(p)
    PROVE  IndInv'
<1>1. TypeOK'
  BY DEF IndInv, TypeOK, ReadSleepsAgain, Goto, At, Running, Pcs, fields, lists, control, locals, globals
<1>2. Shape'
  BY DEF TypeOK, ReadSleepsAgain, Goto, At, Running, Pcs,
         fields, lists, control, locals, globals,
         Shape, IndInv, ListsExclusive, KernelThreadsImmortal, KernelThreadsHaveNoMm,
         Unborn, NoTaskLost, Placement, Findable, Dead
<1> QED BY <1>1, <1>2 DEF Shape, IndInv

\* The last statements of sleep() keep the invariant.
LEMMA SleepYieldInv ==
    ASSUME IndInv, NEW p \in Pids, SleepYield(p)
    PROVE  IndInv'
<1>1. TypeOK'
  BY DEF IndInv, TypeOK, SleepYield, AfterSleep, Goto, At, Running, Pcs, States, fields, lists, control, locals, globals
<1>2. Shape'
  BY DEF TypeOK, SleepYield, AfterSleep, Goto, At, Running, Pcs, States,
         fields, lists, control, locals, globals,
         Shape, IndInv, ListsExclusive, KernelThreadsImmortal, KernelThreadsHaveNoMm,
         Unborn, NoTaskLost, Placement, Findable, Dead
<1> QED BY <1>1, <1>2 DEF Shape, IndInv

\* Marking the shell as waited for (waitpid, from init) keeps the invariant.
LEMMA InitMarkInv ==
    ASSUME IndInv, InitMark
    PROVE  IndInv'
<1>1. TypeOK'
  BY DEF IndInv, TypeOK, InitMark, Goto, At, Running, Pcs, Pids, INIT, IDLE, CLEAR, Faults, fields, lists, control, locals, globals
<1>2. /\ UNCHANGED <<state, orphan, sigterm, mm, task_headp, sleep_task_list, wait_stdin_list,
                     zombie_list, current, cpu, pid_count>>
      /\ fault = "none" /\ INIT \in Pids
      /\ pc[INIT] = "mark" /\ pc' = [pc EXCEPT ![INIT] = "sleep1"]
  <2>1. INIT \in Pids
    BY MaxPidAssumption DEF Pids, INIT
  <2>2. Goto(INIT, "mark", "sleep1") /\ UNCHANGED <<state, orphan, sigterm, mm, lists, control, globals>>
    BY DEF InitMark
  <2> QED BY <2>1, <2>2 DEF Goto, At, Running, lists, control, globals
<1>3. ListsExclusive' /\ KernelThreadsImmortal'
  BY <1>2 DEF IndInv, ListsExclusive, KernelThreadsImmortal, Dead
<1>4. KernelThreadsHaveNoMm'
  BY <1>2 DEF IndInv, TypeOK, KernelThreadsHaveNoMm, INIT, IDLE, CLEAR
<1>5. Unborn' /\ NoTaskLost' /\ (fault = "none" => Placement)'
  BY <1>2 DEF IndInv, TypeOK, Unborn, NoTaskLost, Placement, Findable, Dead
<1> QED BY <1>1, <1>3, <1>4, <1>5 DEF IndInv

\* The schedule() at the end of the init loop keeps the invariant.
LEMMA InitYieldInv ==
    ASSUME IndInv, InitYield
    PROVE  IndInv'
<1>1. TypeOK'
  BY DEF IndInv, TypeOK, InitYield, Goto, At, Running, Pcs, INIT, IDLE, CLEAR, fields, lists, control, locals, globals
<1>2. Shape'
  BY DEF TypeOK, InitYield, Goto, At, Running, Pcs, INIT, IDLE, CLEAR,
         fields, lists, control, locals, globals,
         Shape, IndInv, ListsExclusive, KernelThreadsImmortal, KernelThreadsHaveNoMm,
         Unborn, NoTaskLost, Placement, Findable, Dead
<1> QED BY <1>1, <1>2 DEF Shape, IndInv

\* The collector passing over a zombie keeps the invariant.
LEMMA ClearSkipInv ==
    ASSUME IndInv, ClearSkip
    PROVE  IndInv'
<1>0. cp' \in Pids \cup {NoPid}
  BY NextOnLemma DEF ClearSkip, IndInv, TypeOK
<1>1. TypeOK'
  BY <1>0 DEF IndInv, TypeOK, ClearSkip, At, Running, fields, lists, control, locals, globals
<1>2. Shape'
  BY DEF TypeOK, ClearSkip, At, Running,
         fields, lists, control, locals, globals,
         Shape, IndInv, ListsExclusive, KernelThreadsImmortal, KernelThreadsHaveNoMm,
         Unborn, NoTaskLost, Placement, Findable, Dead
<1> QED BY <1>1, <1>2 DEF Shape, IndInv

\* The collector following a freed zombie keeps the invariant.
LEMMA ClearStaleInv ==
    ASSUME IndInv, ClearStale
    PROVE  IndInv'
<1>1. TypeOK'
  BY DEF IndInv, TypeOK, ClearStale, At, Running, Faults, fields, lists, control, locals, globals
<1>2. Shape'
  BY DEF TypeOK, ClearStale, At, Running, Faults,
         fields, lists, control, locals, globals,
         Shape, IndInv, ListsExclusive, KernelThreadsImmortal, KernelThreadsHaveNoMm,
         Unborn, NoTaskLost, Placement, Findable, Dead
<1> QED BY <1>1, <1>2 DEF Shape, IndInv

\* The collector resetting zombie_count keeps the invariant.
LEMMA ClearResetInv ==
    ASSUME IndInv, ClearReset
    PROVE  IndInv'
<1>1. TypeOK'
  BY DEF IndInv, TypeOK, ClearReset, Goto, At, Running, Pcs, INIT, IDLE, CLEAR, fields, lists, control, locals, globals
<1>2. Shape'
  BY DEF TypeOK, ClearReset, Goto, At, Running, Pcs, INIT, IDLE, CLEAR,
         fields, lists, control, locals, globals,
         Shape, IndInv, ListsExclusive, KernelThreadsImmortal, KernelThreadsHaveNoMm,
         Unborn, NoTaskLost, Placement, Findable, Dead
<1> QED BY <1>1, <1>2 DEF Shape, IndInv

\* The collector starting over at the head of zombie_list keeps the invariant.
LEMMA ClearSweepInv ==
    ASSUME IndInv, ClearSweep
    PROVE  IndInv'
<1>0. cp' \in Pids \cup {NoPid}
  BY DEF ClearSweep, IndInv, TypeOK
<1>1. TypeOK'
  BY <1>0 DEF IndInv, TypeOK, ClearSweep, Goto, At, Running, Pcs, fields, lists, control, locals, globals
<1>2. Shape'
  BY DEF TypeOK, ClearSweep, Goto, At, Running, Pcs, INIT, IDLE, CLEAR,
         fields, lists, control, locals, globals,
         Shape, IndInv, ListsExclusive, KernelThreadsImmortal, KernelThreadsHaveNoMm,
         Unborn, NoTaskLost, Placement, Findable, Dead
<1> QED BY <1>1, <1>2 DEF Shape, IndInv

\* Each list search of the waitpid that init calls keeps the invariant.
LEMMA InitFindInv ==
    ASSUME IndInv, InitFind
    PROVE  IndInv'
<1>0. PICK from \in {"find1", "find2", "find3"}, to \in {"mark", "find2", "find3", "spawn"} :
        /\ Goto(INIT, from, to)
        /\ UNCHANGED <<fields, lists, control, child, cp, globals, fault>>
  BY DEF InitFind
<1>1. TypeOK'
  BY <1>0 DEF IndInv, TypeOK, Goto, At, Running, Pcs, fields, lists, control, locals, globals
<1>2. Shape'
  BY <1>0 DEF TypeOK, Goto, At, Running, Pcs, INIT, IDLE, CLEAR,
         fields, lists, control, locals, globals,
         Shape, IndInv, ListsExclusive, KernelThreadsImmortal, KernelThreadsHaveNoMm,
         Unborn, NoTaskLost, Placement, Findable, Dead
<1> QED BY <1>1, <1>2 DEF Shape, IndInv

\* kill_by_pid, which spares tasks without an mm, keeps the invariant.
LEMMA KillByPidInv ==
    ASSUME IndInv, NEW q \in Pids, KillByPid(q)
    PROVE  IndInv'
<1>1. TypeOK'
  BY DEF IndInv, TypeOK, KillByPid, fields, lists, control, locals, globals
<1>2. Shape'
  BY DEF TypeOK, KillByPid, INIT, IDLE, CLEAR,
         fields, lists, control, locals, globals,
         Shape, IndInv, ListsExclusive, KernelThreadsImmortal, KernelThreadsHaveNoMm,
         Unborn, NoTaskLost, Placement, Findable, Dead
<1> QED BY <1>1, <1>2 DEF Shape, IndInv

\* SleepRemove: the running task leaves the active list.
LEMMA SleepRemoveInv ==
    ASSUME IndInv, NEW p \in Pids, SleepRemove(p)
    PROVE  IndInv'
<1>1. /\ task_headp' \in Seq(Pids) /\ NoRepeats(task_headp')
      /\ \A q : On(task_headp', q) <=> (q # p /\ On(task_headp, q))
  BY RemoveLemma DEF IndInv, TypeOK, ListsExclusive, SleepRemove
<1>2. TypeOK'
  BY <1>1 DEF IndInv, TypeOK, SleepRemove, Goto, At, Running, Pcs, Faults, fields, lists, control, locals, globals
<1>3. On(task_headp, p) /\ p # IDLE
  BY DEF IndInv, Placement, KernelThreadsHaveNoMm, SleepRemove, Goto, At, Running
<1>4. ListsExclusive'
  BY <1>1, ApartLemma DEF IndInv, ListsExclusive, SleepRemove
<1>5. Shape'
  BY <1>1, <1>3, <1>4, ApartLemma DEF IndInv, TypeOK, ListsExclusive, Shape, SleepRemove, Goto, At,
         Running, RunsOff, INIT, IDLE, CLEAR, fields, lists, control, locals, globals, KernelThreadsImmortal, KernelThreadsHaveNoMm, Unborn, NoTaskLost, Placement,
         Findable, Dead
<1> QED BY <1>2, <1>5 DEF Shape, IndInv

\* SleepAdd: the task that is on no list enters a wait list.
LEMMA SleepAddInv ==
    ASSUME IndInv, NEW p \in Pids, SleepAdd(p)
    PROVE  IndInv'
<1>0. ~Findable(p) /\ ~On(zombie_list, p) /\ state[p] # "none"
  BY DEF IndInv, Placement, NoTaskLost, Dead, SleepAdd, Goto, At, Running
<1>1. CASE p \in Users
  <2>0. wait_stdin_list' = AddToTasklist(wait_stdin_list, p)
    BY <1>1 DEF SleepAdd
  <2>1. /\ wait_stdin_list' \in Seq(Pids) /\ NoRepeats(wait_stdin_list')
        /\ \A q : On(wait_stdin_list', q) <=> (q = p \/ On(wait_stdin_list, q))
    BY <1>0, <2>0, AddLemma DEF IndInv, TypeOK, ListsExclusive, Findable
  <2>2. UNCHANGED <<task_headp, sleep_task_list, zombie_list>>
    BY <1>1 DEF SleepAdd
  <2>3. TypeOK'
    BY <2>1, <2>2 DEF IndInv, TypeOK, SleepAdd, Goto, At, Running, Pcs, fields, lists, control, locals, globals
  <2>4. ListsExclusive'
    BY <1>0, <2>1, <2>2, ApartLemma DEF IndInv, ListsExclusive, Findable
  <2>5. KernelThreadsImmortal' /\ KernelThreadsHaveNoMm'
    BY <1>0, <2>1, <2>2 DEF IndInv, TypeOK, KernelThreadsImmortal, KernelThreadsHaveNoMm, Dead, SleepAdd, Goto, At, Running, INIT, IDLE, CLEAR, fields, lists, control, locals, globals
  <2>6. Unborn'
    BY <1>0, <2>1, <2>2 DEF IndInv, TypeOK, Unborn, Findable, SleepAdd, Goto, At, Running, INIT, IDLE, CLEAR, fields, lists, control, locals, globals
  <2>7. NoTaskLost'
    BY <1>0, <2>1, <2>2, ApartLemma DEF IndInv, TypeOK, ListsExclusive, NoTaskLost, Unborn, Placement, Findable, Dead, SleepAdd, Goto, At, Running, INIT, IDLE, CLEAR, fields, lists, control, locals, globals
  <2>8. (fault = "none" => Placement)'
    BY <1>0, <2>1, <2>2, ApartLemma DEF IndInv, TypeOK, ListsExclusive, NoTaskLost, Placement, Findable, Dead, SleepAdd, Goto, At, Running, INIT, IDLE, CLEAR, fields, lists, control, locals, globals
  <2> QED BY <2>3, <2>4, <2>5, <2>6, <2>7, <2>8 DEF IndInv
<1>2. CASE p \notin Users
  <2>0. sleep_task_list' = AddToTasklist(sleep_task_list, p)
    BY <1>2 DEF SleepAdd
  <2>1. /\ sleep_task_list' \in Seq(Pids) /\ NoRepeats(sleep_task_list')
        /\ \A q : On(sleep_task_list', q) <=> (q = p \/ On(sleep_task_list, q))
    BY <1>0, <2>0, AddLemma DEF IndInv, TypeOK, ListsExclusive, Findable
  <2>2. UNCHANGED <<task_headp, wait_stdin_list, zombie_list>>
    BY <1>2 DEF SleepAdd
  <2>3. TypeOK'
    BY <2>1, <2>2 DEF IndInv, TypeOK, SleepAdd, Goto, At, Running, Pcs, fields, lists, control, locals, globals
  <2>4. ListsExclusive'
    BY <1>0, <2>1, <2>2, ApartLemma DEF IndInv, ListsExclusive, Findable
  <2>5. KernelThreadsImmortal' /\ KernelThreadsHaveNoMm'
    BY <1>0, <2>1, <2>2 DEF IndInv, TypeOK, KernelThreadsImmortal, KernelThreadsHaveNoMm, Dead, SleepAdd, Goto, At, Running, INIT, IDLE, CLEAR, fields, lists, control, locals, globals
  <2>6. Unborn'
    BY <1>0, <2>1, <2>2 DEF IndInv, TypeOK, Unborn, Findable, SleepAdd, Goto, At, Running, INIT, IDLE, CLEAR, fields, lists, control, locals, globals
  <2>7. NoTaskLost'
    BY <1>0, <2>1, <2>2, ApartLemma DEF IndInv, TypeOK, ListsExclusive, NoTaskLost, Unborn, Placement, Findable, Dead, SleepAdd, Goto, At, Running, INIT, IDLE, CLEAR, fields, lists, control, locals, globals
  <2>8. (fault = "none" => Placement)'
    BY <1>0, <2>1, <2>2, ApartLemma DEF IndInv, TypeOK, ListsExclusive, NoTaskLost, Placement, Findable, Dead, SleepAdd, Goto, At, Running, INIT, IDLE, CLEAR, fields, lists, control, locals, globals
  <2> QED BY <2>3, <2>4, <2>5, <2>6, <2>7, <2>8 DEF IndInv
<1> QED BY <1>1, <1>2

\* waitpid of a program: from the active list to sleep_task_list.
LEMMA WaitInv ==
    ASSUME IndInv, NEW p \in Pids, NEW c \in Pids, Wait(p, c)
    PROVE  IndInv'
<1>0. On(task_headp, p) /\ ~Dead(p) /\ p \in Users /\ p # IDLE
  BY DEF IndInv, Placement, Wait, Calls, At, Running, Users, FirstShell, IDLE
<1>1. /\ task_headp' \in Seq(Pids) /\ NoRepeats(task_headp')
      /\ \A q : On(task_headp', q) <=> (q # p /\ On(task_headp, q))
  BY RemoveLemma DEF IndInv, TypeOK, ListsExclusive, Wait, SleepOn
<1>2. /\ sleep_task_list' \in Seq(Pids) /\ NoRepeats(sleep_task_list')
      /\ \A q : On(sleep_task_list', q) <=> (q = p \/ On(sleep_task_list, q))
  BY <1>0, AddLemma, ApartLemma DEF IndInv, TypeOK, ListsExclusive, Wait
<1>3. TypeOK'
  BY <1>1, <1>2 DEF IndInv, TypeOK, Wait, SleepOn, Pcs, States, Faults, fields, lists, control, locals, globals
<1>4. ListsExclusive'
  BY <1>0, <1>1, <1>2, ApartLemma DEF IndInv, ListsExclusive, Wait
<1>5. KernelThreadsImmortal' /\ KernelThreadsHaveNoMm'
  BY <1>0, <1>1, <1>2 DEF IndInv, TypeOK, KernelThreadsImmortal, KernelThreadsHaveNoMm, Dead, Wait, SleepOn, Calls, At, Running, Users, FirstShell, RunsOff, INIT, IDLE, CLEAR, fields, lists, control, locals, globals
<1>6. Unborn'
  BY <1>0, <1>1, <1>2 DEF IndInv, TypeOK, Unborn, Findable, Wait, SleepOn, Calls, At, Running, Users, FirstShell, RunsOff, INIT, IDLE, CLEAR, fields, lists, control, locals, globals
<1>7. NoTaskLost'
  BY <1>0, <1>1, <1>2, ApartLemma DEF IndInv, TypeOK, ListsExclusive, NoTaskLost, Unborn, Placement, Findable, Dead, Wait, SleepOn, Calls, At, Running, Users, FirstShell, RunsOff, INIT, IDLE, CLEAR, fields, lists, control, locals, globals
<1>8. (fault = "none" => Placement)'
  BY <1>0, <1>1, <1>2, ApartLemma DEF IndInv, TypeOK, ListsExclusive, NoTaskLost, Placement, Findable, Dead, Wait, SleepOn, Calls, At, Running, Users, FirstShell, RunsOff, INIT, IDLE, CLEAR, fields, lists, control, locals, globals
<1> QED BY <1>3, <1>4, <1>5, <1>6, <1>7, <1>8 DEF IndInv

\* read of stdin with no line ready: from the active list to wait_stdin_list.
LEMMA ReadSleepsInv ==
    ASSUME IndInv, NEW p \in Pids, ReadSleeps(p)
    PROVE  IndInv'
<1>0. On(task_headp, p) /\ ~Dead(p) /\ p \in Users /\ p # IDLE
  BY DEF IndInv, Placement, ReadSleeps, Calls, At, Running, Users, FirstShell, IDLE
<1>1. /\ task_headp' \in Seq(Pids) /\ NoRepeats(task_headp')
      /\ \A q : On(task_headp', q) <=> (q # p /\ On(task_headp, q))
  BY RemoveLemma DEF IndInv, TypeOK, ListsExclusive, ReadSleeps, SleepOn
<1>2. /\ wait_stdin_list' \in Seq(Pids) /\ NoRepeats(wait_stdin_list')
      /\ \A q : On(wait_stdin_list', q) <=> (q = p \/ On(wait_stdin_list, q))
  BY <1>0, AddLemma, ApartLemma DEF IndInv, TypeOK, ListsExclusive, ReadSleeps
<1>3. TypeOK'
  BY <1>1, <1>2 DEF IndInv, TypeOK, ReadSleeps, SleepOn, Pcs, States, Faults, fields, lists, control, locals, globals
<1>4. ListsExclusive'
  BY <1>0, <1>1, <1>2, ApartLemma DEF IndInv, ListsExclusive, ReadSleeps
<1>5. KernelThreadsImmortal' /\ KernelThreadsHaveNoMm'
  BY <1>0, <1>1, <1>2 DEF IndInv, TypeOK, KernelThreadsImmortal, KernelThreadsHaveNoMm, Dead, ReadSleeps, SleepOn, Calls, At, Running, Users, FirstShell, RunsOff, INIT, IDLE, CLEAR, fields, lists, control, locals, globals
<1>6. Unborn'
  BY <1>0, <1>1, <1>2 DEF IndInv, TypeOK, Unborn, Findable, ReadSleeps, SleepOn, Calls, At, Running, Users, FirstShell, RunsOff, INIT, IDLE, CLEAR, fields, lists, control, locals, globals
<1>7. NoTaskLost'
  BY <1>0, <1>1, <1>2, ApartLemma DEF IndInv, TypeOK, ListsExclusive, NoTaskLost, Unborn, Placement, Findable, Dead, ReadSleeps, SleepOn, Calls, At, Running, Users, FirstShell, RunsOff, INIT, IDLE, CLEAR, fields, lists, control, locals, globals
<1>8. (fault = "none" => Placement)'
  BY <1>0, <1>1, <1>2, ApartLemma DEF IndInv, TypeOK, ListsExclusive, NoTaskLost, Placement, Findable, Dead, ReadSleeps, SleepOn, Calls, At, Running, Users, FirstShell, RunsOff, INIT, IDLE, CLEAR, fields, lists, control, locals, globals
<1> QED BY <1>3, <1>4, <1>5, <1>6, <1>7, <1>8 DEF IndInv

\* Enter: everybody on wait_stdin_list becomes active.
LEMMA KbdEnterInv ==
    ASSUME IndInv, KbdEnter
    PROVE  IndInv'
<1>1. /\ task_headp' \in Seq(Pids) /\ NoRepeats(task_headp')
      /\ \A q : On(task_headp', q) <=> (On(wait_stdin_list, q) \/ On(task_headp, q))
  BY WakeAllLemma, ApartLemma DEF IndInv, TypeOK, ListsExclusive, KbdEnter
<1>2. /\ wait_stdin_list' \in Seq(Pids) /\ NoRepeats(wait_stdin_list')
      /\ \A q : ~On(wait_stdin_list', q)
  BY EmptyLemma DEF KbdEnter
<1>3. TypeOK'
  BY <1>1, <1>2 DEF IndInv, TypeOK, KbdEnter, States, fields, lists, control, locals, globals
<1>4. ListsExclusive'
  BY <1>1, <1>2, ApartLemma DEF IndInv, ListsExclusive, KbdEnter
<1>5. KernelThreadsImmortal' /\ KernelThreadsHaveNoMm'
  BY <1>1, <1>2, MaxPidAssumption DEF IndInv, TypeOK, Pids, KernelThreadsImmortal, KernelThreadsHaveNoMm, Dead, KbdEnter, Interruptible, INIT, IDLE, CLEAR, fields, lists, control, locals, globals
<1>6. Unborn'
  BY <1>1, <1>2 DEF IndInv, TypeOK, Unborn, Findable, KbdEnter, Interruptible, INIT, IDLE, CLEAR, fields, lists, control, locals, globals
<1>7. NoTaskLost'
  BY <1>1, <1>2, ApartLemma DEF IndInv, TypeOK, ListsExclusive, NoTaskLost, Unborn, Placement, Findable, Dead, KbdEnter, Interruptible, INIT, IDLE, CLEAR, fields, lists, control, locals, globals
<1>8. (fault = "none" => Placement)'
  BY <1>1, <1>2, ApartLemma DEF IndInv, TypeOK, ListsExclusive, NoTaskLost, Placement, Findable, Dead, KbdEnter, Interruptible, INIT, IDLE, CLEAR, fields, lists, control, locals, globals
<1> QED BY <1>3, <1>4, <1>5, <1>6, <1>7, <1>8 DEF IndInv

\* fork and kernel_thread: a fresh pid at the head of the active list.
LEMMA NewTaskInv ==
    ASSUME IndInv, fault = "none", cpu = "run",
           pc[current] \notin {"sleep2", "sleep3"},
           NEW f \in Pids, f = current, NEW s \in {"ACTIVE", "NEW"}, NEW hasMm \in BOOLEAN,
           NEW l \in {"user", "exec"}, NewTask(f, s, hasMm, l)
    PROVE  IndInv'
<1> DEFINE n == pid_count
<1>0. /\ n \in Pids /\ n > FirstShell /\ state[n] = "none" /\ n # current /\ ~sigterm[n]
      /\ ~Findable(n) /\ ~On(zombie_list, n)
  BY DEF IndInv, TypeOK, Unborn, NoTaskLost, Placement, NewTask, Pids, FirstShell
<1>1. /\ task_headp' \in Seq(Pids) /\ NoRepeats(task_headp')
      /\ \A q : On(task_headp', q) <=> (q = n \/ On(task_headp, q))
  BY <1>0, AddLemma DEF IndInv, TypeOK, ListsExclusive, NewTask, Findable
<1>2. TypeOK'
  <2>1. pc' \in [Pids -> Pcs] /\ child' \in [Pids -> Pids \cup {NoPid}]
    BY <1>0 DEF IndInv, TypeOK, NewTask, Pcs
  <2>2. pid_count' \in 0..(MaxPid + 1)
    BY <1>0, MaxPidAssumption DEF NewTask, Pids, IndInv, TypeOK
  <2>3. /\ state' \in [Pids -> States] /\ ppid' \in [Pids -> Pids]
        /\ mm' \in [Pids -> BOOLEAN]
    BY <1>0 DEF IndInv, TypeOK, NewTask, States
  <2> QED BY <1>1, <2>1, <2>2, <2>3 DEF IndInv, TypeOK, NewTask, control
<1>3. ListsExclusive'
  BY <1>0, <1>1, ApartLemma DEF IndInv, ListsExclusive, NewTask, Findable
<1>4. KernelThreadsImmortal' /\ KernelThreadsHaveNoMm'
  <2>1. INIT \in Pids /\ IDLE \in Pids /\ CLEAR \in Pids
        /\ n # INIT /\ n # IDLE /\ n # CLEAR /\ INIT # IDLE
    BY <1>0, MaxPidAssumption DEF INIT, IDLE, CLEAR, FirstShell, Pids
  <2>2. KernelThreadsImmortal'
    BY <1>0, <1>1, <2>1 DEF IndInv, TypeOK, KernelThreadsImmortal, Dead, NewTask
  <2>3. KernelThreadsHaveNoMm'
    BY <1>0, <2>1 DEF IndInv, TypeOK, KernelThreadsHaveNoMm, NewTask
  <2> QED BY <2>2, <2>3
<1>5. Unborn'
  BY <1>0, <1>1 DEF IndInv, TypeOK, Unborn, Findable, NewTask, Pids, FirstShell
<1>6. NoTaskLost'
  BY <1>0, <1>1 DEF IndInv, TypeOK, NoTaskLost, Unborn, Findable, NewTask, Pids, INIT, IDLE, CLEAR
<1>7. (fault = "none" => Placement)'
  BY <1>0, <1>1 DEF IndInv, TypeOK, Placement, Findable, Dead, NewTask, control, INIT, IDLE, CLEAR, FirstShell
<1> QED BY <1>2, <1>3, <1>4, <1>5, <1>6, <1>7 DEF IndInv

\* exit_st of an active task other than a kernel thread.
LEMMA ExitStInv ==
    ASSUME IndInv, fault = "none", NEW ts \in Pids, NEW d \in Nat,
           On(task_headp, ts), ts \notin {INIT, IDLE, CLEAR}, ExitSt(ts, d)
    PROVE  IndInv'
<1> DEFINE w == WokenBy(ts)
           a == RemoveFromTasklist(task_headp, ts)
<1>0. w = NoPid \/ (w \in Pids /\ On(sleep_task_list, w))
  BY OnLemma DEF WokenBy, FatherSleeps, IndInv, TypeOK
<1>1. /\ a \in Seq(Pids) /\ NoRepeats(a)
      /\ \A q : On(a, q) <=> (q # ts /\ On(task_headp, q))
  BY RemoveLemma DEF IndInv, TypeOK, ListsExclusive
<1>2. /\ ~On(zombie_list, ts) /\ ~On(sleep_task_list, ts) /\ ~On(wait_stdin_list, ts)
      /\ NoPid \notin Pids
  BY ApartLemma, MaxPidAssumption DEF IndInv, ListsExclusive, NoPid, Pids
<1> HIDE DEF w, a
<1>3. /\ task_headp' \in Seq(Pids) /\ NoRepeats(task_headp')
      /\ \A q : On(task_headp', q) <=>
                  ((q # ts /\ On(task_headp, q)) \/ (q = w /\ w # NoPid))
  <2>0. task_headp' = IF w = NoPid THEN a ELSE AddToTasklist(a, w)
    BY DEF ExitSt, w, a
  <2>1. CASE w = NoPid
    BY <1>1, <2>0, <2>1
  <2>2. CASE w # NoPid
    <3>1. ~On(a, w) /\ w \in Pids
      BY <1>0, <1>1, <2>2, ApartLemma DEF IndInv, ListsExclusive
    <3> QED BY <1>1, <2>0, <2>2, <3>1, AddLemma
  <2> QED BY <2>1, <2>2
<1>4. /\ sleep_task_list' \in Seq(Pids) /\ NoRepeats(sleep_task_list')
      /\ \A q : On(sleep_task_list', q) <=> (q # w /\ On(sleep_task_list, q))
  BY RemoveLemma DEF ExitSt, w, IndInv, TypeOK, ListsExclusive
<1>5. /\ zombie_list' \in Seq(Pids) /\ NoRepeats(zombie_list')
      /\ \A q : On(zombie_list', q) <=> (q = ts \/ On(zombie_list, q))
  BY <1>2, AddLemma DEF ExitSt, IndInv, TypeOK, ListsExclusive
<1>6. /\ state' = [p \in Pids |-> CASE p = ts -> "ZOMBIE" [] p = w -> "ACTIVE"
                                     [] OTHER -> state[p]]
      /\ UNCHANGED <<ppid, waited, sigterm, mm, wait_stdin_list, current, intr,
                     frames, locals, pid_count, stdin_buf_state>>
      /\ cpu' = "sched" /\ depth' = d
      /\ fault' \in Faults /\ zombie_count' \in Nat
      /\ orphan' \in [Pids -> BOOLEAN]
  <2>1. fault' \in Faults
    BY DEF ExitSt, Faults
  <2>2. zombie_count' \in Nat /\ orphan' \in [Pids -> BOOLEAN]
    <3>1. zombie_count' = IF FatherSleeps(ts) THEN zombie_count ELSE zombie_count + 1
      BY DEF ExitSt
    <3>2. orphan' = [orphan EXCEPT ![ts] = ~FatherSleeps(ts)]
      BY DEF ExitSt
    <3>3. zombie_count' \in Nat
      BY <3>1 DEF IndInv, TypeOK
    <3>4. orphan' \in [Pids -> BOOLEAN]
      BY <3>2 DEF IndInv, TypeOK, FatherSleeps
    <3> QED BY <3>3, <3>4
  <2>3. /\ state' = [p \in Pids |-> CASE p = ts -> "ZOMBIE" [] p = w -> "ACTIVE"
                                         [] OTHER -> state[p]]
        /\ UNCHANGED <<ppid, waited, sigterm, mm, wait_stdin_list, current, intr,
                       frames, locals, pid_count, stdin_buf_state>>
        /\ cpu' = "sched" /\ depth' = d
    BY DEF ExitSt, w
  <2> QED BY <2>1, <2>2, <2>3
<1>7. state' \in [Pids -> States]
  BY <1>6 DEF IndInv, TypeOK, States
<1>8. TypeOK'
  BY <1>3, <1>4, <1>5, <1>6, <1>7 DEF IndInv, TypeOK, locals
<1>9. ListsExclusive'
  BY <1>0, <1>2, <1>3, <1>4, <1>5, <1>6, ApartLemma DEF IndInv, ListsExclusive
<1>10. KernelThreadsImmortal' /\ KernelThreadsHaveNoMm'
  BY <1>3, <1>6, MaxPidAssumption, SMTT(30) DEF IndInv, TypeOK, KernelThreadsImmortal,
     KernelThreadsHaveNoMm, Dead, INIT, IDLE, CLEAR, Pids, locals
<1>11. Unborn'
  BY <1>0, <1>2, <1>3, <1>4, <1>6 DEF IndInv, TypeOK, Unborn, Findable
<1>12. NoTaskLost'
  BY <1>0, <1>2, <1>3, <1>4, <1>5, <1>6, ApartLemma
     DEF IndInv, TypeOK, ListsExclusive, NoTaskLost, Unborn, Findable, locals
<1>13. (fault = "none" => Placement)'
  BY <1>0, <1>3, <1>4, <1>6 DEF IndInv, TypeOK, Placement, Findable, locals
<1> QED BY <1>8, <1>9, <1>10, <1>11, <1>12, <1>13 DEF IndInv

\* schedule() making a killed task exit keeps the invariant.
LEMMA ScheduleKillInv ==
    ASSUME IndInv, ScheduleKill
    PROVE  IndInv'
<1>1. SelectTask \in Pids /\ On(task_headp, SelectTask)
  BY SelectLemma
<1>2. SelectTask \notin {INIT, IDLE, CLEAR} /\ depth + 1 \in Nat
  BY DEF IndInv, TypeOK, KernelThreadsImmortal, ScheduleKill
<1> QED BY <1>1, <1>2, ExitStInv DEF ScheduleKill

\* exit of the running program keeps the invariant.
LEMMA ExitInv ==
    ASSUME IndInv, NEW p \in Pids, Exit(p)
    PROVE  IndInv'
<1>1. On(task_headp, p) /\ p \notin {INIT, IDLE, CLEAR} /\ fault = "none"
  BY DEF IndInv, Placement, Exit, Calls, At, Running, Users, FirstShell, INIT, IDLE, CLEAR
<1>2. 0 \in Nat /\ ExitSt(p, 0)
  BY DEF Exit
<1> QED BY <1>1, <1>2, ExitStInv

\* fork keeps the invariant.
LEMMA ForkInv ==
    ASSUME IndInv, NEW p \in Pids, Fork(p)
    PROVE  IndInv'
BY NewTaskInv DEF Fork, Calls, At, Running

\* kernel_thread for a new shell keeps the invariant.
LEMMA InitSpawnInv ==
    ASSUME IndInv, InitSpawn
    PROVE  IndInv'
<1>1. INIT \in Pids
  BY MaxPidAssumption DEF INIT, Pids
<1> QED BY <1>1, NewTaskInv DEF InitSpawn, At, Running

\* free_process: a zombie leaves the zombie list for good.
LEMMA FreeProcessInv ==
    ASSUME IndInv, fault = "none", NEW c, FreeProcess(c),
           NEW p \in Pids, current = p, cpu = "run",
           pc[p] \in {"reap", "visit"},
           UNCHANGED <<control, globals>>, child' \in [Pids -> Pids \cup {NoPid}],
           cp' \in Pids \cup {NoPid},
           pc' = pc \/ pc' = [pc EXCEPT ![p] = "spawn"] \/ pc' = [pc EXCEPT ![p] = "user"]
    PROVE  IndInv'
<1>1. /\ zombie_list' \in Seq(Pids) /\ NoRepeats(zombie_list')
      /\ \A q : On(zombie_list', q) <=> (q # c /\ On(zombie_list, q))
  BY RemoveLemma DEF FreeProcess, IndInv, TypeOK, ListsExclusive
<1>2. pc' \in [Pids -> Pcs] /\ \A q \in Pids : q # p => pc'[q] = pc[q]
  BY DEF IndInv, TypeOK, Pcs
<1>3. pc'[p] \in {"reap", "visit", "spawn", "user"}
  BY DEF IndInv, TypeOK
<1>4. state' \in [Pids -> States] /\ fault' \in Faults
  BY DEF FreeProcess, IndInv, TypeOK, States, Faults
<1>5. \A q \in Pids : state'[q] = IF q = c /\ state[q] = "ZOMBIE" THEN "FREED" ELSE state[q]
  BY DEF FreeProcess, IndInv, TypeOK
<1>6. UNCHANGED <<ppid, waited, orphan, sigterm, mm, task_headp, sleep_task_list,
                  wait_stdin_list, current, cpu, depth, intr, frames, zombie_count,
                  pid_count, stdin_buf_state>>
  BY DEF FreeProcess, control, globals
<1>7. TypeOK'
  BY <1>1, <1>2, <1>4, <1>6 DEF IndInv, TypeOK
<1>8. ListsExclusive'
  BY <1>1, <1>6, ApartLemma DEF IndInv, ListsExclusive
<1>9. KernelThreadsImmortal' /\ KernelThreadsHaveNoMm'
  <2>1. INIT \in Pids /\ IDLE \in Pids /\ CLEAR \in Pids
    BY MaxPidAssumption DEF INIT, IDLE, CLEAR, Pids
  <2>2. KernelThreadsImmortal'
    BY <1>5, <1>6, <2>1 DEF IndInv, KernelThreadsImmortal, Dead
  <2>3. KernelThreadsHaveNoMm'
    BY <1>2, <1>3, <1>6, <2>1 DEF IndInv, KernelThreadsHaveNoMm
  <2> QED BY <2>2, <2>3
<1>10. Unborn'
  BY <1>5, <1>6 DEF IndInv, Unborn, Findable
<1>11. NoTaskLost'
  <2> SUFFICES ASSUME fault' = "none", NEW q \in Pids
               PROVE  /\ (q < pid_count /\ state'[q] # "FREED" /\ pc'[q] # "sleep2")
                            => Findable(q)' \/ On(zombie_list', q)
                      /\ On(zombie_list', q) <=> state'[q] = "ZOMBIE"
                      /\ state'[q] = "FREED" => ~Findable(q)'
    BY <1>6 DEF NoTaskLost
  <2>1. Findable(q)' <=> Findable(q)
    BY <1>6 DEF Findable
  <2>2. /\ q < pid_count /\ state[q] # "FREED" /\ pc[q] # "sleep2"
             => Findable(q) \/ On(zombie_list, q)
        /\ On(zombie_list, q) <=> state[q] = "ZOMBIE"
        /\ state[q] = "FREED" => ~Findable(q)
    BY DEF IndInv, NoTaskLost
  <2>3. On(zombie_list, q) => ~Findable(q)
    BY ApartLemma DEF IndInv, ListsExclusive, Findable
  <2>4. pc'[q] # "sleep2" => pc[q] # "sleep2"
    BY <1>2
  <2> QED BY <1>1, <1>5, <2>1, <2>2, <2>3, <2>4
<1>12. (fault = "none" => Placement)'
  <2>1. p # c \/ state[p] # "ZOMBIE"
    BY DEF IndInv, Placement, Dead
  <2> QED BY <1>2, <1>3, <1>5, <1>6, <2>1 DEF IndInv, Placement, Findable, Dead
<1> QED BY <1>7, <1>8, <1>9, <1>10, <1>11, <1>12 DEF IndInv

\* free_process at the end of waitpid keeps the invariant.
LEMMA ReapInv ==
    ASSUME IndInv, NEW p \in Pids, Reap(p)
    PROVE  IndInv'
<1>1. child' \in [Pids -> Pids \cup {NoPid}] /\ cp' \in Pids \cup {NoPid}
  BY DEF Reap, IndInv, TypeOK
<1> QED BY <1>1, FreeProcessInv DEF Reap, Goto, At, Running

\* The collector freeing an orphan keeps the invariant.
LEMMA ClearOrphanInv ==
    ASSUME IndInv, ClearOrphan
    PROVE  IndInv'
<1>1. child' \in [Pids -> Pids \cup {NoPid}] /\ cp' \in Pids \cup {NoPid}
  BY NextOnLemma DEF ClearOrphan, IndInv, TypeOK
<1>2. CLEAR \in Pids
  BY MaxPidAssumption DEF CLEAR, Pids
<1> QED BY <1>1, <1>2, FreeProcessInv DEF ClearOrphan, At, Running

\* Ctrl-C in kbdintr keeps the invariant.
LEMMA KbdCtrlCInv ==
    ASSUME IndInv, KbdCtrlC
    PROVE  IndInv'
<1> DEFINE q == IF wait_stdin_list # <<>> THEN Last(wait_stdin_list) ELSE current
<1>1. q \in Pids
  BY DEF IndInv, TypeOK, Last
<1>2. KillByPid(q)
  BY DEF KbdCtrlC
<1> HIDE DEF q
<1> QED BY <1>1, <1>2, KillByPidInv

\* The initial state of the kernel's loop.
LEMMA InitInv == Init => IndInv
<1> SUFFICES ASSUME Init PROVE IndInv
  OBVIOUS
<1> DEFINE b == <<FirstShell, CLEAR, IDLE, INIT>>
<1>1. /\ Len(b) = 4 /\ b[1] = 3 /\ b[2] = 2 /\ b[3] = 1 /\ b[4] = 0
      /\ 0 \in Pids /\ 1 \in Pids /\ 2 \in Pids /\ 3 \in Pids
  BY MaxPidAssumption DEF FirstShell, INIT, IDLE, CLEAR, Pids
<1>2. b \in Seq(Pids)
  BY <1>1, MaxPidAssumption DEF FirstShell, INIT, IDLE, CLEAR, Pids
<1>3. NoRepeats(b) /\ \A q \in Pids : On(b, q) <=> q < 4
  BY <1>1 DEF NoRepeats, On, Pids
<1>4. task_headp = b
  BY DEF Init
<1> HIDE DEF b
<1>5. TypeOK
  <2>1. state \in [Pids -> States] /\ pc \in [Pids -> Pcs]
    BY DEF Init, States, Pcs
  <2>2. ppid \in [Pids -> Pids] /\ frames \in [Pids -> Nat]
    BY <1>1 DEF Init, INIT
  <2>3. child \in [Pids -> Pids \cup {NoPid}] /\ current \in Pids
    BY <1>1 DEF Init, INIT, FirstShell
  <2>4. /\ waited \in [Pids -> BOOLEAN] /\ orphan \in [Pids -> BOOLEAN]
        /\ sigterm \in [Pids -> BOOLEAN] /\ mm \in [Pids -> BOOLEAN]
    BY DEF Init
  <2>5. pid_count \in 0..(MaxPid + 1)
    BY MaxPidAssumption DEF Init, FirstShell
  <2> QED BY <1>2, <1>4, <2>1, <2>2, <2>3, <2>4, <2>5, EmptyLemma DEF Init, TypeOK, Faults
<1>6. ListsExclusive
  BY <1>3, <1>4, EmptyLemma, ApartLemma DEF Init, ListsExclusive
<1>7. KernelThreadsImmortal /\ KernelThreadsHaveNoMm
  BY <1>1, <1>3, <1>4 DEF Init, KernelThreadsImmortal, KernelThreadsHaveNoMm, Dead,
     FirstShell, INIT, IDLE, CLEAR
<1>8. Unborn
  BY <1>3, <1>4, EmptyLemma DEF Init, Unborn, Findable, FirstShell, Pids
<1>9. NoTaskLost
  BY <1>3, <1>4, EmptyLemma DEF Init, NoTaskLost, Findable, FirstShell, Pids
<1>10. Placement
  BY <1>1, <1>3, <1>4 DEF Init, Placement, Dead, FirstShell, INIT, IDLE, CLEAR
<1> QED BY <1>5, <1>6, <1>7, <1>8, <1>9, <1>10 DEF IndInv

\* Every step of the kernel keeps the invariant.
LEMMA NextInv == IndInv /\ [Next]_vars => IndInv'
<1> SUFFICES ASSUME IndInv, [Next]_vars PROVE IndInv'
  OBVIOUS
<1>1. CASE UNCHANGED vars
  BY <1>1 DEF vars, fields, lists, control, locals, globals, IndInv, TypeOK, ListsExclusive, KernelThreadsImmortal,
     KernelThreadsHaveNoMm, Unborn, NoTaskLost, Placement, Findable, Dead
<1>2. CASE Schedule
  BY <1>2, ScheduleKillInv, StayInv, SwitchInv DEF Schedule
<1>3. CASE TimerTick
  BY <1>3, TimerTickInv
<1>4. ASSUME NEW p \in Pids, Syscall(p) PROVE IndInv'
  BY <1>4, ForkInv, WaitInv, ReadInv, ReadSleepsInv, KillByPidInv, ExitInv DEF Syscall, Kill
<1>5. ASSUME NEW p \in Pids, KernelCode(p) PROVE IndInv'
  BY <1>5, ExecShellInv, ReadAgainInv, ReadSleepsAgainInv, SleepRemoveInv, SleepAddInv,
     SleepYieldInv, ReapInv DEF KernelCode
<1>6. CASE InitLoop
  BY <1>6, InitFindInv, InitMarkInv, InitSpawnInv, InitYieldInv DEF InitLoop
<1>7. CASE Collector
  BY <1>7, ClearSweepInv, ClearOrphanInv, ClearSkipInv, ClearStaleInv, ClearResetInv
     DEF Collector
<1>8. CASE KbdEnter \/ KbdCtrlC
  BY <1>8, KbdEnterInv, KbdCtrlCInv
<1>9. CASE Panicked
  BY <1>1, <1>9 DEF Panicked
<1> QED BY <1>1, <1>2, <1>3, <1>4, <1>5, <1>6, <1>7, <1>8, <1>9 DEF Next

\* The inductive invariant holds in every reachable state.
THEOREM Invariance == Spec => []IndInv
<1>1. Init => IndInv
  BY InitInv
<1>2. IndInv /\ [Next]_vars => IndInv'
  BY NextInv
<1> QED BY <1>1, <1>2, PTL DEF Spec

\* Every variable of the kernel keeps its type.
THEOREM TypeCorrect == Spec => []TypeOK
<1>1. IndInv => TypeOK
  BY DEF IndInv
<1> QED BY <1>1, Invariance, PTL

\* No task is ever linked into two lists, or twice into one, whatever the
\* programs and the keyboard do and however many tasks there are.
THEOREM TaskListsExclusive == Spec => []ListsExclusive
<1>1. IndInv => ListsExclusive
  BY DEF IndInv
<1> QED BY <1>1, Invariance, PTL

\* A live task that is not inside sleep() can be found, zombies are exactly
\* the tasks on the zombie list, and freed tasks are on no list.
THEOREM TasksAreNotLost == Spec => []NoTaskLost
<1>1. IndInv => NoTaskLost
  BY DEF IndInv
<1> QED BY <1>1, Invariance, PTL

\* Neither kill nor Ctrl-C nor the scheduler ends a kernel thread, and idle
\* is always there to be scheduled.
THEOREM KernelThreadsSurvive == Spec => []KernelThreadsImmortal
<1>1. IndInv => KernelThreadsImmortal
  BY DEF IndInv
<1> QED BY <1>1, Invariance, PTL

\* Every step leaves the dead dead: the tasks that a step sets ACTIVE, SLEEP
\* or NEW are found on a wait list, running, or unborn.
LEMMA StaysDeadStep == IndInv /\ [Next]_vars => StaysDead
<1> SUFFICES ASSUME IndInv, [Next]_vars PROVE StaysDead
  OBVIOUS
<1>1. CASE UNCHANGED state
  BY <1>1 DEF StaysDead
<1>2. ASSUME NEW ts \in Pids, NEW d, fault = "none", On(task_headp, ts), ExitSt(ts, d)
      PROVE  StaysDead
  <2>1. \A p \in Pids : On(sleep_task_list, p) => ~Dead(p)
    BY <1>2, ApartLemma DEF IndInv, ListsExclusive, NoTaskLost, Findable, Dead
  <2>2. WokenBy(ts) = NoPid \/ On(sleep_task_list, WokenBy(ts))
    BY DEF WokenBy, FatherSleeps
  <2>3. ~Dead(ts) /\ NoPid \notin Pids
    BY <1>2, ApartLemma, MaxPidAssumption
       DEF IndInv, ListsExclusive, NoTaskLost, Findable, Dead, NoPid, Pids
  <2> QED BY <1>2, <2>1, <2>2, <2>3 DEF ExitSt, StaysDead, Dead
<1>3. ASSUME NEW f, NEW s, NEW h, NEW l, NewTask(f, s, h, l) PROVE StaysDead
  BY <1>3 DEF NewTask, StaysDead, IndInv, TypeOK, Unborn, Pids
<1>4. ASSUME NEW c, FreeProcess(c) PROVE StaysDead
  BY <1>4 DEF FreeProcess, StaysDead, IndInv, TypeOK
<1>5. ASSUME NEW p \in Pids, Running(p), state' = [state EXCEPT ![p] = "SLEEP"]
      PROVE  StaysDead
  BY <1>5 DEF Running, StaysDead, IndInv, TypeOK, Placement, Dead
<1>6. CASE Schedule
  BY <1>1, <1>2, <1>6, SelectLemma
     DEF Schedule, ScheduleKill, ScheduleStay, ScheduleSwitch, fields
<1>7. ASSUME NEW p \in Pids, Syscall(p) PROVE StaysDead
  <2>1. CASE Exit(p)
    BY <1>2, <2>1 DEF Exit, Calls, At, Running, IndInv, Placement
  <2>2. CASE Fork(p)
    BY <1>3, <2>2 DEF Fork
  <2>3. CASE ReadSleeps(p)
    BY <1>5, <2>3 DEF ReadSleeps, Calls, At
  <2>4. ASSUME NEW c \in Pids, Wait(p, c) PROVE StaysDead
    BY <1>5, <2>4 DEF Wait, Calls, At
  <2>5. CASE Read(p) \/ \E q \in Pids : Kill(p, q)
    BY <1>1, <2>5 DEF Read, Kill, KillByPid, fields
  <2> QED BY <1>7, <2>1, <2>2, <2>3, <2>4, <2>5 DEF Syscall
<1>8. ASSUME NEW p \in Pids, KernelCode(p) PROVE StaysDead
  <2>1. CASE Reap(p)
    BY <1>4, <2>1 DEF Reap
  <2>2. CASE SleepYield(p)
    BY <1>5, <2>2 DEF SleepYield, Goto, At
  <2>3. CASE ExecShell(p) \/ ReadAgain(p) \/ ReadSleepsAgain(p) \/ SleepRemove(p) \/ SleepAdd(p)
    BY <1>1, <2>3 DEF ExecShell, ReadAgain, ReadSleepsAgain, SleepRemove, SleepAdd, fields
  <2> QED BY <1>8, <2>1, <2>2, <2>3 DEF KernelCode
<1>9. CASE InitLoop
  BY <1>1, <1>3, <1>9 DEF InitLoop, InitFind, InitMark, InitSpawn, InitYield, fields
<1>10. CASE Collector
  BY <1>1, <1>4, <1>10
     DEF Collector, ClearSweep, ClearOrphan, ClearSkip, ClearStale, ClearReset, fields
<1>11. CASE KbdEnter
  <2>1. \A p \in Pids : On(wait_stdin_list, p) => ~Dead(p)
    BY <1>11, ApartLemma
       DEF IndInv, ListsExclusive, NoTaskLost, Findable, Dead, KbdEnter, Interruptible
  <2> QED BY <1>11, <2>1 DEF KbdEnter, StaysDead, Dead
<1>12. CASE KbdCtrlC \/ TimerTick \/ Panicked \/ UNCHANGED vars
  BY <1>1, <1>12 DEF KbdCtrlC, KillByPid, TimerTick, Panicked, vars, fields
<1> QED BY <1>6, <1>7, <1>8, <1>9, <1>10, <1>11, <1>12 DEF Next

\* No interleaving of wakeups, sleeps and exits revives a dead task.
THEOREM TheDeadStayDead == Spec => DeadStaysDead
<1>1. IndInv /\ [Next]_vars => [StaysDead]_vars
  BY StaysDeadStep
<1> QED BY <1>1, Invariance, PTL DEF Spec, DeadStaysDead

(***************************************************************************)
(* Who waits for whom                                                      *)
(***************************************************************************)
\* A zombie that nobody but its father frees.
Kept(c) == state[c] = "ZOMBIE" /\ ~orphan[c]

\* Only programs have program fathers, nobody waits for an unborn task, and a
\* program without an mm has not run yet, so no task without one dies.
Kin(c) ==
    /\ ppid[c] # INIT => ppid[c] \in Users /\ c \in Users /\ c < pid_count
    /\ waited[c] => c < pid_count
    /\ c \in Users /\ c < pid_count /\ pc[c] # "exec" => mm[c]
    /\ Dead(c) => mm[c]

\* A live task that is marked as waited for has a father that waits for it and
\* for no other: a program sleeps already, init may still be on its way.
Expected(c) ==
    waited[c] /\ ~Dead(c) =>
        /\ child[ppid[c]] = c
        /\ IF ppid[c] = INIT THEN pc[INIT] \in {"sleep1", "sleep2", "sleep3", "reap"}
           ELSE On(sleep_task_list, ppid[c])

\* A program in waitpid sleeps while its child lives, and finds it a zombie.
Waiting(p) ==
    /\ On(sleep_task_list, p) => pc[p] = "reap"
    /\ pc[p] = "reap" /\ ~Dead(p) =>
          /\ child[p] \in Users /\ ppid[child[p]] = p /\ waited[child[p]]
          /\ IF On(sleep_task_list, p) THEN ~Dead(child[p]) ELSE Kept(child[p])

\* The same for the waitpid of init; but a shell that dies before init is on
\* sleep_task_list leaves init asleep, and it may then be freed.
InitWaiting ==
    /\ child[INIT] # NoPid =>
          ppid[child[INIT]] = INIT /\ child[INIT] \in Users /\ child[INIT] < pid_count
    /\ pc[INIT] \in {"sleep3", "reap"} /\ ~On(sleep_task_list, INIT) =>
          child[INIT] # NoPid /\ Kept(child[INIT])

WaitersNow ==
    /\ \A c \in Pids : Kin(c)
    /\ \A c \in Pids : Expected(c)
    /\ \A p \in Users : Waiting(p)
    /\ InitWaiting
    /\ cp # NoPid => Dead(cp)

\* All this as long as the kernel has not gone wrong, and how it can.
WaitersInv ==
    /\ pc[CLEAR] # "reap"
    /\ ~WaitAny => (fault = "none" => WaitersNow) /\ OnlyCollectorFaults

LEMMA PidFacts == /\ NoPid \notin Pids /\ INIT \in Pids /\ CLEAR \in Pids /\ IDLE \in Pids
                  /\ INIT \notin Users /\ CLEAR \notin Users
                  /\ \A p \in Users : p \in Pids /\ p # INIT /\ p # CLEAR /\ p # IDLE
                  /\ INIT # CLEAR /\ INIT # IDLE
BY MaxPidAssumption DEF NoPid, Pids, INIT, IDLE, CLEAR, Users, FirstShell

\* Where init stands once it has marked the shell.
Late == {"sleep1", "sleep2", "sleep3", "reap"}

\* A step that kills, frees, marks and wakes nobody and starts no wait.
LEMMA CalmStep ==
    ASSUME IndInv, IndInv', WaitersNow,
           UNCHANGED <<ppid, waited, orphan, child, pid_count>>,
           \A q \in Pids : Dead(q)' <=> Dead(q),
           \A q \in Pids : state'[q] = "ZOMBIE" <=> state[q] = "ZOMBIE",
           \A q \in Pids : mm[q] => mm'[q],
           \A q \in Users : On(sleep_task_list', q) <=> On(sleep_task_list, q),
           On(sleep_task_list, INIT) => On(sleep_task_list', INIT),
           \A q \in Users : pc'[q] = "reap" <=> pc[q] = "reap",
           \A q \in Users : pc'[q] # "exec" => pc[q] # "exec" \/ mm'[q],
           pc[INIT] \in Late => pc'[INIT] \in Late,
           pc'[INIT] \in {"sleep3", "reap"} =>
               pc[INIT] \in {"sleep3", "reap"} \/ On(sleep_task_list', INIT),
           cp' # NoPid => Dead(cp)'
    PROVE  WaitersNow'
<1>1. ASSUME NEW c \in Pids PROVE Kin(c)'
  <2>1. Kin(c)
    BY DEF WaitersNow
  <2> QED BY <2>1 DEF Kin
<1>2. ASSUME NEW c \in Pids PROVE Expected(c)'
  <2>1. Expected(c) /\ Kin(c)
    BY DEF WaitersNow
  <2>2. ppid[c] = INIT \/ ppid[c] \in Users
    BY <2>1 DEF Kin
  <2> QED BY <2>1, <2>2 DEF Expected, Late
<1>3. ASSUME NEW p \in Users PROVE Waiting(p)'
  <2>1. Waiting(p) /\ p \in Pids
    BY PidFacts DEF WaitersNow
  <2>2. pc[p] = "reap" /\ ~Dead(p) => child[p] \in Pids
    BY <2>1, PidFacts DEF Waiting
  <2> QED BY <2>1, <2>2 DEF Waiting, Kept
<1>4. InitWaiting'
  <2>1. InitWaiting
    BY DEF WaitersNow
  <2>2. child[INIT] # NoPid => child[INIT] \in Pids
    BY <2>1, PidFacts DEF InitWaiting
  <2> QED BY <2>1, <2>2 DEF InitWaiting, Kept
<1> QED BY <1>1, <1>2, <1>3, <1>4 DEF WaitersNow

\* A task that runs is on no wait list; one in waitpid is alive and awake.
LEMMA RunnerLemma ==
    ASSUME IndInv, NEW p \in Pids, Running(p), pc[p] \notin {"sleep2", "sleep3"}
    PROVE  On(task_headp, p) /\ ~On(sleep_task_list, p) /\ ~On(wait_stdin_list, p)
           /\ ~Dead(p) /\ p < pid_count
<1>1. Placement
  BY DEF IndInv, Running
<1>2. On(task_headp, p) /\ ~Dead(p) /\ state[p] # "none"
  BY <1>1 DEF Placement, Running
<1>3. ~On(sleep_task_list, p) /\ ~On(wait_stdin_list, p)
  BY <1>2, ApartLemma DEF IndInv, ListsExclusive
<1>4. pid_count \in Nat /\ p \in Nat
  BY DEF IndInv, TypeOK, Pids
<1>5. p < pid_count
  BY <1>2, <1>4 DEF IndInv, Unborn
<1> QED BY <1>2, <1>3, <1>5

\* The running task goes on from one statement to another, or sleeps on
\* wait_stdin_list; nobody else is concerned.
LEMMA RunnerStep ==
    ASSUME IndInv, IndInv', WaitersNow, NEW p \in Pids, NEW a, NEW b,
           Goto(p, a, b), a # "reap", b # "reap", b # "exec",
           p = INIT => (a \in Late => b \in Late) /\ (b = "sleep3" => a = "sleep3"),
           UNCHANGED <<ppid, waited, orphan, child, pid_count, sleep_task_list>>,
           mm' = mm \/ mm' = [mm EXCEPT ![p] = TRUE],
           a = "exec" => mm'[p],
           state' = state \/ state' = [state EXCEPT ![p] = "SLEEP"],
           cp' # NoPid => Dead(cp)'
    PROVE  WaitersNow'
<1>1. ~Dead(p)
  BY DEF IndInv, Placement, Goto, At, Running
<1>2. \A q \in Pids : (Dead(q)' <=> Dead(q)) /\ (state'[q] = "ZOMBIE" <=> state[q] = "ZOMBIE")
  BY <1>1, SMTT(30) DEF IndInv, TypeOK, Dead
<1>3. \A q \in Pids : mm[q] => mm'[q]
  BY DEF IndInv, TypeOK
<1>4. pc[p] = a /\ \A q \in Pids : pc'[q] = IF q = p THEN b ELSE pc[q]
  BY DEF IndInv, TypeOK, Goto, At
<1>5. \A q \in Users : (pc'[q] = "reap" <=> pc[q] = "reap")
                       /\ (pc'[q] # "exec" => pc[q] # "exec" \/ mm'[q])
  BY <1>4, PidFacts
<1>6. /\ pc[INIT] \in Late => pc'[INIT] \in Late
      /\ pc'[INIT] \in {"sleep3", "reap"} => pc[INIT] \in {"sleep3", "reap"}
  BY <1>4, PidFacts
<1> QED BY <1>2, <1>3, <1>5, <1>6, CalmStep

\* The steps of the scheduler, the timer, the keyboard and kill, but for exits.
LEMMA CalmActions ==
    ASSUME IndInv, IndInv', WaitersNow,
           \/ ScheduleStay \/ ScheduleSwitch \/ TimerTick \/ KbdEnter \/ KbdCtrlC
           \/ \E p \in Pids : Read(p) \/ \E q \in Pids : Kill(p, q)
    PROVE  WaitersNow' /\ fault' = "none"
<1>1. /\ UNCHANGED <<ppid, waited, orphan, mm, sleep_task_list, pc, child, cp, pid_count, fault>>
      /\ fault = "none"
  BY DEF ScheduleStay, ScheduleSwitch, TimerTick, KbdEnter, KbdCtrlC, Read, Kill, KillByPid,
         Interruptible, Calls, At, Running, fields, lists, control, locals, globals
<1>2. \A q \in Pids : On(wait_stdin_list, q) => ~Dead(q)
  BY <1>1, ApartLemma DEF IndInv, NoTaskLost, ListsExclusive, Findable, Dead
<1>3. \A q \in Pids : (Dead(q)' <=> Dead(q)) /\ (state'[q] = "ZOMBIE" <=> state[q] = "ZOMBIE")
  <2>1. CASE UNCHANGED state
    BY <2>1 DEF Dead
  <2>2. CASE KbdEnter
    BY <1>2, <2>2 DEF KbdEnter, Dead
  <2> QED BY <2>1, <2>2 DEF ScheduleStay, ScheduleSwitch, TimerTick, KbdCtrlC, Read, Kill, KillByPid, fields
<1>4. cp' # NoPid => Dead(cp)'
  <2>1. cp \in Pids \cup {NoPid}
    BY DEF IndInv, TypeOK
  <2>2. cp # NoPid => Dead(cp)
    BY DEF WaitersNow
  <2> QED BY <1>1, <1>3, <2>1, <2>2 DEF Dead
<1>5. WaitersNow'
  BY <1>1, <1>3, <1>4, CalmStep
<1> QED BY <1>1, <1>5

\* p of thread_clear stays among the dead when nobody is freed or revived.
LEMMA CollectorKeeps ==
    ASSUME IndInv, WaitersNow, UNCHANGED cp,
           \A q \in Pids : Dead(q) => Dead(q)'
    PROVE  cp' # NoPid => Dead(cp)'
<1>1. cp \in Pids \cup {NoPid}
  BY DEF IndInv, TypeOK
<1>2. cp # NoPid => Dead(cp)
  BY DEF WaitersNow
<1>3. PICK x : x = cp
  OBVIOUS
<1> QED BY <1>1, <1>2, <1>3 DEF Dead

\* The same when the running task, which is alive, goes to sleep.
LEMMA CollectorKeepsRunner ==
    ASSUME IndInv, WaitersNow, NEW p \in Pids, Running(p), UNCHANGED cp,
           state' = state \/ state' = [state EXCEPT ![p] = "SLEEP"]
    PROVE  cp' # NoPid => Dead(cp)'
<1>1. ~Dead(p)
  BY DEF IndInv, Placement, Running
<1>2. \A q \in Pids : Dead(q) => Dead(q)'
  BY <1>1 DEF IndInv, TypeOK, Dead
<1> QED BY <1>2, CollectorKeeps

\* The running task passes statements that concern nobody else.
LEMMA RunnerActions ==
    ASSUME IndInv, IndInv', WaitersNow, NEW p \in Pids,
           ExecShell(p) \/ ReadAgain(p) \/ ReadSleepsAgain(p) \/ SleepRemove(p) \/ ReadSleeps(p)
    PROVE  WaitersNow' /\ fault' = "none"
<1>1. Running(p) /\ fault = "none"
  BY DEF ExecShell, ReadAgain, ReadSleepsAgain, SleepRemove, ReadSleeps, Goto, Calls, At, Running
<1>2. CASE ExecShell(p)
  <2>1. mm'[p]
    BY <1>2 DEF ExecShell, IndInv, TypeOK
  <2>2. cp' # NoPid => Dead(cp)'
    BY <1>1, <1>2, CollectorKeepsRunner DEF ExecShell
  <2>3. Goto(p, "exec", "user") /\ mm' = [mm EXCEPT ![p] = TRUE]
        /\ UNCHANGED <<state, ppid, waited, orphan, child, pid_count, sleep_task_list, fault>>
    BY <1>2 DEF ExecShell, lists, globals
  <2>4. p = INIT => ("exec" \in Late => "user" \in Late)
    BY DEF Late
  <2> QED BY <1>1, <2>1, <2>2, <2>3, <2>4, RunnerStep
<1>3. CASE ReadAgain(p)
  <2>1. Goto(p, "read", "user")
        /\ UNCHANGED <<state, ppid, waited, orphan, mm, child, pid_count, sleep_task_list, cp, fault>>
    BY <1>3 DEF ReadAgain, lists, fields
  <2>2. "read" \notin Late
    BY DEF Late
  <2> QED BY <1>1, <2>1, <2>2, RunnerStep, CollectorKeepsRunner
<1>4. CASE ReadSleepsAgain(p)
  <2>1. Goto(p, "read", "sleep1")
        /\ UNCHANGED <<state, ppid, waited, orphan, mm, child, pid_count, sleep_task_list, cp, fault>>
    BY <1>4 DEF ReadSleepsAgain, lists, fields, globals
  <2>2. "read" \notin Late
    BY DEF Late
  <2> QED BY <1>1, <2>1, <2>2, RunnerStep, CollectorKeepsRunner
<1>5. CASE SleepRemove(p)
  <2>1. Goto(p, "sleep1", "sleep2")
        /\ UNCHANGED <<state, ppid, waited, orphan, mm, child, pid_count, sleep_task_list, cp>>
    BY <1>5 DEF SleepRemove, fields, globals
  <2>2. "sleep2" \in Late
    BY DEF Late
  <2>3. On(task_headp, p)
    BY <1>1, <2>1, RunnerLemma DEF Goto, At
  <2>4. fault' = "none"
    BY <1>5, <2>3 DEF SleepRemove, RunsOff
  <2> QED BY <1>1, <2>1, <2>2, <2>4, RunnerStep, CollectorKeepsRunner
<1>6. CASE ReadSleeps(p)
  <2>1. Goto(p, "user", "read") /\ state' = [state EXCEPT ![p] = "SLEEP"]
        /\ UNCHANGED <<ppid, waited, orphan, mm, child, pid_count, sleep_task_list, cp>>
    BY <1>6 DEF ReadSleeps, Calls, Goto, globals
  <2>2. "user" \notin Late
    BY DEF Late
  <2>3. On(task_headp, p)
    BY <1>1, <2>1, RunnerLemma DEF Goto, At
  <2>4. fault' = "none"
    BY <1>6, <2>3 DEF ReadSleeps, SleepOn, RunsOff
  <2> QED BY <1>1, <2>1, <2>2, <2>4, RunnerStep, CollectorKeepsRunner
<1> QED BY <1>2, <1>3, <1>4, <1>5, <1>6

\* add_to_tasklist in sleep(): init is on sleep_task_list from here on.
LEMMA SleepAddWaits ==
    ASSUME IndInv, IndInv', WaitersNow, NEW p \in Pids, SleepAdd(p)
    PROVE  WaitersNow' /\ fault' = "none"
<1>1. /\ Goto(p, "sleep2", "sleep3") /\ Running(p) /\ fault = "none"
      /\ UNCHANGED <<state, ppid, waited, orphan, mm, child, pid_count, cp, fault>>
  BY DEF SleepAdd, Goto, At, Running, fields, globals
<1>2. cp' # NoPid => Dead(cp)'
  BY <1>1, CollectorKeepsRunner
<1>3. pc[p] = "sleep2" /\ \A q \in Pids : pc'[q] = IF q = p THEN "sleep3" ELSE pc[q]
  BY <1>1 DEF IndInv, TypeOK, Goto, At
<1>4. CASE p \in Users
  <2>1. UNCHANGED sleep_task_list /\ p # INIT
    BY <1>4, PidFacts DEF SleepAdd
  <2> QED BY <1>1, <1>2, <2>1, RunnerStep
<1>5. CASE p \notin Users
  <2>1. \A q : On(sleep_task_list', q) <=> (q = p \/ On(sleep_task_list, q))
    <3>1. sleep_task_list' = AddToTasklist(sleep_task_list, p) /\ sleep_task_list \in Seq(Pids)
      BY <1>5 DEF SleepAdd, IndInv, TypeOK
    <3> QED BY <3>1, AddLemma
  <2>2. /\ \A q \in Users : pc'[q] = pc[q] /\ (On(sleep_task_list', q) <=> On(sleep_task_list, q))
        /\ On(sleep_task_list, INIT) => On(sleep_task_list', INIT)
    BY <1>3, <1>5, <2>1, PidFacts
  <2>3. /\ pc[INIT] \in Late => pc'[INIT] \in Late
        /\ pc'[INIT] \in {"sleep3", "reap"} =>
               pc[INIT] \in {"sleep3", "reap"} \/ On(sleep_task_list', INIT)
    BY <1>3, <2>1, PidFacts DEF Late
  <2>4. \A q \in Pids : (Dead(q)' <=> Dead(q)) /\ (state'[q] = "ZOMBIE" <=> state[q] = "ZOMBIE")
    BY <1>1 DEF Dead
  <2>5. WaitersNow'
    BY <1>1, <1>2, <2>2, <2>3, <2>4, CalmStep
  <2> QED BY <1>1, <2>5
<1> QED BY <1>4, <1>5

\* The last statements of sleep().
LEMMA SleepYieldWaits ==
    ASSUME IndInv, IndInv', WaitersNow, NEW p \in Pids, SleepYield(p)
    PROVE  WaitersNow' /\ fault' = "none"
<1>1. /\ Goto(p, "sleep3", AfterSleep(p)) /\ Running(p) /\ fault = "none"
      /\ state' = [state EXCEPT ![p] = "SLEEP"]
      /\ UNCHANGED <<ppid, waited, orphan, mm, child, pid_count, cp, sleep_task_list, fault>>
  BY DEF SleepYield, Goto, At, Running, lists, globals
<1>2. cp' # NoPid => Dead(cp)'
  BY <1>1, CollectorKeepsRunner
<1>3. pc[p] = "sleep3" /\ \A q \in Pids : pc'[q] = IF q = p THEN AfterSleep(p) ELSE pc[q]
  BY <1>1 DEF IndInv, TypeOK, Goto, At
<1>4. (p = INIT => AfterSleep(p) = "reap") /\ (p \in Users => AfterSleep(p) = "read")
  BY PidFacts DEF AfterSleep
<1>5. \A q \in Users : (pc'[q] = "reap" <=> pc[q] = "reap") /\ (pc'[q] # "exec" => pc[q] # "exec")
  BY <1>3, <1>4, PidFacts
<1>6. /\ pc[INIT] \in Late => pc'[INIT] \in Late
      /\ pc'[INIT] \in {"sleep3", "reap"} => pc[INIT] \in {"sleep3", "reap"}
  BY <1>3, <1>4, PidFacts DEF Late
<1>7. ~Dead(p)
  BY <1>1 DEF IndInv, Placement, Running
<1>8. \A q \in Pids : (Dead(q)' <=> Dead(q)) /\ (state'[q] = "ZOMBIE" <=> state[q] = "ZOMBIE")
  BY <1>1, <1>7 DEF IndInv, TypeOK, Dead
<1>9. WaitersNow'
  BY <1>1, <1>2, <1>5, <1>6, <1>8, CalmStep
<1> QED BY <1>1, <1>9

\* The searches of init's waitpid and its schedule().
LEMMA InitWalks ==
    ASSUME IndInv, IndInv', WaitersNow, InitFind \/ InitYield
    PROVE  WaitersNow' /\ fault' = "none"
<1>1. PICK a \in {"find1", "find2", "find3", "yield"}, b \in {"mark", "find1", "find2", "find3", "spawn"} :
        /\ Goto(INIT, a, b)
        /\ UNCHANGED <<fields, lists, child, cp, globals, fault>>
  BY DEF InitFind, InitYield
<1>2. Running(INIT) /\ fault = "none" /\ INIT \in Pids
  BY <1>1, PidFacts DEF Goto, At, Running
<1>3. UNCHANGED <<state, ppid, waited, orphan, mm, child, pid_count, sleep_task_list, cp, fault>>
  BY <1>1 DEF fields, lists, globals
<1>4. a \notin Late /\ a # "reap" /\ b # "reap" /\ b # "exec" /\ b # "sleep3" /\ a # "exec"
  BY DEF Late
<1> QED BY <1>1, <1>2, <1>3, <1>4, RunnerStep, CollectorKeepsRunner

\* init marks the shell and goes on to sleep.
LEMMA InitMarkWaits ==
    ASSUME IndInv, IndInv', WaitersNow, InitMark
    PROVE  WaitersNow' /\ fault' \in {"none", "stale mark"}
<1>1. /\ Goto(INIT, "mark", "sleep1") /\ Running(INIT) /\ fault = "none" /\ INIT \in Pids
      /\ UNCHANGED <<state, ppid, orphan, mm, child, pid_count, sleep_task_list, cp>>
      /\ fault' \in {"none", "stale mark"}
  BY PidFacts DEF InitMark, Goto, At, Running, lists, globals
<1>2. pc[INIT] = "mark" /\ \A q \in Pids : pc'[q] = IF q = INIT THEN "sleep1" ELSE pc[q]
  BY <1>1 DEF IndInv, TypeOK, Goto, At
<1>3. \A q \in Pids : waited'[q] = (IF q = child[INIT] THEN TRUE ELSE waited[q])
  BY DEF InitMark, IndInv, TypeOK
<1>4. InitWaiting
  BY DEF WaitersNow
<1>5. \A q \in Pids : (Dead(q)' <=> Dead(q)) /\ (Kept(q)' <=> Kept(q))
  BY <1>1 DEF Dead, Kept
<1>6. cp' # NoPid => Dead(cp)'
  BY <1>1, CollectorKeepsRunner
<1>7. ASSUME NEW c \in Pids PROVE Kin(c)' /\ Expected(c)'
  <2>1. Kin(c) /\ Expected(c)
    BY DEF WaitersNow
  <2>2. c = child[INIT] => ppid[c] = INIT /\ c < pid_count
    BY <1>4, PidFacts DEF InitWaiting
  <2>3. c # INIT => pc'[c] = pc[c]
    BY <1>2
  <2>4. Kin(c)'
    BY <1>1, <1>3, <1>5, <2>1, <2>2, <2>3, PidFacts DEF Kin
  <2>5. pc'[INIT] \in {"sleep1", "sleep2", "sleep3", "reap"}
    BY <1>2, PidFacts
  <2>6. Expected(c)'
    BY <1>1, <1>2, <1>3, <1>5, <2>1, <2>2, <2>5 DEF Expected
  <2> QED BY <2>4, <2>6
<1>8. ASSUME NEW p \in Users PROVE Waiting(p)'
  <2>1. Waiting(p) /\ p \in Pids /\ p # INIT
    BY PidFacts DEF WaitersNow
  <2>2. pc'[p] = pc[p]
    BY <1>2, <2>1
  <2>3. pc[p] = "reap" /\ ~Dead(p) => child[p] \in Pids
    BY <2>1, PidFacts DEF Waiting
  <2> QED BY <1>1, <1>3, <1>5, <2>1, <2>2, <2>3 DEF Waiting
<1>9. InitWaiting'
  <2>1. pc'[INIT] = "sleep1"
    BY <1>2, PidFacts
  <2> QED BY <1>1, <1>4, <2>1 DEF InitWaiting
<1> QED BY <1>1, <1>6, <1>7, <1>8, <1>9 DEF WaitersNow

\* The zombies that the collector passes.
LEMMA NextOnIsOn ==
    ASSUME NEW S, NEW l \in Seq(S), NEW p, NEW none, NextOn(l, p, none) # none
    PROVE  On(l, NextOn(l, p, none)) /\ NextOn(l, p, none) \in S
<1>1. On(l, p) /\ Pos(l, p) < Len(l) /\ NextOn(l, p, none) = l[Pos(l, p) + 1]
  BY DEF NextOn
<1>2. Pos(l, p) + 1 \in 1..Len(l)
  BY <1>1, OnLemma
<1> QED BY <1>1, <1>2 DEF On

LEMMA ZombiesAreDead ==
    ASSUME IndInv, fault = "none", NEW z, On(zombie_list, z) PROVE z \in Pids /\ state[z] = "ZOMBIE"
<1>1. z \in Pids
  BY OnLemma DEF IndInv, TypeOK
<1> QED BY <1>1 DEF IndInv, NoTaskLost

\* The collector walks the list and frees nobody.
LEMMA CollectorWalks ==
    ASSUME IndInv, IndInv', WaitersNow, ClearSweep \/ ClearSkip \/ ClearStale \/ ClearReset
    PROVE  WaitersNow' /\ fault' \in {"none", "stale sweep"}
<1>1. /\ fault = "none" /\ Running(CLEAR) /\ CLEAR \in Pids /\ CLEAR # INIT /\ CLEAR \notin Users
      /\ UNCHANGED <<state, ppid, waited, orphan, mm, child, pid_count, sleep_task_list>>
      /\ fault' \in {"none", "stale sweep"}
  BY PidFacts DEF ClearSweep, ClearSkip, ClearStale, ClearReset, Goto, At, Running, fields, lists, globals
<1>2. \A q \in Pids : q # CLEAR => pc'[q] = pc[q]
  BY DEF ClearSweep, ClearSkip, ClearStale, ClearReset, Goto, IndInv, TypeOK
<1>3. \A q \in Pids : (Dead(q)' <=> Dead(q)) /\ (state'[q] = "ZOMBIE" <=> state[q] = "ZOMBIE")
  BY <1>1 DEF Dead
<1>4. cp' # NoPid => Dead(cp)'
  <2> SUFFICES ASSUME cp' # NoPid PROVE state[cp'] \in {"ZOMBIE", "FREED"}
    BY <1>1 DEF Dead
  <2>1. CASE ClearSweep
    <3>1. zombie_list # << >> /\ cp' = Head(zombie_list) /\ zombie_list \in Seq(Pids)
      BY <2>1 DEF ClearSweep, IndInv, TypeOK
    <3>2. On(zombie_list, cp')
      BY <3>1 DEF On
    <3> QED BY <1>1, <3>2, ZombiesAreDead
  <2>2. CASE ClearSkip
    <3>1. cp' = NextOn(zombie_list, cp, NoPid) /\ zombie_list \in Seq(Pids)
      BY <2>2 DEF ClearSkip, IndInv, TypeOK
    <3>2. On(zombie_list, cp')
      BY <3>1, NextOnIsOn
    <3> QED BY <1>1, <3>2, ZombiesAreDead
  <2>3. CASE ClearStale \/ ClearReset
    BY <2>3 DEF ClearStale, ClearReset
  <2> QED BY <2>1, <2>2, <2>3
<1>5. pc'[INIT] = pc[INIT] /\ \A q \in Users : pc'[q] = pc[q]
  BY <1>1, <1>2, PidFacts
<1>6. WaitersNow'
  BY <1>1, <1>3, <1>4, <1>5, CalmStep
<1> QED BY <1>1, <1>6

\* waitpid of a program, for a child of its own.
LEMMA WaitWaits ==
    ASSUME IndInv, IndInv', WaitersNow, ~WaitAny, NEW p \in Pids, NEW c \in Pids, Wait(p, c)
    PROVE  WaitersNow' /\ fault' = "none"
<1>1. /\ Running(p) /\ fault = "none" /\ pc[p] = "user" /\ p \in Users /\ p # INIT
      /\ UNCHANGED <<ppid, orphan, mm, pid_count, cp>>
      /\ Findable(c) /\ ppid[c] = p
  BY PidFacts DEF Wait, Calls, At, Running, Waitable, globals
<1>2. On(task_headp, p) /\ ~On(sleep_task_list, p) /\ ~Dead(p)
  BY <1>1, RunnerLemma
<1>3. fault' = "none"
  BY <1>2 DEF Wait, SleepOn, RunsOff
<1>4. /\ \A q \in Pids : state'[q] = IF q = p THEN "SLEEP" ELSE state[q]
      /\ \A q \in Pids : pc'[q] = IF q = p THEN "reap" ELSE pc[q]
      /\ \A q \in Pids : child'[q] = IF q = p THEN c ELSE child[q]
      /\ \A q \in Pids : waited'[q] = IF q = c THEN TRUE ELSE waited[q]
  BY DEF Wait, IndInv, TypeOK
<1>5. \A q \in Pids : (Dead(q)' <=> Dead(q)) /\ (Kept(q)' <=> Kept(q))
  BY <1>1, <1>2, <1>4 DEF Dead, Kept
<1>6. \A q : On(sleep_task_list', q) <=> (q = p \/ On(sleep_task_list, q))
  <2>1. sleep_task_list' = AddToTasklist(sleep_task_list, p) /\ sleep_task_list \in Seq(Pids)
    BY DEF Wait, IndInv, TypeOK
  <2> QED BY <2>1, AddLemma
<1>7. ~Dead(c) /\ c < pid_count /\ c \in Users
  <2>1. Kin(c)
    BY DEF WaitersNow
  <2>2. ~Dead(c)
    BY <1>1, ApartLemma DEF IndInv, NoTaskLost, ListsExclusive, Findable, Dead
  <2> QED BY <1>1, <2>1, <2>2 DEF Kin
<1>8. cp' # NoPid => Dead(cp)'
  BY <1>1, CollectorKeepsRunner DEF Wait
<1>9. ASSUME NEW q \in Pids PROVE Kin(q)'
  <2>1. Kin(q)
    BY DEF WaitersNow
  <2>2. Kin(p)
    BY DEF WaitersNow
  <2>3. pc'[q] # "exec" => pc[q] # "exec"
    BY <1>1, <1>4
  <2> QED BY <1>1, <1>4, <1>5, <1>7, <2>1, <2>3 DEF Kin
<1>10. ASSUME NEW q \in Pids PROVE Expected(q)'
  <2>1. Expected(q) /\ Kin(q) /\ ppid[q] \in Pids
    BY DEF WaitersNow, IndInv, TypeOK
  <2>2. pc'[INIT] = pc[INIT]
    BY <1>1, <1>4, PidFacts
  <2>3. CASE q = c
    <3>1. child'[p] = c /\ On(sleep_task_list', p) /\ ppid' = ppid
      BY <1>1, <1>4, <1>6
    <3> QED BY <1>1, <2>3, <3>1 DEF Expected
  <2>4. CASE q # c
    <3>1. waited'[q] = waited[q] /\ (Dead(q)' <=> Dead(q)) /\ ppid' = ppid
      BY <1>1, <1>4, <1>5, <2>4
    <3>2. waited[q] /\ ~Dead(q) => ppid[q] # p
      BY <1>1, <1>2, <2>1 DEF Expected
    <3>3. ppid[q] # p => child'[ppid[q]] = child[ppid[q]]
      BY <1>4, <2>1
    <3>4. On(sleep_task_list, ppid[q]) => On(sleep_task_list', ppid[q])
      BY <1>6
    <3> QED BY <2>1, <2>2, <3>1, <3>2, <3>3, <3>4 DEF Expected
  <2> QED BY <2>3, <2>4
<1>11. ASSUME NEW q \in Users PROVE Waiting(q)'
  <2>1. Waiting(q) /\ q \in Pids
    BY PidFacts DEF WaitersNow
  <2>2. CASE q = p
    <3>1. pc'[p] = "reap" /\ child'[p] = c /\ waited'[c] /\ On(sleep_task_list', p) /\ ~Dead(c)'
      BY <1>4, <1>5, <1>6, <1>7
    <3> QED BY <1>1, <1>7, <2>2, <3>1 DEF Waiting
  <2>3. CASE q # p
    <3>1. pc'[q] = pc[q] /\ child'[q] = child[q] /\ (Dead(q)' <=> Dead(q))
          /\ (On(sleep_task_list', q) <=> On(sleep_task_list, q))
      BY <1>4, <1>5, <1>6, <2>1, <2>3
    <3>2. pc[q] = "reap" /\ ~Dead(q) => child[q] \in Pids
      BY <2>1, PidFacts DEF Waiting
    <3> QED BY <1>1, <1>4, <1>5, <2>1, <3>1, <3>2 DEF Waiting
  <2> QED BY <2>2, <2>3
<1>12. InitWaiting'
  <2>1. InitWaiting
    BY DEF WaitersNow
  <2>2. pc'[INIT] = pc[INIT] /\ child'[INIT] = child[INIT]
        /\ (On(sleep_task_list', INIT) <=> On(sleep_task_list, INIT))
    BY <1>1, <1>4, <1>6, PidFacts
  <2>3. child[INIT] # NoPid => child[INIT] \in Pids
    BY <2>1, PidFacts DEF InitWaiting
  <2> QED BY <1>1, <1>5, <2>1, <2>2, <2>3 DEF InitWaiting
<1> QED BY <1>3, <1>8, <1>9, <1>10, <1>11, <1>12 DEF WaitersNow

\* fork, and the kernel_thread of init: nobody waits for the new task yet.
LEMMA NewTaskWaits ==
    ASSUME IndInv, IndInv', WaitersNow, NEW f \in Pids, Running(f),
           NEW s \in {"ACTIVE", "NEW"}, NEW h \in BOOLEAN, NEW l \in {"user", "exec"},
           NewTask(f, s, h, l), l = "user" => f \in Users /\ h = TRUE,
           l = "exec" => f = INIT /\ pc[INIT] = "spawn"
    PROVE  WaitersNow' /\ fault' = "none"
<1>1. PICK n : n = pid_count
  OBVIOUS
<1>2. /\ n \in Pids /\ n > FirstShell /\ ~Findable(n) /\ state[n] = "none" /\ n \in Users
      /\ n # INIT /\ n # CLEAR
  BY <1>1, PidFacts DEF NewTask, IndInv, TypeOK, Unborn, Pids, Users, FirstShell, INIT, CLEAR
<1>3. /\ UNCHANGED <<waited, orphan, sleep_task_list, cp, fault>> /\ fault = "none"
      /\ pid_count' = n + 1
  BY <1>1 DEF NewTask, Running
<1>4. /\ \A q \in Pids : state'[q] = IF q = n THEN s ELSE state[q]
      /\ \A q \in Pids : ppid'[q] = IF q = n THEN f ELSE ppid[q]
      /\ \A q \in Pids : mm'[q] = IF q = n THEN h ELSE mm[q]
      /\ \A q \in Pids : q # INIT => pc'[q] = IF q = n THEN l ELSE pc[q]
      /\ \A q \in Pids : q # INIT => child'[q] = child[q]
  BY <1>1, <1>2 DEF NewTask, IndInv, TypeOK
<1>5. /\ pc'[INIT] = IF f = INIT THEN "yield" ELSE pc[INIT]
      /\ child'[INIT] = IF f = INIT THEN n ELSE child[INIT]
  BY <1>1, <1>2, PidFacts DEF NewTask, IndInv, TypeOK
<1>6. \A q \in Pids : (Dead(q)' <=> Dead(q)) /\ (Kept(q)' <=> Kept(q))
  BY <1>2, <1>3, <1>4 DEF Dead, Kept
<1>7. n \in Nat /\ \A q \in Pids : q \in Nat
  BY <1>2 DEF Pids
<1>8. ~waited[n]
  <2>1. Kin(n) /\ ~(n < n)
    BY <1>2, <1>7 DEF WaitersNow
  <2> QED BY <1>1, <2>1 DEF Kin
<1>9. cp' # NoPid => Dead(cp)'
  BY <1>3, <1>6, CollectorKeeps
<1>10. ASSUME NEW c \in Pids PROVE Kin(c)'
  <2>1. Kin(c)
    BY DEF WaitersNow
  <2>2. c < n => c < n + 1
    BY <1>7
  <2>3. CASE c = n
    <3>1. n < n + 1 /\ ~Dead(n)
      BY <1>2, <1>7 DEF Dead
    <3>2. ppid'[n] = f /\ mm'[n] = h /\ pc'[n] = l /\ ~Dead(n)' /\ ~waited'[n]
      BY <1>2, <1>3, <1>4, <1>6, <1>8, <3>1
    <3> QED BY <1>2, <1>3, <2>3, <3>1, <3>2, PidFacts DEF Kin
  <2>4. CASE c # n
    <3>1. ppid'[c] = ppid[c] /\ mm'[c] = mm[c] /\ (Dead(c)' <=> Dead(c)) /\ waited'[c] = waited[c]
          /\ (c \in Users => pc'[c] = pc[c])
      BY <1>3, <1>4, <1>6, <2>4, PidFacts
    <3>2. c < n + 1 => c < n
      BY <1>7, <2>4
    <3> QED BY <1>1, <1>3, <2>1, <2>2, <3>1, <3>2 DEF Kin
  <2> QED BY <2>3, <2>4
<1>11. ASSUME NEW c \in Pids PROVE Expected(c)'
  <2>1. Expected(c) /\ Kin(c) /\ ppid[c] \in Pids
    BY DEF WaitersNow, IndInv, TypeOK
  <2>2. CASE c = n
    BY <1>3, <1>8, <2>2 DEF Expected
  <2>3. CASE c # n
    <3>1. waited'[c] = waited[c] /\ (Dead(c)' <=> Dead(c)) /\ ppid'[c] = ppid[c]
      BY <1>3, <1>4, <1>6, <2>3
    <3>2. CASE ppid[c] = INIT
      <4>1. f = INIT => ~(waited[c] /\ ~Dead(c))
        BY <2>1, <3>2, PidFacts DEF Expected
      <4> QED BY <1>5, <2>1, <3>1, <3>2, <4>1 DEF Expected
    <3>3. CASE ppid[c] # INIT
      <4>1. child'[ppid[c]] = child[ppid[c]]
        BY <1>4, <2>1, <3>3
      <4> QED BY <1>3, <2>1, <3>1, <3>3, <4>1 DEF Expected
    <3> QED BY <3>2, <3>3
  <2> QED BY <2>2, <2>3
<1>12. ASSUME NEW p \in Users PROVE Waiting(p)'
  <2>1. Waiting(p) /\ p \in Pids /\ p # INIT
    BY PidFacts DEF WaitersNow
  <2>2. CASE p = n
    <3>1. ~On(sleep_task_list, n) /\ pc'[n] # "reap"
      BY <1>2, <1>4 DEF Findable
    <3> QED BY <1>3, <2>2, <3>1 DEF Waiting
  <2>3. CASE p # n
    <3>1. pc'[p] = pc[p] /\ child'[p] = child[p] /\ (Dead(p)' <=> Dead(p))
      BY <1>4, <1>6, <2>1, <2>3
    <3>2. pc[p] = "reap" /\ ~Dead(p) => child[p] \in Pids /\ child[p] # n
      BY <1>8, <2>1, PidFacts DEF Waiting
    <3>3. pc[p] = "reap" /\ ~Dead(p) => ppid'[child[p]] = ppid[child[p]]
      BY <1>4, <3>2
    <3> QED BY <1>3, <1>6, <2>1, <3>1, <3>2, <3>3 DEF Waiting
  <2> QED BY <2>2, <2>3
<1>13. InitWaiting'
  <2>1. InitWaiting
    BY DEF WaitersNow
  <2>2. CASE f = INIT
    <3>1. child'[INIT] = n /\ pc'[INIT] = "yield" /\ ppid'[n] = INIT /\ n < n + 1
      BY <1>2, <1>4, <1>5, <1>7, <2>2
    <3> QED BY <1>2, <1>3, <3>1 DEF InitWaiting
  <2>3. CASE f # INIT
    <3>1. child'[INIT] = child[INIT] /\ pc'[INIT] = pc[INIT]
      BY <1>5, <2>3
    <3>2. child[INIT] # NoPid => child[INIT] \in Pids /\ child[INIT] # n /\ child[INIT] < n + 1
      BY <1>1, <1>7, <2>1, PidFacts DEF InitWaiting
    <3>3. child[INIT] # NoPid => ppid'[child[INIT]] = ppid[child[INIT]]
      BY <1>4, <3>2
    <3> QED BY <1>3, <1>6, <2>1, <3>1, <3>2, <3>3 DEF InitWaiting
  <2> QED BY <2>2, <2>3
<1> QED BY <1>3, <1>9, <1>10, <1>11, <1>12, <1>13 DEF WaitersNow

\* exit_st of a task that is not a kernel thread: if its father sleeps it is
\* the task that its father sleeps for.
LEMMA ExitStWaits ==
    ASSUME IndInv, IndInv', WaitersNow, fault = "none", NEW ts \in Pids, NEW d,
           On(task_headp, ts), mm[ts], ExitSt(ts, d)
    PROVE  WaitersNow' /\ fault' \in {"none", "wake clear"}
<1>1. PICK w : w = WokenBy(ts)
  OBVIOUS
<1>2. w = NoPid \/ (w \in Pids /\ On(sleep_task_list, w))
  BY <1>1, OnLemma, ZenonT(60) DEF WokenBy, FatherSleeps, IndInv, TypeOK
<1>3. ~Dead(ts) /\ ~On(sleep_task_list, ts) /\ ts # w
  <2>1. ~On(zombie_list, ts) /\ ~On(sleep_task_list, ts)
    BY ApartLemma DEF IndInv, ListsExclusive
  <2>2. state[ts] # "FREED" /\ state[ts] # "ZOMBIE"
    BY <2>1 DEF IndInv, NoTaskLost, Findable
  <2> QED BY <1>2, <2>1, <2>2, PidFacts DEF Dead
<1>4. \A q \in Pids : On(sleep_task_list, q) => ~Dead(q)
  BY ApartLemma DEF IndInv, NoTaskLost, ListsExclusive, Findable, Dead
<1>5. /\ \A q \in Pids : Dead(q)' <=> (q = ts \/ Dead(q))
      /\ \A q \in Pids : state'[q] = "ZOMBIE" <=> (q = ts \/ state[q] = "ZOMBIE")
  <2>1. \A q \in Pids : state'[q] = IF q = ts THEN "ZOMBIE" ELSE IF q = w THEN "ACTIVE" ELSE state[q]
    BY <1>1, <1>3 DEF ExitSt
  <2> QED BY <1>2, <1>4, <2>1, PidFacts DEF Dead
<1>6. \A q : On(sleep_task_list', q) <=> (q # w /\ On(sleep_task_list, q))
  <2>1. sleep_task_list' = RemoveFromTasklist(sleep_task_list, w) /\ sleep_task_list \in Seq(Pids)
        /\ NoRepeats(sleep_task_list)
    BY <1>1 DEF ExitSt, IndInv, TypeOK, ListsExclusive
  <2> QED BY <2>1, RemoveLemma
<1>7. \A q \in Pids : orphan'[q] = IF q = ts THEN ~FatherSleeps(ts) ELSE orphan[q]
  BY DEF ExitSt, IndInv, TypeOK
<1>8. UNCHANGED <<ppid, waited, mm, pc, child, cp, pid_count>>
  BY DEF ExitSt, locals
<1>9. fault' \in {"none", "wake clear"}
  BY DEF ExitSt, RunsOff, FatherSleeps
<1>10. \A q \in Pids : Kept(q) => Kept(q)'
  BY <1>3, <1>5, <1>7 DEF Kept, Dead
<1>11. Kin(ts) /\ Expected(ts) /\ ppid[ts] \in Pids
  BY DEF WaitersNow, IndInv, TypeOK
<1>12. \* A father that is woken finds ts as it expects.
      FatherSleeps(ts) => /\ child[ppid[ts]] = ts /\ w = ppid[ts] /\ Kept(ts)'
                          /\ On(sleep_task_list, ppid[ts]) /\ waited[ts]
  <2> SUFFICES ASSUME FatherSleeps(ts) PROVE <1>12!2
    OBVIOUS
  <2>1. child[ppid[ts]] = ts
    BY <1>3, <1>11 DEF FatherSleeps, Expected
  <2>2. w = ppid[ts]
    BY <1>1 DEF WokenBy
  <2>3. Kept(ts)'
    BY <1>5, <1>7 DEF Kept
  <2> QED BY <2>1, <2>2, <2>3 DEF FatherSleeps
<1>13. ~FatherSleeps(ts) => w = NoPid \/ w = CLEAR
  BY <1>1 DEF WokenBy
<1>14. cp' # NoPid => Dead(cp)'
  BY <1>5, <1>8, CollectorKeeps
<1>15. ASSUME NEW c \in Pids PROVE Kin(c)'
  <2>1. Kin(c)
    BY DEF WaitersNow
  <2> QED BY <1>5, <1>8, <2>1 DEF Kin
<1>16. ASSUME NEW c \in Pids PROVE Expected(c)'
  <2>1. Expected(c) /\ ppid[c] \in Pids /\ Kin(c)
    BY DEF WaitersNow, IndInv, TypeOK
  <2>2. CASE c = ts
    BY <1>5, <2>2 DEF Expected
  <2>3. CASE c # ts /\ waited[c] /\ ~Dead(c)
    <3>1. child[ppid[c]] = c
      BY <2>1, <2>3 DEF Expected
    <3>2. ppid[c] # INIT => ppid[c] # w
      <4>1. FatherSleeps(ts) => ppid[c] # w
        BY <1>12, <2>3, <3>1
      <4>2. ~FatherSleeps(ts) /\ ppid[c] # INIT => ppid[c] # w
        BY <1>13, <2>1, PidFacts DEF Kin
      <4> QED BY <4>1, <4>2
    <3> QED BY <1>6, <1>8, <2>1, <2>3, <3>2 DEF Expected
  <2>4. CASE c # ts /\ ~(waited[c] /\ ~Dead(c))
    BY <1>5, <1>8, <2>4 DEF Expected
  <2> QED BY <2>2, <2>3, <2>4
<1>17. ASSUME NEW p \in Users PROVE Waiting(p)'
  <2>1. Waiting(p) /\ p \in Pids
    BY PidFacts DEF WaitersNow
  <2>2. On(sleep_task_list', p) => pc'[p] = "reap"
    BY <1>6, <1>8, <2>1 DEF Waiting
  <2>3. ASSUME pc'[p] = "reap", ~Dead(p)'
        PROVE  /\ child[p] \in Users /\ ppid[child[p]] = p /\ waited[child[p]]
               /\ On(sleep_task_list', p) => ~Dead(child[p])'
               /\ ~On(sleep_task_list', p) => Kept(child[p])'
    <3>1. pc[p] = "reap" /\ ~Dead(p)
      BY <1>5, <1>8, <2>1, <2>3
    <3>2. /\ child[p] \in Users /\ child[p] \in Pids /\ ppid[child[p]] = p /\ waited[child[p]]
          /\ On(sleep_task_list, p) => ~Dead(child[p])
          /\ ~On(sleep_task_list, p) => Kept(child[p])
      BY <2>1, <3>1, PidFacts DEF Waiting
    <3>3. PICK k \in Pids : k = child[p] /\ k = child'[p]
      BY <1>8, <3>2
    <3>4. On(sleep_task_list', p) => ~Dead(k)'
      <4> SUFFICES ASSUME On(sleep_task_list', p), k = ts PROVE FALSE
        BY <1>5, <1>6, <3>2, <3>3
      <4>1. FatherSleeps(ts)
        BY <1>6, <3>2, <3>3 DEF FatherSleeps
      <4> QED BY <1>6, <1>12, <3>2, <3>3, <4>1
    <3>5. ~On(sleep_task_list', p) => Kept(k)'
      <4>1. CASE ~On(sleep_task_list, p)
        BY <1>10, <3>2, <3>3, <4>1
      <4>2. CASE On(sleep_task_list, p) /\ p = w
        <5>1. FatherSleeps(ts)
          BY <1>13, <2>1, <4>2, PidFacts
        <5> QED BY <1>12, <3>3, <4>2, <5>1
      <4> QED BY <1>6, <4>1, <4>2
    <3>6. Kept(child[p])' <=> Kept(k)'
      BY <3>3 DEF Kept
    <3>7. Dead(child[p])' <=> Dead(k)'
      BY <3>3 DEF Dead
    <3> QED BY <3>2, <3>4, <3>5, <3>6, <3>7
  <2> QED BY <1>8, <2>2, <2>3 DEF Waiting
<1>18. InitWaiting'
  <2>1. InitWaiting
    BY DEF WaitersNow
  <2>2. child[INIT] # NoPid => child[INIT] \in Pids
    BY <2>1, PidFacts DEF InitWaiting
  <2>3. ASSUME pc[INIT] \in {"sleep3", "reap"}, ~On(sleep_task_list', INIT)
        PROVE  child[INIT] # NoPid /\ Kept(child[INIT])'
    <3>1. CASE ~On(sleep_task_list, INIT)
      <4>1. PICK k \in Pids : k = child[INIT] /\ k = child'[INIT]
        BY <1>8, <2>1, <2>2, <2>3, <3>1 DEF InitWaiting
      <4>2. Kept(k)'
        BY <1>10, <2>1, <2>3, <3>1, <4>1 DEF InitWaiting
      <4> QED BY <4>1, <4>2, PidFacts DEF Kept
    <3>2. CASE On(sleep_task_list, INIT) /\ w = INIT
      <4>1. FatherSleeps(ts)
        BY <1>13, <3>2, PidFacts
      <4>2. child[INIT] = ts /\ Kept(ts)'
        BY <1>12, <3>2, <4>1
      <4> QED BY <1>8, <4>2, PidFacts DEF Kept
    <3> QED BY <1>6, <2>3, <3>1, <3>2
  <2> QED BY <1>8, <2>1, <2>3 DEF InitWaiting
<1> QED BY <1>9, <1>14, <1>15, <1>16, <1>17, <1>18 DEF WaitersNow

\* The rest of the step when waitpid calls free_process, and when thread_clear does.
FatherFrees(p, c) ==
    /\ pc[p] = "reap" /\ c = child[p] /\ p \in Users \cup {INIT}
    /\ pc' = [pc EXCEPT ![p] = IF p = INIT THEN "spawn" ELSE "user"]
    /\ child' = [child EXCEPT ![p] = NoPid]
    /\ UNCHANGED cp

CollectorFrees(p, c) ==
    /\ pc[p] = "visit" /\ p = CLEAR /\ orphan[c]
    /\ cp' # NoPid => On(zombie_list, cp')
    /\ UNCHANGED <<pc, child>>

\* free_process of a zombie with an mm: nobody else waits for it.
LEMMA FreeWaits ==
    ASSUME IndInv, IndInv', WaitersNow, fault = "none", NEW c \in Pids, NEW p \in Pids,
           Running(p), pc[p] \in {"reap", "visit"}, state[c] = "ZOMBIE", FreeProcess(c),
           UNCHANGED pid_count, FatherFrees(p, c) \/ CollectorFrees(p, c)
    PROVE  WaitersNow' /\ fault' = "none"
<1>1. \A q \in Pids : state'[q] = IF q = c THEN "FREED" ELSE state[q]
  BY DEF FreeProcess, IndInv, TypeOK
<1>2. UNCHANGED <<ppid, waited, orphan, mm, sleep_task_list>>
  BY DEF FreeProcess
<1>3. \A q \in Pids : Dead(q)' <=> Dead(q)
  BY <1>1 DEF Dead
<1>4. \A q \in Pids : q # c => (Kept(q)' <=> Kept(q))
  BY <1>1, <1>2 DEF Kept
<1>5. fault' = "none"
  <2>1. Kin(c) /\ Dead(c) /\ On(zombie_list, c)
    BY DEF WaitersNow, Dead, IndInv, NoTaskLost
  <2> QED BY <2>1 DEF FreeProcess, RunsOff, Kin
<1>6. ~On(sleep_task_list, p) /\ ~Dead(p)
  BY RunnerLemma
<1>7. cp' # NoPid => Dead(cp)'
  <2>1. CASE UNCHANGED cp
    BY <1>3, <2>1, CollectorKeeps
  <2>2. CASE cp' # NoPid /\ On(zombie_list, cp')
    <3>1. cp' \in Pids /\ state[cp'] = "ZOMBIE"
      BY <2>2, ZombiesAreDead
    <3> QED BY <1>1, <3>1 DEF Dead
  <2> QED BY <2>1, <2>2 DEF FatherFrees, CollectorFrees
<1>8. ASSUME NEW q \in Pids PROVE Kin(q)'
  <2>1. Kin(q)
    BY DEF WaitersNow
  <2>2. q \in Users /\ pc'[q] # "exec" => pc[q] # "exec"
    BY DEF IndInv, TypeOK, FatherFrees, CollectorFrees
  <2> QED BY <1>2, <1>3, <2>1, <2>2 DEF Kin
<1>9. ASSUME NEW q \in Pids PROVE Expected(q)'
  <2>1. Expected(q) /\ ppid[q] \in Pids
    BY DEF WaitersNow, IndInv, TypeOK
  <2>2. CASE CollectorFrees(p, c)
    BY <1>2, <1>3, <2>1, <2>2 DEF Expected, CollectorFrees
  <2>3. CASE FatherFrees(p, c)
    <3> SUFFICES ASSUME waited[q], ~Dead(q) PROVE Expected(q)'
      BY <1>2, <1>3 DEF Expected
    <3>1. ppid[q] # p
      <4> SUFFICES ASSUME ppid[q] = p PROVE FALSE
        OBVIOUS
      <4>1. child[p] = q
        BY <2>1 DEF Expected
      <4> QED BY <2>3, <4>1 DEF Dead, FatherFrees
    <3>2. child'[ppid[q]] = child[ppid[q]]
      BY <2>1, <2>3, <3>1 DEF IndInv, TypeOK, FatherFrees
    <3>3. ppid[q] = INIT => pc'[INIT] = pc[INIT]
      BY <2>3, <3>1, PidFacts DEF IndInv, TypeOK, FatherFrees
    <3> QED BY <1>2, <2>1, <3>2, <3>3 DEF Expected
  <2> QED BY <2>2, <2>3
<1>10. ASSUME NEW q \in Users PROVE Waiting(q)'
  <2>1. Waiting(q) /\ q \in Pids
    BY PidFacts DEF WaitersNow
  <2>2. CASE q = p
    <3>1. pc'[q] # "reap"
      BY <2>1, <2>2, PidFacts DEF IndInv, TypeOK, FatherFrees, CollectorFrees
    <3> QED BY <1>2, <1>6, <2>2, <3>1 DEF Waiting
  <2>3. CASE q # p
    <3>1. pc'[q] = pc[q] /\ child'[q] = child[q]
      BY <2>1, <2>3 DEF IndInv, TypeOK, FatherFrees, CollectorFrees
    <3>2. pc[q] = "reap" /\ ~Dead(q) => child[q] \in Pids /\ ppid[child[q]] = q
      BY <2>1, PidFacts DEF Waiting
    <3>3. pc[q] = "reap" /\ ~Dead(q) /\ ~On(sleep_task_list, q) => child[q] # c
      <4> SUFFICES ASSUME pc[q] = "reap", ~Dead(q), ~On(sleep_task_list, q), child[q] = c PROVE FALSE
        OBVIOUS
      <4>1. ppid[c] = q /\ Kept(c)
        BY <2>1 DEF Waiting
      <4>2. c = child[p] /\ pc[p] = "reap" /\ q # p /\ p \in Users \cup {INIT}
        BY <2>3, <4>1 DEF Kept, FatherFrees, CollectorFrees
      <4>3. CASE p \in Users
        <5>1. Waiting(p)
          BY <4>3 DEF WaitersNow
        <5>2. ppid[c] = p
          BY <1>6, <4>2, <5>1 DEF Waiting
        <5> QED BY <4>1, <4>2, <5>2
      <4>4. CASE p = INIT
        <5>1. ppid[c] = INIT
          BY <4>2, <4>4, PidFacts DEF WaitersNow, InitWaiting
        <5> QED BY <4>1, <5>1, PidFacts
      <4> QED BY <4>2, <4>3, <4>4
    <3> QED BY <1>2, <1>3, <1>4, <2>1, <3>1, <3>2, <3>3 DEF Waiting
  <2> QED BY <2>2, <2>3
<1>11. InitWaiting'
  <2>1. InitWaiting
    BY DEF WaitersNow
  <2>2. CASE p = INIT
    <3>1. child'[INIT] = NoPid /\ pc'[INIT] = "spawn"
      BY <2>2, PidFacts DEF IndInv, TypeOK, FatherFrees, CollectorFrees
    <3> QED BY <3>1 DEF InitWaiting
  <2>3. CASE p # INIT
    <3>1. pc'[INIT] = pc[INIT] /\ child'[INIT] = child[INIT]
      BY <2>3, PidFacts, ZenonT(60) DEF IndInv, TypeOK, FatherFrees, CollectorFrees
    <3>2. child[INIT] # NoPid => child[INIT] \in Pids /\ ppid[child[INIT]] = INIT
      BY <2>1, PidFacts DEF InitWaiting
    <3>3. pc[INIT] \in {"sleep3", "reap"} /\ ~On(sleep_task_list, INIT) => child[INIT] # c
      <4> SUFFICES ASSUME pc[INIT] \in {"sleep3", "reap"}, ~On(sleep_task_list, INIT),
                          child[INIT] = c PROVE FALSE
        OBVIOUS
      <4>1. Kept(c) /\ ppid[c] = INIT
        BY <2>1, <3>2, PidFacts DEF InitWaiting
      <4>2. c = child[p] /\ pc[p] = "reap" /\ p \in Users
        BY <2>3, <4>1 DEF Kept, FatherFrees, CollectorFrees
      <4>3. Waiting(p)
        BY <4>2 DEF WaitersNow
      <4>4. ppid[c] = p
        BY <1>6, <4>2, <4>3 DEF Waiting
      <4> QED BY <4>1, <4>2, <4>4, PidFacts
    <3> QED BY <1>2, <1>4, <2>1, <3>1, <3>2, <3>3 DEF InitWaiting
  <2> QED BY <2>2, <2>3
<1> QED BY <1>5, <1>7, <1>8, <1>9, <1>10, <1>11 DEF WaitersNow

\* free_process at the end of waitpid, called by a program or by init.
LEMMA ReapWaits ==
    ASSUME IndInv, IndInv', WaitersNow, NEW p \in Pids, Reap(p), p \in Users \/ p = INIT
    PROVE  WaitersNow' /\ fault' = "none"
<1>1. Running(p) /\ pc[p] = "reap" /\ fault = "none"
  BY DEF Reap, Goto, At, Running
<1>2. ~On(sleep_task_list, p) /\ ~Dead(p)
  BY <1>1, RunnerLemma
<1>3. PICK c : c = child[p]
  OBVIOUS
<1>4. c \in Pids /\ state[c] = "ZOMBIE"
  <2>1. CASE p \in Users
    BY <1>1, <1>2, <1>3, <2>1, PidFacts DEF WaitersNow, Waiting, Kept
  <2>2. CASE p = INIT
    BY <1>1, <1>2, <1>3, <2>2, PidFacts DEF WaitersNow, InitWaiting, Kept
  <2> QED BY <2>1, <2>2
<1>5. FreeProcess(c) /\ UNCHANGED <<pid_count, cp>> /\ p # CLEAR
      /\ pc' = [pc EXCEPT ![p] = IF p = INIT THEN "spawn" ELSE "user"]
      /\ child' = [child EXCEPT ![p] = NoPid]
  BY <1>3, PidFacts DEF Reap, Goto, globals
<1>6. FatherFrees(p, c)
  BY <1>1, <1>3, <1>5 DEF FatherFrees
<1> QED BY <1>1, <1>4, <1>5, <1>6, FreeWaits

\* The collector frees only orphans.
LEMMA ClearOrphanWaits ==
    ASSUME IndInv, IndInv', WaitersNow, ClearOrphan
    PROVE  WaitersNow' /\ fault' = "none"
<1>1. /\ Running(CLEAR) /\ pc[CLEAR] = "visit" /\ fault = "none" /\ CLEAR \in Pids
      /\ UNCHANGED <<pc, child, pid_count>>
  BY PidFacts DEF ClearOrphan, At, Running, globals
<1>2. PICK c : c = cp
  OBVIOUS
<1>3. c \in Pids /\ state[c] = "ZOMBIE" /\ orphan[c] /\ FreeProcess(c)
  BY <1>2 DEF ClearOrphan, WaitersNow, Dead, IndInv, TypeOK
<1>4. cp' # NoPid => On(zombie_list, cp')
  <2>1. cp' = NextOn(zombie_list, cp, NoPid) /\ zombie_list \in Seq(Pids)
    BY DEF ClearOrphan, IndInv, TypeOK
  <2> QED BY <2>1, NextOnIsOn
<1>5. CollectorFrees(CLEAR, c)
  BY <1>1, <1>3, <1>4 DEF CollectorFrees
<1> QED BY <1>1, <1>3, <1>5, FreeWaits

\* thread_clear is never inside waitpid.
LEMMA ClearNeverWaits ==
    ASSUME IndInv, pc[CLEAR] # "reap", [Next]_vars PROVE pc'[CLEAR] # "reap"
<1>1. ASSUME NEW p \in Pids, NEW a, NEW b, Goto(p, a, b), b # "reap" PROVE pc'[CLEAR] # "reap"
  BY <1>1, PidFacts DEF Goto, IndInv, TypeOK
<1>2. ASSUME NEW p \in Users, NEW b, pc' = [pc EXCEPT ![p] = b] PROVE pc'[CLEAR] # "reap"
  BY <1>2, PidFacts DEF IndInv, TypeOK
<1>3. ASSUME NEW f, NEW s, NEW h, NEW l \in {"user", "exec"}, NewTask(f, s, h, l)
      PROVE  pc'[CLEAR] # "reap"
  BY <1>3, PidFacts DEF NewTask, IndInv, TypeOK
<1>4. CASE UNCHANGED pc
  BY <1>4
<1>5. CASE Schedule \/ TimerTick \/ KbdEnter \/ KbdCtrlC \/ Panicked \/ UNCHANGED vars
  BY <1>4, <1>5 DEF Schedule, ScheduleKill, ScheduleStay, ScheduleSwitch, ExitSt, TimerTick, KbdEnter,
     KbdCtrlC, KillByPid, Panicked, vars, locals
<1>6. ASSUME NEW p \in Pids, Syscall(p) PROVE pc'[CLEAR] # "reap"
  <2>1. CASE Fork(p)
    BY <1>3, <2>1 DEF Fork
  <2>2. CASE ReadSleeps(p) \/ \E c \in Pids : Wait(p, c)
    BY <1>2, <2>2 DEF ReadSleeps, Wait, Calls
  <2>3. CASE Read(p) \/ Exit(p) \/ \E q \in Pids : Kill(p, q)
    BY <1>4, <2>3 DEF Read, Exit, ExitSt, Kill, KillByPid, locals
  <2> QED BY <1>6, <2>1, <2>2, <2>3 DEF Syscall
<1>7. ASSUME NEW p \in Pids, KernelCode(p) PROVE pc'[CLEAR] # "reap"
  <2>1. CASE SleepYield(p)
    <3>1. p = CLEAR => AfterSleep(p) = "sweep"
      BY PidFacts DEF AfterSleep
    <3> QED BY <2>1, <3>1, PidFacts DEF SleepYield, Goto, IndInv, TypeOK
  <2>2. CASE Reap(p)
    BY <1>1, <2>2 DEF Reap
  <2>3. CASE ExecShell(p) \/ ReadAgain(p) \/ ReadSleepsAgain(p) \/ SleepRemove(p) \/ SleepAdd(p)
    BY <1>1, <2>3 DEF ExecShell, ReadAgain, ReadSleepsAgain, SleepRemove, SleepAdd
  <2> QED BY <1>7, <2>1, <2>2, <2>3 DEF KernelCode
<1>8. CASE InitLoop
  <2>1. CASE InitSpawn
    BY <1>3, <2>1 DEF InitSpawn
  <2>2. CASE InitFind
    BY <1>1, <2>2, PidFacts DEF InitFind
  <2>3. CASE InitMark \/ InitYield
    BY <1>1, <2>3, PidFacts DEF InitMark, InitYield
  <2> QED BY <1>8, <2>1, <2>2, <2>3 DEF InitLoop
<1>9. CASE Collector
  BY <1>1, <1>4, <1>9, PidFacts DEF Collector, ClearSweep, ClearOrphan, ClearSkip, ClearStale, ClearReset
<1> QED BY <1>5, <1>6, <1>7, <1>8, <1>9 DEF Next

\* Every step of the kernel keeps what the waiters count on.
LEMMA WaitersStep == ASSUME IndInv, IndInv', WaitersInv, [Next]_vars PROVE WaitersInv'
<1>1. pc'[CLEAR] # "reap"
  BY ClearNeverWaits DEF WaitersInv
<1> SUFFICES ASSUME ~WaitAny PROVE (fault' = "none" => WaitersNow') /\ OnlyCollectorFaults'
  BY <1>1 DEF WaitersInv
<1>2. (fault = "none" => WaitersNow) /\ OnlyCollectorFaults
  BY DEF WaitersInv
<1>3. ASSUME WaitersNow', fault' \in {"none", "stale mark", "stale sweep"}
      PROVE  (fault' = "none" => WaitersNow') /\ OnlyCollectorFaults'
  BY <1>3 DEF OnlyCollectorFaults
<1>4. CASE UNCHANGED vars
  <2>1. UNCHANGED <<ppid, waited, orphan, mm, sleep_task_list, pc, child, cp, pid_count, fault, state>>
    BY <1>4 DEF vars, fields, lists, locals, globals
  <2>2. WaitersNow => WaitersNow'
    <3> SUFFICES ASSUME WaitersNow PROVE WaitersNow'
      OBVIOUS
    <3>1. \A q \in Pids : (Dead(q)' <=> Dead(q)) /\ (state'[q] = "ZOMBIE" <=> state[q] = "ZOMBIE")
      BY <2>1 DEF Dead
    <3>2. cp' # NoPid => Dead(cp)'
      BY <2>1, <3>1, CollectorKeeps
    <3> QED BY <2>1, <3>1, <3>2, CalmStep
  <2> QED BY <1>2, <2>1, <2>2 DEF OnlyCollectorFaults
<1>5. ASSUME fault = "none", NEW ts \in Pids, NEW d, On(task_headp, ts), mm[ts], ExitSt(ts, d)
      PROVE  (fault' = "none" => WaitersNow') /\ OnlyCollectorFaults'
  BY <1>2, <1>5, ExitStWaits DEF OnlyCollectorFaults
<1>6. CASE Schedule
  <2>1. CASE ScheduleKill
    <3>1. fault = "none" /\ mm[SelectTask] /\ SelectTask \in Pids /\ On(task_headp, SelectTask)
      BY <2>1, SelectLemma DEF ScheduleKill, IndInv, KernelThreadsHaveNoMm
    <3> QED BY <1>5, <2>1, <3>1 DEF ScheduleKill
  <2>2. CASE ScheduleStay \/ ScheduleSwitch
    <3>1. fault = "none"
      BY <2>2 DEF ScheduleStay, ScheduleSwitch
    <3> QED BY <1>2, <1>3, <2>2, <3>1, CalmActions
  <2> QED BY <1>6, <2>1, <2>2 DEF Schedule
<1>7. CASE TimerTick \/ KbdEnter \/ KbdCtrlC
  <2>1. fault = "none"
    BY <1>7 DEF TimerTick, KbdEnter, KbdCtrlC, Interruptible
  <2> QED BY <1>2, <1>3, <1>7, <2>1, CalmActions
<1>8. ASSUME NEW p \in Pids, Syscall(p)
      PROVE  (fault' = "none" => WaitersNow') /\ OnlyCollectorFaults'
  <2>1. fault = "none" /\ Running(p) /\ pc[p] = "user" /\ p \in Users
    BY <1>8 DEF Syscall, Fork, Wait, Read, ReadSleeps, Kill, Exit, Calls, At, Running
  <2>2. CASE Fork(p)
    <3>1. NewTask(p, "ACTIVE", TRUE, "user") /\ WaitersNow
      BY <1>2, <2>1, <2>2 DEF Fork
    <3>2. WaitersNow' /\ fault' = "none"
      BY <2>1, <3>1, NewTaskWaits
    <3> QED BY <1>3, <3>2
  <2>3. ASSUME NEW c \in Pids, Wait(p, c)
        PROVE  (fault' = "none" => WaitersNow') /\ OnlyCollectorFaults'
    BY <1>2, <1>3, <2>1, <2>3, WaitWaits
  <2>4. CASE Read(p) \/ \E q \in Pids : Kill(p, q)
    BY <1>2, <1>3, <2>1, <2>4, CalmActions
  <2>5. CASE ReadSleeps(p)
    BY <1>2, <1>3, <2>1, <2>5, RunnerActions
  <2>6. CASE Exit(p)
    <3>1. On(task_headp, p) /\ p < pid_count
      BY <2>1, RunnerLemma
    <3>2. mm[p]
      BY <1>2, <2>1, <3>1 DEF WaitersNow, Kin
    <3> QED BY <1>5, <2>1, <2>6, <3>1, <3>2 DEF Exit
  <2> QED BY <1>8, <2>2, <2>3, <2>4, <2>5, <2>6 DEF Syscall
<1>9. ASSUME NEW p \in Pids, KernelCode(p)
      PROVE  (fault' = "none" => WaitersNow') /\ OnlyCollectorFaults'
  <2>1. fault = "none" /\ Running(p)
    BY <1>9 DEF KernelCode, ExecShell, ReadAgain, ReadSleepsAgain, SleepRemove, SleepAdd, SleepYield,
       Reap, Goto, At, Running
  <2>2. CASE ExecShell(p) \/ ReadAgain(p) \/ ReadSleepsAgain(p) \/ SleepRemove(p)
    BY <1>2, <1>3, <2>1, <2>2, RunnerActions
  <2>3. CASE SleepAdd(p)
    BY <1>2, <1>3, <2>1, <2>3, SleepAddWaits
  <2>4. CASE SleepYield(p)
    BY <1>2, <1>3, <2>1, <2>4, SleepYieldWaits
  <2>5. CASE Reap(p)
    <3>1. p # CLEAR /\ p # IDLE
      BY <2>5 DEF Reap, Goto, At, WaitersInv, IndInv, KernelThreadsHaveNoMm
    <3>2. p \in Users \/ p = INIT
      BY <3>1 DEF Pids, Users, FirstShell, INIT, IDLE, CLEAR
    <3> QED BY <1>2, <1>3, <2>1, <2>5, <3>2, ReapWaits
  <2> QED BY <1>9, <2>2, <2>3, <2>4, <2>5 DEF KernelCode
<1>10. CASE InitLoop
  <2>1. fault = "none" /\ Running(INIT) /\ INIT \in Pids
    BY <1>10, PidFacts DEF InitLoop, InitFind, InitMark, InitSpawn, InitYield, Goto, At, Running
  <2>2. CASE InitFind \/ InitYield
    BY <1>2, <1>3, <2>1, <2>2, InitWalks
  <2>3. CASE InitMark
    BY <1>2, <1>3, <2>1, <2>3, InitMarkWaits
  <2>4. CASE InitSpawn
    <3>1. pc[INIT] = "spawn" /\ NewTask(INIT, "NEW", FALSE, "exec")
      BY <2>4 DEF InitSpawn, At
    <3>2. WaitersNow' /\ fault' = "none"
      BY <1>2, <2>1, <3>1, NewTaskWaits
    <3> QED BY <1>3, <3>2
  <2> QED BY <1>10, <2>2, <2>3, <2>4 DEF InitLoop
<1>11. CASE Collector
  <2>1. fault = "none"
    BY <1>11 DEF Collector, ClearSweep, ClearOrphan, ClearSkip, ClearStale, ClearReset, Goto, At, Running
  <2> QED BY <1>2, <1>3, <1>11, <2>1, CollectorWalks, ClearOrphanWaits DEF Collector
<1> QED BY <1>4, <1>6, <1>7, <1>8, <1>9, <1>10, <1>11 DEF Next, Panicked

LEMMA WaitersInit == Init => WaitersInv
<1> SUFFICES ASSUME Init PROVE WaitersInv
  OBVIOUS
<1>1. /\ \A p \in Pids : ~Dead(p) /\ ~waited[p] /\ ppid[p] = INIT
      /\ \A p : ~On(sleep_task_list, p)
      /\ cp = NoPid /\ fault = "none" /\ pid_count = 4
  BY EmptyLemma DEF Init, Dead, FirstShell
<1>2. pc[INIT] = "find1" /\ pc[CLEAR] = "sweep" /\ pc[3] = "exec" /\ child[INIT] = 3 /\ 3 \in Users
  BY MaxPidAssumption DEF Init, INIT, IDLE, CLEAR, FirstShell, Pids, Users
<1>3. \A p \in Pids : p # 0 => pc[p] # "reap"
  BY DEF Init, INIT, IDLE, CLEAR, FirstShell
<1>4. ASSUME NEW c \in Pids PROVE Kin(c)
  <2>1. c \in Users /\ c < 4 => c = 3
    BY MaxPidAssumption DEF Users, FirstShell
  <2> QED BY <1>1, <1>2, <2>1 DEF Kin
<1>5. \A c \in Pids : Expected(c)
  BY <1>1 DEF Expected
<1>6. \A p \in Users : Waiting(p)
  BY <1>1, <1>3, PidFacts DEF Waiting, INIT
<1>7. InitWaiting
  BY <1>1, <1>2, PidFacts DEF InitWaiting
<1>8. OnlyCollectorFaults
  BY <1>1 DEF OnlyCollectorFaults
<1> QED BY <1>1, <1>2, <1>4, <1>5, <1>6, <1>7, <1>8 DEF WaitersInv, WaitersNow

\* The two inductive invariants together.
THEOREM WaitersInvariance == Spec => [](IndInv /\ WaitersInv)
<1>1. IndInv /\ WaitersInv /\ [Next]_vars => (IndInv /\ WaitersInv)'
  BY NextInv, WaitersStep
<1> QED BY <1>1, InitInv, WaitersInit, PTL DEF Spec

\* waitpid, exit_st: for any number of tasks, a program asleep in waitpid has a
\* live child that is marked and names it as its father, so the exit of that
\* child, whenever and however it comes, finds and wakes the sleeper.
THEOREM WaitersHaveLiveChildren == Spec => []WaiterHasLiveChild
<1>1. IndInv /\ WaitersInv => WaiterHasLiveChild
  <2> SUFFICES ASSUME IndInv, WaitersInv, ~WaitAny, fault = "none", NEW p \in Users,
                      On(sleep_task_list, p)
               PROVE  /\ child[p] \in Users /\ ~Dead(child[p])
                      /\ waited[child[p]] /\ ppid[child[p]] = p
    BY DEF WaiterHasLiveChild
  <2>1. Waiting(p) /\ p \in Pids
    BY PidFacts DEF WaitersInv, WaitersNow
  <2>2. ~Dead(p)
    BY <2>1, ApartLemma DEF IndInv, NoTaskLost, ListsExclusive, Findable, Dead
  <2> QED BY <2>1, <2>2 DEF Waiting
<1> QED BY <1>1, WaitersInvariance, PTL

\* waitpid, thread_clear: the zombie that a woken waitpid frees is its own
\* child, has not been freed by anybody, and is none that the collector frees.
THEOREM ReapersOwnTheirZombies == Spec => []ReaperOwnsZombie
<1>1. IndInv /\ WaitersInv => ReaperOwnsZombie
  BY DEF WaitersInv, WaitersNow, Waiting, Kept, ReaperOwnsZombie
<1> QED BY <1>1, WaitersInvariance, PTL

\* remove_from_tasklist and free_process: if programs wait only for their
\* children, no list removal in the kernel runs off its list but the wakeup of
\* clear_zombie, free_process gets only zombies that exist, and no freed task
\* is used but by init's waitpid and by thread_clear, who were preempted.
THEOREM OnlyTheCollectorWakeupFaults == Spec => []OnlyCollectorFaults
<1>1. IndInv /\ WaitersInv => OnlyCollectorFaults
  BY DEF WaitersInv, OnlyCollectorFaults
<1> QED BY <1>1, WaitersInvariance, PTL

=============================================================================
