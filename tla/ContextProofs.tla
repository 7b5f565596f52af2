--------------------------- MODULE ContextProofs ---------------------------
(***************************************************************************)
(* The properties of ContextSwitch hold for any number of kernel threads   *)
(* and programs, any frame sizes and any nesting of interrupts.            *)
(***************************************************************************)
EXTENDS ContextSwitch, SequenceTheorems, TLAPS

(***************************************************************************)
(* The inductive invariant                                                 *)
(***************************************************************************)
HasExec(s) == \E i \in DOMAIN s : s[i].kind = "exec"
NoCall(s) == \A i \in DOMAIN s : s[i].kind # "sc"

\* The frame of a system call is the outermost one.
CallIsOutermost(s) ==
    \A i \in DOMAIN s : s[i].kind = "sc" => i = 1 /\ s[i].at >= SizeOf["sc"]

\* What __switch_to or the maker of a task leaves on its stack.
Resumable(s, ks) ==
    /\ TopKind(s) = "ctx" /\ TopKind(Pop(s)) \in {"sched", "ret"}
    /\ ks = DepthOf(s) /\ ks > 0

\* The stack of a zombie that still runs: it is inside the schedule() of
\* exit_st for good.
Leaving(s) ==
    \E i \in DOMAIN s : s[i].kind = "sched" /\ \A j \in i..Len(s) : s[j].kind \in {"sched", "irq"}

\* As long as a task loses the processor only inside system calls, its next
\* entry starts at the top of the page, and the call in progress did.
Unpreempted(s, l, ks, on) ==
    /\ HasExec(s) \/ (l = "user" /\ NoCall(s)) => on /\ ks = 0
    /\ l = "user" /\ ~HasExec(s) =>
          \A i \in DOMAIN s : s[i].kind = "sc" => s[i].at = SizeOf["sc"]

\* A task with stack s, life l, kernel_stack ks; on: rsp is in its stack.
StackIsSound(s, l, ks, pre, on) ==
    /\ CallIsOutermost(s)
    /\ ~on /\ l # "none" => Resumable(s, ks)
    /\ on /\ l = "zombie" => Leaving(s)
    /\ l \in {"kernel", "user"} /\ ~pre => Unpreempted(s, l, ks, on)

TaskIsSound(t) == StackIsSound(frames[t], life[t], kernel_stack[t], preempted[t], t = onstack)

\* tss.rsp0 belongs to current; rsp is in the stack of a task that exists, and
\* between current = next and the switch both tasks are where they should be.
SwitchIsSound ==
    /\ rsp0.of = current
    /\ life[onstack] # "none"
    /\ current # onstack => /\ TopKind(frames[onstack]) = "sched"
                            /\ life[current] \in {"kernel", "user"}

Inv == TypeOK /\ SwitchIsSound /\ \A t \in Tasks : TaskIsSound(t)

(***************************************************************************)
(* Stacks                                                                  *)
(***************************************************************************)
\* A push adds one frame at the end.
LEMMA PushAtLemma ==
    ASSUME NEW s \in Seq(Frame), NEW kind \in Kinds, NEW at \in Nat
    PROVE  /\ PushAt(s, kind, at) \in Seq(Frame)
           /\ Len(s) \in Nat /\ DOMAIN s = 1..Len(s)
           /\ Len(PushAt(s, kind, at)) = Len(s) + 1
           /\ DOMAIN PushAt(s, kind, at) = 1..(Len(s) + 1)
           /\ \A i \in 1..Len(s) : PushAt(s, kind, at)[i] = s[i]
           /\ PushAt(s, kind, at)[Len(s) + 1] = [kind |-> kind, at |-> at + SizeOf[kind]]
<1>1. [kind |-> kind, at |-> at + SizeOf[kind]] \in Frame
  BY SizeAssumption DEF Frame
<1> QED BY <1>1 DEF PushAt

\* What a push leaves on top, and that a pop takes it away again.
LEMMA PushAtTop ==
    ASSUME NEW s \in Seq(Frame), NEW kind \in Kinds, NEW at \in Nat
    PROVE  /\ TopKind(PushAt(s, kind, at)) = kind
           /\ DepthOf(PushAt(s, kind, at)) = at + SizeOf[kind]
           /\ Pop(PushAt(s, kind, at)) = s
<1>1. PICK r : r = PushAt(s, kind, at)
  OBVIOUS
<1>2. /\ r \in Seq(Frame) /\ Len(r) = Len(s) + 1 /\ Len(s) \in Nat
      /\ r[Len(s) + 1] = [kind |-> kind, at |-> at + SizeOf[kind]]
      /\ \A i \in 1..Len(s) : r[i] = s[i]
  BY <1>1, PushAtLemma
<1>3. r # << >>
  BY <1>2
<1>4. TopKind(r) = kind /\ DepthOf(r) = at + SizeOf[kind]
  BY <1>2, <1>3 DEF TopKind, DepthOf
<1>5. Pop(r) = s
  <2>1. Len(r) - 1 = Len(s) /\ Len(s) <= Len(r)
    BY <1>2
  <2>2. SubSeq(r, 1, Len(s)) = [i \in 1..Len(s) |-> r[i]]
    BY <1>2, <2>1
  <2>3. s = [i \in 1..Len(s) |-> s[i]]
    OBVIOUS
  <2> QED BY <1>2, <2>1, <2>2, <2>3 DEF Pop
<1> QED BY <1>1, <1>4, <1>5

LEMMA DepthLemma == ASSUME NEW s \in Seq(Frame) PROVE DepthOf(s) \in Nat
<1>1. CASE s = << >>
  BY <1>1 DEF DepthOf
<1>2. CASE s # << >>
  <2>1. s[Len(s)] \in Frame
    BY <1>2
  <2> QED BY <1>2, <2>1 DEF DepthOf, Frame
<1> QED BY <1>1, <1>2

\* The same, for a push at the present depth.
LEMMA PushLemma ==
    ASSUME NEW s \in Seq(Frame), NEW kind \in Kinds
    PROVE  /\ Push(s, kind) \in Seq(Frame)
           /\ Len(s) \in Nat /\ DOMAIN s = 1..Len(s)
           /\ Len(Push(s, kind)) = Len(s) + 1
           /\ DOMAIN Push(s, kind) = 1..(Len(s) + 1)
           /\ \A i \in 1..Len(s) : Push(s, kind)[i] = s[i]
           /\ Push(s, kind)[Len(s) + 1].kind = kind
           /\ TopKind(Push(s, kind)) = kind
           /\ DepthOf(Push(s, kind)) = DepthOf(s) + SizeOf[kind]
           /\ Pop(Push(s, kind)) = s
<1>1. PICK at \in Nat : at = DepthOf(s)
  BY DepthLemma
<1>2. Push(s, kind) = PushAt(s, kind, at)
  BY <1>1 DEF Push
<1>3. /\ PushAt(s, kind, at) \in Seq(Frame)
      /\ Len(s) \in Nat /\ DOMAIN s = 1..Len(s)
      /\ Len(PushAt(s, kind, at)) = Len(s) + 1
      /\ DOMAIN PushAt(s, kind, at) = 1..(Len(s) + 1)
      /\ \A i \in 1..Len(s) : PushAt(s, kind, at)[i] = s[i]
      /\ PushAt(s, kind, at)[Len(s) + 1] = [kind |-> kind, at |-> at + SizeOf[kind]]
  BY PushAtLemma
<1>4. /\ TopKind(PushAt(s, kind, at)) = kind
      /\ DepthOf(PushAt(s, kind, at)) = at + SizeOf[kind]
      /\ Pop(PushAt(s, kind, at)) = s
  BY PushAtTop
<1> QED BY <1>1, <1>2, <1>3, <1>4

\* A pop takes the last frame away; of an empty stack nothing.
LEMMA PopLemma ==
    ASSUME NEW s \in Seq(Frame)
    PROVE  /\ Pop(s) \in Seq(Frame)
           /\ DOMAIN Pop(s) = 1..(Len(s) - 1) /\ DOMAIN s = 1..Len(s) /\ Len(s) \in Nat
           /\ s # << >> => Len(Pop(s)) = Len(s) - 1 /\ Len(s) > 0
           /\ \A i \in DOMAIN Pop(s) : i \in DOMAIN s /\ Pop(s)[i] = s[i]
<1>1. Len(s) \in Nat /\ DOMAIN s = 1..Len(s)
  OBVIOUS
<1>2. CASE s = << >>
  <2>1. Len(s) = 0
    BY <1>2
  <2>2. Pop(s) = << >>
    BY <1>1, <2>1 DEF Pop
  <2>3. 1..(Len(s) - 1) = {} /\ DOMAIN Pop(s) = {}
    BY <2>1, <2>2
  <2>4. Pop(s) \in Seq(Frame)
    BY <2>2
  <2> QED BY <1>1, <1>2, <2>3, <2>4
<1>3. CASE s # << >>
  <2>1. Len(s) > 0
    BY <1>1, <1>3
  <2>2. Pop(s) = [i \in 1..(Len(s) - 1) |-> s[i]]
    BY <1>1, <2>1 DEF Pop
  <2>3. Pop(s) \in Seq(Frame) /\ Len(Pop(s)) = Len(s) - 1
    BY <1>1, <2>1 DEF Pop
  <2> QED BY <1>1, <2>1, <2>2, <2>3
<1> QED BY <1>2, <1>3

\* The top frame is the last one.
LEMMA TopLemma ==
    ASSUME NEW s \in Seq(Frame), TopKind(s) # "none"
    PROVE  /\ s # << >> /\ Len(s) \in DOMAIN s
           /\ s[Len(s)].kind = TopKind(s) /\ DepthOf(s) = s[Len(s)].at
BY DEF TopKind, DepthOf

\* Frames that are neither of a system call nor of exec do not matter for what
\* a stack gives back.
LEMMA PushKeeps ==
    ASSUME NEW s \in Seq(Frame), NEW kind \in Kinds \ {"sc", "exec"}
    PROVE  /\ HasExec(Push(s, kind)) <=> HasExec(s)
           /\ NoCall(Push(s, kind)) <=> NoCall(s)
           /\ CallIsOutermost(s) => CallIsOutermost(Push(s, kind))
           /\ \A l, ks, on : Unpreempted(s, l, ks, on) => Unpreempted(Push(s, kind), l, ks, on)
<1>1. PICK r, n : r = Push(s, kind) /\ n = Len(s)
  OBVIOUS
<1>2. /\ DOMAIN s = 1..n /\ DOMAIN r = 1..(n + 1) /\ n \in Nat
      /\ \A i \in 1..n : r[i] = s[i]
      /\ r[n + 1].kind = kind
  BY <1>1, PushLemma
<1>3. /\ \A i \in DOMAIN s : i \in DOMAIN r /\ r[i] = s[i]
      /\ \A i \in DOMAIN r : (i \in DOMAIN s /\ r[i] = s[i]) \/ r[i].kind = kind
  BY <1>2
<1>4. HasExec(r) <=> HasExec(s)
  BY <1>3 DEF HasExec
<1>5. NoCall(r) <=> NoCall(s)
  BY <1>3 DEF NoCall
<1>6. CallIsOutermost(s) => CallIsOutermost(r)
  BY <1>3 DEF CallIsOutermost
<1>7. \A l, ks, on : Unpreempted(s, l, ks, on) => Unpreempted(r, l, ks, on)
  BY <1>3, <1>4, <1>5 DEF Unpreempted
<1> QED BY <1>1, <1>4, <1>5, <1>6, <1>7

\* schedule() called by a task that is to die, or an interrupt of it.
LEMMA PushLeaving ==
    ASSUME NEW s \in Seq(Frame)
    PROVE  /\ Leaving(Push(s, "sched"))
           /\ Leaving(s) => Leaving(Push(s, "irq"))
<1>1. ASSUME NEW kind \in {"sched", "irq"}, kind = "irq" => Leaving(s)
      PROVE  Leaving(Push(s, kind))
  <2>1. PICK r, n : r = Push(s, kind) /\ n = Len(s)
    OBVIOUS
  <2>2. /\ DOMAIN s = 1..n /\ DOMAIN r = 1..(n + 1) /\ n \in Nat /\ Len(r) = n + 1
        /\ \A i \in 1..n : r[i] = s[i]
        /\ r[n + 1].kind = kind
    <3>1. kind \in Kinds
      BY DEF Kinds
    <3> QED BY <2>1, <3>1, PushLemma
  <2>3. CASE kind = "sched"
    <3>1. \A j \in (n + 1)..(n + 1) : j = n + 1
      BY <2>2
    <3> QED BY <2>1, <2>2, <2>3, <3>1 DEF Leaving
  <2>4. CASE kind = "irq"
    <3>1. PICK i \in 1..n : s[i].kind = "sched" /\ \A j \in i..n : s[j].kind \in {"sched", "irq"}
      BY <1>1, <2>1, <2>2, <2>4 DEF Leaving
    <3>2. \A j \in i..(n + 1) : j = n + 1 \/ (j \in i..n /\ j \in 1..n)
      BY <2>2
    <3>3. \A j \in i..(n + 1) : r[j].kind \in {"sched", "irq"}
      BY <2>2, <2>4, <3>1, <3>2
    <3>4. i \in DOMAIN r /\ r[i].kind = "sched"
      BY <2>2, <3>1
    <3> QED BY <2>1, <2>2, <3>3, <3>4 DEF Leaving
  <2> QED BY <1>1, <2>3, <2>4
<1> QED BY <1>1

LEMMA PopKeeps ==
    ASSUME NEW s \in Seq(Frame), TopKind(s) \notin {"sc", "exec", "none"}
    PROVE  /\ HasExec(Pop(s)) <=> HasExec(s)
           /\ NoCall(Pop(s)) <=> NoCall(s)
           /\ CallIsOutermost(s) => CallIsOutermost(Pop(s))
           /\ \A l, ks, on : Unpreempted(s, l, ks, on) => Unpreempted(Pop(s), l, ks, on)
           /\ TopKind(s) = "irq" /\ Leaving(s) => Leaving(Pop(s))
<1>1. PICK r, n : r = Pop(s) /\ n = Len(s)
  OBVIOUS
<1>2. /\ DOMAIN s = 1..n /\ DOMAIN r = 1..(n - 1) /\ n \in Nat /\ n > 0 /\ Len(r) = n - 1
      /\ \A i \in DOMAIN r : i \in DOMAIN s /\ r[i] = s[i]
      /\ s[n].kind = TopKind(s)
  BY <1>1, PopLemma, TopLemma
<1>3. \A i \in DOMAIN s : (i \in DOMAIN r /\ r[i] = s[i]) \/ s[i].kind = TopKind(s)
  BY <1>2
<1>4. HasExec(r) <=> HasExec(s)
  BY <1>2, <1>3 DEF HasExec
<1>5. NoCall(r) <=> NoCall(s)
  BY <1>2, <1>3 DEF NoCall
<1>6. CallIsOutermost(s) => CallIsOutermost(r)
  BY <1>2, <1>3 DEF CallIsOutermost
<1>7. \A l, ks, on : Unpreempted(s, l, ks, on) => Unpreempted(r, l, ks, on)
  BY <1>2, <1>3, <1>4, <1>5 DEF Unpreempted
<1>8. ASSUME TopKind(s) = "irq", Leaving(s) PROVE Leaving(r)
  <2>1. PICK i \in 1..n : s[i].kind = "sched" /\ \A j \in i..n : s[j].kind \in {"sched", "irq"}
    BY <1>1, <1>2, <1>8 DEF Leaving
  <2>2. i # n
    BY <1>2, <1>8, <2>1
  <2>3. i \in 1..(n - 1) /\ \A j \in i..(n - 1) : j \in i..n /\ j \in 1..(n - 1)
    BY <1>2, <2>2
  <2>4. \A j \in i..Len(r) : r[j].kind \in {"sched", "irq"}
    BY <1>2, <2>1, <2>3
  <2>5. i \in DOMAIN r /\ r[i].kind = "sched"
    BY <1>2, <2>1, <2>3
  <2> QED BY <2>4, <2>5 DEF Leaving
<1> QED BY <1>1, <1>4, <1>5, <1>6, <1>7, <1>8

\* A zombie that runs is on top of its stack in schedule() or in a tick.
LEMMA LeavingTop ==
    ASSUME NEW s \in Seq(Frame), Leaving(s)
    PROVE  TopKind(s) \in {"sched", "irq"} /\ s # << >>
<1>1. PICK n : n = Len(s)
  OBVIOUS
<1>2. PICK i \in 1..n : \A j \in i..n : s[j].kind \in {"sched", "irq"}
  BY <1>1 DEF Leaving
<1>3. n \in Nat /\ n \in i..n /\ n > 0
  BY <1>1, <1>2
<1>4. s # << >>
  BY <1>1, <1>3
<1> QED BY <1>1, <1>2, <1>3, <1>4 DEF TopKind

(***************************************************************************)
(* Steps                                                                   *)
(***************************************************************************)
\* A step has to be looked at only for the tasks that it changes.
LEMMA StepInv ==
    ASSUME Inv, TypeOK', SwitchIsSound', NEW C,
           \A u \in Tasks : u \notin C =>
               /\ frames'[u] = frames[u] /\ life'[u] = life[u]
               /\ kernel_stack'[u] = kernel_stack[u] /\ preempted'[u] = preempted[u]
               /\ u = onstack' <=> u = onstack,
           \A u \in Tasks : u \in C =>
               StackIsSound(frames'[u], life'[u], kernel_stack'[u], preempted'[u], u = onstack')
    PROVE  Inv'
<1>1. ASSUME NEW u \in Tasks PROVE TaskIsSound(u)'
  <2>1. CASE u \in C
    BY <2>1 DEF TaskIsSound
  <2>2. CASE u \notin C
    <3>1. StackIsSound(frames[u], life[u], kernel_stack[u], preempted[u], u = onstack)
      BY DEF Inv, TaskIsSound
    <3>2. (u = onstack') = (u = onstack)
      BY <2>2
    <3> QED BY <2>2, <3>1, <3>2 DEF TaskIsSound
  <2> QED BY <2>1, <2>2
<1> QED BY <1>1 DEF Inv

\* A step of the running task on its own stack.
LEMMA OwnStep ==
    ASSUME Inv, NEW t \in Tasks, Runs(t), NEW s \in Seq(Frame),
           SetFrames(t, s), intr' \in BOOLEAN,
           UNCHANGED <<life, kernel_stack, rsp0, current, onstack, preempted, fault>>,
           CallIsOutermost(s),
           life[t] = "zombie" => Leaving(s),
           life[t] \in {"kernel", "user"} /\ ~preempted[t] =>
               Unpreempted(s, life[t], kernel_stack[t], TRUE)
    PROVE  Inv'
<1>1. /\ frames'[t] = s /\ \A u \in Tasks : u # t => frames'[u] = frames[u]
      /\ frames' \in [Tasks -> Seq(Frame)]
  BY DEF SetFrames, Inv, TypeOK
<1>2. TypeOK'
  BY <1>1 DEF Inv, TypeOK
<1>3. SwitchIsSound'
  BY DEF Inv, SwitchIsSound, Runs
<1>4. StackIsSound(frames'[t], life'[t], kernel_stack'[t], preempted'[t], t = onstack')
  BY <1>1 DEF StackIsSound, Runs
<1>5. PICK C : C = {t}
  OBVIOUS
<1>6. \A u \in Tasks : u \notin C =>
          /\ frames'[u] = frames[u] /\ life'[u] = life[u]
          /\ kernel_stack'[u] = kernel_stack[u] /\ preempted'[u] = preempted[u]
          /\ u = onstack' <=> u = onstack
  BY <1>1, <1>5
<1>7. \A u \in Tasks : u \in C =>
          StackIsSound(frames'[u], life'[u], kernel_stack'[u], preempted'[u], u = onstack')
  BY <1>4, <1>5
<1> QED BY <1>2, <1>3, <1>6, <1>7, StepInv

\* What is known of the running task.
LEMMA RunningTask ==
    ASSUME Inv, NEW t \in Tasks, Runs(t)
    PROVE  /\ frames[t] \in Seq(Frame) /\ life[t] # "none" /\ rsp0.of = t
           /\ life[t] \in {"kernel", "user", "zombie"} /\ kernel_stack[t] \in Nat
           /\ CallIsOutermost(frames[t])
           /\ life[t] = "zombie" => Leaving(frames[t])
           /\ life[t] \in {"kernel", "user"} /\ ~preempted[t] =>
                  Unpreempted(frames[t], life[t], kernel_stack[t], TRUE)
<1>1. current = t /\ onstack = t
  BY DEF Runs
<1>2. StackIsSound(frames[t], life[t], kernel_stack[t], preempted[t], t = onstack)
  BY DEF Inv, TaskIsSound
<1>3. (t = onstack) = TRUE
  BY <1>1
<1>4. frames[t] \in Seq(Frame) /\ life[t] # "none" /\ rsp0.of = t /\ kernel_stack[t] \in Nat
  BY <1>1 DEF Inv, TypeOK, SwitchIsSound
<1>5. life[t] \in {"kernel", "user", "zombie"}
  BY <1>4 DEF Inv, TypeOK
<1> QED BY <1>2, <1>3, <1>4, <1>5 DEF StackIsSound

\* The running task pushes a frame that is no system call and no exec.
LEMMA PushStep ==
    ASSUME Inv, NEW t \in Tasks, Runs(t), NEW kind \in {"irq", "trap", "sched"},
           SetFrames(t, Push(frames[t], kind)), intr' \in BOOLEAN,
           UNCHANGED <<life, kernel_stack, rsp0, current, onstack, preempted, fault>>,
           kind = "trap" => life[t] # "zombie"
    PROVE  Inv'
<1>1. PICK s : s = Push(frames[t], kind)
  OBVIOUS
<1>2. frames[t] \in Seq(Frame) /\ kind \in Kinds \ {"sc", "exec"}
  BY RunningTask DEF Kinds
<1>3. s \in Seq(Frame)
  BY <1>1, <1>2, PushLemma
<1>4. CallIsOutermost(s)
  BY <1>1, <1>2, RunningTask, PushKeeps
<1>5. life[t] = "zombie" => Leaving(s)
  BY <1>1, <1>2, RunningTask, PushLeaving
<1>6. life[t] \in {"kernel", "user"} /\ ~preempted[t] =>
          Unpreempted(s, life[t], kernel_stack[t], TRUE)
  BY <1>1, <1>2, RunningTask, PushKeeps
<1> QED BY <1>1, <1>3, <1>4, <1>5, <1>6, OwnStep

\* The running task takes such a frame away.
LEMMA PopStep ==
    ASSUME Inv, NEW t \in Tasks, Runs(t), TopKind(frames[t]) \in {"irq", "trap", "sched"},
           TopKind(frames[t]) = "sched" => life[t] # "zombie",
           SetFrames(t, Pop(frames[t])), intr' \in BOOLEAN,
           UNCHANGED <<life, kernel_stack, rsp0, current, onstack, preempted, fault>>
    PROVE  Inv'
<1>1. PICK s : s = Pop(frames[t])
  OBVIOUS
<1>2. frames[t] \in Seq(Frame) /\ TopKind(frames[t]) \notin {"sc", "exec", "none"}
  BY RunningTask
<1>3. s \in Seq(Frame)
  BY <1>1, <1>2, PopLemma
<1>4. CallIsOutermost(s)
  BY <1>1, <1>2, RunningTask, PopKeeps
<1>5. life[t] = "zombie" => Leaving(s)
  <2> SUFFICES ASSUME life[t] = "zombie" PROVE Leaving(s)
    OBVIOUS
  <2>1. Leaving(frames[t])
    BY RunningTask
  <2>2. TopKind(frames[t]) = "irq"
    BY <1>2, <2>1, LeavingTop
  <2> QED BY <1>1, <1>2, <2>1, <2>2, PopKeeps
<1>6. life[t] \in {"kernel", "user"} /\ ~preempted[t] =>
          Unpreempted(s, life[t], kernel_stack[t], TRUE)
  BY <1>1, <1>2, RunningTask, PopKeeps
<1> QED BY <1>1, <1>3, <1>4, <1>5, <1>6, OwnStep

\* A step of the running task that may also change its life and kernel_stack.
LEMMA OwnStepInv ==
    ASSUME Inv, TypeOK', NEW t \in Tasks, Runs(t), current' = t, onstack' = t, rsp0'.of = t,
           \A u \in Tasks : u # t =>
               /\ frames'[u] = frames[u] /\ life'[u] = life[u]
               /\ kernel_stack'[u] = kernel_stack[u] /\ preempted'[u] = preempted[u],
           life'[t] # "none",
           StackIsSound(frames'[t], life'[t], kernel_stack'[t], preempted'[t], TRUE)
    PROVE  Inv'
<1>1. SwitchIsSound'
  BY DEF SwitchIsSound
<1>2. PICK C : C = {t}
  OBVIOUS
<1>3. \A u \in Tasks : u \notin C =>
          /\ frames'[u] = frames[u] /\ life'[u] = life[u]
          /\ kernel_stack'[u] = kernel_stack[u] /\ preempted'[u] = preempted[u]
          /\ u = onstack' <=> u = onstack
  BY <1>2 DEF Runs
<1>4. \A u \in Tasks : u \in C =>
          StackIsSound(frames'[u], life'[u], kernel_stack'[u], preempted'[u], u = onstack')
  BY <1>2
<1> QED BY <1>1, <1>3, <1>4, StepInv

\* The empty stack, and a stack of one frame.
LEMMA EmptyStack ==
    /\ << >> \in Seq(Frame)
    /\ CallIsOutermost(<< >>) /\ NoCall(<< >>) /\ ~HasExec(<< >>)
    /\ \A ks : Unpreempted(<< >>, "user", ks, TRUE) <=> ks = 0
BY DEF CallIsOutermost, NoCall, HasExec, Unpreempted

LEMMA OneFrame ==
    ASSUME NEW kind \in Kinds, NEW at \in Nat
    PROVE  /\ PushAt(<< >>, kind, at) \in Seq(Frame)
           /\ \A i \in DOMAIN PushAt(<< >>, kind, at) : i = 1
           /\ PushAt(<< >>, kind, at)[1].kind = kind
           /\ PushAt(<< >>, kind, at)[1].at = at + SizeOf[kind]
           /\ 1 \in DOMAIN PushAt(<< >>, kind, at)
<1>1. PICK x : x = [kind |-> kind, at |-> at + SizeOf[kind]]
  OBVIOUS
<1>2. x \in Frame /\ x.kind = kind /\ x.at = at + SizeOf[kind]
  BY <1>1, SizeAssumption DEF Frame
<1>3. PushAt(<< >>, kind, at) = << x >>
  BY <1>1 DEF PushAt
<1>4. PICK r : r = << x >>
  OBVIOUS
<1>5. r \in Seq(Frame) /\ DOMAIN r = 1..1 /\ r[1] = x
  BY <1>2, <1>4
<1>6. r = PushAt(<< >>, kind, at)
  BY <1>3, <1>4
<1>7. /\ r \in Seq(Frame) /\ 1 \in DOMAIN r /\ \A i \in DOMAIN r : i = 1
      /\ r[1].kind = kind /\ r[1].at = at + SizeOf[kind]
  BY <1>2, <1>5
<1> QED BY <1>6, <1>7

\* Interrupts and faults of user code.
LEMMA FromUserInv ==
    ASSUME Inv, NEW t \in Tasks, NEW kind \in {"irq", "trap"}, FromUser(t, kind),
           intr' \in BOOLEAN
    PROVE  Inv'
<1>1. PICK s : s = PushAt(<< >>, kind, rsp0.at)
  OBVIOUS
<1>2. rsp0.at \in Nat /\ kind \in Kinds /\ kind # "sc" /\ kind # "exec"
  BY DEF Inv, TypeOK, Kinds
<1>3. s \in Seq(Frame) /\ \A i \in DOMAIN s : s[i].kind = kind
  BY <1>1, <1>2, OneFrame
<1>4. CallIsOutermost(s) /\ NoCall(s) /\ ~HasExec(s)
  BY <1>2, <1>3 DEF CallIsOutermost, NoCall, HasExec
<1>5. Runs(t) /\ life[t] = "user" /\ frames[t] = << >> /\ SetFrames(t, s)
  BY <1>1 DEF FromUser, InUser
<1>6. ~preempted[t] => Unpreempted(s, life[t], kernel_stack[t], TRUE)
  <2> SUFFICES ASSUME ~preempted[t] PROVE Unpreempted(s, life[t], kernel_stack[t], TRUE)
    OBVIOUS
  <2>1. kernel_stack[t] = 0
    BY <1>5, RunningTask, EmptyStack
  <2> QED BY <1>2, <1>3, <2>1 DEF Unpreempted
<1>7. UNCHANGED <<life, kernel_stack, rsp0, current, onstack, preempted, fault>>
  BY DEF FromUser
<1> QED BY <1>3, <1>4, <1>5, <1>6, <1>7, OwnStep

LEMMA SyscallEnterInv ==
    ASSUME Inv, NEW t \in Tasks, SyscallEnter(t)
    PROVE  Inv'
<1>1. PICK s : s = PushAt(<< >>, "sc", kernel_stack[t])
  OBVIOUS
<1>2. Runs(t) /\ life[t] = "user" /\ frames[t] = << >> /\ SetFrames(t, s)
  BY <1>1 DEF SyscallEnter, InUser
<1>3. kernel_stack[t] \in Nat /\ "sc" \in Kinds
  BY <1>2, RunningTask DEF Kinds
<1>4. /\ s \in Seq(Frame) /\ 1 \in DOMAIN s /\ \A i \in DOMAIN s : i = 1
      /\ s[1].kind = "sc" /\ s[1].at = kernel_stack[t] + SizeOf["sc"]
  BY <1>1, <1>3, OneFrame
<1>5. SizeOf["sc"] \in Nat
  BY <1>3, SizeAssumption
<1>6. s[1].at >= SizeOf["sc"]
  BY <1>3, <1>4, <1>5
<1>7. CallIsOutermost(s) /\ ~NoCall(s) /\ ~HasExec(s)
  BY <1>4, <1>6 DEF CallIsOutermost, NoCall, HasExec
<1>8. ~preempted[t] => Unpreempted(s, life[t], kernel_stack[t], TRUE)
  <2> SUFFICES ASSUME ~preempted[t] PROVE Unpreempted(s, life[t], kernel_stack[t], TRUE)
    OBVIOUS
  <2>1. kernel_stack[t] = 0
    BY <1>2, RunningTask, EmptyStack
  <2>2. s[1].at = SizeOf["sc"]
    BY <1>4, <1>5, <2>1
  <2> QED BY <1>4, <1>7, <2>2 DEF Unpreempted
<1>9. intr' \in BOOLEAN /\ UNCHANGED <<life, kernel_stack, rsp0, current, onstack, preempted, fault>>
  BY DEF SyscallEnter
<1> QED BY <1>2, <1>4, <1>7, <1>8, <1>9, OwnStep

\* A stack with the frame of a call on top has no other frame.
LEMMA CallOnTop ==
    ASSUME NEW s \in Seq(Frame), TopKind(s) = "sc", CallIsOutermost(s)
    PROVE  /\ Pop(s) = << >> /\ DOMAIN s = {1} /\ s[1].kind = "sc"
           /\ DepthOf(s) = s[1].at /\ s[1].at >= SizeOf["sc"] /\ s[1].at \in Nat /\ ~HasExec(s)
<1>1. Len(s) \in DOMAIN s /\ s[Len(s)].kind = "sc" /\ DepthOf(s) = s[Len(s)].at
  BY TopLemma
<1>2. Len(s) = 1 /\ s[1].at >= SizeOf["sc"]
  BY <1>1 DEF CallIsOutermost
<1>3. DOMAIN s = {1} /\ s[1] \in Frame
  BY <1>2
<1>4. Pop(s) = << >>
  BY <1>2 DEF Pop
<1> QED BY <1>1, <1>2, <1>3, <1>4 DEF Frame, HasExec

LEMMA SyscallReturnInv ==
    ASSUME Inv, NEW t \in Tasks, SyscallReturn(t)
    PROVE  Inv'
<1>1. Runs(t) /\ TopKind(frames[t]) = "sc"
  BY DEF SyscallReturn, At
<1>2. /\ frames[t] \in Seq(Frame) /\ CallIsOutermost(frames[t])
      /\ life[t] \in {"kernel", "user", "zombie"} /\ current = t /\ onstack = t /\ rsp0.of = t
      /\ life[t] = "zombie" => Leaving(frames[t])
  BY <1>1, RunningTask DEF Runs
<1>3. life[t] # "zombie"
  BY <1>1, <1>2, LeavingTop
<1>4. PICK k : k = DepthOf(frames[t]) - SizeOf["sc"]
  OBVIOUS
<1>5. /\ Pop(frames[t]) = << >> /\ DOMAIN frames[t] = {1} /\ frames[t][1].kind = "sc"
      /\ DepthOf(frames[t]) = frames[t][1].at /\ frames[t][1].at >= SizeOf["sc"]
      /\ frames[t][1].at \in Nat /\ ~HasExec(frames[t])
  BY <1>1, <1>2, CallOnTop
<1>6. SizeOf["sc"] \in Nat
  BY SizeAssumption DEF Kinds
<1>7. k \in Nat
  BY <1>4, <1>5, <1>6
<1>8. /\ frames' = [frames EXCEPT ![t] = << >>]
      /\ kernel_stack' = [kernel_stack EXCEPT ![t] = k]
      /\ intr' = TRUE /\ UNCHANGED <<life, rsp0, current, onstack, preempted, fault>>
  BY <1>4, <1>5 DEF SyscallReturn, SetFrames
<1>9. TypeOK'
  BY <1>7, <1>8, EmptyStack DEF Inv, TypeOK
<1>10. /\ frames'[t] = << >> /\ kernel_stack'[t] = k
       /\ \A u \in Tasks : u # t => frames'[u] = frames[u] /\ kernel_stack'[u] = kernel_stack[u]
  BY <1>8 DEF Inv, TypeOK
<1>11. life[t] \in {"kernel", "user"} /\ ~preempted[t] => Unpreempted(<< >>, life[t], k, TRUE)
  <2>1. CASE life[t] = "kernel"
    BY <2>1, EmptyStack DEF Unpreempted
  <2>2. CASE life[t] = "user" /\ ~preempted[t]
    <3>1. Unpreempted(frames[t], life[t], kernel_stack[t], TRUE)
      BY <1>1, <2>2, RunningTask
    <3>2. frames[t][1].at = SizeOf["sc"]
      BY <1>5, <2>2, <3>1 DEF Unpreempted
    <3>3. k = 0
      BY <1>4, <1>5, <1>6, <3>2
    <3> QED BY <2>2, <3>3, EmptyStack
  <2> QED BY <2>1, <2>2
<1>12. StackIsSound(frames'[t], life'[t], kernel_stack'[t], preempted'[t], TRUE)
  BY <1>3, <1>8, <1>10, <1>11, EmptyStack DEF StackIsSound
<1> QED BY <1>1, <1>2, <1>8, <1>9, <1>10, <1>12, OwnStepInv

\* exec puts its frame on the stack and makes a new page the kernel_stack.
LEMMA ExecStackInv ==
    ASSUME Inv, NEW t \in Tasks, ExecStack(t)
    PROVE  Inv'
<1>1. Runs(t) /\ (TopKind(frames[t]) = "sc" \/ life[t] = "kernel")
  BY DEF ExecStack, At, InKernel
<1>2. /\ frames[t] \in Seq(Frame) /\ CallIsOutermost(frames[t])
      /\ life[t] \in {"kernel", "user", "zombie"} /\ current = t /\ onstack = t
      /\ life[t] = "zombie" => Leaving(frames[t])
  BY <1>1, RunningTask DEF Runs
<1>3. life[t] # "zombie"
  BY <1>1, <1>2, LeavingTop
<1>4. PICK s : s = Push(frames[t], "exec")
  OBVIOUS
<1>5. "exec" \in Kinds
  BY DEF Kinds
<1>6. PICK n : n = Len(frames[t])
  OBVIOUS
<1>7. /\ s \in Seq(Frame) /\ DOMAIN s = 1..(n + 1) /\ DOMAIN frames[t] = 1..n /\ n \in Nat
      /\ \A i \in 1..n : s[i] = frames[t][i]
      /\ s[n + 1].kind = "exec"
  BY <1>2, <1>4, <1>5, <1>6, PushLemma
<1>8. \A i \in DOMAIN s : (i \in DOMAIN frames[t] /\ s[i] = frames[t][i]) \/ s[i].kind = "exec"
  BY <1>7
<1>9. CallIsOutermost(s)
  BY <1>2, <1>8 DEF CallIsOutermost
<1>10. HasExec(s)
  BY <1>7 DEF HasExec
<1>11. /\ frames' = [frames EXCEPT ![t] = s] /\ kernel_stack' = [kernel_stack EXCEPT ![t] = 0]
       /\ preempted' = [preempted EXCEPT ![t] = FALSE] /\ rsp0' = [of |-> t, at |-> 0]
       /\ UNCHANGED <<life, current, onstack, intr, fault>>
  BY <1>4 DEF ExecStack, SetFrames
<1>12. TypeOK'
  BY <1>7, <1>11 DEF Inv, TypeOK
<1>13. /\ frames'[t] = s /\ kernel_stack'[t] = 0
       /\ \A u \in Tasks : u # t =>
             /\ frames'[u] = frames[u] /\ kernel_stack'[u] = kernel_stack[u]
             /\ preempted'[u] = preempted[u]
  BY <1>11 DEF Inv, TypeOK
<1>14. StackIsSound(frames'[t], life'[t], kernel_stack'[t], preempted'[t], TRUE)
  BY <1>3, <1>9, <1>10, <1>11, <1>13 DEF StackIsSound, Unpreempted
<1>15. rsp0'.of = t /\ current' = t /\ onstack' = t /\ life' = life /\ life[t] # "none"
  BY <1>2, <1>11
<1> QED BY <1>1, <1>12, <1>13, <1>14, <1>15, OwnStepInv

LEMMA RetToUserInv ==
    ASSUME Inv, NEW t \in Tasks, RetToUser(t)
    PROVE  Inv'
<1>1. Runs(t) /\ TopKind(frames[t]) = "exec"
  BY DEF RetToUser, At
<1>2. /\ frames[t] \in Seq(Frame)
      /\ life[t] \in {"kernel", "user", "zombie"} /\ current = t /\ onstack = t /\ rsp0.of = t
      /\ life[t] = "zombie" => Leaving(frames[t])
      /\ life[t] \in {"kernel", "user"} /\ ~preempted[t] =>
             Unpreempted(frames[t], life[t], kernel_stack[t], TRUE)
  BY <1>1, RunningTask DEF Runs
<1>3. life[t] # "zombie"
  BY <1>1, <1>2, LeavingTop
<1>4. HasExec(frames[t])
  BY <1>1, <1>2, TopLemma DEF HasExec
<1>5. ~preempted[t] => kernel_stack[t] = 0
  BY <1>2, <1>3, <1>4 DEF Unpreempted
<1>6. /\ frames' = [frames EXCEPT ![t] = << >>] /\ life' = [life EXCEPT ![t] = "user"]
      /\ intr' = TRUE
      /\ UNCHANGED <<kernel_stack, rsp0, current, onstack, preempted, fault>>
  BY DEF RetToUser, SetFrames
<1>7. TypeOK'
  BY <1>6, EmptyStack DEF Inv, TypeOK
<1>8. /\ frames'[t] = << >> /\ life'[t] = "user"
      /\ \A u \in Tasks : u # t => frames'[u] = frames[u] /\ life'[u] = life[u]
  BY <1>6 DEF Inv, TypeOK
<1>9. StackIsSound(frames'[t], life'[t], kernel_stack'[t], preempted'[t], TRUE)
  BY <1>5, <1>6, <1>8, EmptyStack DEF StackIsSound
<1> QED BY <1>1, <1>2, <1>6, <1>7, <1>8, <1>9, OwnStepInv

\* exit_st of the running task itself, or of current in the loop of schedule().
LEMMA DieInv ==
    ASSUME Inv, NEW t \in Tasks, Runs(t),
           life' = [life EXCEPT ![t] = "zombie"],
           SetFrames(t, Push(frames[t], "sched")),
           UNCHANGED <<kernel_stack, rsp0, current, onstack, intr, preempted, fault>>
    PROVE  Inv'
<1>1. /\ frames[t] \in Seq(Frame) /\ CallIsOutermost(frames[t])
      /\ current = t /\ onstack = t /\ rsp0.of = t
  BY RunningTask DEF Runs
<1>2. PICK s : s = Push(frames[t], "sched")
  OBVIOUS
<1>3. "sched" \in Kinds \ {"sc", "exec"}
  BY DEF Kinds
<1>4. s \in Seq(Frame) /\ CallIsOutermost(s) /\ Leaving(s)
  BY <1>1, <1>2, <1>3, PushLemma, PushKeeps, PushLeaving
<1>5. frames' = [frames EXCEPT ![t] = s]
  BY <1>2 DEF SetFrames
<1>6. TypeOK'
  BY <1>4, <1>5 DEF Inv, TypeOK
<1>7. /\ frames'[t] = s /\ life'[t] = "zombie"
      /\ \A u \in Tasks : u # t => frames'[u] = frames[u] /\ life'[u] = life[u]
  BY <1>5 DEF Inv, TypeOK
<1>8. StackIsSound(frames'[t], life'[t], kernel_stack'[t], preempted'[t], TRUE)
  BY <1>4, <1>7 DEF StackIsSound
<1> QED BY <1>1, <1>6, <1>7, <1>8, OwnStepInv

\* The stacks that kernel_thread and fork build can be switched to.
LEMMA NewStacks ==
    /\ NewThread \in Seq(Frame) /\ Child \in Seq(Frame)
    /\ Resumable(NewThread, DepthOf(NewThread)) /\ Resumable(Child, DepthOf(Child))
    /\ CallIsOutermost(NewThread) /\ CallIsOutermost(Child)
    /\ ~HasExec(NewThread)
    /\ Unpreempted(Child, "user", DepthOf(Child), FALSE)
<1>1. /\ "ret" \in Kinds \ {"sc", "exec"} /\ "ctx" \in Kinds \ {"sc", "exec"} /\ "sc" \in Kinds
      /\ SizeOf["ctx"] \in Nat /\ SizeOf["ctx"] > 0 /\ SizeOf["sc"] \in Nat /\ 0 \in Nat
  BY SizeAssumption DEF Kinds
<1>2. PICK e : e = << >>
  OBVIOUS
<1>3. e \in Seq(Frame) /\ CallIsOutermost(e) /\ ~HasExec(e)
  BY <1>2, EmptyStack
<1>4. PICK c : c = Push(e, "sc")
  OBVIOUS
<1>5. /\ c \in Seq(Frame) /\ 1 \in DOMAIN c /\ \A i \in DOMAIN c : i = 1
      /\ c[1].kind = "sc" /\ c[1].at = SizeOf["sc"]
  <2>1. c = PushAt(<< >>, "sc", 0)
    BY <1>2, <1>4 DEF Push, DepthOf
  <2>2. /\ c \in Seq(Frame) /\ 1 \in DOMAIN c /\ \A i \in DOMAIN c : i = 1
        /\ c[1].kind = "sc" /\ c[1].at = 0 + SizeOf["sc"]
    BY <1>1, <2>1, OneFrame
  <2> QED BY <1>1, <2>2
<1>6. /\ CallIsOutermost(c) /\ Unpreempted(c, "user", DepthOf(Child), FALSE)
  BY <1>1, <1>5 DEF CallIsOutermost, Unpreempted, NoCall, HasExec
<1>7. ASSUME NEW s \in Seq(Frame)
      PROVE  /\ Push(Push(s, "ret"), "ctx") \in Seq(Frame)
             /\ Resumable(Push(Push(s, "ret"), "ctx"), DepthOf(Push(Push(s, "ret"), "ctx")))
             /\ CallIsOutermost(s) => CallIsOutermost(Push(Push(s, "ret"), "ctx"))
             /\ HasExec(s) <=> HasExec(Push(Push(s, "ret"), "ctx"))
             /\ \A l, ks, on : Unpreempted(s, l, ks, on) =>
                                  Unpreempted(Push(Push(s, "ret"), "ctx"), l, ks, on)
  <2>1. PICK r : r = Push(s, "ret")
    OBVIOUS
  <2>2. PICK x : x = Push(r, "ctx")
    OBVIOUS
  <2>3. r \in Seq(Frame) /\ TopKind(r) = "ret"
    BY <1>1, <2>1, PushLemma
  <2>4. /\ x \in Seq(Frame) /\ TopKind(x) = "ctx" /\ Pop(x) = r
        /\ DepthOf(x) = DepthOf(r) + SizeOf["ctx"]
    BY <1>1, <2>2, <2>3, PushLemma
  <2>5. DepthOf(r) \in Nat
    BY <2>3, DepthLemma
  <2>6. Resumable(x, DepthOf(x))
    BY <1>1, <2>3, <2>4, <2>5 DEF Resumable
  <2>7. /\ CallIsOutermost(s) => CallIsOutermost(x)
        /\ HasExec(s) <=> HasExec(x)
    BY <1>1, <2>1, <2>2, <2>3, PushKeeps
  <2>8. \A l, ks, on : Unpreempted(s, l, ks, on) => Unpreempted(x, l, ks, on)
    <3>1. \A l, ks, on : Unpreempted(s, l, ks, on) => Unpreempted(r, l, ks, on)
      BY <1>1, <2>1, PushKeeps
    <3>2. \A l, ks, on : Unpreempted(r, l, ks, on) => Unpreempted(x, l, ks, on)
      BY <1>1, <2>2, <2>3, PushKeeps
    <3> QED BY <3>1, <3>2
  <2>9. x = Push(Push(s, "ret"), "ctx")
    BY <2>1, <2>2
  <2> QED BY <2>4, <2>6, <2>7, <2>8, <2>9
<1>8. NewThread = Push(Push(e, "ret"), "ctx") /\ Child = Push(Push(c, "ret"), "ctx")
  BY <1>2, <1>4 DEF NewThread, Child
<1> QED BY <1>3, <1>5, <1>6, <1>7, <1>8

\* A step of the running task that makes, kills or frees another one.
LEMMA OtherStepInv ==
    ASSUME Inv, TypeOK', NEW t \in Tasks, Runs(t), NEW z \in Tasks, z # t,
           UNCHANGED <<rsp0, current, onstack>>,
           \A u \in Tasks : u # z =>
               /\ frames'[u] = frames[u] /\ life'[u] = life[u]
               /\ kernel_stack'[u] = kernel_stack[u] /\ preempted'[u] = preempted[u],
           StackIsSound(frames'[z], life'[z], kernel_stack'[z], preempted'[z], FALSE)
    PROVE  Inv'
<1>0. current = t /\ onstack = t
  BY DEF Runs
<1>1. SwitchIsSound'
  BY <1>0 DEF SwitchIsSound, Inv
<1>2. PICK C : C = {z}
  OBVIOUS
<1>3. \A u \in Tasks : u \notin C =>
          /\ frames'[u] = frames[u] /\ life'[u] = life[u]
          /\ kernel_stack'[u] = kernel_stack[u] /\ preempted'[u] = preempted[u]
          /\ u = onstack' <=> u = onstack
  BY <1>2
<1>4. (z = onstack') = FALSE
  BY <1>0
<1>5. \A u \in Tasks : u \in C =>
          StackIsSound(frames'[u], life'[u], kernel_stack'[u], preempted'[u], u = onstack')
  BY <1>2, <1>4
<1> QED BY <1>1, <1>3, <1>5, StepInv

LEMMA SpawnShellInv ==
    ASSUME Inv, NEW t \in Tasks, SpawnShell(t)
    PROVE  Inv'
<1>1. Runs(Boot) /\ Boot \in Tasks /\ life[t] = "none"
  BY TasksAssumption DEF SpawnShell, InKernel, Tasks
<1>2. t # Boot
  BY <1>1, RunningTask
<1>3. PICK s, d : s = NewThread /\ d = DepthOf(NewThread)
  OBVIOUS
<1>4. /\ s \in Seq(Frame) /\ d \in Nat /\ Resumable(s, d) /\ CallIsOutermost(s) /\ ~HasExec(s)
  BY <1>3, NewStacks, DepthLemma
<1>5. /\ frames' = [frames EXCEPT ![t] = s] /\ life' = [life EXCEPT ![t] = "kernel"]
      /\ kernel_stack' = [kernel_stack EXCEPT ![t] = d]
      /\ preempted' = [preempted EXCEPT ![t] = FALSE]
      /\ UNCHANGED <<rsp0, current, onstack, intr, fault>>
  BY <1>3 DEF SpawnShell, SetFrames
<1>6. TypeOK'
  BY <1>4, <1>5 DEF Inv, TypeOK
<1>7. /\ frames'[t] = s /\ life'[t] = "kernel" /\ kernel_stack'[t] = d
      /\ \A u \in Tasks : u # t =>
             /\ frames'[u] = frames[u] /\ life'[u] = life[u]
             /\ kernel_stack'[u] = kernel_stack[u] /\ preempted'[u] = preempted[u]
  BY <1>5 DEF Inv, TypeOK
<1>8. StackIsSound(frames'[t], life'[t], kernel_stack'[t], preempted'[t], FALSE)
  BY <1>4, <1>7 DEF StackIsSound, Unpreempted
<1> QED BY <1>1, <1>2, <1>5, <1>6, <1>7, <1>8, OtherStepInv

LEMMA ForkInv ==
    ASSUME Inv, NEW t \in Tasks, NEW child \in Tasks, Fork(t, child)
    PROVE  Inv'
<1>1. Runs(t) /\ life[child] = "none"
  BY DEF Fork, At
<1>2. child # t
  BY <1>1, RunningTask
<1>3. PICK s, d : s = Child /\ d = DepthOf(Child)
  OBVIOUS
<1>4. /\ s \in Seq(Frame) /\ d \in Nat /\ Resumable(s, d) /\ CallIsOutermost(s)
      /\ Unpreempted(s, "user", d, FALSE)
  BY <1>3, NewStacks, DepthLemma
<1>5. /\ frames' = [frames EXCEPT ![child] = s] /\ life' = [life EXCEPT ![child] = "user"]
      /\ kernel_stack' = [kernel_stack EXCEPT ![child] = d]
      /\ preempted' = [preempted EXCEPT ![child] = FALSE]
      /\ UNCHANGED <<rsp0, current, onstack, intr, fault>>
  BY <1>3 DEF Fork, SetFrames, ForkDepth
<1>6. TypeOK'
  BY <1>4, <1>5 DEF Inv, TypeOK
<1>7. /\ frames'[child] = s /\ life'[child] = "user" /\ kernel_stack'[child] = d
      /\ \A u \in Tasks : u # child =>
             /\ frames'[u] = frames[u] /\ life'[u] = life[u]
             /\ kernel_stack'[u] = kernel_stack[u] /\ preempted'[u] = preempted[u]
  BY <1>5 DEF Inv, TypeOK
<1>8. StackIsSound(frames'[child], life'[child], kernel_stack'[child], preempted'[child], FALSE)
  BY <1>4, <1>7 DEF StackIsSound
<1> QED BY <1>1, <1>2, <1>5, <1>6, <1>7, <1>8, OtherStepInv

\* exit_st(next) for a task that sleeps or waits for the processor.
LEMMA KillNextInv ==
    ASSUME Inv, NEW t \in Tasks, NEW next \in Tasks, KillNext(t, next)
    PROVE  Inv'
<1>1. Runs(t) /\ life' = [life EXCEPT ![next] = "zombie"]
  BY DEF KillNext, At
<1>2. CASE next = t
  BY <1>1, <1>2, DieInv DEF KillNext
<1>3. CASE next # t
  <2>0. current = t /\ onstack = t
    BY <1>1 DEF Runs
  <2>1. /\ frames[t] \in Seq(Frame) /\ CallIsOutermost(frames[t])
        /\ life[t] = "zombie" => Leaving(frames[t])
        /\ life[t] \in {"kernel", "user"} /\ ~preempted[t] =>
               Unpreempted(frames[t], life[t], kernel_stack[t], TRUE)
    BY <1>1, RunningTask
  <2>2. PICK s : s = Push(frames[t], "sched")
    OBVIOUS
  <2>3. "sched" \in Kinds \ {"sc", "exec"}
    BY DEF Kinds
  <2>4. /\ s \in Seq(Frame) /\ CallIsOutermost(s) /\ Leaving(s)
        /\ \A l, ks, on : Unpreempted(frames[t], l, ks, on) => Unpreempted(s, l, ks, on)
    BY <2>1, <2>2, <2>3, PushLemma, PushKeeps, PushLeaving
  <2>5. /\ frames' = [frames EXCEPT ![t] = s]
        /\ UNCHANGED <<kernel_stack, rsp0, current, onstack, intr, preempted, fault>>
    BY <2>2 DEF KillNext, SetFrames
  <2>6. TypeOK'
    BY <1>1, <2>4, <2>5 DEF Inv, TypeOK
  <2>7. /\ frames'[t] = s /\ \A u \in Tasks : u # t => frames'[u] = frames[u]
        /\ life'[next] = "zombie" /\ \A u \in Tasks : u # next => life'[u] = life[u]
    BY <1>1, <2>5 DEF Inv, TypeOK
  <2>8. SwitchIsSound'
    BY <1>3, <2>0, <2>5, <2>7 DEF SwitchIsSound, Inv
  <2>9. StackIsSound(frames'[t], life'[t], kernel_stack'[t], preempted'[t], TRUE)
    BY <1>3, <2>1, <2>4, <2>5, <2>7 DEF StackIsSound
  <2>10. life[next] # "none"
    BY DEF KillNext
  <2>11. StackIsSound(frames'[next], life'[next], kernel_stack'[next], preempted'[next], FALSE)
    <3>1. StackIsSound(frames[next], life[next], kernel_stack[next], preempted[next], next = onstack)
      BY DEF Inv, TaskIsSound
    <3>2. (next = onstack) = FALSE
      BY <1>3, <2>0
    <3> QED BY <1>3, <2>5, <2>7, <2>10, <3>1, <3>2 DEF StackIsSound
  <2>12. (t = onstack') = TRUE /\ (next = onstack') = FALSE
    BY <1>3, <2>0, <2>5
  <2>13. PICK C : C = {t, next}
    OBVIOUS
  <2>14. \A u \in Tasks : u \in C =>
          StackIsSound(frames'[u], life'[u], kernel_stack'[u], preempted'[u], u = onstack')
    BY <2>9, <2>11, <2>12, <2>13
  <2>15. \A u \in Tasks : u \notin C =>
          /\ frames'[u] = frames[u] /\ life'[u] = life[u]
          /\ kernel_stack'[u] = kernel_stack[u] /\ preempted'[u] = preempted[u]
          /\ u = onstack' <=> u = onstack
    BY <2>5, <2>7, <2>13
  <2> QED BY <2>6, <2>8, <2>14, <2>15, StepInv
<1> QED BY <1>2, <1>3

LEMMA FreeProcessInv ==
    ASSUME Inv, NEW t \in Tasks, NEW z \in Tasks, FreeProcess(t, z)
    PROVE  Inv'
<1>1. Runs(t) /\ life[z] = "zombie" /\ (TopKind(frames[t]) = "sc" \/ life[t] = "kernel")
  BY DEF FreeProcess, InKernel
<1>2. z # t
  BY <1>1, RunningTask, LeavingTop
<1>3. /\ frames' = [frames EXCEPT ![z] = << >>] /\ life' = [life EXCEPT ![z] = "none"]
      /\ UNCHANGED <<kernel_stack, rsp0, current, onstack, intr, preempted, fault>>
  BY DEF FreeProcess, SetFrames
<1>4. TypeOK'
  BY <1>3, EmptyStack DEF Inv, TypeOK
<1>5. /\ frames'[z] = << >> /\ life'[z] = "none"
      /\ \A u \in Tasks : u # z => frames'[u] = frames[u] /\ life'[u] = life[u]
  BY <1>3 DEF Inv, TypeOK
<1>6. StackIsSound(frames'[z], life'[z], kernel_stack'[z], preempted'[z], FALSE)
  BY <1>5, EmptyStack DEF StackIsSound
<1> QED BY <1>1, <1>2, <1>3, <1>4, <1>5, <1>6, OtherStepInv

\* current = next in schedule() opens the window.
LEMMA SchedulePicksInv ==
    ASSUME Inv, NEW t \in Tasks, NEW next \in Tasks, SchedulePicks(t, next)
    PROVE  Inv'
<1>1. /\ current = t /\ onstack = t /\ TopKind(frames[t]) = "sched"
      /\ life[next] \in {"kernel", "user"} /\ current' = next
      /\ rsp0' = [of |-> next, at |-> kernel_stack[next]]
      /\ UNCHANGED <<life, frames, kernel_stack, onstack, intr, preempted, fault>>
  BY DEF SchedulePicks, At, Runs
<1>2. TypeOK'
  BY <1>1 DEF Inv, TypeOK
<1>3. SwitchIsSound'
  BY <1>1 DEF SwitchIsSound, Inv
<1>4. \A u \in Tasks : TaskIsSound(u)'
  BY <1>1 DEF Inv, TaskIsSound
<1> QED BY <1>2, <1>3, <1>4 DEF Inv

\* Steps that change neither tasks nor stacks.
LEMMA QuietInv ==
    ASSUME Inv, TypeOK',
           UNCHANGED <<life, frames, kernel_stack, rsp0, current, onstack, preempted>>
    PROVE  Inv'
BY DEF Inv, TaskIsSound, SwitchIsSound

\* __switch_to: the task that leaves can be resumed, and the one that is
\* resumed finds the stack it has left.
LEMMA SwitchToInv ==
    ASSUME Inv, SwitchTo
    PROVE  Inv'
<1>1. PICK o, c : o = onstack /\ c = current
  OBVIOUS
<1>2. /\ o \in Tasks /\ c \in Tasks /\ c # o
      /\ life[o] # "none" /\ life[c] \in {"kernel", "user"}
      /\ TopKind(frames[o]) = "sched" /\ rsp0.of = c
      /\ frames[o] \in Seq(Frame) /\ frames[c] \in Seq(Frame)
  BY <1>1 DEF SwitchTo, Inv, TypeOK, SwitchIsSound
<1>3. PICK s, r, x : s = Push(frames[o], "ctx") /\ r = Pop(frames[c]) /\ x = Pop(r)
  OBVIOUS
<1>4. "ctx" \in Kinds \ {"sc", "exec"} /\ SizeOf["ctx"] \in Nat /\ SizeOf["ctx"] > 0
  BY SizeAssumption DEF Kinds
<1>5. PICK d : d = DepthOf(s)
  OBVIOUS
<1>6. /\ s \in Seq(Frame) /\ TopKind(s) = "ctx" /\ Pop(s) = frames[o]
      /\ d = DepthOf(frames[o]) + SizeOf["ctx"]
  BY <1>2, <1>3, <1>4, <1>5, PushLemma
<1>7. d \in Nat /\ d > 0
  <2>1. DepthOf(frames[o]) \in Nat
    BY <1>2, DepthLemma
  <2> QED BY <1>4, <1>6, <2>1
<1>8. Resumable(s, d)
  BY <1>2, <1>5, <1>6, <1>7 DEF Resumable
<1>9. /\ StackIsSound(frames[o], life[o], kernel_stack[o], preempted[o], TRUE)
      /\ StackIsSound(frames[c], life[c], kernel_stack[c], preempted[c], FALSE)
  <2>1. /\ StackIsSound(frames[o], life[o], kernel_stack[o], preempted[o], o = onstack)
        /\ StackIsSound(frames[c], life[c], kernel_stack[c], preempted[c], c = onstack)
    BY <1>2 DEF Inv, TaskIsSound
  <2>2. (o = onstack) = TRUE /\ (c = onstack) = FALSE
    BY <1>1, <1>2
  <2> QED BY <2>1, <2>2
<1>10. PICK pre \in BOOLEAN : pre = (preempted[o] \/ LosesStack(frames[o]))
  BY <1>2 DEF Inv, TypeOK, LosesStack
<1>11. /\ frames' = [frames EXCEPT ![o] = s, ![c] = x]
       /\ kernel_stack' = [kernel_stack EXCEPT ![o] = d]
       /\ preempted' = [preempted EXCEPT ![o] = pre]
       /\ onstack' = c /\ intr' = TRUE
       /\ UNCHANGED <<life, rsp0, current, fault>>
  BY <1>1, <1>2, <1>3, <1>5, <1>10 DEF SwitchTo, Saved, Inv, TypeOK
<1>12. /\ r \in Seq(Frame) /\ x \in Seq(Frame) /\ CallIsOutermost(x)
       /\ HasExec(x) <=> HasExec(frames[c])
       /\ NoCall(x) <=> NoCall(frames[c])
       /\ \A l, ks, on : Unpreempted(frames[c], l, ks, on) => Unpreempted(x, l, ks, on)
  <2>1. TopKind(frames[c]) = "ctx" /\ TopKind(r) \in {"sched", "ret"} /\ CallIsOutermost(frames[c])
    BY <1>2, <1>3, <1>9 DEF StackIsSound, Resumable
  <2>2. /\ r \in Seq(Frame) /\ CallIsOutermost(r) /\ (HasExec(r) <=> HasExec(frames[c]))
        /\ (NoCall(r) <=> NoCall(frames[c]))
        /\ \A l, ks, on : Unpreempted(frames[c], l, ks, on) => Unpreempted(r, l, ks, on)
    BY <1>2, <1>3, <2>1, PopLemma, PopKeeps
  <2>3. /\ x \in Seq(Frame) /\ CallIsOutermost(x) /\ (HasExec(x) <=> HasExec(r))
        /\ (NoCall(x) <=> NoCall(r))
        /\ \A l, ks, on : Unpreempted(r, l, ks, on) => Unpreempted(x, l, ks, on)
    BY <1>3, <2>1, <2>2, PopLemma, PopKeeps
  <2> QED BY <2>2, <2>3
<1>13. TypeOK'
  BY <1>2, <1>6, <1>7, <1>10, <1>11, <1>12 DEF Inv, TypeOK
<1>14. /\ frames'[o] = s /\ frames'[c] = x /\ kernel_stack'[o] = d /\ preempted'[o] = pre
       /\ kernel_stack'[c] = kernel_stack[c] /\ preempted'[c] = preempted[c]
       /\ \A u \in Tasks : u # o /\ u # c =>
             /\ frames'[u] = frames[u]
             /\ kernel_stack'[u] = kernel_stack[u] /\ preempted'[u] = preempted[u]
  BY <1>2, <1>11 DEF Inv, TypeOK
<1>15. SwitchIsSound'
  BY <1>1, <1>2, <1>11 DEF SwitchIsSound
<1>16. StackIsSound(frames'[o], life'[o], kernel_stack'[o], preempted'[o], FALSE)
  <2>1. CallIsOutermost(s) /\ (HasExec(s) <=> HasExec(frames[o])) /\ (NoCall(s) <=> NoCall(frames[o]))
    BY <1>2, <1>3, <1>4, <1>9, PushKeeps DEF StackIsSound
  <2>2. ASSUME life[o] \in {"kernel", "user"}, ~pre PROVE Unpreempted(s, life[o], d, FALSE)
    <3>1. ~preempted[o] /\ ~LosesStack(frames[o])
      BY <1>10, <2>2
    <3>2. ~NoCall(frames[o]) /\ ~HasExec(frames[o])
      BY <3>1 DEF LosesStack, NoCall, HasExec
    <3>3. Unpreempted(frames[o], life[o], kernel_stack[o], TRUE)
      BY <1>9, <2>2, <3>1 DEF StackIsSound
    <3>4. Unpreempted(s, life[o], kernel_stack[o], TRUE)
      BY <1>2, <1>3, <1>4, <3>3, PushKeeps
    <3> QED BY <2>1, <3>2, <3>4 DEF Unpreempted
  <2> QED BY <1>8, <1>11, <1>14, <2>1, <2>2 DEF StackIsSound
<1>17. StackIsSound(frames'[c], life'[c], kernel_stack'[c], preempted'[c], TRUE)
  <2>1. ASSUME ~preempted[c] PROVE Unpreempted(x, life[c], kernel_stack[c], TRUE)
    <3>1. Unpreempted(frames[c], life[c], kernel_stack[c], FALSE)
      BY <1>2, <1>9, <2>1 DEF StackIsSound
    <3>2. Unpreempted(x, life[c], kernel_stack[c], FALSE)
      BY <1>12, <3>1
    <3> QED BY <3>2 DEF Unpreempted
  <2> QED BY <1>2, <1>11, <1>12, <1>14, <2>1 DEF StackIsSound
<1>18. PICK C : C = {o, c}
  OBVIOUS
<1>19. (o = onstack') = FALSE /\ (c = onstack') = TRUE
  BY <1>2, <1>11
<1>20. \A u \in Tasks : u \in C =>
          StackIsSound(frames'[u], life'[u], kernel_stack'[u], preempted'[u], u = onstack')
  BY <1>16, <1>17, <1>18, <1>19
<1>21. \A u \in Tasks : u \notin C =>
          /\ frames'[u] = frames[u] /\ life'[u] = life[u]
          /\ kernel_stack'[u] = kernel_stack[u] /\ preempted'[u] = preempted[u]
          /\ u = onstack' <=> u = onstack
  BY <1>1, <1>11, <1>14, <1>18
<1> QED BY <1>13, <1>15, <1>20, <1>21, StepInv

\* start() before its first schedule().
LEMMA InitInv == ASSUME Init PROVE Inv
<1>1. Boot \in Tasks /\ KThreads \subseteq Tasks
  BY TasksAssumption DEF Tasks
<1>2. TypeOK
  <2>1. frames \in [Tasks -> Seq(Frame)]
    BY NewStacks, EmptyStack DEF Init
  <2>2. kernel_stack \in [Tasks -> Nat]
    BY <2>1, DepthLemma DEF Init
  <2> QED BY <1>1, <2>1, <2>2 DEF Init, TypeOK
<1>3. SwitchIsSound
  BY <1>1, TasksAssumption DEF Init, SwitchIsSound
<1>4. ASSUME NEW t \in Tasks PROVE TaskIsSound(t)
  <2>1. CASE t \in KThreads \ {Boot}
    <3>1. /\ frames[t] = NewThread /\ kernel_stack[t] = DepthOf(NewThread)
          /\ life[t] = "kernel" /\ onstack # t
      BY <1>1, <2>1 DEF Init
    <3> QED BY <3>1, NewStacks DEF TaskIsSound, StackIsSound, Unpreempted
  <2>2. CASE t \notin KThreads \ {Boot}
    <3>1. frames[t] = << >> /\ life[t] # "user" /\ life[t] # "zombie" /\ (life[t] = "none" \/ t = onstack)
      BY <2>2 DEF Init
    <3> QED BY <3>1, EmptyStack DEF TaskIsSound, StackIsSound, Unpreempted
  <2> QED BY <2>1, <2>2
<1> QED BY <1>2, <1>3, <1>4 DEF Inv

\* Every step keeps the invariant.
LEMMA NextInv == ASSUME Inv, [Next]_vars PROVE Inv'
<1>0. /\ intr \in BOOLEAN /\ "irq" \in {"irq", "trap", "sched"} /\ "sched" \in {"irq", "trap", "sched"}
      /\ TypeOK
  BY DEF Inv, TypeOK
<1>1. ASSUME NEW t \in Tasks, TickInUser(t) \/ PageFault(t) PROVE Inv'
  BY <1>0, <1>1, FromUserInv DEF TickInUser, PageFault
<1>2. ASSUME NEW t \in Tasks, TickInKernel(t) PROVE Inv'
  BY <1>0, <1>2, PushStep DEF TickInKernel
<1>3. ASSUME NEW t \in Tasks, PageFaultCli(t) PROVE Inv'
  <2>1. TypeOK'
    BY <1>0, <1>3 DEF PageFaultCli, TypeOK
  <2> QED BY <1>3, <2>1, QuietInv DEF PageFaultCli
<1>4. ASSUME NEW t \in Tasks, Iret(t) PROVE Inv'
  BY <1>4, PopStep DEF Iret, At
<1>5. ASSUME NEW t \in Tasks, SyscallEnter(t) \/ SyscallReturn(t) PROVE Inv'
  BY <1>5, SyscallEnterInv, SyscallReturnInv
<1>6. ASSUME NEW t \in Tasks, TickOnUserStack(t) PROVE Inv'
  <2>1. TypeOK'
    BY <1>0, <1>6 DEF TickOnUserStack, TypeOK
  <2> QED BY <1>6, <2>1, QuietInv DEF TickOnUserStack
<1>7. ASSUME NEW t \in Tasks, CallSchedule(t) PROVE Inv'
  BY <1>0, <1>7, PushStep DEF CallSchedule, InKernel, At
<1>8. ASSUME NEW t \in Tasks, ScheduleStay(t) PROVE Inv'
  BY <1>0, <1>8, PopStep DEF ScheduleStay, At
<1>9. ASSUME NEW t \in Tasks, NEW next \in Tasks, SchedulePicks(t, next) \/ KillNext(t, next)
      PROVE  Inv'
  BY <1>9, SchedulePicksInv, KillNextInv
<1>10. ASSUME NEW t \in Tasks, SpawnShell(t) \/ ExecStack(t) \/ RetToUser(t) PROVE Inv'
  BY <1>10, SpawnShellInv, ExecStackInv, RetToUserInv
<1>11. ASSUME NEW t \in Tasks, ExitSt(t) PROVE Inv'
  BY <1>11, DieInv DEF ExitSt, At, InKernel
<1>12. ASSUME NEW t \in Tasks, NEW u \in Tasks, Fork(t, u) \/ FreeProcess(t, u) PROVE Inv'
  BY <1>12, ForkInv, FreeProcessInv
<1>13. CASE TickInWindow
  <2>1. TypeOK'
    BY <1>0, <1>13 DEF TickInWindow, TypeOK
  <2> QED BY <1>13, <2>1, QuietInv DEF TickInWindow
<1>14. CASE SwitchTo
  BY <1>14, SwitchToInv
<1>15. CASE Halted \/ UNCHANGED vars
  <2>1. TypeOK'
    BY <1>0, <1>15 DEF Halted, vars, TypeOK
  <2> QED BY <1>15, <2>1, QuietInv DEF Halted, vars
<1> QED BY <1>1, <1>2, <1>3, <1>4, <1>5, <1>6, <1>7, <1>8, <1>9, <1>10, <1>11, <1>12,
           <1>13, <1>14, <1>15 DEF Next

(***************************************************************************)
(* Theorems                                                                *)
(***************************************************************************)
\* The inductive invariant holds in every reachable state of the kernel stacks.
THEOREM Invariance == Spec => []Inv
<1>1. Init => Inv
  BY InitInv
<1>2. Inv /\ [Next]_vars => Inv'
  BY NextInv
<1> QED BY <1>1, <1>2, PTL DEF Spec

\* Every variable of the context switch keeps its type: in particular the
\* return from a system call never takes more off the stack than is there.
THEOREM TypeCorrect == Spec => []TypeOK
<1>1. Inv => TypeOK
  BY DEF Inv
<1> QED BY <1>1, Invariance, PTL

\* Until a tick strikes in one of the windows of schedule() and
\* __syscall_handler, every task that does not run can be resumed by
\* __switch_to, however interrupts, faults, kills and switches were nested.
THEOREM SuspendedTasksResume == Spec => []SuspendedIsResumable
<1>1. Inv => SuspendedIsResumable
  <2> SUFFICES ASSUME Inv, NEW t \in Tasks \ {onstack}, life[t] # "none"
               PROVE  Resumable(frames[t], kernel_stack[t])
    BY DEF SuspendedIsResumable, Resumable
  <2>1. StackIsSound(frames[t], life[t], kernel_stack[t], preempted[t], t = onstack)
    BY DEF Inv, TaskIsSound
  <2>2. (t = onstack) = FALSE
    OBVIOUS
  <2> QED BY <2>1, <2>2 DEF StackIsSound
<1> QED BY <1>1, Invariance, PTL

\* User code enters the kernel on its own stack, and a program that has lost
\* the processor only inside system calls enters at the top of the page.
THEOREM SystemCallsGiveStackBack == Spec => []SyscallsGiveStackBack
<1>1. Inv => SyscallsGiveStackBack
  <2> SUFFICES ASSUME Inv, NEW t \in Tasks, Runs(t), InUser(t)
               PROVE  rsp0.of = t /\ (~preempted[t] => kernel_stack[t] = 0)
    BY DEF SyscallsGiveStackBack
  <2>1. life[t] = "user" /\ frames[t] = << >>
    BY DEF InUser
  <2>2. rsp0.of = t /\ (~preempted[t] => Unpreempted(frames[t], life[t], kernel_stack[t], TRUE))
    BY <2>1, RunningTask
  <2> QED BY <2>1, <2>2, EmptyStack
<1> QED BY <1>1, Invariance, PTL

=============================================================================
