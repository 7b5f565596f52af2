----------------------------- MODULE TaskLists -----------------------------
(***************************************************************************)
(* The singly linked task lists of sys/process.c as sequences of pids: the *)
(* first element is the one the head pointer refers to, and ->next is the  *)
(* following index.  Every list operation of the kernel is one operator.   *)
(***************************************************************************)
EXTENDS Naturals, Sequences, SequencesExt

\* Index of p in the list l, for a p that is on it.
Pos(l, p) == CHOOSE i \in 1..Len(l) : l[i] = p

\* find_process_by_pid(p, l) != NULL
On(l, p) == \E i \in 1..Len(l) : l[i] = p

\* add_to_tasklist: insertion at the head.
AddToTasklist(l, p) == <<p>> \o l

\* Mutant: only the head of the list is ever unlinked.
RemoveHeadOnly(l, p) == IF l # <<>> /\ Head(l) = p THEN Tail(l) ELSE l

(***************************************************************************)
(* remove_from_tasklist.  The C loop has no NULL test: for a task that is  *)
(* not on the list it follows ->next off the end.  RunsOff says when; the  *)
(* value of RemoveFromTasklist is then irrelevant (the kernel panics).     *)
(***************************************************************************)
RemoveFromTasklist(l, p) == IF On(l, p) THEN RemoveAt(l, Pos(l, p)) ELSE l
RunsOff(l, p) == ~On(l, p)

(***************************************************************************)
(* wakeup(list, NULL, 0) takes tasks off the head of l one by one and puts *)
(* each at the head of the active list a, so l arrives there reversed.     *)
(***************************************************************************)
WakeAllOnto(l, a) == Reverse(l) \o a

\* The task after p, or none at the end of the list (p->next == NULL).
NextOn(l, p, none) == IF On(l, p) /\ Pos(l, p) < Len(l) THEN l[Pos(l, p) + 1] ELSE none

\* No task is linked twice into the list l.
NoRepeats(l) == \A i, j \in 1..Len(l) : l[i] = l[j] => i = j

\* No task is linked into both lists.
Apart(l, m) == \A i \in 1..Len(l) : \A j \in 1..Len(m) : l[i] # m[j]
=============================================================================
