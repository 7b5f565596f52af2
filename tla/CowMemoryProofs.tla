-------------------------- MODULE CowMemoryProofs --------------------------
(***************************************************************************)
(* The invariants of CowMemory hold for every set of processes, every      *)
(* number of frames and every layout of a program.                         *)
(***************************************************************************)
EXTENDS CowMemory, FiniteSetTheorems, FunctionTheorems, TLAPS

(***************************************************************************)
(* Numbers and sets                                                        *)
(***************************************************************************)
\* A set of frames has a first one: what get_free_page looks for exists.
LEMMA FirstExists ==
    ASSUME NEW n \in Nat, NEW T, T \subseteq 1..n, T # {}
    PROVE  \E x \in T : \A y \in T : x <= y
<1> DEFINE W == {1..x : x \in T}
           R == StrictSubsetOrdering(1..n)
           S == FiniteSubsetsOf(1..n)
<1>1. IsWellFoundedOn(R, S)
  BY FS_StrictSubsetOrderingWellFounded
<1>2. W \subseteq S
  <2> SUFFICES ASSUME NEW x \in T PROVE 1..x \in S
    OBVIOUS
  <2>1. IsFiniteSet(1..x)
    BY FS_Interval
  <2>2. 1..x \subseteq 1..n
    OBVIOUS
  <2> QED BY <2>1, <2>2 DEF FiniteSubsetsOf
<1>3. W # {}
  OBVIOUS
<1> HIDE DEF R, S
<1>4. PICK w \in W : \A u \in W : ~(<<u, w>> \in R)
  <2> HIDE DEF W
  <2> QED BY <1>1, <1>2, <1>3, WFMin
<1>5. PICK x \in T : w = 1..x
  OBVIOUS
<1>6. ASSUME NEW y \in T, ~(x <= y) PROVE FALSE
  <2>1. 1..y \subseteq 1..x /\ 1..y # 1..x /\ 1..x \subseteq 1..n
    BY <1>6
  <2>2. <<1..y, 1..x>> \in R
    BY <2>1 DEF R, StrictSubsetOrdering
  <2> QED BY <1>4, <1>5, <2>2
<1> QED BY <1>6

\* Any set of entries, of tasks, or of pairs of a page and an area is finite.
LEMMA Finite ==
    /\ \A S \in SUBSET (Procs \X Pages) : IsFiniteSet(S) /\ Cardinality(S) \in Nat
    /\ \A S \in SUBSET Procs : IsFiniteSet(S) /\ Cardinality(S) \in Nat
<1>1. IsFiniteSet(Procs \X Pages)
  BY FS_Product, ProcsAssumption, SegmentsAssumption
<1> QED BY <1>1, FS_Subset, FS_CardinalityType, ProcsAssumption

\* A smaller set has no more elements.
LEMMA SmallerSet ==
    /\ \A S, T \in SUBSET (Procs \X Pages) : S \subseteq T => Cardinality(S) <= Cardinality(T)
    /\ \A S, T \in SUBSET Procs : S \subseteq T => Cardinality(S) <= Cardinality(T)
BY Finite, FS_Subset

\* get_free_page returns a frame without a reference whenever there is one.
LEMMA GetFreePageIsFree ==
    ASSUME Free # {}
    PROVE  GetFreePage \in Frames /\ ref[GetFreePage] = 0
<1>1. Free \subseteq 1..NFrames
  BY DEF Free, Frames
<1>2. \E f \in Free : \A g \in Free : f <= g
  BY <1>1, FirstExists, NFramesAssumption
<1> QED BY <1>2 DEF GetFreePage, Free

(***************************************************************************)
(* The inductive invariant                                                 *)
(***************************************************************************)
Exists(p) == status[p] \in {"alive", "zombie"}

\* An entry that is not there allows nothing.
AbsentIsEmpty ==
    \A p \in Procs, v \in Pages : ~Mapped(p, v) => pte[p][v] = NoPte

\* A page is mapped only inside an area, and writable, now or after a copy,
\* only inside a writable one: what copy_vma_deep relies on when it goes area
\* by area.
CoveredBy(p, v, w) == \E i \in Covering(p, v) : w => vmas[p][i].rw

MappedIsCovered ==
    \A p \in Procs, v \in Pages :
        Mapped(p, v) => CoveredBy(p, v, pte[p][v].rw \/ pte[p][v].cow)

\* A task that was never made has no page table.
UnbornIsEmpty ==
    \A p \in Procs : status[p] = "none" => \A v \in Pages : ~Mapped(p, v)

\* The frame of a task_struct is that of one task and of no page.
TaskIsPrivate ==
    \A p \in Procs : Exists(p) =>
        /\ task[p] \in Frames
        /\ Mappers(task[p]) = {} /\ Owners(task[p]) = {p}

Inv ==
    /\ TypeOK
    /\ AbsentIsEmpty /\ MappedIsCovered /\ UnbornIsEmpty
    /\ RefCoversUsers
    /\ WritableIsPrivate
    /\ TaskIsPrivate
    /\ TasksKeepTheirFrames

(***************************************************************************)
(* Facts every step uses                                                   *)
(***************************************************************************)
\* The users of a frame are finitely many entries and tasks, before and after
\* a step.
LEMMA UsersAreSets ==
    ASSUME NEW f
    PROVE  /\ Mappers(f) \subseteq Procs \X Pages /\ Mappers(f)' \subseteq Procs \X Pages
           /\ Owners(f) \subseteq Procs /\ Owners(f)' \subseteq Procs
           /\ Cardinality(Mappers(f)) \in Nat /\ Cardinality(Mappers(f)') \in Nat
           /\ Cardinality(Owners(f)) \in Nat /\ Cardinality(Owners(f)') \in Nat
<1>1. /\ Mappers(f) \subseteq Procs \X Pages /\ Mappers(f)' \subseteq Procs \X Pages
      /\ Owners(f) \subseteq Procs /\ Owners(f)' \subseteq Procs
  BY DEF Mappers, Owners
<1> QED BY <1>1, Finite

\* 0 is not the number of a frame, so an entry is mapped or it is not.
LEMMA NoFrameLemma ==
    /\ NoFrame \notin Frames
    /\ Inv => \A p \in Procs, v \in Pages :
                  /\ Mapped(p, v) <=> pte[p][v].frame \in Frames
                  /\ pte[p][v].rw \/ pte[p][v].cow => Mapped(p, v)
<1>1. NoFrame \notin Frames
  BY NFramesAssumption DEF NoFrame, Frames
<1> QED BY <1>1 DEF Inv, TypeOK, Pte, Mapped, AbsentIsEmpty, NoPte

\* What it means to be among the users.
LEMMA UsersLemma ==
    ASSUME NEW f, NEW p \in Procs, NEW v \in Pages
    PROVE  /\ <<p, v>> \in Mappers(f) <=> pte[p][v].frame = f
           /\ p \in Owners(f) <=> Exists(p) /\ task[p] = f
BY DEF Mappers, Owners, Exists

\* A frame without a reference is used by nobody (get_free_page hands out
\* such frames).
LEMMA FreeIsUnused ==
    ASSUME Inv, NEW f \in Frames, ref[f] = 0
    PROVE  Mappers(f) = {} /\ Owners(f) = {}
<1>1. Cardinality(Mappers(f)) = 0 /\ Cardinality(Owners(f)) = 0
  BY UsersAreSets DEF Inv, RefCoversUsers
<1>2. IsFiniteSet(Mappers(f)) /\ IsFiniteSet(Owners(f))
  BY UsersAreSets, Finite
<1> QED BY <1>1, <1>2, FS_EmptySet

\* Nobody's entries or task_struct can lie in the frame of a mapped page.
LEMMA MappedIsNoTask ==
    ASSUME Inv, NEW p \in Procs, NEW v \in Pages, Mapped(p, v), NEW q \in Procs, Exists(q)
    PROVE  task[q] # pte[p][v].frame
<1>1. <<p, v>> \in Mappers(pte[p][v].frame)
  BY DEF Mappers
<1> QED BY <1>1 DEF Inv, TaskIsPrivate

\* Storing into the frame of a mapped page (user code, copy_from_kernel) keeps
\* the invariant, read-only entry or not.
LEMMA StoreInv ==
    ASSUME Inv, NEW p \in Procs, NEW v \in Pages, Mapped(p, v), NEW d \in Contents,
           data' = [data EXCEPT ![pte[p][v].frame] = d],
           UNCHANGED <<ref, status, task, vmas, pte, panicked>>
    PROVE  Inv'
<1>1. TypeOK'
  BY DEF Inv, TypeOK
<1>2. TasksKeepTheirFrames'
  BY MappedIsNoTask DEF Inv, TypeOK, TasksKeepTheirFrames, Exists
<1>3. \A f : Mappers(f)' = Mappers(f) /\ Owners(f)' = Owners(f)
  BY DEF Mappers, Owners
<1>4. AbsentIsEmpty' /\ MappedIsCovered' /\ UnbornIsEmpty'
  BY DEF Inv, AbsentIsEmpty, MappedIsCovered, CoveredBy, Covering, UnbornIsEmpty, Mapped
<1>5. RefCoversUsers' /\ WritableIsPrivate' /\ TaskIsPrivate'
  BY <1>3 DEF Inv, RefCoversUsers, WritableIsPrivate, TaskIsPrivate, Exists
<1> QED BY <1>1, <1>2, <1>4, <1>5 DEF Inv

\* panic leaves everything as it is.
LEMMA PanicInv == ASSUME Inv, Panic PROVE Inv'
<1>1. \A f : Mappers(f)' = Mappers(f) /\ Owners(f)' = Owners(f)
  BY DEF Panic, Mappers, Owners
<1> QED BY <1>1, ZenonT(60) DEF Panic, Inv, TypeOK, AbsentIsEmpty, MappedIsCovered, CoveredBy, Covering,
       UnbornIsEmpty, RefCoversUsers, WritableIsPrivate, TaskIsPrivate, Exists, Mapped,
       TasksKeepTheirFrames

\* exit_st turns a live process into a zombie, which still owns its frame.
LEMMA ExitStInv ==
    ASSUME Inv, NEW p \in Procs, status[p] = "alive", ExitSt(p)
    PROVE  Inv'
<1>1. \A q \in Procs : /\ Exists(q)' <=> Exists(q)
                       /\ status'[q] = "none" <=> status[q] = "none"
  BY DEF Inv, TypeOK, ExitSt, Exists
<1>2. \A f : Mappers(f)' = Mappers(f) /\ Owners(f)' = Owners(f)
  BY <1>1 DEF ExitSt, Mappers, Owners, Exists
<1>3. TypeOK'
  BY DEF Inv, TypeOK, ExitSt
<1>4. AbsentIsEmpty' /\ MappedIsCovered' /\ UnbornIsEmpty'
  BY <1>1 DEF Inv, ExitSt, AbsentIsEmpty, MappedIsCovered, CoveredBy, Covering, UnbornIsEmpty, Mapped
<1>5. RefCoversUsers' /\ WritableIsPrivate'
  BY <1>2 DEF Inv, ExitSt, RefCoversUsers, WritableIsPrivate
<1>6. TaskIsPrivate' /\ TasksKeepTheirFrames'
  BY <1>1, <1>2 DEF Inv, ExitSt, TaskIsPrivate, TasksKeepTheirFrames, Exists
<1> QED BY <1>3, <1>4, <1>5, <1>6 DEF Inv

(***************************************************************************)
(* One step per operation                                                  *)
(***************************************************************************)
\* map_a_page puts a free frame under a page that was not there.
LEMMA InstallInv ==
    ASSUME Inv, NEW p \in Procs, NEW v \in Pages, ~Mapped(p, v), status[p] = "alive",
           NEW f \in Frames, ref[f] = 0, NEW rw \in BOOLEAN, NEW d \in Contents,
           CoveredBy(p, v, rw),
           Install(p, v, f, rw, d),
           UNCHANGED <<status, task, vmas, panicked>>
    PROVE  Inv'
<1> DEFINE new == [frame |-> f, rw |-> rw, cow |-> FALSE]
<1>0. Mappers(f) = {} /\ Owners(f) = {}
  BY FreeIsUnused
<1>1. /\ new \in Pte /\ new.frame = f /\ new.rw = rw /\ new.cow = FALSE
      /\ pte' \in [Procs -> [Pages -> Pte]]
      /\ \A q \in Procs, w \in Pages :
            pte'[q][w] = IF q = p /\ w = v THEN new ELSE pte[q][w]
  BY DEF Inv, TypeOK, Install, Pte
<1> HIDE DEF new
<1>2. TypeOK'
  BY <1>1 DEF Inv, TypeOK, Install
<1>3. \A g \in Frames : Mappers(g)' = IF g = f THEN {<<p, v>>} ELSE Mappers(g)
  <2> SUFFICES ASSUME NEW g \in Frames
               PROVE  Mappers(g)' = IF g = f THEN {<<p, v>>} ELSE Mappers(g)
    OBVIOUS
  <2>1. \A q \in Procs, w \in Pages :
           pte'[q][w].frame = g <=> IF q = p /\ w = v THEN g = f ELSE pte[q][w].frame = g
    BY <1>1
  <2>2. pte[p][v].frame # g /\ \A q \in Procs, w \in Pages : pte[q][w].frame # f
    <3>1. pte[p][v].frame # g
      BY NoFrameLemma DEF Mapped
    <3>2. ASSUME NEW q \in Procs, NEW w \in Pages PROVE pte[q][w].frame # f
      BY <1>0, UsersLemma
    <3> QED BY <3>1, <3>2
  <2> QED BY <2>1, <2>2 DEF Mappers
<1>4. \A g : Owners(g)' = Owners(g)
  BY DEF Owners
<1>5. AbsentIsEmpty'
  BY <1>1 DEF Inv, AbsentIsEmpty, Mapped, NoFrame, Frames
<1>6. MappedIsCovered'
  <2> SUFFICES ASSUME NEW q \in Procs, NEW w \in Pages, Mapped(q, w)'
               PROVE  CoveredBy(q, w, pte[q][w].rw \/ pte[q][w].cow)'
    BY DEF MappedIsCovered
  <2>1. CASE q = p /\ w = v
    BY <1>1, <2>1 DEF CoveredBy, Covering
  <2>2. CASE ~(q = p /\ w = v)
    BY <1>1, <2>2 DEF Inv, MappedIsCovered, Mapped, CoveredBy, Covering
  <2> QED BY <2>1, <2>2
<1>7. UnbornIsEmpty'
  BY <1>1 DEF Inv, UnbornIsEmpty, Mapped
<1>8. RefCoversUsers'
  <2> SUFFICES ASSUME NEW g \in Frames
               PROVE  ref'[g] >= Cardinality(Mappers(g)') + Cardinality(Owners(g)')
    BY DEF RefCoversUsers
  <2>1. CASE g = f
    <3>1. Cardinality(Mappers(g)') = 1 /\ Cardinality(Owners(g)') = 0
      BY <1>0, <1>3, <1>4, <2>1, FS_Singleton, FS_EmptySet
    <3>2. ref'[g] = 1
      BY <2>1 DEF Install, Inv, TypeOK
    <3> QED BY <3>1, <3>2
  <2>2. CASE g # f
    BY <1>3, <1>4, <2>2 DEF Install, Inv, TypeOK, RefCoversUsers
  <2> QED BY <2>1, <2>2
<1>9. WritableIsPrivate'
  <2> SUFFICES ASSUME NEW q \in Procs, NEW w \in Pages, pte'[q][w].rw
               PROVE  (/\ Mappers(pte[q][w].frame) = {<<q, w>>}
                       /\ Owners(pte[q][w].frame) = {})'
    BY DEF WritableIsPrivate
  <2>1. CASE q = p /\ w = v
    BY <1>0, <1>1, <1>3, <1>4, <2>1
  <2>2. CASE ~(q = p /\ w = v)
    <3>1. pte'[q][w] = pte[q][w]
      BY <1>1, <2>2
    <3>2. pte[q][w].frame \in Frames /\ pte[q][w].frame # f
      BY <1>0, <3>1, UsersLemma, NoFrameLemma
    <3> QED BY <1>3, <1>4, <3>1, <3>2 DEF Inv, WritableIsPrivate
  <2> QED BY <2>1, <2>2
<1>10. TaskIsPrivate' /\ TasksKeepTheirFrames'
  <2>1. \A q \in Procs : Exists(q) => task[q] \in Frames /\ task[q] # f
    BY <1>0 DEF Inv, TaskIsPrivate, Owners, Exists
  <2>2. TaskIsPrivate'
    BY <1>3, <1>4, <2>1 DEF Inv, TaskIsPrivate, Exists
  <2>3. TasksKeepTheirFrames'
    BY <2>1 DEF Inv, TypeOK, TasksKeepTheirFrames, Install, Exists
  <2> QED BY <2>2, <2>3
<1> QED BY <1>2, <1>5, <1>6, <1>7, <1>8, <1>9, <1>10 DEF Inv

\* search_vma finds an area that covers the page.
LEMMA SearchLemma ==
    ASSUME Inv, NEW p \in Procs, NEW v \in Pages, NEW i \in SearchVma(p, v)
    PROVE  vmas[p][i] \in Vma /\ i \in Covering(p, v) /\ CoveredBy(p, v, vmas[p][i].rw)
<1>1. i \in DOMAIN vmas[p] /\ v \in vmas[p][i].pages /\ vmas[p] \in Seq(Vma)
  BY DEF SearchVma, Inv, TypeOK
<1>2. vmas[p][i] \in Vma
  BY <1>1
<1> QED BY <1>1, <1>2 DEF Covering, CoveredBy

\* The copy loop of map_a_page leaves some content.
LEMMA LoadedLemma == ASSUME NEW vma, NEW v PROVE Loaded(vma, v) \in Contents
BY DEF Loaded, Contents, Values

\* map_a_page keeps the invariant.
LEMMA MapAPageInv ==
    ASSUME Inv, NEW p \in Procs, NEW v \in Pages, ~Mapped(p, v), status[p] = "alive",
           MapAPage(p, v)
    PROVE  Inv'
<1>1. CASE Panic
  BY <1>1, PanicInv
<1>2. ASSUME NEW i \in SearchVma(p, v), Free # {},
             Install(p, v, GetFreePage, vmas[p][i].rw, Loaded(vmas[p][i], v)),
             UNCHANGED <<status, task, vmas, panicked>>
      PROVE  Inv'
  <2>1. vmas[p][i].rw \in BOOLEAN /\ CoveredBy(p, v, vmas[p][i].rw)
    BY <1>2, SearchLemma DEF Vma
  <2> QED BY <1>2, <2>1, InstallInv, GetFreePageIsFree, LoadedLemma
<1> QED BY <1>1, <1>2 DEF MapAPage

\* A fault on an absent page keeps the invariant.
LEMMA FaultNotPresentInv ==
    ASSUME Inv, NEW p \in Procs, NEW v \in Pages, FaultNotPresent(p, v)
    PROVE  Inv'
BY MapAPageInv, ExitStInv DEF FaultNotPresent, Runs

\* copy_from_user keeps the invariant.
LEMMA CopyFromUserInv ==
    ASSUME Inv, NEW p \in Procs, NEW v \in Pages, CopyFromUser(p, v)
    PROVE  Inv'
BY MapAPageInv, PanicInv DEF CopyFromUser, Runs

\* A store of user code keeps the invariant.
LEMMA UserWriteInv ==
    ASSUME Inv, NEW p \in Procs, NEW v \in Pages, NEW d \in Writes, UserWrite(p, v, d)
    PROVE  Inv'
<1>1. Mapped(p, v) /\ d \in Contents
  BY NoFrameLemma DEF UserWrite, Contents, Values
<1> QED BY <1>1, StoreInv DEF UserWrite

\* copy_from_kernel keeps the invariant, also where it ignores a read-only
\* entry.
LEMMA CopyFromKernelInv ==
    ASSUME Inv, NEW p \in Procs, NEW v \in Pages, NEW d \in KernelWrites, CopyFromKernel(p, v, d)
    PROVE  Inv'
<1>0. d \in Contents
  BY DEF Contents, Values
<1>1. CASE Panic
  BY <1>1, PanicInv
<1>2. CASE /\ Mapped(p, v)
           /\ data' = [data EXCEPT ![pte[p][v].frame] = d]
           /\ UNCHANGED <<ref, status, task, vmas, pte, panicked>>
  BY <1>0, <1>2, StoreInv
<1>3. ASSUME NEW i \in SearchVma(p, v), ~Mapped(p, v), Free # {},
             Install(p, v, GetFreePage, vmas[p][i].rw, d),
             UNCHANGED <<status, task, vmas, panicked>>
      PROVE  Inv'
  <2>1. vmas[p][i].rw \in BOOLEAN /\ CoveredBy(p, v, vmas[p][i].rw)
    BY <1>3, SearchLemma DEF Vma
  <2>2. status[p] = "alive"
    BY DEF CopyFromKernel, Runs
  <2> QED BY <1>0, <1>3, <2>1, <2>2, InstallInv, GetFreePageIsFree
<1> QED BY <1>1, <1>2, <1>3 DEF CopyFromKernel

\* brk only adds an area: what was covered stays covered.
LEMMA BrkInv ==
    ASSUME Inv, NEW p \in Procs, NEW n \in 0..HeapMax, Brk(p, n)
    PROVE  Inv'
<1>1. CASE Panic
  BY <1>1, PanicInv
<1>2. CASE ~Panic
  <2> DEFINE area == [pages |-> 1..n, rw |-> TRUE, file |-> NoFile]
  <2>1. /\ vmas' = [vmas EXCEPT ![p] = Append(@, area)]
        /\ UNCHANGED <<ref, data, status, task, pte, panicked>>
    BY <1>2 DEF Brk
  <2>2. area \in Vma
    BY HeapMaxAssumption DEF Vma, Pages, Heap
  <2> HIDE DEF area
  <2>3. TypeOK'
    BY <2>1, <2>2 DEF Inv, TypeOK
  <2>4. \A q \in Procs : \A i \in DOMAIN vmas[q] :
           i \in DOMAIN vmas'[q] /\ vmas'[q][i] = vmas[q][i]
    BY <2>1, <2>2 DEF Inv, TypeOK
  <2>5. MappedIsCovered'
    BY <2>1, <2>4 DEF Inv, MappedIsCovered, CoveredBy, Covering, Mapped
  <2>6. \A f : Mappers(f)' = Mappers(f) /\ Owners(f)' = Owners(f)
    BY <2>1 DEF Mappers, Owners
  <2>7. AbsentIsEmpty' /\ UnbornIsEmpty'
    BY <2>1 DEF Inv, AbsentIsEmpty, UnbornIsEmpty, Mapped
  <2>8. RefCoversUsers' /\ WritableIsPrivate' /\ TaskIsPrivate' /\ TasksKeepTheirFrames'
    BY <2>1, <2>6 DEF Inv, RefCoversUsers, WritableIsPrivate, TaskIsPrivate, Exists,
       TasksKeepTheirFrames
  <2> QED BY <2>3, <2>5, <2>7, <2>8 DEF Inv
<1> QED BY <1>1, <1>2

\* exit keeps the invariant.
LEMMA ExitInv == ASSUME Inv, NEW p \in Procs, Exit(p) PROVE Inv'
BY ExitStInv DEF Exit, Runs

\* free_process gives back one reference and takes away one owner.
LEMMA FreeProcessInv ==
    ASSUME Inv, NEW p \in Procs, FreeProcess(p)
    PROVE  Inv'
<1> DEFINE t == task[p]
<1>1. t \in Frames /\ Mappers(t) = {} /\ Owners(t) = {p}
  BY DEF Inv, TaskIsPrivate, FreeProcess, Exists
<1>2. \A q \in Procs : /\ Exists(q)' <=> Exists(q) /\ q # p
                       /\ status'[q] = "none" <=> status[q] = "none"
  BY DEF Inv, TypeOK, FreeProcess, Exists
<1>3. \A f : Mappers(f)' = Mappers(f)
  BY DEF FreeProcess, Mappers
<1>4. \A f : Owners(f)' = Owners(f) \ {p}
  BY <1>2 DEF FreeProcess, Owners, Exists
<1>5. ref[t] >= 1
  <2>1. Cardinality(Mappers(t)) = 0 /\ Cardinality(Owners(t)) = 1
    BY <1>1, FS_Singleton, FS_EmptySet
  <2>2. ref[t] >= Cardinality(Mappers(t)) + Cardinality(Owners(t)) /\ ref[t] \in Nat
    BY <1>1 DEF Inv, TypeOK, RefCoversUsers
  <2> QED BY <2>1, <2>2
<1>6. TypeOK'
  BY <1>1, <1>5 DEF Inv, TypeOK, FreeProcess
<1>7. AbsentIsEmpty' /\ MappedIsCovered' /\ UnbornIsEmpty'
  BY <1>2 DEF Inv, FreeProcess, AbsentIsEmpty, MappedIsCovered, CoveredBy, Covering, UnbornIsEmpty,
     Mapped
<1>8. RefCoversUsers'
  <2> SUFFICES ASSUME NEW f \in Frames
               PROVE  ref'[f] >= Cardinality(Mappers(f)') + Cardinality(Owners(f)')
    BY DEF RefCoversUsers
  <2>1. CASE f = t
    <3>1. Mappers(f)' = {} /\ Owners(f)' = {}
      BY <1>1, <1>3, <1>4, <2>1
    <3> QED BY <1>5, <1>6, <3>1, FS_EmptySet DEF TypeOK
  <2>2. CASE f # t
    <3>1. ref'[f] = ref[f] /\ ref[f] \in Nat
      BY <2>2 DEF FreeProcess, Inv, TypeOK
    <3>2. Mappers(f)' = Mappers(f) /\ Cardinality(Owners(f)') <= Cardinality(Owners(f))
      BY <1>3, <1>4, UsersAreSets, SmallerSet
    <3> QED BY <3>1, <3>2, UsersAreSets DEF Inv, RefCoversUsers
  <2> QED BY <2>1, <2>2
<1>9. WritableIsPrivate'
  BY <1>3, <1>4 DEF Inv, WritableIsPrivate, FreeProcess
<1>10. TaskIsPrivate' /\ TasksKeepTheirFrames'
  BY <1>2, <1>3, <1>4 DEF Inv, TaskIsPrivate, TasksKeepTheirFrames, FreeProcess, Exists
<1> QED BY <1>6, <1>7, <1>8, <1>9, <1>10 DEF Inv

\* The copy of copy-on-write: the process moves to a frame of its own, and the
\* others keep the old one with one reference less.
LEMMA CopyInv ==
    ASSUME Inv, NEW p \in Procs, NEW v \in Pages, Mapped(p, v), pte[p][v].cow,
           NEW old, old = pte[p][v].frame, Shared(old),
           NEW f \in Frames, ref[f] = 0,
           ref' = [ref EXCEPT ![f] = 1, ![old] = @ - 1],
           data' = [data EXCEPT ![f] = data[old]],
           pte' = [pte EXCEPT ![p][v] = [frame |-> f, rw |-> TRUE, cow |-> FALSE]],
           UNCHANGED <<status, task, vmas, panicked>>
    PROVE  Inv'
<1> DEFINE new == [frame |-> f, rw |-> TRUE, cow |-> FALSE]
<1>0. /\ Mappers(f) = {} /\ Owners(f) = {}
      /\ old \in Frames /\ old # f /\ <<p, v>> \in Mappers(old)
  BY FreeIsUnused, NoFrameLemma, UsersLemma DEF Shared
<1>1. /\ new \in Pte /\ new.frame = f /\ new.rw /\ ~new.cow
      /\ pte' \in [Procs -> [Pages -> Pte]]
      /\ \A q \in Procs, w \in Pages :
            pte'[q][w] = IF q = p /\ w = v THEN new ELSE pte[q][w]
  BY DEF Inv, TypeOK, Pte
<1> HIDE DEF new
<1>2. /\ ref' \in [Frames -> Nat] /\ ref'[f] = 1 /\ ref'[old] = ref[old] - 1
      /\ \A g \in Frames : g # f /\ g # old => ref'[g] = ref[g]
  BY <1>0 DEF Inv, TypeOK, Shared
<1>3. TypeOK'
  BY <1>0, <1>1, <1>2 DEF Inv, TypeOK
<1>4. \A g \in Frames :
         Mappers(g)' = IF g = f THEN {<<p, v>>} ELSE Mappers(g) \ {<<p, v>>}
  <2> SUFFICES ASSUME NEW g \in Frames
               PROVE  Mappers(g)' = IF g = f THEN {<<p, v>>} ELSE Mappers(g) \ {<<p, v>>}
    OBVIOUS
  <2>1. \A q \in Procs, w \in Pages :
           pte'[q][w].frame = g <=> IF q = p /\ w = v THEN g = f ELSE pte[q][w].frame = g
    BY <1>1
  <2>2. ASSUME NEW q \in Procs, NEW w \in Pages PROVE pte[q][w].frame # f
    BY <1>0, UsersLemma, ZenonT(60)
  <2> QED BY <2>1, <2>2 DEF Mappers
<1>5. \A g : Owners(g)' = Owners(g)
  BY DEF Owners
<1>6. AbsentIsEmpty'
  BY <1>1, NoFrameLemma DEF Inv, AbsentIsEmpty, Mapped
<1>7. MappedIsCovered'
  <2> SUFFICES ASSUME NEW q \in Procs, NEW w \in Pages, Mapped(q, w)'
               PROVE  CoveredBy(q, w, pte[q][w].rw \/ pte[q][w].cow)'
    BY DEF MappedIsCovered
  <2>1. CASE q = p /\ w = v
    BY <1>1, <2>1 DEF Inv, MappedIsCovered, CoveredBy, Covering
  <2>2. CASE ~(q = p /\ w = v)
    BY <1>1, <2>2 DEF Inv, MappedIsCovered, Mapped, CoveredBy, Covering
  <2> QED BY <2>1, <2>2
<1>8. UnbornIsEmpty'
  BY <1>1 DEF Inv, UnbornIsEmpty, Mapped
<1>9. RefCoversUsers'
  <2> SUFFICES ASSUME NEW g \in Frames
               PROVE  ref'[g] >= Cardinality(Mappers(g)') + Cardinality(Owners(g)')
    BY DEF RefCoversUsers
  <2>0. ref[g] >= Cardinality(Mappers(g)) + Cardinality(Owners(g)) /\ ref[g] \in Nat
    BY DEF Inv, TypeOK, RefCoversUsers
  <2>1. CASE g = f
    <3>1. Cardinality(Mappers(g)') = 1 /\ Cardinality(Owners(g)') = 0
      BY <1>0, <1>4, <1>5, <2>1, FS_Singleton, FS_EmptySet
    <3> QED BY <1>2, <2>1, <3>1
  <2>2. CASE g = old
    <3>1. Cardinality(Mappers(g) \ {<<p, v>>}) = Cardinality(Mappers(g)) - 1
      BY <1>0, <2>2, UsersAreSets, Finite, FS_RemoveElement
    <3>2. Mappers(g)' = Mappers(g) \ {<<p, v>>} /\ Owners(g)' = Owners(g)
      BY <1>0, <1>4, <1>5, <2>2
    <3>3. /\ ref'[g] = ref[g] - 1
          /\ Cardinality(Mappers(g)') = Cardinality(Mappers(g)) - 1
          /\ Cardinality(Owners(g)') = Cardinality(Owners(g))
      BY <1>2, <2>2, <3>1, <3>2
    <3>4. Cardinality(Mappers(g)) \in Nat /\ Cardinality(Owners(g)) \in Nat
      BY UsersAreSets
    <3> QED BY <2>0, <3>3, <3>4
  <2>3. CASE g # f /\ g # old
    <3>1. Mappers(g)' = Mappers(g) \ {<<p, v>>} /\ Owners(g)' = Owners(g)
      BY <1>4, <1>5, <2>3
    <3>2. Cardinality(Mappers(g)') <= Cardinality(Mappers(g))
      BY <3>1, UsersAreSets, SmallerSet
    <3>3. ref'[g] = ref[g] /\ Cardinality(Owners(g)') = Cardinality(Owners(g))
      BY <1>2, <2>3, <3>1
    <3>4. /\ Cardinality(Mappers(g)) \in Nat /\ Cardinality(Owners(g)) \in Nat
          /\ Cardinality(Mappers(g)') \in Nat
      BY UsersAreSets
    <3> QED BY <2>0, <3>2, <3>3, <3>4
  <2> QED BY <2>1, <2>2, <2>3
<1>10. WritableIsPrivate'
  <2> SUFFICES ASSUME NEW q \in Procs, NEW w \in Pages, pte'[q][w].rw
               PROVE  (/\ Mappers(pte[q][w].frame) = {<<q, w>>}
                       /\ Owners(pte[q][w].frame) = {})'
    BY DEF WritableIsPrivate
  <2>1. CASE q = p /\ w = v
    BY <1>0, <1>1, <1>4, <1>5, <2>1
  <2>2. CASE ~(q = p /\ w = v)
    <3>1. pte'[q][w] = pte[q][w]
      BY <1>1, <2>2
    <3>2. pte[q][w].frame \in Frames /\ pte[q][w].frame # f
      BY <1>0, <3>1, UsersLemma, NoFrameLemma
    <3>3. {<<q, w>>} \ {<<p, v>>} = {<<q, w>>}
      BY <2>2
    <3> QED BY <1>4, <1>5, <3>1, <3>2, <3>3 DEF Inv, WritableIsPrivate
  <2> QED BY <2>1, <2>2
<1>11. TaskIsPrivate' /\ TasksKeepTheirFrames'
  <2>1. \A q \in Procs : Exists(q) => task[q] \in Frames /\ task[q] # f
    BY <1>0 DEF Inv, TaskIsPrivate, Owners, Exists
  <2>2. TaskIsPrivate'
    BY <1>4, <1>5, <2>1 DEF Inv, TaskIsPrivate, Exists
  <2>3. TasksKeepTheirFrames'
    BY <2>1 DEF Inv, TypeOK, TasksKeepTheirFrames, Exists
  <2> QED BY <2>2, <2>3
<1> QED BY <1>3, <1>6, <1>7, <1>8, <1>9, <1>10, <1>11 DEF Inv

\* The last process with a reference keeps the frame and may write it: no
\* entry and no task shares it with one reference left.
LEMMA KeepInv ==
    ASSUME Inv, NEW p \in Procs, NEW v \in Pages, Mapped(p, v), pte[p][v].cow,
           NEW old, old = pte[p][v].frame, ~Shared(old),
           pte' = [pte EXCEPT ![p][v] = [frame |-> old, rw |-> TRUE, cow |-> FALSE]],
           UNCHANGED <<ref, data, status, task, vmas, panicked>>
    PROVE  Inv'
<1> DEFINE new == [frame |-> old, rw |-> TRUE, cow |-> FALSE]
<1>0. old \in Frames /\ <<p, v>> \in Mappers(old) /\ ref[old] <= 1 /\ ref[old] \in Nat
  <2>1. old \in Frames /\ <<p, v>> \in Mappers(old)
    BY NoFrameLemma, UsersLemma
  <2> QED BY <2>1 DEF Shared, Inv, TypeOK
<1>1. /\ new \in Pte /\ new.frame = old /\ new.rw /\ ~new.cow
      /\ pte' \in [Procs -> [Pages -> Pte]]
      /\ \A q \in Procs, w \in Pages :
            pte'[q][w] = IF q = p /\ w = v THEN new ELSE pte[q][w]
  BY <1>0 DEF Inv, TypeOK, Pte
<1> HIDE DEF new
<1>2. TypeOK'
  BY <1>1 DEF Inv, TypeOK
<1>3. Mappers(old) = {<<p, v>>} /\ Owners(old) = {}
  <2>1. IsFiniteSet(Mappers(old)) /\ IsFiniteSet(Owners(old))
    BY UsersAreSets, Finite
  <2>2. Cardinality(Mappers(old)) # 0
    BY <1>0, <2>1, FS_EmptySet
  <2>3. Cardinality(Mappers(old)) = 1 /\ Cardinality(Owners(old)) = 0
    BY <1>0, <2>2, UsersAreSets DEF Inv, RefCoversUsers
  <2> QED BY <1>0, <2>1, <2>3, FS_Singleton, FS_EmptySet
<1>4. \A g : Mappers(g)' = Mappers(g) /\ Owners(g)' = Owners(g)
  <2>1. \A q \in Procs, w \in Pages : pte'[q][w].frame = pte[q][w].frame
    BY <1>1
  <2> QED BY <2>1 DEF Mappers, Owners
<1>5. AbsentIsEmpty' /\ UnbornIsEmpty'
  BY <1>1 DEF Inv, AbsentIsEmpty, UnbornIsEmpty, Mapped
<1>6. MappedIsCovered'
  <2> SUFFICES ASSUME NEW q \in Procs, NEW w \in Pages, Mapped(q, w)'
               PROVE  CoveredBy(q, w, pte[q][w].rw \/ pte[q][w].cow)'
    BY DEF MappedIsCovered
  <2>1. CASE q = p /\ w = v
    BY <1>1, <2>1 DEF Inv, MappedIsCovered, CoveredBy, Covering
  <2>2. CASE ~(q = p /\ w = v)
    BY <1>1, <2>2 DEF Inv, MappedIsCovered, Mapped, CoveredBy, Covering
  <2> QED BY <2>1, <2>2
<1>7. WritableIsPrivate'
  <2> SUFFICES ASSUME NEW q \in Procs, NEW w \in Pages, pte'[q][w].rw
               PROVE  (/\ Mappers(pte[q][w].frame) = {<<q, w>>}
                       /\ Owners(pte[q][w].frame) = {})'
    BY DEF WritableIsPrivate
  <2>1. CASE q = p /\ w = v
    BY <1>1, <1>3, <1>4, <2>1
  <2>2. CASE ~(q = p /\ w = v)
    <3>1. pte'[q][w] = pte[q][w]
      BY <1>1, <2>2
    <3> QED BY <1>4, <3>1 DEF Inv, WritableIsPrivate
  <2> QED BY <2>1, <2>2
<1>8. RefCoversUsers' /\ TaskIsPrivate' /\ TasksKeepTheirFrames'
  BY <1>4 DEF Inv, RefCoversUsers, TaskIsPrivate, TasksKeepTheirFrames, Exists
<1> QED BY <1>2, <1>5, <1>6, <1>7, <1>8 DEF Inv

\* A write to a read-only page keeps the invariant.
LEMMA FaultWriteInv ==
    ASSUME Inv, NEW p \in Procs, NEW v \in Pages, FaultWrite(p, v)
    PROVE  Inv'
<1>1. CASE Panic
  BY <1>1, PanicInv
<1>2. CASE ExitSt(p)
  BY <1>2, ExitStInv DEF FaultWrite, Runs
<1>3. CASE ~Panic /\ ~ExitSt(p)
  BY <1>3, CopyInv, KeepInv, GetFreePageIsFree DEF FaultWrite
<1> QED BY <1>1, <1>2, <1>3

\* copy_vma_deep adds a reference for every area that covers a mapped page, so
\* at least one for every entry the child gets.
LEMMA NewRefsLemma ==
    ASSUME Inv, NEW p \in Procs, NEW c \in Procs, NEW g \in Frames
    PROVE  LET A == {x \in Procs \X Pages : x[1] = c /\ pte[p][x[2]].frame = g}
           IN  NewRefs(p, g) \in Nat /\ Cardinality(A) \in Nat /\ Cardinality(A) <= NewRefs(p, g)
<1> DEFINE A == {x \in Procs \X Pages : x[1] = c /\ pte[p][x[2]].frame = g}
           B == {vi \in Pages \X DOMAIN vmas[p] :
                    pte[p][vi[1]].frame = g /\ vi[1] \in vmas[p][vi[2]].pages}
           F == [x \in A |-> <<x[2], CHOOSE i \in Covering(p, x[2]) : TRUE>>]
<1>1. IsFiniteSet(B)
  <2>1. DOMAIN vmas[p] = 1..Len(vmas[p]) /\ Len(vmas[p]) \in Nat
    BY DEF Inv, TypeOK
  <2>2. IsFiniteSet(1..Len(vmas[p]))
    BY <2>1, FS_Interval
  <2>3. IsFiniteSet(Pages \X DOMAIN vmas[p])
    BY <2>1, <2>2, FS_Product, SegmentsAssumption
  <2> QED BY <2>3, FS_Subset
<1>2. ASSUME NEW x \in A
      PROVE  /\ x[2] \in Pages /\ x = <<c, x[2]>>
             /\ (CHOOSE i \in Covering(p, x[2]) : TRUE) \in Covering(p, x[2])
  <2>1. x[2] \in Pages /\ x = <<c, x[2]>> /\ pte[p][x[2]].frame = g
    OBVIOUS
  <2>2. CoveredBy(p, x[2], pte[p][x[2]].rw \/ pte[p][x[2]].cow)
    BY <2>1, NoFrameLemma DEF Inv, MappedIsCovered
  <2> QED BY <2>1, <2>2 DEF CoveredBy
<1>3. F \in [A -> B]
  BY <1>2 DEF Covering
<1>4. \A x, y \in A : F[x] = F[y] => x = y
  BY <1>2
<1> HIDE DEF F
<1>5. F \in Injection(A, B)
  BY <1>3, <1>4, Fun_IsInj
<1>6. Cardinality(A) <= Cardinality(B)
  BY <1>1, <1>5, FS_Injection
<1>7. Cardinality(A) \in Nat /\ Cardinality(B) \in Nat
  BY <1>1, FS_CardinalityType, Finite
<1> QED BY <1>6, <1>7 DEF NewRefs

\* What fork writes into the two page tables allows no writing, and it keeps
\* the frames.
LEMMA SharedPteLemma ==
    ASSUME Inv, NEW p \in Procs, NEW v \in Pages
    PROVE  /\ SharedPte(p, v) \in Pte
           /\ SharedPte(p, v).frame = pte[p][v].frame
           /\ ~SharedPte(p, v).rw
           /\ ~Mapped(p, v) => SharedPte(p, v) = NoPte
           /\ Mapped(p, v) => CoveredBy(p, v, SharedPte(p, v).cow)
<1>1. pte[p][v] \in Pte
  BY DEF Inv, TypeOK
<1>2. CASE Mapped(p, v) /\ \E i \in Covering(p, v) : vmas[p][i].rw
  BY <1>1, <1>2 DEF SharedPte, Pte, CoveredBy
<1>3. CASE ~(Mapped(p, v) /\ \E i \in Covering(p, v) : vmas[p][i].rw)
  <2>1. SharedPte(p, v) = pte[p][v]
    BY <1>3 DEF SharedPte
  <2>2. Mapped(p, v) => ~pte[p][v].rw /\ ~pte[p][v].cow
    BY <1>3 DEF Inv, MappedIsCovered, CoveredBy
  <2>3. ~Mapped(p, v) => pte[p][v] = NoPte
    BY DEF Inv, AbsentIsEmpty
  <2>4. Mapped(p, v) => CoveredBy(p, v, pte[p][v].cow)
    BY DEF Inv, MappedIsCovered, CoveredBy
  <2> QED BY <1>1, <2>1, <2>2, <2>3, <2>4 DEF NoPte
<1> QED BY <1>2, <1>3

\* fork keeps the invariant: every shared frame has gained at least the
\* references that the child's entries need.
LEMMA ForkInv ==
    ASSUME Inv, NEW p \in Procs, Fork(p)
    PROVE  Inv'
<1>1. CASE Panic
  BY <1>1, PanicInv
<1>2. CASE ~Panic
  <2>0. PICK c, t : c = NextTask /\ t = GetFreePage
    OBVIOUS
  <2> DEFINE A(g) == {x \in Procs \X Pages : x[1] = c /\ pte[p][x[2]].frame = g}
  <2>1. /\ Free # {}
        /\ ref' = [f \in Frames |-> IF f = t THEN 1 ELSE ref[f] + NewRefs(p, f)]
        /\ data' = [data EXCEPT ![t] = c]
        /\ task' = [task EXCEPT ![c] = t]
        /\ status' = [status EXCEPT ![c] = "alive"]
        /\ vmas' = [vmas EXCEPT ![c] = vmas[p]]
        /\ pte' = [pte EXCEPT ![p] = [v \in Pages |-> SharedPte(p, v)],
                              ![c] = [v \in Pages |-> SharedPte(p, v)]]
        /\ UNCHANGED panicked
    BY <1>2, <2>0 DEF Fork
  <2>2. c \in Procs /\ status[c] = "none" /\ status[p] = "alive" /\ c # p
    BY <2>0 DEF Fork, Unborn, NextTask, Runs
  <2>3. t \in Frames /\ Mappers(t) = {} /\ Owners(t) = {}
    BY <2>0, <2>1, GetFreePageIsFree, FreeIsUnused
  <2>4. /\ pte' \in [Procs -> [Pages -> Pte]]
        /\ \A q \in Procs, w \in Pages :
              pte'[q][w] = IF q = p \/ q = c THEN SharedPte(p, w) ELSE pte[q][w]
    <3>1. [v \in Pages |-> SharedPte(p, v)] \in [Pages -> Pte]
      BY SharedPteLemma
    <3> QED BY <2>1, <2>2, <3>1 DEF Inv, TypeOK
  <2>5. ref' \in [Frames -> Nat]
    <3>1. \A f \in Frames : NewRefs(p, f) \in Nat
      BY <2>2, NewRefsLemma
    <3> QED BY <2>1, <3>1 DEF Inv, TypeOK
  <2>6. TypeOK'
    BY <2>1, <2>2, <2>3, <2>4, <2>5 DEF Inv, TypeOK, Contents
  <2>7. \A g \in Frames : Mappers(g)' = Mappers(g) \cup A(g) /\ Mappers(g) \cap A(g) = {}
    <3> SUFFICES ASSUME NEW g \in Frames
                 PROVE  Mappers(g)' = Mappers(g) \cup A(g) /\ Mappers(g) \cap A(g) = {}
      OBVIOUS
    <3>1. \A q \in Procs, w \in Pages :
             pte'[q][w].frame = IF q = p \/ q = c THEN pte[p][w].frame ELSE pte[q][w].frame
      BY <2>4, SharedPteLemma
    <3>2. \A w \in Pages : pte[c][w].frame # g
      BY <2>2, NoFrameLemma DEF Inv, UnbornIsEmpty, Mapped
    <3> QED BY <2>2, <3>1, <3>2 DEF Mappers
  <2>8. \A g \in Frames : Owners(g)' = IF g = t THEN {c} ELSE Owners(g)
    <3> SUFFICES ASSUME NEW g \in Frames
                 PROVE  Owners(g)' = IF g = t THEN {c} ELSE Owners(g)
      OBVIOUS
    <3>1. \A q \in Procs :
             /\ Exists(q)' <=> Exists(q) \/ q = c
             /\ task'[q] = IF q = c THEN t ELSE task[q]
      BY <2>1, <2>2 DEF Inv, TypeOK, Exists
    <3>2. \A q \in Procs : Exists(q) => q # c /\ task[q] # t
      BY <2>2, <2>3 DEF Exists, Owners
    <3> QED BY <2>2, <3>1, <3>2 DEF Owners, Exists
  <2>9. \A g \in Frames : (\A w \in Pages : <<p, w>> \notin Mappers(g)) => A(g) = {}
    BY DEF Mappers
  <2>10. AbsentIsEmpty'
    BY <2>4, SharedPteLemma DEF Inv, AbsentIsEmpty, Mapped
  <2>11. MappedIsCovered'
    <3> SUFFICES ASSUME NEW q \in Procs, NEW w \in Pages, Mapped(q, w)'
                 PROVE  CoveredBy(q, w, pte[q][w].rw \/ pte[q][w].cow)'
      BY DEF MappedIsCovered
    <3>1. CASE q = p \/ q = c
      <4>1. Mapped(p, w) /\ pte'[q][w] = SharedPte(p, w) /\ vmas'[q] = vmas[p]
        BY <2>1, <2>2, <2>4, <3>1, SharedPteLemma DEF Mapped, Inv, TypeOK
      <4> QED BY <4>1, SharedPteLemma DEF CoveredBy, Covering
    <3>2. CASE q # p /\ q # c
      <4>1. pte'[q][w] = pte[q][w] /\ vmas'[q] = vmas[q]
        BY <2>1, <2>2, <2>4, <3>2 DEF Inv, TypeOK
      <4> QED BY <4>1 DEF Inv, MappedIsCovered, CoveredBy, Covering, Mapped
    <3> QED BY <3>1, <3>2
  <2>12. UnbornIsEmpty'
    BY <2>1, <2>2, <2>4 DEF Inv, TypeOK, UnbornIsEmpty, Mapped
  <2>13. RefCoversUsers'
    <3> SUFFICES ASSUME NEW g \in Frames
                 PROVE  ref'[g] >= Cardinality(Mappers(g)') + Cardinality(Owners(g)')
      BY DEF RefCoversUsers
    <3>1. CASE g = t
      <4>1. A(g) = {}
        BY <2>3, <2>9, <3>1
      <4>2. Mappers(g)' = {} /\ Owners(g)' = {c}
        BY <2>3, <2>7, <2>8, <3>1, <4>1
      <4>3. Cardinality(Mappers(g)') = 0 /\ Cardinality(Owners(g)') = 1
        BY <4>2, FS_EmptySet, FS_Singleton
      <4> QED BY <2>1, <3>1, <4>3
    <3>2. CASE g # t
      <4>1. ref'[g] = ref[g] + NewRefs(p, g) /\ Owners(g)' = Owners(g)
        BY <2>1, <2>8, <3>2
      <4>2. /\ NewRefs(p, g) \in Nat /\ Cardinality(A(g)) \in Nat
            /\ Cardinality(A(g)) <= NewRefs(p, g)
        BY <2>2, NewRefsLemma
      <4>3. Cardinality(Mappers(g) \cup A(g)) = Cardinality(Mappers(g)) + Cardinality(A(g))
        <5>1. IsFiniteSet(Mappers(g)) /\ IsFiniteSet(A(g)) /\ Cardinality({}) = 0
          BY UsersAreSets, Finite, FS_EmptySet
        <5>2. Mappers(g) \cap A(g) = {}
          BY <2>7
        <5> HIDE DEF A
        <5>3. Cardinality(Mappers(g) \cup A(g))
                 = Cardinality(Mappers(g)) + Cardinality(A(g)) - Cardinality({})
          BY <5>1, <5>2, FS_Union
        <5> QED BY <4>2, <5>1, <5>3, UsersAreSets
      <4>4. /\ ref[g] >= Cardinality(Mappers(g)) + Cardinality(Owners(g)) /\ ref[g] \in Nat
            /\ Cardinality(Mappers(g)) \in Nat /\ Cardinality(Owners(g)) \in Nat
        BY UsersAreSets DEF Inv, TypeOK, RefCoversUsers
      <4>5. Cardinality(Mappers(g)') = Cardinality(Mappers(g)) + Cardinality(A(g))
        BY <2>7, <4>3
      <4> HIDE DEF A
      <4> QED BY <4>1, <4>2, <4>4, <4>5
    <3> QED BY <3>1, <3>2
  <2>14. WritableIsPrivate'
    <3> SUFFICES ASSUME NEW q \in Procs, NEW w \in Pages, pte'[q][w].rw
                 PROVE  (/\ Mappers(pte[q][w].frame) = {<<q, w>>}
                         /\ Owners(pte[q][w].frame) = {})'
      BY DEF WritableIsPrivate
    <3>1. q # p /\ q # c /\ pte'[q][w] = pte[q][w]
      BY <2>4, SharedPteLemma
    <3>0. PICK g : g = pte[q][w].frame
      OBVIOUS
    <3>2. g \in Frames /\ Mappers(g) = {<<q, w>>} /\ Owners(g) = {}
      BY <3>0, <3>1, NoFrameLemma DEF Inv, WritableIsPrivate
    <3>3. g # t
      BY <2>3, <3>2
    <3>4. A(g) = {}
      BY <2>9, <3>1, <3>2
    <3> HIDE DEF A
    <3>5. Mappers(g)' = {<<q, w>>} /\ Owners(g)' = {}
      BY <2>7, <2>8, <3>2, <3>3, <3>4
    <3> QED BY <3>0, <3>1, <3>5
  <2>15. TaskIsPrivate' /\ TasksKeepTheirFrames'
    <3> SUFFICES ASSUME NEW q \in Procs, Exists(q)'
                 PROVE  /\ (task[q] \in Frames /\ Mappers(task[q]) = {} /\ Owners(task[q]) = {q})'
                        /\ data'[task'[q]] = q
      BY DEF TaskIsPrivate, TasksKeepTheirFrames, Exists
    <3>1. CASE q = c
      <4>1. task'[q] = t /\ data'[t] = c
        BY <2>1, <2>2, <2>3, <3>1 DEF Inv, TypeOK
      <4>2. A(t) = {}
        BY <2>3, <2>9
      <4>3. Mappers(t)' = {} /\ Owners(t)' = {c}
        BY <2>3, <2>7, <2>8, <4>2
      <4> QED BY <2>3, <3>1, <4>1, <4>3
    <3>2. CASE q # c
      <4>0. PICK g : g = task[q]
        OBVIOUS
      <4>1. Exists(q) /\ task'[q] = g
        BY <2>1, <2>2, <3>2, <4>0 DEF Inv, TypeOK, Exists
      <4>2. g \in Frames /\ Mappers(g) = {} /\ Owners(g) = {q} /\ data[g] = q
        BY <4>0, <4>1 DEF Inv, TaskIsPrivate, TasksKeepTheirFrames, Exists
      <4>3. g # t /\ A(g) = {}
        BY <2>3, <2>9, <4>2
      <4>4. data'[g] = q
        BY <2>1, <4>2, <4>3 DEF Inv, TypeOK
      <4> HIDE DEF A
      <4>5. Mappers(g)' = {} /\ Owners(g)' = {q}
        BY <2>7, <2>8, <4>2, <4>3
      <4> QED BY <4>1, <4>2, <4>4, <4>5
    <3> QED BY <3>1, <3>2
  <2> QED BY <2>6, <2>10, <2>11, <2>12, <2>13, <2>14, <2>15 DEF Inv
<1> QED BY <1>1, <1>2

\* The areas and the page table that exec builds.
LEMMA ProgramLemma ==
    ASSUME NEW p \in Procs, NEW f \in Frames
    PROVE  /\ ArgPage \in Stack /\ ArgPage \in Pages
           /\ ProgramVmas(p) \in Seq(Vma) /\ DOMAIN ProgramVmas(p) = 1..3
           /\ ProgramVmas(p)[3].pages = Stack /\ ProgramVmas(p)[3].rw
           /\ ProgramPtes(ArgPage, f) \in [Pages -> Pte]
           /\ \A w \in Pages : ProgramPtes(ArgPage, f)[w] =
                 IF w = ArgPage THEN [frame |-> f, rw |-> TRUE, cow |-> FALSE] ELSE NoPte
<1>1. ArgPage \in Stack /\ ArgPage \in Pages
  BY SegmentsAssumption DEF ArgPage, Pages
<1>2. /\ [pages |-> Text, rw |-> FALSE, file |-> p] \in Vma
      /\ [pages |-> Data \cup Bss, rw |-> TRUE, file |-> p] \in Vma
      /\ [pages |-> Stack, rw |-> TRUE, file |-> NoFile] \in Vma
  BY DEF Vma, Pages
<1>3. /\ ProgramVmas(p) \in Seq(Vma) /\ DOMAIN ProgramVmas(p) = 1..3
      /\ ProgramVmas(p)[3].pages = Stack /\ ProgramVmas(p)[3].rw
  BY <1>2 DEF ProgramVmas
<1>4. NoPte \in Pte /\ [frame |-> f, rw |-> TRUE, cow |-> FALSE] \in Pte
  BY DEF NoPte, Pte, NoFrame
<1> QED BY <1>1, <1>3, <1>4 DEF ProgramPtes

\* The page of the arguments, and the area it lies in.
LEMMA ArgPageLemma == ArgPage \in Pages
BY SegmentsAssumption DEF ArgPage, Pages

LEMMA ProgramVmasLemma ==
    ASSUME NEW p \in Procs
    PROVE  /\ ProgramVmas(p) \in Seq(Vma)
           /\ 3 \in DOMAIN ProgramVmas(p)
           /\ ArgPage \in ProgramVmas(p)[3].pages
           /\ ProgramVmas(p)[3].rw
<1>1. /\ [pages |-> Text, rw |-> FALSE, file |-> p] \in Vma
      /\ [pages |-> Data \cup Bss, rw |-> TRUE, file |-> p] \in Vma
      /\ [pages |-> Stack, rw |-> TRUE, file |-> NoFile] \in Vma
  BY DEF Vma, Pages
<1>2. ArgPage \in Stack
  BY SegmentsAssumption DEF ArgPage
<1>3. /\ ProgramVmas(p) \in Seq(Vma) /\ DOMAIN ProgramVmas(p) = 1..3
      /\ ProgramVmas(p)[3].pages = Stack /\ ProgramVmas(p)[3].rw
  BY <1>1 DEF ProgramVmas
<1> QED BY <1>2, <1>3

\* exec drops the old address space, gives nothing back, and takes a free frame
\* for the arguments.
LEMMA ExecStepInv ==
    ASSUME Inv, NEW p \in Procs, status[p] = "alive", NEW f \in Frames, ref[f] = 0,
           NEW lost, lost \subseteq Frames, \A g \in lost : ref[g] = 0,
           ref' = [g \in Frames |-> IF g = f \/ g \in lost THEN 1 ELSE ref[g]],
           data' \in [Frames -> Contents],
           \A g \in Frames : g # f /\ g \notin lost => data'[g] = data[g],
           pte' = [pte EXCEPT ![p] = ProgramPtes(ArgPage, f)],
           vmas' = [vmas EXCEPT ![p] = ProgramVmas(p)],
           UNCHANGED <<status, task, panicked>>
    PROVE  Inv'
<1> DEFINE new == [frame |-> f, rw |-> TRUE, cow |-> FALSE]
<1>0. \A g \in lost \cup {f} : Mappers(g) = {} /\ Owners(g) = {}
  BY FreeIsUnused
<1>1. /\ new.frame = f /\ new.rw /\ ~new.cow
      /\ pte' \in [Procs -> [Pages -> Pte]]
      /\ \A q \in Procs, w \in Pages :
            pte'[q][w] = IF q # p THEN pte[q][w] ELSE IF w = ArgPage THEN new ELSE NoPte
  BY ProgramLemma DEF Inv, TypeOK
<1> HIDE DEF new
<1>2. TypeOK'
  <2>1. ref' \in [Frames -> Nat]
    BY DEF Inv, TypeOK
  <2> QED BY <1>1, <2>1, ProgramLemma DEF Inv, TypeOK
<1>3. \A g \in Frames :
         Mappers(g)' = IF g = f THEN {<<p, ArgPage>>} ELSE {x \in Mappers(g) : x[1] # p}
  <2> SUFFICES ASSUME NEW g \in Frames
               PROVE  Mappers(g)' = IF g = f THEN {<<p, ArgPage>>} ELSE {x \in Mappers(g) : x[1] # p}
    OBVIOUS
  <2>1. \A q \in Procs, w \in Pages :
           pte'[q][w].frame = g <=> IF q # p THEN pte[q][w].frame = g ELSE w = ArgPage /\ g = f
    BY <1>1, NoFrameLemma DEF NoPte
  <2>2. ASSUME NEW q \in Procs, NEW w \in Pages PROVE pte[q][w].frame # f
    BY <1>0, UsersLemma
  <2>3. ArgPage \in Pages
    BY ArgPageLemma
  <2>4. ASSUME g = f PROVE Mappers(g)' = {<<p, ArgPage>>}
    BY <2>1, <2>2, <2>3, <2>4 DEF Mappers
  <2>5. ASSUME g # f PROVE Mappers(g)' = {x \in Mappers(g) : x[1] # p}
    BY <2>1, <2>5 DEF Mappers
  <2> QED BY <2>4, <2>5
<1>4. \A g : Owners(g)' = Owners(g)
  BY DEF Owners
<1>5. AbsentIsEmpty'
  BY <1>1, NoFrameLemma DEF Inv, AbsentIsEmpty, Mapped
<1>6. MappedIsCovered'
  <2> SUFFICES ASSUME NEW q \in Procs, NEW w \in Pages, Mapped(q, w)'
               PROVE  CoveredBy(q, w, pte[q][w].rw \/ pte[q][w].cow)'
    BY DEF MappedIsCovered
  <2>1. CASE q = p
    <3>1. w = ArgPage /\ vmas'[q] = ProgramVmas(p)
      BY <1>1, <2>1 DEF Mapped, NoPte, NoFrame, Inv, TypeOK
    <3>2. 3 \in DOMAIN vmas'[q] /\ w \in vmas'[q][3].pages /\ vmas'[q][3].rw
      BY <3>1, ProgramVmasLemma
    <3> QED BY <3>2 DEF CoveredBy, Covering
  <2>2. CASE q # p
    <3>1. pte'[q][w] = pte[q][w] /\ vmas'[q] = vmas[q]
      BY <1>1, <2>2 DEF Inv, TypeOK
    <3> QED BY <3>1 DEF Inv, MappedIsCovered, Mapped, CoveredBy, Covering
  <2> QED BY <2>1, <2>2
<1>7. UnbornIsEmpty'
  BY <1>1 DEF Inv, UnbornIsEmpty, Mapped
<1>8. RefCoversUsers'
  <2> SUFFICES ASSUME NEW g \in Frames
               PROVE  ref'[g] >= Cardinality(Mappers(g)') + Cardinality(Owners(g)')
    BY DEF RefCoversUsers
  <2>1. CASE g = f
    <3>1. Cardinality(Mappers(g)') = 1 /\ Cardinality(Owners(g)') = 0
      BY <1>0, <1>3, <1>4, <2>1, FS_Singleton, FS_EmptySet
    <3> QED BY <2>1, <3>1
  <2>2. CASE g # f
    <3>1. Cardinality(Mappers(g)') <= Cardinality(Mappers(g)) /\ Owners(g)' = Owners(g)
      BY <1>3, <1>4, <2>2, UsersAreSets, SmallerSet
    <3>2. ref'[g] >= ref[g] /\ ref[g] \in Nat /\ ref'[g] \in Nat
      BY <2>2 DEF Inv, TypeOK
    <3>3. ref[g] >= Cardinality(Mappers(g)) + Cardinality(Owners(g))
      BY DEF Inv, RefCoversUsers
    <3>4. /\ Cardinality(Mappers(g)) \in Nat /\ Cardinality(Owners(g)) \in Nat
          /\ Cardinality(Mappers(g)') \in Nat
      BY UsersAreSets
    <3> QED BY <3>1, <3>2, <3>3, <3>4
  <2> QED BY <2>1, <2>2
<1>9. WritableIsPrivate'
  <2> SUFFICES ASSUME NEW q \in Procs, NEW w \in Pages, pte'[q][w].rw
               PROVE  (/\ Mappers(pte[q][w].frame) = {<<q, w>>}
                       /\ Owners(pte[q][w].frame) = {})'
    BY DEF WritableIsPrivate
  <2>1. CASE q = p
    <3>1. w = ArgPage /\ pte'[q][w].frame = f
      BY <1>1, <2>1 DEF NoPte
    <3> QED BY <1>0, <1>3, <1>4, <2>1, <3>1
  <2>2. CASE q # p
    <3>1. pte'[q][w] = pte[q][w]
      BY <1>1, <2>2
    <3>2. pte[q][w].frame \in Frames /\ pte[q][w].frame # f
      BY <1>0, <3>1, UsersLemma, NoFrameLemma, ZenonT(60)
    <3>3. {x \in {<<q, w>>} : x[1] # p} = {<<q, w>>}
      BY <2>2
    <3>4. Mappers(pte[q][w].frame) = {<<q, w>>} /\ Owners(pte[q][w].frame) = {}
      BY <3>1 DEF Inv, WritableIsPrivate
    <3> QED BY <1>3, <1>4, <3>1, <3>2, <3>3, <3>4
  <2> QED BY <2>1, <2>2
<1>10. TaskIsPrivate' /\ TasksKeepTheirFrames'
  <2>1. \A q \in Procs : Exists(q) => task[q] \in Frames /\ task[q] # f /\ task[q] \notin lost
    BY <1>0 DEF Inv, TaskIsPrivate, Owners, Exists
  <2>2. TaskIsPrivate'
    BY <1>3, <1>4, <2>1 DEF Inv, TaskIsPrivate, Exists
  <2>3. TasksKeepTheirFrames'
    BY <2>1 DEF Inv, TasksKeepTheirFrames, Exists
  <2> QED BY <2>2, <2>3
<1> QED BY <1>2, <1>5, <1>6, <1>7, <1>8, <1>9, <1>10 DEF Inv

\* What exec does when it does not panic; lost is the frame it maps in vain.
LEMMA ExecEffect ==
    ASSUME NEW p, NEW v, Exec(p, v), ~Panic, NEW lost, NEW f,
           lost = IF Mapped(p, v) \/ Free = {} THEN {} ELSE {GetFreePage},
           f = CHOOSE x \in Free \ lost : \A y \in Free \ lost : x <= y
    PROVE  Free \ lost # {} /\ NewProgram(p, v, lost, f)
BY DEF Exec

\* exec keeps the invariant.
LEMMA ExecInv ==
    ASSUME Inv, NEW p \in Procs, NEW v \in Pages, Exec(p, v)
    PROVE  Inv'
<1>1. CASE Panic
  BY <1>1, PanicInv
<1>2. CASE ~Panic
  <2>1. PICK lost : lost = IF Mapped(p, v) \/ Free = {} THEN {} ELSE {GetFreePage}
    OBVIOUS
  <2>2. PICK f : f = CHOOSE x \in Free \ lost : \A y \in Free \ lost : x <= y
    OBVIOUS
  <2>3. /\ Free \ lost # {}
        /\ ref' = [g \in Frames |-> IF g = f \/ g \in lost THEN 1 ELSE ref[g]]
        /\ data' = [g \in Frames |->
              IF g = f THEN "args"
              ELSE IF g \in lost THEN Loaded(vmas[p][CHOOSE i \in SearchVma(p, v) : TRUE], v)
              ELSE data[g]]
        /\ pte' = [pte EXCEPT ![p] = ProgramPtes(ArgPage, f)]
        /\ vmas' = [vmas EXCEPT ![p] = ProgramVmas(p)]
        /\ UNCHANGED <<status, task, panicked>>
    <3>1. Free \ lost # {} /\ NewProgram(p, v, lost, f)
      BY <1>2, <2>1, <2>2, ExecEffect
    <3> QED BY <3>1 DEF NewProgram
  <2>0. status[p] = "alive"
    BY DEF Exec, Runs
  <2>4. lost \subseteq Frames /\ \A g \in lost : ref[g] = 0
    BY <2>1, GetFreePageIsFree
  <2>5. f \in Frames /\ ref[f] = 0
    <3>1. Free \ lost \subseteq 1..NFrames
      BY DEF Free, Frames
    <3>2. \E x \in Free \ lost : \A y \in Free \ lost : x <= y
      BY <2>3, <3>1, FirstExists, NFramesAssumption
    <3>3. f \in Free
      BY <2>2, <3>2
    <3> QED BY <3>3 DEF Free
  <2>6. "args" \in Contents
    BY DEF Contents, Values
  <2>7. data' \in [Frames -> Contents]
    BY <2>3, <2>6, LoadedLemma DEF Inv, TypeOK
  <2>8. \A g \in Frames : g # f /\ g \notin lost => data'[g] = data[g]
    BY <2>3
  <2> QED BY <2>0, <2>3, <2>4, <2>5, <2>7, <2>8, ExecStepInv
<1> QED BY <1>1, <1>2

\* The first shell after its exec.
LEMMA InitInv == Init => Inv
<1> SUFFICES ASSUME Init PROVE Inv
  OBVIOUS
<1>1. Shell \in Procs /\ 1 \in Frames /\ 2 \in Frames
  BY ProcsAssumption, NFramesAssumption DEF Shell, Frames
<1>2. \A p \in Procs, v \in Pages :
         pte[p][v] = IF p = Shell /\ v = ArgPage THEN [frame |-> 2, rw |-> TRUE, cow |-> FALSE]
                     ELSE NoPte
  BY <1>1, ProgramLemma DEF Init
<1>3. TypeOK
  <2>1. pte \in [Procs -> [Pages -> Pte]]
    <3>1. NoPte \in Pte
      BY DEF NoPte, Pte, NoFrame
    <3> QED BY <1>1, <3>1, ProgramLemma DEF Init
  <2>2. vmas \in [Procs -> Seq(Vma)]
    <3>1. ProgramVmas(Shell) \in Seq(Vma)
      BY <1>1, ProgramVmasLemma
    <3>2. <<>> \in Seq(Vma)
      OBVIOUS
    <3>3. \A p \in Procs : vmas[p] = IF p = Shell THEN ProgramVmas(Shell) ELSE <<>>
      BY DEF Init
    <3>4. vmas = [p \in Procs |-> IF p = Shell THEN ProgramVmas(p) ELSE <<>>]
      BY DEF Init
    <3> HIDE DEF Vma
    <3> QED BY <3>1, <3>2, <3>3, <3>4
  <2>3. data \in [Frames -> Contents]
    BY <1>1 DEF Init, Contents, Values
  <2>4. task \in [Procs -> Frames \cup {NoFrame}] /\ ref \in [Frames -> Nat]
    BY <1>1 DEF Init
  <2> QED BY <2>1, <2>2, <2>3, <2>4 DEF TypeOK, Init
<1>4. \A g \in Frames : Mappers(g) = IF g = 2 THEN {<<Shell, ArgPage>>} ELSE {}
  <2> SUFFICES ASSUME NEW g \in Frames
               PROVE  Mappers(g) = IF g = 2 THEN {<<Shell, ArgPage>>} ELSE {}
    OBVIOUS
  <2>1. \A q \in Procs, w \in Pages :
           pte[q][w].frame = g <=> q = Shell /\ w = ArgPage /\ g = 2
    BY <1>2, NoFrameLemma DEF NoPte
  <2>2. ArgPage \in Pages
    BY ArgPageLemma
  <2> QED BY <1>1, <2>1, <2>2 DEF Mappers
<1>5. \A g \in Frames : Owners(g) = IF g = 1 THEN {Shell} ELSE {}
  BY <1>1 DEF Init, Owners
<1>6. AbsentIsEmpty /\ UnbornIsEmpty
  BY <1>2 DEF Init, AbsentIsEmpty, UnbornIsEmpty, Mapped, NoPte, NoFrame
<1>7. MappedIsCovered
  <2> SUFFICES ASSUME NEW q \in Procs, NEW w \in Pages, Mapped(q, w)
               PROVE  CoveredBy(q, w, pte[q][w].rw \/ pte[q][w].cow)
    BY DEF MappedIsCovered
  <2>1. q = Shell /\ w = ArgPage /\ vmas[q] = ProgramVmas(Shell)
    BY <1>1, <1>2 DEF Mapped, NoPte, NoFrame, Init
  <2>2. 3 \in DOMAIN vmas[q] /\ w \in vmas[q][3].pages /\ vmas[q][3].rw
    BY <1>1, <2>1, ProgramVmasLemma
  <2> QED BY <2>2 DEF CoveredBy, Covering
<1>8. RefCoversUsers
  <2> SUFFICES ASSUME NEW g \in Frames
               PROVE  ref[g] >= Cardinality(Mappers(g)) + Cardinality(Owners(g))
    BY DEF RefCoversUsers
  <2>1. /\ Cardinality(Mappers(g)) = IF g = 2 THEN 1 ELSE 0
        /\ Cardinality(Owners(g)) = IF g = 1 THEN 1 ELSE 0
    BY <1>4, <1>5, FS_Singleton, FS_EmptySet
  <2>2. ref[g] = IF g <= 2 THEN 1 ELSE 0
    BY DEF Init
  <2> QED BY <2>1, <2>2
<1>9. WritableIsPrivate
  BY <1>1, <1>2, <1>4, <1>5 DEF WritableIsPrivate, NoPte
<1>10. TaskIsPrivate /\ TasksKeepTheirFrames
  BY <1>1, <1>4, <1>5 DEF Init, TaskIsPrivate, TasksKeepTheirFrames, Exists
<1> QED BY <1>3, <1>6, <1>7, <1>8, <1>9, <1>10 DEF Inv

\* Every step keeps the invariant.
LEMMA NextInv == Inv /\ [Next]_vars => Inv'
<1> SUFFICES ASSUME Inv, [Next]_vars PROVE Inv'
  OBVIOUS
<1>1. CASE UNCHANGED vars
  <2>1. \A f : Mappers(f)' = Mappers(f) /\ Owners(f)' = Owners(f)
    BY <1>1 DEF vars, Mappers, Owners
  <2>2. TypeOK' /\ AbsentIsEmpty' /\ MappedIsCovered' /\ UnbornIsEmpty'
    BY <1>1 DEF vars, Inv, TypeOK, AbsentIsEmpty, MappedIsCovered, CoveredBy, Covering,
       UnbornIsEmpty, Mapped
  <2>3. RefCoversUsers' /\ WritableIsPrivate' /\ TaskIsPrivate' /\ TasksKeepTheirFrames'
    BY <1>1, <2>1 DEF vars, Inv, RefCoversUsers, WritableIsPrivate, TaskIsPrivate,
       TasksKeepTheirFrames, Exists
  <2> QED BY <2>2, <2>3 DEF Inv
<1>2. ASSUME NEW p \in Procs, NEW v \in Pages,
             \/ FaultNotPresent(p, v) \/ FaultWrite(p, v) \/ CopyFromUser(p, v) \/ Exec(p, v)
             \/ \E d \in Writes : UserWrite(p, v, d)
             \/ \E d \in KernelWrites : CopyFromKernel(p, v, d)
      PROVE  Inv'
  BY <1>2, FaultNotPresentInv, FaultWriteInv, CopyFromUserInv, ExecInv, UserWriteInv,
     CopyFromKernelInv
<1>3. ASSUME NEW p \in Procs, NEW n \in 0..HeapMax, Brk(p, n) PROVE Inv'
  BY <1>3, BrkInv
<1>4. ASSUME NEW p \in Procs, Fork(p) \/ Exit(p) \/ FreeProcess(p) PROVE Inv'
  BY <1>4, ForkInv, ExitInv, FreeProcessInv
<1> QED BY <1>1, <1>2, <1>3, <1>4 DEF Next

(***************************************************************************)
(* Theorems                                                                *)
(***************************************************************************)
\* The inductive invariant holds in every reachable state,
\* whatever programs and kernel do.
THEOREM Invariance == Spec => []Inv
<1>1. Init => Inv
  BY InitInv
<1>2. Inv /\ [Next]_vars => Inv'
  BY NextInv
<1> QED BY <1>1, <1>2, PTL DEF Spec

\* Every variable of the memory manager keeps its type; in particular no
\* reference count goes below zero.
THEOREM TypeCorrect == Spec => []TypeOK
<1>1. Inv => TypeOK
  BY DEF Inv
<1> QED BY <1>1, Invariance, PTL

\* page_array never undercounts: fork, copy-on-write, exec and free_process
\* together leave every frame at least the references its users need.
THEOREM PageArrayNeverUndercounts == Spec => []RefCoversUsers
<1>1. Inv => RefCoversUsers
  BY DEF Inv
<1> QED BY <1>1, Invariance, PTL

\* Copy-on-write never leaves a frame writable that somebody else uses.
THEOREM WritableFramesArePrivate == Spec => []WritableIsPrivate
<1>1. Inv => WritableIsPrivate
  BY DEF Inv
<1> QED BY <1>1, Invariance, PTL

\* No task_struct of a process that is alive or a zombie is ever overwritten
\* by a page or by a store into one.
THEOREM TaskStructsSurvive == Spec => []TasksKeepTheirFrames
<1>1. Inv => TasksKeepTheirFrames
  BY DEF Inv
<1> QED BY <1>1, Invariance, PTL

(***************************************************************************)
(* CowMemory implements PrivateMemory                                      *)
(***************************************************************************)
\* As long as it runs, a process has the area of its stack.
StackIsThere ==
    \A p \in Procs : status[p] = "alive" => SearchVma(p, ArgPage) # {}

\* A task that was made; it may have been freed since.
Born(p) == status[p] # "none"

FilePages == Text \cup Data \cup Bss

\* A writable area has no page of the text, and only pages of the program are
\* read from its file.
Sound(area) ==
    /\ area.rw => area.pages \cap Text = {}
    /\ area.file # NoFile => area.pages \subseteq FilePages

\* vm_file points into the task_struct of a task that was made.
AreasAreSound ==
    \A p \in Procs : \A i \in DOMAIN vmas[p] :
        /\ Sound(vmas[p][i])
        /\ vmas[p][i].file # NoFile => Born(vmas[p][i].file)

RInv == StackIsThere /\ AreasAreSound

\* search_vma on a list of areas.
FirstIn(s, v) ==
    {i \in DOMAIN s : v \in s[i].pages /\ \A j \in 1..(i - 1) : v \notin s[j].pages}

LEMMA SearchIsFirst ==
    ASSUME NEW p, NEW v
    PROVE  SearchVma(p, v) = FirstIn(vmas[p], v) /\ SearchVma(p, v)' = FirstIn(vmas'[p], v)
BY DEF SearchVma, FirstIn

\* Areas that stay as they are cover the same pages first.
LEMMA SameAreas ==
    ASSUME NEW p, NEW q, NEW v, vmas'[p] = vmas[q]
    PROVE  SearchVma(p, v)' = SearchVma(q, v)
BY DEF SearchVma

\* What a new area at the end of the list covers.
LEMMA AppendedArea ==
    ASSUME NEW s \in Seq(Vma), NEW new \in Vma, NEW v
    PROVE  FirstIn(Append(s, new), v) =
              IF FirstIn(s, v) = {} /\ v \in new.pages THEN {Len(s) + 1} ELSE FirstIn(s, v)
<1>1. PICK r, k : r = Append(s, new) /\ k = Len(s)
  OBVIOUS
<1>2. /\ DOMAIN r = 1..(k + 1) /\ DOMAIN s = 1..k /\ k \in Nat
      /\ \A i \in 1..k : r[i] = s[i]
      /\ r[k + 1] = new
  BY <1>1
<1> DEFINE C == {i \in 1..k : v \in s[i].pages}
<1>3. C # {} => FirstIn(s, v) # {}
  <2> SUFFICES ASSUME C # {} PROVE FirstIn(s, v) # {}
    OBVIOUS
  <2>1. PICK x \in C : \A y \in C : x <= y
    <3>1. C \subseteq 1..k
      OBVIOUS
    <3> HIDE DEF C
    <3> QED BY <1>2, <3>1, FirstExists
  <2>2. x \in FirstIn(s, v)
    BY <1>2, <2>1 DEF FirstIn
  <2> QED BY <2>2
<1>4. FirstIn(s, v) = {} <=> C = {}
  BY <1>2, <1>3 DEF FirstIn
<1>5. /\ \A i \in 1..(k + 1) : i = k + 1 \/ i \in 1..k
      /\ \A i \in 1..((k + 1) - 1) : i \in 1..k
      /\ \A i \in 1..k : i \in 1..((k + 1) - 1)
      /\ \A i \in 1..k : \A j \in 1..(i - 1) : j \in 1..k
      /\ \A i \in 1..k : i \in 1..(k + 1)
      /\ k + 1 \in 1..(k + 1) /\ k + 1 \notin 1..k
  BY <1>2
<1>6. FirstIn(r, v) \subseteq 1..(k + 1) /\ FirstIn(s, v) \subseteq 1..k
  BY <1>2 DEF FirstIn
<1>7. \A i \in 1..k : i \in FirstIn(r, v) <=> i \in FirstIn(s, v)
  BY <1>2, <1>5 DEF FirstIn
<1>8. k + 1 \in FirstIn(r, v) <=> C = {} /\ v \in new.pages
  BY <1>2, <1>5 DEF FirstIn
<1>9. FirstIn(r, v) = IF FirstIn(s, v) = {} /\ v \in new.pages THEN {k + 1} ELSE FirstIn(s, v)
  <2>1. \A i : i \in FirstIn(r, v) <=>
                  (i \in FirstIn(s, v) \/ (i = k + 1 /\ C = {} /\ v \in new.pages))
    BY <1>5, <1>6, <1>7, <1>8
  <2> HIDE DEF C
  <2>2. CASE C = {} /\ v \in new.pages
    <3>1. FirstIn(r, v) = {k + 1}
      BY <1>4, <2>1, <2>2
    <3> QED BY <1>4, <2>2, <3>1
  <2>3. CASE ~(C = {} /\ v \in new.pages)
    <3>1. FirstIn(r, v) = FirstIn(s, v)
      BY <2>1, <2>3
    <3> QED BY <1>4, <2>3, <3>1
  <2> QED BY <2>2, <2>3
<1> QED BY <1>1, <1>9

\* The areas of the program, page by page.
LEMMA ProgramSearch ==
    ASSUME NEW p \in Procs
    PROVE  /\ \A v \in Text : FirstIn(ProgramVmas(p), v) = {1}
           /\ \A v \in Data \cup Bss : FirstIn(ProgramVmas(p), v) = {2}
           /\ \A v \in Stack : FirstIn(ProgramVmas(p), v) = {3}
           /\ \A v \in Heap : FirstIn(ProgramVmas(p), v) = {}
<1>1. PICK s : s = ProgramVmas(p)
  OBVIOUS
<1>2. /\ DOMAIN s = 1..3 /\ s[1].pages = Text
      /\ s[2].pages = Data \cup Bss /\ s[3].pages = Stack
  BY <1>1 DEF ProgramVmas
<1>3. \A v : FirstIn(s, v) = {i \in {1, 2, 3} :
                /\ v \in s[i].pages
                /\ i > 1 => v \notin s[1].pages
                /\ i > 2 => v \notin s[2].pages}
  <2>1. 1..3 = {1, 2, 3} /\ 1..0 = {} /\ 1..1 = {1} /\ 1..2 = {1, 2}
    OBVIOUS
  <2>2. \A v, i : i \in {1, 2, 3} => ((\A j \in 1..(i - 1) : v \notin s[j].pages) <=>
                /\ i > 1 => v \notin s[1].pages
                /\ i > 2 => v \notin s[2].pages)
    BY <2>1
  <2> QED BY <1>2, <2>1, <2>2 DEF FirstIn
<1>4. /\ \A v \in Text : FirstIn(s, v) = {1}
      /\ \A v \in Data \cup Bss : FirstIn(s, v) = {2}
      /\ \A v \in Stack : FirstIn(s, v) = {3}
      /\ \A v \in Heap : FirstIn(s, v) = {}
  BY <1>2, <1>3, SegmentsAssumption
<1> QED BY <1>1, <1>4

\* What a program is given are sound areas.
LEMMA ProgramIsSound ==
    ASSUME NEW p \in Procs, NEW i \in DOMAIN ProgramVmas(p)
    PROVE  /\ Sound(ProgramVmas(p)[i])
           /\ ProgramVmas(p)[i].file \in {NoFile, p}
<1>1. PICK s : s = ProgramVmas(p)
  OBVIOUS
<1>2. /\ DOMAIN s = 1..3
      /\ s[1] = [pages |-> Text, rw |-> FALSE, file |-> p]
      /\ s[2] = [pages |-> Data \cup Bss, rw |-> TRUE, file |-> p]
      /\ s[3] = [pages |-> Stack, rw |-> TRUE, file |-> NoFile]
  BY <1>1 DEF ProgramVmas
<1>3. i = 1 \/ i = 2 \/ i = 3
  BY <1>1, <1>2
<1>4. /\ Sound(s[i])
      /\ s[i].file \in {NoFile, p}
  BY <1>2, <1>3, SegmentsAssumption DEF Sound, FilePages
<1> QED BY <1>1, <1>4

\* A step that leaves the areas alone and unmakes no task.
LEMMA AreasKept ==
    ASSUME RInv, vmas' = vmas,
           \A q \in Procs : /\ Born(q) => Born(q)'
                            /\ status'[q] = "alive" => status[q] = "alive",
           TypeOK
    PROVE  RInv'
<1>1. StackIsThere'
  <2> SUFFICES ASSUME NEW q \in Procs, status'[q] = "alive" PROVE SearchVma(q, ArgPage)' # {}
    BY DEF StackIsThere
  <2>1. SearchVma(q, ArgPage) # {}
    BY DEF RInv, StackIsThere
  <2>2. SearchVma(q, ArgPage)' = SearchVma(q, ArgPage)
    BY DEF SearchVma
  <2> QED BY <2>1, <2>2
<1>2. AreasAreSound'
  <2> SUFFICES ASSUME NEW q \in Procs, NEW i \in DOMAIN vmas[q]
               PROVE  (/\ Sound(vmas[q][i])
                       /\ vmas[q][i].file # NoFile => Born(vmas[q][i].file))'
    BY DEF AreasAreSound
  <2>1. /\ Sound(vmas[q][i])
        /\ vmas[q][i].file # NoFile => Born(vmas[q][i].file)
    BY DEF RInv, AreasAreSound
  <2>2. vmas[q][i] \in Vma
    BY DEF TypeOK
  <2>3. vmas[q][i].file \in Procs \cup {NoFile}
    BY <2>2 DEF Vma
  <2> QED BY <2>1, <2>3
<1> QED BY <1>1, <1>2 DEF RInv

\* The step that gives a process the areas of its program.
LEMMA AreasOfProgram ==
    ASSUME Inv, RInv, NEW p \in Procs, status[p] = "alive", UNCHANGED status,
           vmas' = [vmas EXCEPT ![p] = ProgramVmas(p)]
    PROVE  RInv'
<1>0. /\ vmas'[p] = ProgramVmas(p) /\ \A q \in Procs \ {p} : vmas'[q] = vmas[q]
      /\ \A q : Born(q)' <=> Born(q)
  BY DEF Inv, TypeOK, Born
<1>1. StackIsThere'
  <2> SUFFICES ASSUME NEW q \in Procs, status'[q] = "alive" PROVE SearchVma(q, ArgPage)' # {}
    BY DEF StackIsThere
  <2>1. CASE q = p
    <3>1. ArgPage \in Stack
      BY SegmentsAssumption DEF ArgPage
    <3>2. FirstIn(ProgramVmas(p), ArgPage) = {3}
      BY <3>1, ProgramSearch
    <3>3. SearchVma(q, ArgPage)' = FirstIn(vmas'[q], ArgPage)
      BY SearchIsFirst
    <3> QED BY <1>0, <2>1, <3>2, <3>3
  <2>2. CASE q # p
    <3>1. SearchVma(q, ArgPage)' = SearchVma(q, ArgPage)
      BY <1>0, <2>2 DEF SearchVma
    <3> QED BY <3>1 DEF RInv, StackIsThere
  <2> QED BY <2>1, <2>2
<1>2. AreasAreSound'
  <2> SUFFICES ASSUME NEW q \in Procs, NEW i \in DOMAIN vmas'[q]
               PROVE  /\ Sound(vmas'[q][i])
                      /\ vmas'[q][i].file # NoFile => Born(vmas'[q][i].file)
    BY <1>0 DEF AreasAreSound
  <2>1. CASE q = p
    <3>1. /\ Sound(vmas'[q][i])
          /\ vmas'[q][i].file \in {NoFile, p}
      BY <1>0, <2>1, ProgramIsSound
    <3>2. Born(p)
      BY DEF Born
    <3> QED BY <3>1, <3>2
  <2>2. CASE q # p
    BY <1>0, <2>2 DEF RInv, AreasAreSound
  <2> QED BY <2>1, <2>2
<1> QED BY <1>1, <1>2 DEF RInv

\* fork: the child has the areas of its father.
LEMMA AreasOfChild ==
    ASSUME Inv, RInv, NEW p \in Procs, status[p] = "alive", NEW c \in Procs, c # p,
           status' = [status EXCEPT ![c] = "alive"],
           vmas' = [vmas EXCEPT ![c] = vmas[p]]
    PROVE  RInv'
<1>0. /\ \A q \in Procs : vmas'[q] = vmas[IF q = c THEN p ELSE q]
      /\ \A q \in Procs : status'[q] = IF q = c THEN "alive" ELSE status[q]
  BY DEF Inv, TypeOK
<1>1. \A q \in Procs : Born(q) => Born(q)'
  BY <1>0 DEF Born
<1>2. StackIsThere'
  <2> SUFFICES ASSUME NEW q \in Procs, status'[q] = "alive" PROVE SearchVma(q, ArgPage)' # {}
    BY DEF StackIsThere
  <2>1. PICK r \in Procs : r = IF q = c THEN p ELSE q
    OBVIOUS
  <2>2. vmas'[q] = vmas[r] /\ status[r] = "alive"
    BY <1>0, <2>1
  <2>3. SearchVma(q, ArgPage)' = SearchVma(r, ArgPage)
    BY <2>2, SameAreas
  <2> QED BY <2>2, <2>3 DEF RInv, StackIsThere
<1>3. AreasAreSound'
  <2> SUFFICES ASSUME NEW q \in Procs, NEW i \in DOMAIN vmas'[q]
               PROVE  (/\ Sound(vmas[q][i])
                       /\ vmas[q][i].file # NoFile => Born(vmas[q][i].file))'
    BY DEF AreasAreSound
  <2>1. PICK r \in Procs : r = IF q = c THEN p ELSE q
    OBVIOUS
  <2>2. vmas'[q] = vmas[r]
    BY <1>0, <2>1
  <2>3. vmas[r][i] \in Vma
    BY <2>2 DEF Inv, TypeOK
  <2>4. vmas[r][i].file \in Procs \cup {NoFile}
    BY <2>3 DEF Vma
  <2>5. /\ Sound(vmas[r][i])
        /\ vmas[r][i].file # NoFile => Born(vmas[r][i].file)
    BY <2>2 DEF RInv, AreasAreSound
  <2> QED BY <1>1, <2>2, <2>4, <2>5
<1> QED BY <1>2, <1>3 DEF RInv

\* brk: the new area is heap.
LEMMA AreasOfHeap ==
    ASSUME Inv, RInv, NEW p \in Procs, NEW n \in 1..HeapMax, UNCHANGED status,
           vmas' = [vmas EXCEPT ![p] =
                       Append(@, [pages |-> 1..n, rw |-> TRUE, file |-> NoFile])]
    PROVE  RInv'
<1>0. PICK new : new = [pages |-> 1..n, rw |-> TRUE, file |-> NoFile]
  OBVIOUS
<1>1. PICK k : k = Len(vmas[p])
  OBVIOUS
<1>2. /\ DOMAIN vmas'[p] = 1..(k + 1)
      /\ DOMAIN vmas[p] = 1..k /\ k \in Nat
      /\ \A i \in DOMAIN vmas[p] : vmas'[p][i] = vmas[p][i]
      /\ vmas'[p][k + 1] = new
      /\ \A q \in Procs \ {p} : vmas'[q] = vmas[q]
      /\ \A v : SearchVma(p, v) # {} => SearchVma(p, v)' = SearchVma(p, v)
  <2>1. vmas'[p] = Append(vmas[p], new) /\ \A q \in Procs \ {p} : vmas'[q] = vmas[q]
    BY <1>0 DEF Inv, TypeOK
  <2>2. new \in Vma /\ vmas[p] \in Seq(Vma)
    <3>1. 1..n \subseteq Pages
      BY HeapMaxAssumption DEF Pages, Heap
    <3> QED BY <1>0, <3>1 DEF Vma, Inv, TypeOK
  <2>3. \A v : SearchVma(p, v) # {} => SearchVma(p, v)' = SearchVma(p, v)
    <3> SUFFICES ASSUME NEW v, SearchVma(p, v) # {} PROVE SearchVma(p, v)' = SearchVma(p, v)
      OBVIOUS
    <3>1. SearchVma(p, v) = FirstIn(vmas[p], v) /\ SearchVma(p, v)' = FirstIn(vmas'[p], v)
      BY SearchIsFirst
    <3>2. FirstIn(Append(vmas[p], new), v) =
              IF FirstIn(vmas[p], v) = {} /\ v \in new.pages
              THEN {Len(vmas[p]) + 1} ELSE FirstIn(vmas[p], v)
      BY <2>2, AppendedArea
    <3> QED BY <2>1, <3>1, <3>2
  <2>4. /\ DOMAIN vmas'[p] = 1..(k + 1)
        /\ DOMAIN vmas[p] = 1..k /\ k \in Nat
        /\ \A i \in DOMAIN vmas[p] : vmas'[p][i] = vmas[p][i]
        /\ vmas'[p][k + 1] = new
    BY <1>1, <2>1, <2>2
  <2> QED BY <2>1, <2>3, <2>4
<1>3. Sound(new) /\ new.file = NoFile
  BY <1>0, SegmentsAssumption, HeapMaxAssumption DEF Heap, Sound
<1>4. \A q : Born(q)' <=> Born(q)
  BY DEF Born
<1>5. StackIsThere'
  <2> SUFFICES ASSUME NEW q \in Procs, status'[q] = "alive" PROVE SearchVma(q, ArgPage)' # {}
    BY DEF StackIsThere
  <2>1. SearchVma(q, ArgPage) # {}
    BY DEF RInv, StackIsThere
  <2>2. q # p => SearchVma(q, ArgPage)' = SearchVma(q, ArgPage)
    BY <1>2 DEF SearchVma
  <2> QED BY <1>2, <2>1, <2>2, ArgPageLemma
<1>6. AreasAreSound'
  <2> SUFFICES ASSUME NEW q \in Procs, NEW i \in DOMAIN vmas'[q]
               PROVE  /\ Sound(vmas'[q][i])
                      /\ vmas'[q][i].file # NoFile => Born(vmas'[q][i].file)
    BY <1>4 DEF AreasAreSound
  <2>1. CASE q = p /\ i = k + 1
    BY <1>2, <1>3, <2>1
  <2>2. CASE q # p \/ i # k + 1
    <3>1. i \in DOMAIN vmas[q] /\ vmas'[q][i] = vmas[q][i]
      BY <1>2, <2>2
    <3> QED BY <3>1 DEF RInv, AreasAreSound
  <2> QED BY <2>1, <2>2
<1> QED BY <1>5, <1>6 DEF RInv

\* No step takes away what the areas rely on.
LEMMA RInvNext ==
    ASSUME Inv, RInv, [Next]_vars
    PROVE  RInv'
<1>0. TypeOK
  BY DEF Inv
<1>1. CASE vmas' = vmas /\ status' = status
  BY <1>0, <1>1, AreasKept DEF Born
<1>2. ASSUME NEW p \in Procs, status[p] = "alive", ExitSt(p) PROVE RInv'
  <2>1. /\ vmas' = vmas
        /\ \A q \in Procs : status'[q] = IF q = p THEN "zombie" ELSE status[q]
    BY <1>0, <1>2 DEF ExitSt, TypeOK
  <2> QED BY <1>0, <1>2, <2>1, AreasKept DEF Born
<1>3. ASSUME NEW p \in Procs, NEW v \in Pages,
             \/ FaultNotPresent(p, v) \/ FaultWrite(p, v) \/ CopyFromUser(p, v)
             \/ \E d \in Writes : UserWrite(p, v, d)
             \/ \E d \in KernelWrites : CopyFromKernel(p, v, d)
      PROVE  RInv'
  BY <1>1, <1>2, <1>3 DEF FaultNotPresent, FaultWrite, CopyFromUser, UserWrite, CopyFromKernel,
     MapAPage, Panic, Runs
<1>4. ASSUME NEW p \in Procs, NEW v \in Pages, Exec(p, v) PROVE RInv'
  <2>1. CASE Panic
    BY <1>1, <2>1 DEF Panic
  <2>2. CASE ~Panic
    <3>1. /\ status[p] = "alive" /\ UNCHANGED status
          /\ vmas' = [vmas EXCEPT ![p] = ProgramVmas(p)]
      BY <1>4, <2>2 DEF Exec, NewProgram, Runs
    <3> QED BY <3>1, AreasOfProgram
  <2> QED BY <2>1, <2>2
<1>5. ASSUME NEW p \in Procs, NEW n \in 0..HeapMax, Brk(p, n) PROVE RInv'
  <2>1. CASE Panic
    BY <1>1, <2>1 DEF Panic
  <2>2. CASE ~Panic
    <3>1. /\ n \in 1..HeapMax /\ UNCHANGED status
          /\ vmas' = [vmas EXCEPT ![p] =
                        Append(@, [pages |-> 1..n, rw |-> TRUE, file |-> NoFile])]
      BY <1>5, <2>2, HeapMaxAssumption DEF Brk
    <3> QED BY <3>1, AreasOfHeap
  <2> QED BY <2>1, <2>2
<1>6. ASSUME NEW p \in Procs, Fork(p) PROVE RInv'
  <2>1. CASE Panic
    BY <1>1, <2>1 DEF Panic
  <2>2. CASE ~Panic
    <3>1. PICK c : c = NextTask
      OBVIOUS
    <3>2. /\ status[p] = "alive" /\ Unborn # {}
          /\ status' = [status EXCEPT ![c] = "alive"]
          /\ vmas' = [vmas EXCEPT ![c] = vmas[p]]
      BY <1>6, <2>2, <3>1 DEF Fork, Runs
    <3>3. c \in Procs /\ status[c] = "none"
      BY <3>1, <3>2 DEF NextTask, Unborn
    <3> QED BY <3>2, <3>3, AreasOfChild
  <2> QED BY <2>1, <2>2
<1>7. ASSUME NEW p \in Procs, Exit(p) PROVE RInv'
  BY <1>2, <1>7 DEF Exit, Runs
<1>9. ASSUME NEW p \in Procs, FreeProcess(p) PROVE RInv'
  <2>1. /\ vmas' = vmas /\ status[p] = "zombie"
        /\ \A q \in Procs : status'[q] = IF q = p THEN "freed" ELSE status[q]
    BY <1>0, <1>9 DEF FreeProcess, TypeOK
  <2> QED BY <1>0, <2>1, AreasKept DEF Born
<1>8. CASE UNCHANGED vars
  BY <1>1, <1>8 DEF vars
<1> QED BY <1>3, <1>4, <1>5, <1>6, <1>7, <1>8, <1>9 DEF Next

LEMMA InitRInv == ASSUME Init PROVE RInv
<1>1. Shell \in Procs
  BY ProcsAssumption DEF Shell
<1>2. /\ vmas[Shell] = ProgramVmas(Shell) /\ status[Shell] = "alive"
      /\ \A p \in Procs \ {Shell} : vmas[p] = <<>> /\ status[p] = "none"
  BY <1>1 DEF Init
<1>3. StackIsThere
  <2>1. ArgPage \in Stack
    BY SegmentsAssumption DEF ArgPage
  <2>2. FirstIn(ProgramVmas(Shell), ArgPage) = {3}
    BY <1>1, <2>1, ProgramSearch
  <2>3. SearchVma(Shell, ArgPage) = FirstIn(vmas[Shell], ArgPage)
    BY SearchIsFirst
  <2> QED BY <1>2, <2>2, <2>3 DEF StackIsThere
<1>4. AreasAreSound
  <2> SUFFICES ASSUME NEW p \in Procs, NEW i \in DOMAIN vmas[p]
               PROVE  /\ Sound(vmas[p][i])
                      /\ vmas[p][i].file # NoFile => Born(vmas[p][i].file)
    BY DEF AreasAreSound
  <2>1. p = Shell
    BY <1>2
  <2>2. /\ Sound(vmas[p][i])
        /\ vmas[p][i].file \in {NoFile, p}
    BY <1>1, <1>2, <2>1, ProgramIsSound
  <2>3. Born(p)
    BY <1>2, <2>1 DEF Born
  <2> QED BY <2>2, <2>3
<1> QED BY <1>3, <1>4 DEF RInv

(***************************************************************************)
(* A frame that is shared is the same page of all who share it             *)
(***************************************************************************)
OnePlace ==
    \A q, r \in Procs, v, w \in Pages :
        Mapped(q, v) /\ pte[q][v].frame = pte[r][w].frame => v = w

\* Every entry after the step is absent, has the frame of the same page of some
\* process, or is page u with a frame that nobody had.
Placed(q, w, f, u) ==
    \/ pte'[q][w].frame = NoFrame
    \/ \E r \in Procs : pte'[q][w].frame = pte[r][w].frame
    \/ pte'[q][w].frame = f /\ w = u

Unmapped(f) == \A q \in Procs, w \in Pages : pte[q][w].frame # f

LEMMA PlaceStep ==
    ASSUME OnePlace, NEW f, NEW u,
           Unmapped(f), \A q \in Procs, w \in Pages : Placed(q, w, f, u)
    PROVE  OnePlace'
<1> SUFFICES ASSUME NEW q \in Procs, NEW r \in Procs, NEW v \in Pages, NEW w \in Pages,
                    pte'[q][v].frame # NoFrame, pte'[q][v].frame = pte'[r][w].frame
             PROVE  v = w
  BY DEF OnePlace, Mapped
<1>1. PICK g : g = pte'[q][v].frame
  OBVIOUS
<1>2. /\ (\E x \in Procs : g = pte[x][v].frame) \/ (g = f /\ v = u)
      /\ (\E x \in Procs : g = pte[x][w].frame) \/ (g = f /\ w = u)
  <2>1. Placed(q, v, f, u) /\ Placed(r, w, f, u)
    OBVIOUS
  <2> QED BY <1>1, <2>1 DEF Placed
<1>3. CASE g = f
  BY <1>2, <1>3 DEF Unmapped
<1>4. CASE g # f
  BY <1>1, <1>2, <1>4 DEF OnePlace, Mapped
<1> QED BY <1>3, <1>4

\* A step that gives no entry another frame.
LEMMA PlaceKept ==
    ASSUME OnePlace, \A q \in Procs, w \in Pages : pte'[q][w].frame = pte[q][w].frame
    PROVE  OnePlace'
BY DEF OnePlace, Mapped

LEMMA PlaceInstall ==
    ASSUME Inv, OnePlace, NEW p \in Procs, NEW v \in Pages, Free # {}, NEW x,
           pte' = [pte EXCEPT ![p][v] = x], x.frame = GetFreePage
    PROVE  OnePlace'
<1>1. PICK f \in Frames : f = GetFreePage /\ ref[f] = 0
  BY GetFreePageIsFree
<1>2. Unmapped(f)
  BY <1>1, FreeIsUnused, UsersLemma DEF Unmapped
<1>3. \A q \in Procs, w \in Pages : pte'[q][w] = IF q = p /\ w = v THEN x ELSE pte[q][w]
  BY DEF Inv, TypeOK
<1>4. ASSUME NEW q \in Procs, NEW w \in Pages
      PROVE  Placed(q, w, f, v)
  BY <1>1, <1>3 DEF Placed
<1> QED BY <1>2, <1>4, PlaceStep

LEMMA PlaceMap ==
    ASSUME Inv, OnePlace, NEW p \in Procs, NEW v \in Pages, MapAPage(p, v) PROVE OnePlace'
<1>1. CASE Panic
  BY <1>1, PlaceKept DEF Panic
<1>2. CASE ~Panic
  <2>1. PICK rw : /\ Free # {}
                  /\ pte' = [pte EXCEPT ![p][v] = [frame |-> GetFreePage, rw |-> rw, cow |-> FALSE]]
    BY <1>2 DEF MapAPage, Install
  <2>2. PICK x : x = [frame |-> GetFreePage, rw |-> rw, cow |-> FALSE]
    OBVIOUS
  <2>3. x.frame = GetFreePage
    BY <2>2
  <2> QED BY <2>1, <2>2, <2>3, PlaceInstall
<1> QED BY <1>1, <1>2

LEMMA PlaceNext == ASSUME Inv, OnePlace, [Next]_vars PROVE OnePlace'
<1>1. CASE UNCHANGED pte
  BY <1>1, PlaceKept
<1>2. ASSUME NEW p \in Procs, NEW v \in Pages, FaultNotPresent(p, v) \/ CopyFromUser(p, v)
      PROVE  OnePlace'
  BY <1>1, <1>2, PlaceMap DEF FaultNotPresent, CopyFromUser, ExitSt, Panic
<1>3. ASSUME NEW p \in Procs, NEW v \in Pages, FaultWrite(p, v) PROVE OnePlace'
  <2>1. CASE UNCHANGED pte
    BY <1>1, <2>1
  <2>2. CASE pte' = [pte EXCEPT ![p][v] = [frame |-> pte[p][v].frame, rw |-> TRUE, cow |-> FALSE]]
    <3>1. \A q \in Procs, w \in Pages : pte'[q][w].frame = pte[q][w].frame
      BY <2>2 DEF Inv, TypeOK
    <3> QED BY <3>1, PlaceKept
  <2>3. CASE /\ Free # {}
             /\ pte' = [pte EXCEPT ![p][v] = [frame |-> GetFreePage, rw |-> TRUE, cow |-> FALSE]]
    <3>1. PICK x : x = [frame |-> GetFreePage, rw |-> TRUE, cow |-> FALSE]
      OBVIOUS
    <3>2. x.frame = GetFreePage
      BY <3>1
    <3> QED BY <2>3, <3>1, <3>2, PlaceInstall
  <2> QED BY <1>3, <2>1, <2>2, <2>3 DEF FaultWrite, ExitSt, Panic
<1>4. ASSUME NEW p \in Procs, NEW v \in Pages, NEW d, UserWrite(p, v, d) PROVE OnePlace'
  BY <1>1, <1>4 DEF UserWrite
<1>5. ASSUME NEW p \in Procs, NEW v \in Pages, NEW d, CopyFromKernel(p, v, d) PROVE OnePlace'
  <2>1. CASE UNCHANGED pte
    BY <1>1, <2>1
  <2>2. CASE ~UNCHANGED pte
    <3>1. PICK rw : /\ Free # {}
                    /\ pte' = [pte EXCEPT ![p][v] = [frame |-> GetFreePage, rw |-> rw, cow |-> FALSE]]
      BY <1>5, <2>2 DEF CopyFromKernel, Install, Panic
    <3>2. PICK x : x = [frame |-> GetFreePage, rw |-> rw, cow |-> FALSE]
      OBVIOUS
    <3>3. x.frame = GetFreePage
      BY <3>2
    <3> QED BY <3>1, <3>2, <3>3, PlaceInstall
  <2> QED BY <2>1, <2>2
<1>6. ASSUME NEW p \in Procs, NEW v \in Pages, Exec(p, v) PROVE OnePlace'
  <2>1. CASE Panic
    BY <1>1, <2>1 DEF Panic
  <2>2. CASE ~Panic
    <3>1. PICK lost : lost = IF Mapped(p, v) \/ Free = {} THEN {} ELSE {GetFreePage}
      OBVIOUS
    <3>2. PICK f : f = CHOOSE x \in Free \ lost : \A y \in Free \ lost : x <= y
      OBVIOUS
    <3>3. Free \ lost # {} /\ pte' = [pte EXCEPT ![p] = ProgramPtes(ArgPage, f)]
      <4>1. Free \ lost # {} /\ NewProgram(p, v, lost, f)
        BY <1>6, <2>2, <3>1, <3>2, ExecEffect
      <4> QED BY <4>1 DEF NewProgram
    <3>4. Free \ lost \subseteq 1..NFrames
      BY DEF Free, Frames
    <3>5. \E x \in Free \ lost : \A y \in Free \ lost : x <= y
      BY <3>3, <3>4, FirstExists, NFramesAssumption
    <3>6. f \in Free \ lost
      BY <3>2, <3>5
    <3>7. f \in Frames /\ ref[f] = 0
      BY <3>6 DEF Free
    <3>8. Unmapped(f)
      BY <3>7, FreeIsUnused, UsersLemma DEF Unmapped
    <3>9. \A q \in Procs, w \in Pages :
             pte'[q][w].frame = IF q # p THEN pte[q][w].frame
                                ELSE IF w = ArgPage THEN f ELSE NoFrame
      BY <3>3 DEF Inv, TypeOK, ProgramPtes, NoPte
    <3>10. ASSUME NEW q \in Procs, NEW w \in Pages
           PROVE  Placed(q, w, f, ArgPage)
      BY <3>9 DEF Placed
    <3>11. PICK u : u = ArgPage
      OBVIOUS
    <3> QED BY <3>8, <3>10, <3>11, PlaceStep
  <2> QED BY <2>1, <2>2
<1>7. ASSUME NEW p \in Procs, Fork(p) PROVE OnePlace'
  <2>1. CASE Panic
    BY <1>1, <2>1 DEF Panic
  <2>2. CASE ~Panic
    <3>1. PICK c : c = NextTask
      OBVIOUS
    <3>2. PICK shared : shared = [v \in Pages |-> SharedPte(p, v)]
      OBVIOUS
    <3>3. Unborn # {} /\ pte' = [pte EXCEPT ![p] = shared, ![c] = shared]
      BY <1>7, <2>2, <3>1, <3>2 DEF Fork
    <3>4. c \in Procs
      BY <3>1, <3>3 DEF NextTask, Unborn
    <3>5. \A w \in Pages : shared[w].frame = pte[p][w].frame
      BY <3>2 DEF SharedPte
    <3>6. \A q \in Procs : pte'[q] = IF q = c \/ q = p THEN shared ELSE pte[q]
      BY <3>3, <3>4 DEF Inv, TypeOK
    <3>7. \A q \in Procs, w \in Pages : \E r \in Procs : pte'[q][w].frame = pte[r][w].frame
      BY <3>5, <3>6
    <3> SUFFICES ASSUME NEW q \in Procs, NEW r \in Procs, NEW v \in Pages, NEW w \in Pages,
                        pte'[q][v].frame # NoFrame, pte'[q][v].frame = pte'[r][w].frame
                 PROVE  v = w
      BY DEF OnePlace, Mapped
    <3>8. PICK x \in Procs : pte'[q][v].frame = pte[x][v].frame
      BY <3>7
    <3>9. PICK y \in Procs : pte'[r][w].frame = pte[y][w].frame
      BY <3>7
    <3>10. pte[x][v].frame # NoFrame /\ pte[x][v].frame = pte[y][w].frame
      BY <3>8, <3>9
    <3>11. Mapped(x, v)
      BY <3>10 DEF Mapped
    <3> QED BY <3>10, <3>11 DEF OnePlace
  <2> QED BY <2>1, <2>2
<1>8. ASSUME NEW p \in Procs, NEW n, Brk(p, n) PROVE OnePlace'
  BY <1>1, <1>8 DEF Brk, Panic
<1>9. ASSUME NEW p \in Procs, Exit(p) \/ FreeProcess(p) PROVE OnePlace'
  BY <1>1, <1>9 DEF Exit, ExitSt, FreeProcess
<1>10. CASE UNCHANGED vars
  BY <1>1, <1>10 DEF vars
<1> QED BY <1>2, <1>3, <1>4, <1>5, <1>6, <1>7, <1>8, <1>9, <1>10 DEF Next

LEMMA InitPlace == ASSUME Init PROVE OnePlace
<1>1. \A q \in Procs, w \in Pages : pte[q][w].frame # NoFrame => w = ArgPage
  BY DEF Init, ProgramPtes, NoPte
<1> QED BY <1>1 DEF OnePlace, Mapped

(***************************************************************************)
(* What a process finds in a page                                          *)
(***************************************************************************)
\* View(p)[v] from the status of p, the frame in its entry for v, its areas
\* and the contents of the frames.
Cell(st, f, s, dt, v) ==
    IF st # "alive" THEN "nothing"
    ELSE IF f # NoFrame THEN dt[f]
    ELSE IF FirstIn(s, v) = {} THEN "nothing"
    ELSE Promised(s[CHOOSE i \in FirstIn(s, v) : TRUE], v)

LEMMA CellIsPromised ==
    ASSUME NEW f, NEW s \in Seq(Vma), NEW dt, NEW v, f = NoFrame
    PROVE  \A i \in FirstIn(s, v) : Cell("alive", f, s, dt, v) = Promised(s[i], v)
<1>1. \A i, j \in FirstIn(s, v) : i = j
  <2>1. \A i \in DOMAIN s : i \in Nat /\ i >= 1
    OBVIOUS
  <2> QED BY <2>1 DEF FirstIn
<1>2. ASSUME NEW i \in FirstIn(s, v) PROVE (CHOOSE j \in FirstIn(s, v) : TRUE) = i
  BY <1>1
<1> QED BY <1>2 DEF Cell

Mem == [p \in Procs |-> View(p)]

\* The tasks that were given back.
Freed == {p \in Procs : status[p] = "freed"}

LEMMA ViewIsCell ==
    ASSUME NEW p \in Procs
    PROVE  /\ View(p) = [v \in Pages |-> Cell(status[p], pte[p][v].frame, vmas[p], data, v)]
           /\ View(p)' = [v \in Pages |-> Cell(status'[p], pte'[p][v].frame, vmas'[p], data', v)]
BY DEF View, Cell, Mapped, SearchVma, FirstIn

LEMMA MemIsCell ==
    ASSUME NEW p \in Procs, NEW v \in Pages
    PROVE  /\ Mem[p] = View(p) /\ Mem'[p] = View(p)'
           /\ Mem[p][v] = Cell(status[p], pte[p][v].frame, vmas[p], data, v)
           /\ Mem'[p][v] = Cell(status'[p], pte'[p][v].frame, vmas'[p], data', v)
<1>1. Mem[p] = View(p) /\ Mem'[p] = View(p)'
  BY DEF Mem
<1> QED BY <1>1, ViewIsCell

\* Two memories are equal if they are equal page by page.
LEMMA MemIsFunction ==
    /\ Mem = [q \in Procs |-> [v \in Pages |-> Mem[q][v]]]
    /\ Mem' = [q \in Procs |-> [v \in Pages |-> Mem'[q][v]]]
<1>1. Mem = [q \in Procs |-> View(q)] /\ Mem' = [q \in Procs |-> View(q)']
  BY DEF Mem
<1>2. \A q \in Procs : /\ View(q) = [v \in Pages |-> View(q)[v]]
                       /\ View(q)' = [v \in Pages |-> View(q)'[v]]
  BY DEF View
<1> QED BY <1>1, <1>2

LEMMA MemSame ==
    ASSUME \A q \in Procs, w \in Pages : Mem'[q][w] = Mem[q][w]
    PROVE  Mem' = Mem
BY MemIsFunction

\* A table that differs from another in one entry.
LEMMA TableExcept ==
    ASSUME NEW P, NEW V, NEW m, NEW n, NEW p \in P, NEW v \in V, NEW d,
           m = [q \in P |-> [w \in V |-> m[q][w]]],
           n = [q \in P |-> [w \in V |-> n[q][w]]],
           \A q \in P, w \in V : n[q][w] = IF q = p /\ w = v THEN d ELSE m[q][w]
    PROVE  n = [m EXCEPT ![p][v] = d]
<1>1. /\ DOMAIN m = P /\ DOMAIN n = P
      /\ m = [q \in P |-> m[q]] /\ n = [q \in P |-> n[q]]
  OBVIOUS
<1>2. ASSUME NEW q \in P
      PROVE  /\ DOMAIN m[q] = V /\ m[q] = [w \in V |-> m[q][w]]
             /\ DOMAIN n[q] = V /\ n[q] = [w \in V |-> n[q][w]]
  <2>1. m[q] = [w \in V |-> m[q][w]]
    OBVIOUS
  <2>2. n[q] = [w \in V |-> n[q][w]]
    OBVIOUS
  <2> QED BY <2>1, <2>2
<1>3. n[p] = [m[p] EXCEPT ![v] = d]
  <2>1. [m[p] EXCEPT ![v] = d] = [w \in V |-> IF w = v THEN d ELSE m[p][w]]
    BY <1>2
  <2>2. \A w \in V : n[p][w] = IF w = v THEN d ELSE m[p][w]
    OBVIOUS
  <2> QED BY <1>2, <2>1, <2>2
<1>4. ASSUME NEW q \in P, q # p
      PROVE  n[q] = m[q]
  <2>1. \A w \in V : n[q][w] = m[q][w]
    BY <1>4
  <2> QED BY <1>2, <2>1
<1> QED BY <1>1, <1>3, <1>4

LEMMA MemExcept ==
    ASSUME NEW p \in Procs, NEW v \in Pages, NEW d,
           \A q \in Procs, w \in Pages :
               Mem'[q][w] = IF q = p /\ w = v THEN d ELSE Mem[q][w]
    PROVE  Mem' = [Mem EXCEPT ![p][v] = d]
<1>1. PICK m : m = Mem
  OBVIOUS
<1>2. PICK n : n = Mem'
  OBVIOUS
<1>3. /\ m = [q \in Procs |-> [w \in Pages |-> m[q][w]]]
      /\ n = [q \in Procs |-> [w \in Pages |-> n[q][w]]]
  BY <1>1, <1>2, MemIsFunction
<1>4. \A q \in Procs, w \in Pages : n[q][w] = IF q = p /\ w = v THEN d ELSE m[q][w]
  BY <1>1, <1>2
<1>5. n = [m EXCEPT ![p][v] = d]
  BY <1>3, <1>4, TableExcept, SMTT(30)
<1> QED BY <1>1, <1>2, <1>5

\* The steps of PrivateMemory, page by page.
LEMMA MemWrite ==
    ASSUME NEW p \in Procs, NEW v \in Pages, v \notin Text, NEW d \in Writes,
           Mem[p][v] # "nothing",
           \A q \in Procs, w \in Pages :
               Mem'[q][w] = IF q = p /\ w = v THEN d ELSE Mem[q][w]
    PROVE  Private!Step
<1>1. Mem' = [Mem EXCEPT ![p][v] = d]
  BY MemExcept
<1>2. Private!Write(p, v, d)
  BY <1>1 DEF Private!Write, Mem
<1> QED BY <1>2 DEF Private!Step

\* A store of the kernel, into the page that some processes share.
LEMMA MemStore ==
    ASSUME NEW p \in Procs, NEW sharers \in SUBSET Procs, p \in sharers,
           NEW v \in Pages, NEW d \in KernelWrites,
           Mem[p][v] # "nothing",
           \A q \in sharers : Mem[q][v] = Mem[p][v],
           \A q \in Procs, w \in Pages :
               Mem'[q][w] = IF q \in sharers /\ w = v THEN d ELSE Mem[q][w]
    PROVE  Private!Step
<1>1. Mem' = [q \in Procs |-> IF q \in sharers THEN [Mem[q] EXCEPT ![v] = d] ELSE Mem[q]]
  <2>1. ASSUME NEW q \in Procs
        PROVE  Mem'[q] = IF q \in sharers THEN [Mem[q] EXCEPT ![v] = d] ELSE Mem[q]
    <3>1. /\ Mem[q] = [w \in Pages |-> Mem[q][w]]
          /\ Mem'[q] = [w \in Pages |-> Mem'[q][w]]
      BY MemIsFunction
    <3> QED BY <3>1
  <2>2. Mem' = [q \in Procs |-> Mem'[q]]
    BY DEF Mem
  <2> QED BY <2>1, <2>2
<1>2. Private!KernelStore(p, sharers, v, d)
  BY <1>1 DEF Private!KernelStore, Mem
<1> QED BY <1>2 DEF Private!Step

\* A page that comes from the file as junk.
LEMMA MemSpoil ==
    ASSUME NEW p \in Procs, NEW v \in Pages, v \in FilePages, v \in Bss \/ Freed # {},
           Mem[p][v] = ImageOf(v),
           NEW d, d = "junk",
           \A q \in Procs, w \in Pages :
               Mem'[q][w] = IF q = p /\ w = v THEN d ELSE Mem[q][w]
    PROVE  Private!Step
<1>1. Mem' = [Mem EXCEPT ![p][v] = d]
  BY MemExcept
<1>2. Private!Spoil(p, v)
  BY <1>1 DEF Private!Spoil, Mem, FilePages, Freed
<1> QED BY <1>2 DEF Private!Step

LEMMA MemFork ==
    ASSUME NEW p \in Procs, NEW c \in Procs,
           \E v \in Pages : Mem[p][v] # "nothing",
           \A v \in Pages : Mem[c][v] = "nothing",
           \A q \in Procs, w \in Pages :
               Mem'[q][w] = IF q = c THEN Mem[p][w] ELSE Mem[q][w]
    PROVE  Private!Step
<1>1. Mem' = [Mem EXCEPT ![c] = Mem[p]]
  BY MemIsFunction
<1>2. Mem[p] # [v \in Pages |-> "nothing"] /\ Mem[c] = [v \in Pages |-> "nothing"]
  BY MemIsFunction
<1>3. Private!Fork(p, c)
  BY <1>1, <1>2 DEF Private!Fork, Private!Exists, Private!NoPages, Mem
<1> QED BY <1>3 DEF Private!Step

LEMMA MemExec ==
    ASSUME NEW p \in Procs,
           \E v \in Pages : Mem[p][v] # "nothing",
           \A q \in Procs, w \in Pages :
               Mem'[q][w] = IF q = p THEN ImageOf(w) ELSE Mem[q][w]
    PROVE  Private!Step
<1>1. Mem' = [Mem EXCEPT ![p] = [v \in Pages |-> ImageOf(v)]]
  BY MemIsFunction
<1>2. Mem[p] # [v \in Pages |-> "nothing"]
  BY MemIsFunction
<1>3. Private!Exec(p)
  BY <1>1, <1>2 DEF Private!Exec, Private!Exists, Private!NoPages, Mem
<1> QED BY <1>3 DEF Private!Step

LEMMA MemGrow ==
    ASSUME NEW p \in Procs, NEW new \in SUBSET Heap,
           \E v \in Pages : Mem[p][v] # "nothing",
           \A q \in Procs, w \in Pages :
               Mem'[q][w] = IF q = p /\ w \in new /\ Mem[q][w] = "nothing"
                            THEN "zero" ELSE Mem[q][w]
    PROVE  Private!Step
<1>1. Mem' = [Mem EXCEPT ![p] = [v \in Pages |->
                   IF v \in new /\ Mem[p][v] = "nothing" THEN "zero" ELSE Mem[p][v]]]
  BY MemIsFunction
<1>2. Mem[p] # [v \in Pages |-> "nothing"]
  BY MemIsFunction
<1>3. Private!Grow(p, new)
  BY <1>1, <1>2 DEF Private!Grow, Private!Exists, Private!NoPages, Mem
<1> QED BY <1>3 DEF Private!Step

LEMMA MemEnd ==
    ASSUME NEW p \in Procs,
           \A q \in Procs, w \in Pages : Mem'[q][w] = IF q = p THEN "nothing" ELSE Mem[q][w]
    PROVE  Private!Step
<1>1. Mem' = [Mem EXCEPT ![p] = [v \in Pages |-> "nothing"]]
  BY MemIsFunction
<1>2. Private!End(p)
  BY <1>1 DEF Private!End, Private!NoPages, Mem
<1> QED BY <1>2 DEF Private!Step

(***************************************************************************)
(* The steps of CowMemory                                                  *)
(***************************************************************************)
\* A mapped page shows its frame, and a page that is not mapped yet what the
\* first fault on it will load.
LEMMA CellOf ==
    ASSUME Inv, NEW p \in Procs, NEW v \in Pages, status[p] = "alive"
    PROVE  /\ Mapped(p, v) => Mem[p][v] = data[pte[p][v].frame] /\ Mem[p][v] # "nothing"
           /\ ~Mapped(p, v) /\ SearchVma(p, v) = {} => Mem[p][v] = "nothing"
           /\ ~Mapped(p, v) => \A i \in SearchVma(p, v) :
                                  Mem[p][v] = Promised(vmas[p][i], v) /\ Mem[p][v] # "nothing"
<1>1. Mem[p][v] = Cell(status[p], pte[p][v].frame, vmas[p], data, v)
  BY MemIsCell
<1>2. vmas[p] \in Seq(Vma)
  BY DEF Inv, TypeOK
<1>3. SearchVma(p, v) = FirstIn(vmas[p], v)
  BY SearchIsFirst
<1>4. ASSUME Mapped(p, v)
      PROVE  Mem[p][v] = data[pte[p][v].frame] /\ Mem[p][v] # "nothing"
  <2>1. Mem[p][v] = data[pte[p][v].frame]
    BY <1>1, <1>4 DEF Cell, Mapped
  <2>2. data[pte[p][v].frame] \in Contents
    BY <1>4, NoFrameLemma DEF Inv, TypeOK
  <2> QED BY <2>1, <2>2, NamesAssumption
<1>5. ASSUME ~Mapped(p, v), SearchVma(p, v) = {} PROVE Mem[p][v] = "nothing"
  BY <1>1, <1>3, <1>5 DEF Cell, Mapped
<1>6. ASSUME ~Mapped(p, v), NEW i \in SearchVma(p, v)
      PROVE  Mem[p][v] = Promised(vmas[p][i], v) /\ Mem[p][v] # "nothing"
  <2>1. Mem[p][v] = Promised(vmas[p][i], v)
    BY <1>1, <1>2, <1>3, <1>6, CellIsPromised DEF Mapped
  <2> QED BY <2>1 DEF Promised
<1> QED BY <1>4, <1>5, <1>6

\* A process that runs has a memory: its stack.
LEMMA AliveHasMemory ==
    ASSUME Inv, RInv, NEW p \in Procs, status[p] = "alive"
    PROVE  \E v \in Pages : Mem[p][v] # "nothing"
<1>1. ArgPage \in Pages
  BY ArgPageLemma
<1>2. PICK i : i \in SearchVma(p, ArgPage)
  BY DEF RInv, StackIsThere
<1>3. Mem[p][ArgPage] # "nothing"
  BY <1>1, <1>2, CellOf
<1> QED BY <1>1, <1>3

\* One page of one process gets the content d in a frame that no other page
\* uses; nobody else sees anything.
LEMMA OnePage ==
    ASSUME Inv, NEW p \in Procs, NEW v \in Pages, status[p] = "alive",
           NEW f \in Frames, NEW d, status' = status, vmas' = vmas,
           data'[f] = d, \A g \in Frames : g # f => data'[g] = data[g],
           pte'[p][v].frame = f,
           \A q \in Procs, w \in Pages : q # p \/ w # v =>
               pte'[q][w].frame = pte[q][w].frame /\ pte[q][w].frame # f
    PROVE  \A q \in Procs, w \in Pages :
               Mem'[q][w] = IF q = p /\ w = v THEN d ELSE Mem[q][w]
<1> SUFFICES ASSUME NEW q \in Procs, NEW w \in Pages
             PROVE  Mem'[q][w] = IF q = p /\ w = v THEN d ELSE Mem[q][w]
  OBVIOUS
<1>1. /\ Mem[q][w] = Cell(status[q], pte[q][w].frame, vmas[q], data, w)
      /\ Mem'[q][w] = Cell(status[q], pte'[q][w].frame, vmas[q], data', w)
  BY MemIsCell
<1>2. vmas[q] \in Seq(Vma) /\ NoFrame \notin Frames
  BY NoFrameLemma DEF Inv, TypeOK
<1>3. CASE q = p /\ w = v
  BY <1>1, <1>2, <1>3 DEF Cell
<1>4. CASE q # p \/ w # v
  <2>1. PICK g : g = pte[q][w].frame
    OBVIOUS
  <2>2. g = pte'[q][w].frame /\ (g # NoFrame => g \in Frames /\ data'[g] = data[g])
    BY <1>4, <2>1, NoFrameLemma DEF Mapped
  <2>3. CASE status[q] # "alive"
    BY <1>1, <1>4, <2>3 DEF Cell
  <2>4. CASE status[q] = "alive" /\ g # NoFrame
    BY <1>1, <1>4, <2>1, <2>2, <2>4 DEF Cell
  <2>5. CASE status[q] = "alive" /\ g = NoFrame
    BY <1>1, <1>4, <2>1, <2>2, <2>5 DEF Cell
  <2> QED BY <2>3, <2>4, <2>5
<1> QED BY <1>3, <1>4

\* map_a_page loads what was promised, or junk into a page of the program: for
\* bss, or once some task was freed.
LEMMA LoadedIsPromised ==
    ASSUME Inv, RInv, NEW p \in Procs, NEW v \in Pages, NEW i \in SearchVma(p, v)
    PROVE  \/ Loaded(vmas[p][i], v) = Promised(vmas[p][i], v)
           \/ /\ Loaded(vmas[p][i], v) = "junk"
              /\ v \in FilePages /\ (v \in Bss \/ Freed # {})
              /\ Promised(vmas[p][i], v) = ImageOf(v)
<1>1. i \in DOMAIN vmas[p] /\ vmas[p][i] \in Vma /\ v \in vmas[p][i].pages
  BY SearchLemma DEF SearchVma
<1>2. PICK area \in Vma : area = vmas[p][i]
  BY <1>1
<1>3. CASE area.file = NoFile
  <2>1. Loaded(area, v) = "zero" /\ Promised(area, v) = "zero"
    BY <1>3 DEF Loaded, Promised
  <2> QED BY <1>2, <2>1
<1>4. CASE area.file # NoFile
  <2>1. area.file \in Procs /\ Born(area.file) /\ v \in FilePages
    BY <1>1, <1>2, <1>4 DEF RInv, AreasAreSound, Vma, Sound
  <2>2. Promised(area, v) = ImageOf(v)
    <3>1. v \notin Heap /\ v \notin Stack /\ v # ArgPage
      BY <2>1, SegmentsAssumption DEF FilePages, ArgPage
    <3> QED BY <1>4, <3>1 DEF Promised, ImageOf
  <2>3. Intact(area.file) \/ Freed # {}
    <3>1. status[area.file] \in {"alive", "zombie", "freed"}
      BY <2>1 DEF Born, Inv, TypeOK
    <3>2. CASE status[area.file] = "freed"
      BY <2>1, <3>2 DEF Freed
    <3>3. CASE status[area.file] \in {"alive", "zombie"}
      BY <2>1, <3>3 DEF Intact, Inv, TasksKeepTheirFrames
    <3> QED BY <3>1, <3>2, <3>3
  <2>4. CASE Intact(area.file) /\ v \notin Bss
    BY <1>2, <1>4, <2>4 DEF Loaded, Promised
  <2>5. CASE ~(Intact(area.file) /\ v \notin Bss)
    <3>1. Loaded(area, v) = "junk"
      BY <1>4, <2>5 DEF Loaded
    <3> QED BY <1>2, <2>1, <2>2, <2>3, <2>5, <3>1
  <2> QED BY <2>4, <2>5
<1> QED BY <1>3, <1>4

\* A writable area has no page of the text.
LEMMA WritableIsNoText ==
    ASSUME RInv, NEW p \in Procs, NEW v \in Pages, NEW i \in Covering(p, v), vmas[p][i].rw
    PROVE  v \notin Text
BY DEF RInv, AreasAreSound, Covering, Sound

\* A step that leaves contents, frames, areas and processes as they are.
LEMMA NothingSeen ==
    ASSUME status' = status, vmas' = vmas, data' = data,
           \A q \in Procs, w \in Pages : pte'[q][w].frame = pte[q][w].frame
    PROVE  Mem' = Mem
<1>1. \A q \in Procs, w \in Pages : Mem'[q][w] = Mem[q][w]
  <2> SUFFICES ASSUME NEW q \in Procs, NEW w \in Pages PROVE Mem'[q][w] = Mem[q][w]
    OBVIOUS
  <2>1. /\ Mem[q][w] = Cell(status[q], pte[q][w].frame, vmas[q], data, w)
        /\ Mem'[q][w] = Cell(status'[q], pte'[q][w].frame, vmas'[q], data', w)
    BY MemIsCell
  <2> QED BY <2>1
<1> QED BY <1>1, MemSame

LEMMA PanicSeen == ASSUME Panic PROVE Mem' = Mem
BY NothingSeen DEF Panic

\* exit, or the end after a bad access.
LEMMA ExitStSeen ==
    ASSUME Inv, NEW p \in Procs, ExitSt(p)
    PROVE  Private!Step
<1>1. ASSUME NEW q \in Procs, NEW w \in Pages
      PROVE  Mem'[q][w] = IF q = p THEN "nothing" ELSE Mem[q][w]
  <2>1. /\ Mem[q][w] = Cell(status[q], pte[q][w].frame, vmas[q], data, w)
        /\ Mem'[q][w] = Cell(status'[q], pte'[q][w].frame, vmas'[q], data', w)
    BY MemIsCell
  <2>2. /\ pte' = pte /\ vmas' = vmas /\ data' = data
        /\ status'[q] = IF q = p THEN "zombie" ELSE status[q]
    BY DEF ExitSt, Inv, TypeOK
  <2> QED BY <2>1, <2>2 DEF Cell
<1> QED BY <1>1, MemEnd

\* A free frame that becomes the frame of page v.
LEMMA InstallSeen ==
    ASSUME Inv, NEW p \in Procs, NEW v \in Pages, status[p] = "alive",
           NEW f \in Frames, ref[f] = 0, NEW rw, NEW d,
           Install(p, v, f, rw, d), UNCHANGED <<status, task, vmas, panicked>>
    PROVE  \A q \in Procs, w \in Pages :
               Mem'[q][w] = IF q = p /\ w = v THEN d ELSE Mem[q][w]
<1>1. data'[f] = d /\ \A g \in Frames : g # f => data'[g] = data[g]
  BY DEF Install, Inv, TypeOK
<1>2. /\ pte'[p][v].frame = f
      /\ \A q \in Procs, w \in Pages : q # p \/ w # v => pte'[q][w] = pte[q][w]
  BY DEF Install, Inv, TypeOK
<1>3. ASSUME NEW q \in Procs, NEW w \in Pages PROVE pte[q][w].frame # f
  BY FreeIsUnused, UsersLemma
<1> QED BY <1>1, <1>2, <1>3, OnePage

LEMMA MapAPageSeen ==
    ASSUME Inv, RInv, NEW p \in Procs, NEW v \in Pages, status[p] = "alive",
           ~Mapped(p, v), MapAPage(p, v)
    PROVE  Private!Step \/ Mem' = Mem
<1>1. CASE Panic
  BY <1>1, PanicSeen
<1>2. CASE ~Panic
  <2>1. PICK i \in SearchVma(p, v) :
           /\ Free # {}
           /\ Install(p, v, GetFreePage, vmas[p][i].rw, Loaded(vmas[p][i], v))
           /\ UNCHANGED <<status, task, vmas, panicked>>
    BY <1>2 DEF MapAPage
  <2>2. PICK f \in Frames : f = GetFreePage /\ ref[f] = 0
    BY <2>1, GetFreePageIsFree
  <2>3. PICK d : d = Loaded(vmas[p][i], v)
    OBVIOUS
  <2>4. Mem[p][v] = Promised(vmas[p][i], v)
    BY CellOf
  <2>5. \A q \in Procs, w \in Pages :
               Mem'[q][w] = IF q = p /\ w = v THEN d ELSE Mem[q][w]
    <3>1. Install(p, v, f, vmas[p][i].rw, d)
      BY <2>1, <2>2, <2>3
    <3> QED BY <2>1, <2>2, <3>1, InstallSeen
  <2>6. CASE d = Promised(vmas[p][i], v)
    <3>1. \A q \in Procs, w \in Pages : Mem'[q][w] = Mem[q][w]
      BY <2>4, <2>5, <2>6
    <3> QED BY <3>1, MemSame
  <2>7. CASE d # Promised(vmas[p][i], v)
    <3>1. /\ d = "junk" /\ v \in FilePages /\ (v \in Bss \/ Freed # {})
          /\ Mem[p][v] = ImageOf(v)
      BY <2>3, <2>4, <2>7, LoadedIsPromised
    <3> QED BY <2>5, <3>1, MemSpoil
  <2> QED BY <2>6, <2>7
<1> QED BY <1>1, <1>2

\* A store into a page that its process may write.
LEMMA StoreSeen ==
    ASSUME Inv, RInv, NEW p \in Procs, NEW v \in Pages, status[p] = "alive",
           pte[p][v].rw, NEW d \in Writes,
           data' = [data EXCEPT ![pte[p][v].frame] = d],
           UNCHANGED <<ref, status, task, vmas, pte, panicked>>
    PROVE  Private!Step
<1>1. PICK f : f = pte[p][v].frame
  OBVIOUS
<1>2. f \in Frames /\ Mapped(p, v)
  BY <1>1, NoFrameLemma
<1>3. data'[f] = d /\ \A g \in Frames : g # f => data'[g] = data[g]
  BY <1>1, <1>2 DEF Inv, TypeOK
<1>4. ASSUME NEW q \in Procs, NEW w \in Pages, q # p \/ w # v PROVE pte[q][w].frame # f
  <2>1. Mappers(f) = {<<p, v>>}
    BY <1>1 DEF Inv, WritableIsPrivate
  <2>2. pte[q][w].frame = f => <<q, w>> \in Mappers(f)
    BY UsersLemma
  <2> QED BY <1>4, <2>1, <2>2
<1>5. \A q \in Procs, w \in Pages : Mem'[q][w] = IF q = p /\ w = v THEN d ELSE Mem[q][w]
  BY <1>1, <1>2, <1>3, <1>4, OnePage
<1>6. Mem[p][v] # "nothing"
  BY <1>2, CellOf
<1>7. v \notin Text
  <2>1. PICK i \in Covering(p, v) : vmas[p][i].rw
    BY <1>2 DEF Inv, MappedIsCovered, CoveredBy
  <2> QED BY <2>1, WritableIsNoText
<1> QED BY <1>5, <1>6, <1>7, MemWrite

\* A store of the kernel into a frame that others may have mapped too, at the
\* same page: they all see it.
LEMMA SharedStoreSeen ==
    ASSUME Inv, OnePlace, NEW p \in Procs, NEW v \in Pages, status[p] = "alive",
           Mapped(p, v), NEW d \in KernelWrites,
           data' = [data EXCEPT ![pte[p][v].frame] = d],
           UNCHANGED <<ref, status, task, vmas, pte, panicked>>
    PROVE  Private!Step
<1>1. PICK f : f = pte[p][v].frame
  OBVIOUS
<1>2. f \in Frames /\ f # NoFrame
  BY <1>1, NoFrameLemma
<1>3. data'[f] = d /\ \A g \in Frames : g # f => data'[g] = data[g]
  BY <1>1, <1>2 DEF Inv, TypeOK
<1> DEFINE S == {q \in Procs : status[q] = "alive" /\ pte[q][v].frame = f}
<1>4. ASSUME NEW q \in S PROVE Mem[q][v] = Mem[p][v]
  <2>1. q \in Procs /\ status[q] = "alive" /\ pte[q][v].frame = f /\ Mapped(q, v)
    BY <1>2 DEF Mapped
  <2>2. Mem[q][v] = data[f]
    BY <2>1, CellOf
  <2>3. Mem[p][v] = data[f]
    BY <1>1, CellOf
  <2> QED BY <2>2, <2>3
<1>5. ASSUME NEW q \in Procs, NEW w \in Pages
      PROVE  Mem'[q][w] = IF q \in S /\ w = v THEN d ELSE Mem[q][w]
  <2>1. /\ Mem[q][w] = Cell(status[q], pte[q][w].frame, vmas[q], data, w)
        /\ Mem'[q][w] = Cell(status[q], pte[q][w].frame, vmas[q], data', w)
    BY MemIsCell
  <2>2. PICK g : g = pte[q][w].frame
    OBVIOUS
  <2>3. g # NoFrame => g \in Frames
    BY <2>2, NoFrameLemma DEF Mapped
  <2>4. CASE g # f
    <3>1. ~(q \in S /\ w = v)
      BY <2>2, <2>4
    <3>2. g # NoFrame => data'[g] = data[g]
      BY <1>3, <2>3, <2>4
    <3>3. Cell(status[q], g, vmas[q], data', w) = Cell(status[q], g, vmas[q], data, w)
      BY <3>2 DEF Cell
    <3> HIDE DEF S
    <3> QED BY <2>1, <2>2, <3>1, <3>3
  <2>5. CASE g = f
    <3>1. w = v
      BY <1>1, <2>2, <2>5 DEF OnePlace
    <3>2. CASE status[q] = "alive"
      <4>1. Mem'[q][w] = d
        BY <1>2, <1>3, <2>1, <2>2, <2>5, <3>2 DEF Cell
      <4> QED BY <2>2, <2>5, <3>1, <3>2, <4>1
    <3>3. CASE status[q] # "alive"
      <4>1. Mem'[q][w] = Mem[q][w]
        BY <2>1, <3>3 DEF Cell
      <4> QED BY <3>3, <4>1
    <3> QED BY <3>2, <3>3
  <2> QED BY <2>4, <2>5
<1>6. Mem[p][v] # "nothing"
  BY CellOf
<1>7. p \in S /\ S \in SUBSET Procs
  BY <1>1
<1> HIDE DEF S
<1> QED BY <1>4, <1>5, <1>6, <1>7, MemStore

LEMMA CopyFromKernelSeen ==
    ASSUME Inv, RInv, OnePlace, NEW p \in Procs, NEW v \in Pages, NEW d \in KernelWrites,
           CopyFromKernel(p, v, d)
    PROVE  Private!Step \/ Mem' = Mem
<1>0. status[p] = "alive"
  BY DEF CopyFromKernel, Runs
<1>1. CASE Panic
  BY <1>1, PanicSeen
<1>2. CASE Mapped(p, v) /\ ~Panic
  <2>1. /\ data' = [data EXCEPT ![pte[p][v].frame] = d]
        /\ UNCHANGED <<ref, status, task, vmas, pte, panicked>>
    BY <1>2 DEF CopyFromKernel
  <2> QED BY <1>0, <1>2, <2>1, SharedStoreSeen
<1>3. CASE ~Mapped(p, v) /\ ~Panic
  <2>1. PICK i \in SearchVma(p, v) :
           /\ Free # {}
           /\ Install(p, v, GetFreePage, vmas[p][i].rw, d)
           /\ UNCHANGED <<status, task, vmas, panicked>>
    BY <1>3 DEF CopyFromKernel
  <2>2. PICK f \in Frames : f = GetFreePage /\ ref[f] = 0
    BY <2>1, GetFreePageIsFree
  <2>3. \A q \in Procs, w \in Pages :
               Mem'[q][w] = IF q = p /\ w = v THEN d ELSE Mem[q][w]
    <3>1. PICK rw : rw = vmas[p][i].rw
      OBVIOUS
    <3>2. Install(p, v, f, rw, d) /\ UNCHANGED <<status, task, vmas, panicked>>
      BY <2>1, <2>2, <3>1
    <3> QED BY <1>0, <2>2, <3>2, InstallSeen
  <2>4. Mem[p][v] # "nothing"
    BY <1>0, <1>3, CellOf
  <2>5. PICK S : S = {p}
    OBVIOUS
  <2>6. /\ S \in SUBSET Procs /\ p \in S
        /\ \A q \in S : Mem[q][v] = Mem[p][v]
        /\ \A q \in Procs, w \in Pages :
               Mem'[q][w] = IF q \in S /\ w = v THEN d ELSE Mem[q][w]
    BY <2>3, <2>5
  <2> QED BY <2>4, <2>6, MemStore
<1> QED BY <1>1, <1>2, <1>3

LEMMA FaultWriteSeen ==
    ASSUME Inv, NEW p \in Procs, NEW v \in Pages, FaultWrite(p, v)
    PROVE  Private!Step \/ Mem' = Mem
<1>0. status[p] = "alive" /\ Mapped(p, v)
  BY DEF FaultWrite, Runs
<1>1. CASE Panic
  BY <1>1, PanicSeen
<1>2. CASE ExitSt(p)
  BY <1>2, ExitStSeen
<1>3. CASE ~Panic /\ ~ExitSt(p) /\ Shared(pte[p][v].frame)
  <2>1. PICK old : old = pte[p][v].frame
    OBVIOUS
  <2>2. /\ Free # {}
        /\ data' = [data EXCEPT ![GetFreePage] = data[old]]
        /\ pte' = [pte EXCEPT ![p][v] =
                      [frame |-> GetFreePage, rw |-> TRUE, cow |-> FALSE]]
        /\ UNCHANGED <<status, vmas>>
    BY <1>3, <2>1 DEF FaultWrite
  <2>3. PICK f \in Frames : f = GetFreePage /\ ref[f] = 0
    BY <2>2, GetFreePageIsFree
  <2>4. data'[f] = data[old] /\ \A g \in Frames : g # f => data'[g] = data[g]
    BY <2>2, <2>3 DEF Inv, TypeOK
  <2>5. /\ pte'[p][v].frame = f
        /\ \A q \in Procs, w \in Pages : q # p \/ w # v => pte'[q][w] = pte[q][w]
    BY <2>2, <2>3 DEF Inv, TypeOK
  <2>6. ASSUME NEW q \in Procs, NEW w \in Pages PROVE pte[q][w].frame # f
    BY <2>3, FreeIsUnused, UsersLemma
  <2>7. \A q \in Procs, w \in Pages :
           Mem'[q][w] = IF q = p /\ w = v THEN data[old] ELSE Mem[q][w]
    BY <1>0, <2>2, <2>4, <2>5, <2>6, OnePage
  <2>8. Mem[p][v] = data[old]
    BY <1>0, <2>1, CellOf
  <2>9. \A q \in Procs, w \in Pages : Mem'[q][w] = Mem[q][w]
    BY <2>7, <2>8
  <2> QED BY <2>9, MemSame
<1>4. CASE ~Panic /\ ~ExitSt(p) /\ ~Shared(pte[p][v].frame)
  <2>1. PICK old : old = pte[p][v].frame
    OBVIOUS
  <2>2. /\ pte' = [pte EXCEPT ![p][v] = [frame |-> old, rw |-> TRUE, cow |-> FALSE]]
        /\ UNCHANGED <<data, status, vmas>>
    BY <1>4, <2>1 DEF FaultWrite
  <2>3. \A q \in Procs, w \in Pages : pte'[q][w].frame = pte[q][w].frame
    BY <2>1, <2>2 DEF Inv, TypeOK
  <2> QED BY <2>2, <2>3, NothingSeen
<1> QED BY <1>1, <1>2, <1>3, <1>4

LEMMA BrkSeen ==
    ASSUME Inv, RInv, NEW p \in Procs, NEW n \in 0..HeapMax, Brk(p, n)
    PROVE  Private!Step \/ Mem' = Mem
<1>1. CASE Panic
  BY <1>1, PanicSeen
<1>2. CASE ~Panic
  <2>1. PICK new : new = [pages |-> 1..n, rw |-> TRUE, file |-> NoFile]
    OBVIOUS
  <2>2. /\ status[p] = "alive" /\ n \in 1..HeapMax
        /\ vmas' = [vmas EXCEPT ![p] = Append(@, new)]
        /\ UNCHANGED <<data, status, pte>>
    BY <1>2, <2>1, HeapMaxAssumption DEF Brk, Runs
  <2>3. 1..n \in SUBSET Heap
    BY <2>2, HeapMaxAssumption DEF Heap
  <2>4. new \in Vma /\ new.pages = 1..n /\ new.file = NoFile /\ vmas[p] \in Seq(Vma)
    BY <2>1, <2>3 DEF Vma, Pages, Inv, TypeOK
  <2>5. vmas'[p] = Append(vmas[p], new) /\ \A q \in Procs \ {p} : vmas'[q] = vmas[q]
    BY <2>2 DEF Inv, TypeOK
  <2>6. ASSUME NEW q \in Procs, NEW w \in Pages
        PROVE  Mem'[q][w] = IF q = p /\ w \in 1..n /\ Mem[q][w] = "nothing"
                            THEN "zero" ELSE Mem[q][w]
    <3>1. /\ Mem[q][w] = Cell(status[q], pte[q][w].frame, vmas[q], data, w)
          /\ Mem'[q][w] = Cell(status[q], pte[q][w].frame, vmas'[q], data, w)
      BY <2>2, MemIsCell
    <3>2. CASE q # p
      BY <2>5, <3>1, <3>2
    <3>3. CASE q = p /\ Mapped(p, w)
      <4>1. Mem'[q][w] = Mem[q][w]
        BY <2>2, <3>1, <3>3 DEF Cell, Mapped
      <4>2. Mem[q][w] # "nothing"
        BY <2>2, <3>3, CellOf
      <4> QED BY <4>1, <4>2
    <3>4. CASE q = p /\ ~Mapped(p, w)
      <4>1. FirstIn(Append(vmas[p], new), w) =
               IF FirstIn(vmas[p], w) = {} /\ w \in new.pages
               THEN {Len(vmas[p]) + 1} ELSE FirstIn(vmas[p], w)
        BY <2>4, AppendedArea
      <4>2. SearchVma(p, w) = FirstIn(vmas[p], w)
        BY SearchIsFirst
      <4>3. vmas'[p] \in Seq(Vma)
        BY <2>4, <2>5
      <4>4. pte[p][w].frame = NoFrame
        BY <3>4 DEF Mapped
      <4>5. \A i \in FirstIn(vmas'[p], w) :
               Cell("alive", pte[p][w].frame, vmas'[p], data, w) = Promised(vmas'[p][i], w)
        BY <4>3, <4>4, CellIsPromised
      <4>6. CASE FirstIn(vmas[p], w) = {} /\ w \in 1..n
        <5>1. FirstIn(vmas'[p], w) = {Len(vmas[p]) + 1}
          BY <2>4, <2>5, <4>1, <4>6
        <5>2. vmas'[p][Len(vmas[p]) + 1] = new
          BY <2>4, <2>5
        <5>3. Mem'[q][w] = "zero"
          BY <2>2, <2>4, <3>1, <3>4, <4>5, <5>1, <5>2 DEF Promised
        <5>4. Mem[q][w] = "nothing"
          BY <2>2, <3>4, <4>2, <4>6, CellOf
        <5> QED BY <3>4, <4>6, <5>3, <5>4
      <4>7. CASE FirstIn(vmas[p], w) = {} /\ w \notin 1..n
        <5>1. FirstIn(vmas'[p], w) = {}
          BY <2>4, <2>5, <4>1, <4>7
        <5>2. Mem'[q][w] = "nothing" /\ Mem[q][w] = "nothing"
          BY <2>2, <3>1, <3>4, <4>4, <4>7, <5>1 DEF Cell
        <5> QED BY <4>7, <5>2
      <4>8. CASE FirstIn(vmas[p], w) # {}
        <5>1. FirstIn(vmas'[p], w) = FirstIn(vmas[p], w)
          BY <2>4, <2>5, <4>1, <4>8
        <5>2. PICK i : i \in FirstIn(vmas[p], w)
          BY <4>8
        <5>3. i \in DOMAIN vmas[p]
          BY <5>2 DEF FirstIn
        <5>4. vmas'[p][i] = vmas[p][i]
          BY <2>4, <2>5, <5>3
        <5>5. Mem'[q][w] = Promised(vmas[p][i], w)
          BY <2>2, <3>1, <3>4, <4>5, <5>1, <5>2, <5>4
        <5>6. Mem[q][w] = Promised(vmas[p][i], w) /\ Mem[q][w] # "nothing"
          BY <2>2, <3>4, <4>2, <5>2, CellOf
        <5> QED BY <5>5, <5>6
      <4> QED BY <4>6, <4>7, <4>8
    <3> QED BY <3>2, <3>3, <3>4
  <2>7. \E v \in Pages : Mem[p][v] # "nothing"
    BY <2>2, AliveHasMemory
  <2> QED BY <2>3, <2>6, <2>7, MemGrow
<1> QED BY <1>1, <1>2

LEMMA ForkSeen ==
    ASSUME Inv, RInv, NEW p \in Procs, Fork(p)
    PROVE  Private!Step \/ Mem' = Mem
<1>1. CASE Panic
  BY <1>1, PanicSeen
<1>2. CASE ~Panic
  <2>1. PICK c, t : c = NextTask /\ t = GetFreePage
    OBVIOUS
  <2> DEFINE shared == [v \in Pages |-> SharedPte(p, v)]
  <2>2. /\ status[p] = "alive" /\ Unborn # {} /\ Free # {}
        /\ data' = [data EXCEPT ![t] = c]
        /\ status' = [status EXCEPT ![c] = "alive"]
        /\ vmas' = [vmas EXCEPT ![c] = vmas[p]]
        /\ pte' = [pte EXCEPT ![p] = shared, ![c] = shared]
    BY <1>2, <2>1 DEF Fork, Runs
  <2>3. c \in Procs /\ status[c] = "none"
    BY <2>1, <2>2 DEF NextTask, Unborn
  <2>4. t \in Frames /\ ref[t] = 0
    BY <2>1, <2>2, GetFreePageIsFree
  <2>5. \A v \in Pages : shared[v].frame = pte[p][v].frame
    BY DEF SharedPte
  <2> HIDE DEF shared
  <2>6. \A q \in Procs : /\ status'[q] = IF q = c THEN "alive" ELSE status[q]
                         /\ vmas'[q] = IF q = c THEN vmas[p] ELSE vmas[q]
                         /\ pte'[q] = IF q = c \/ q = p THEN shared ELSE pte[q]
    BY <2>2, <2>3 DEF Inv, TypeOK
  <2>7. ASSUME NEW q \in Procs, NEW w \in Pages
        PROVE  pte[q][w].frame # NoFrame => data'[pte[q][w].frame] = data[pte[q][w].frame]
    <3>1. pte[q][w].frame # t
      BY <2>4, FreeIsUnused, UsersLemma
    <3>2. pte[q][w].frame # NoFrame => pte[q][w].frame \in Frames
      BY NoFrameLemma DEF Mapped
    <3> QED BY <2>2, <3>1, <3>2 DEF Inv, TypeOK
  <2>8. ASSUME NEW q \in Procs, NEW w \in Pages
        PROVE  Mem'[q][w] = IF q = c THEN Mem[p][w] ELSE Mem[q][w]
    <3>1. PICK r \in Procs : r = IF q = c THEN p ELSE q
      OBVIOUS
    <3>2. PICK f : f = pte[r][w].frame
      OBVIOUS
    <3>3. status'[q] = status[r] /\ vmas'[q] = vmas[r] /\ pte'[q][w].frame = f
      <4>1. CASE q = c
        <5>1. r = p /\ status[p] = "alive"
          BY <2>2, <3>1, <4>1
        <5>2. status'[q] = "alive" /\ vmas'[q] = vmas[p] /\ pte'[q] = shared
          BY <2>3, <2>6, <4>1
        <5> QED BY <2>5, <3>2, <5>1, <5>2
      <4>2. CASE q # c /\ q = p
        BY <2>5, <2>6, <3>1, <3>2, <4>2
      <4>3. CASE q # c /\ q # p
        BY <2>6, <3>1, <3>2, <4>3
      <4> QED BY <4>1, <4>2, <4>3
    <3>4. f # NoFrame => data'[f] = data[f]
      BY <2>7, <3>2
    <3>5. Mem[r][w] = Cell(status[r], f, vmas[r], data, w)
      BY <3>2, MemIsCell
    <3>6. Mem'[q][w] = Cell(status[r], f, vmas[r], data', w)
      <4>1. Mem'[q][w] = Cell(status'[q], pte'[q][w].frame, vmas'[q], data', w)
        BY MemIsCell
      <4> QED BY <3>3, <4>1
    <3>7. Mem'[q][w] = Mem[r][w]
      BY <3>4, <3>5, <3>6 DEF Cell
    <3> QED BY <3>1, <3>7
  <2>9. \E v \in Pages : Mem[p][v] # "nothing"
    BY <2>2, AliveHasMemory
  <2>10. \A v \in Pages : Mem[c][v] = "nothing"
    <3> SUFFICES ASSUME NEW v \in Pages PROVE Mem[c][v] = "nothing"
      OBVIOUS
    <3>1. Mem[c][v] = Cell(status[c], pte[c][v].frame, vmas[c], data, v)
      BY <2>3, MemIsCell
    <3> QED BY <2>3, <3>1 DEF Cell
  <2> QED BY <2>3, <2>8, <2>9, <2>10, MemFork
<1> QED BY <1>1, <1>2

\* A new program shows its image, and the arguments in their page.
LEMMA ImageLemma ==
    ASSUME NEW p \in Procs, NEW v \in Pages, NEW f, NEW dt, f # NoFrame, dt[f] = "args"
    PROVE  Cell("alive", IF v = ArgPage THEN f ELSE NoFrame, ProgramVmas(p), dt, v) = ImageOf(v)
<1>1. ArgPage \in Stack
  BY SegmentsAssumption DEF ArgPage
<1>2. CASE v = ArgPage
  <2>1. ImageOf(v) = "args"
    BY <1>1, <1>2, SegmentsAssumption DEF ImageOf
  <2> QED BY <1>2, <2>1 DEF Cell
<1>3. CASE v # ArgPage
  <2>1. PICK s \in Seq(Vma) : s = ProgramVmas(p)
    BY ProgramVmasLemma
  <2>2. PICK g : g = NoFrame
    OBVIOUS
  <2>3. \A i \in FirstIn(s, v) : Cell("alive", g, s, dt, v) = Promised(s[i], v)
    BY <2>2, CellIsPromised
  <2>4. /\ s[1] = [pages |-> Text, rw |-> FALSE, file |-> p]
        /\ s[2] = [pages |-> Data \cup Bss, rw |-> TRUE, file |-> p]
        /\ s[3] = [pages |-> Stack, rw |-> TRUE, file |-> NoFile]
    BY <2>1 DEF ProgramVmas
  <2>5. /\ \A w \in Text : FirstIn(s, w) = {1}
        /\ \A w \in Data \cup Bss : FirstIn(s, w) = {2}
        /\ \A w \in Stack : FirstIn(s, w) = {3}
        /\ \A w \in Heap : FirstIn(s, w) = {}
    BY <2>1, ProgramSearch
  <2>6. p # NoFile
    BY NamesAssumption
  <2>7. Cell("alive", g, s, dt, v) = ImageOf(v)
    <3>1. CASE v \in Text
      <4>1. Cell("alive", g, s, dt, v) = Promised(s[1], v)
        BY <2>3, <2>5, <3>1
      <4> QED BY <1>3, <2>4, <2>6, <3>1, <4>1, SegmentsAssumption DEF Promised, ImageOf
    <3>2. CASE v \in Data \cup Bss
      <4>1. Cell("alive", g, s, dt, v) = Promised(s[2], v)
        BY <2>3, <2>5, <3>2
      <4> QED BY <1>3, <2>4, <2>6, <3>2, <4>1, SegmentsAssumption DEF Promised, ImageOf
    <3>3. CASE v \in Stack
      <4>1. Cell("alive", g, s, dt, v) = Promised(s[3], v)
        BY <2>3, <2>5, <3>3
      <4> QED BY <1>3, <2>4, <3>3, <4>1, SegmentsAssumption DEF Promised, ImageOf
    <3>4. CASE v \in Heap
      <4>1. Cell("alive", g, s, dt, v) = "nothing"
        BY <2>2, <2>5, <3>4 DEF Cell
      <4> QED BY <1>3, <3>4, <4>1, SegmentsAssumption DEF ImageOf
    <3> QED BY <3>1, <3>2, <3>3, <3>4 DEF Pages
  <2> QED BY <1>3, <2>1, <2>2, <2>7
<1> QED BY <1>2, <1>3

LEMMA ExecSeen ==
    ASSUME Inv, RInv, NEW p \in Procs, NEW v \in Pages, Exec(p, v)
    PROVE  Private!Step \/ Mem' = Mem
<1>1. CASE Panic
  BY <1>1, PanicSeen
<1>2. CASE ~Panic
  <2>1. PICK lost : lost = IF Mapped(p, v) \/ Free = {} THEN {} ELSE {GetFreePage}
    OBVIOUS
  <2>2. PICK f : f = CHOOSE x \in Free \ lost : \A y \in Free \ lost : x <= y
    OBVIOUS
  <2>3. /\ Free \ lost # {}
        /\ ref' = [g \in Frames |-> IF g = f \/ g \in lost THEN 1 ELSE ref[g]]
        /\ data' = [g \in Frames |->
              IF g = f THEN "args"
              ELSE IF g \in lost THEN Loaded(vmas[p][CHOOSE i \in SearchVma(p, v) : TRUE], v)
              ELSE data[g]]
        /\ pte' = [pte EXCEPT ![p] = ProgramPtes(ArgPage, f)]
        /\ vmas' = [vmas EXCEPT ![p] = ProgramVmas(p)]
        /\ UNCHANGED <<status, task, panicked>>
    <3>1. Free \ lost # {} /\ NewProgram(p, v, lost, f)
      BY <1>2, <2>1, <2>2, ExecEffect
    <3> QED BY <3>1 DEF NewProgram
  <2>0. status[p] = "alive"
    BY DEF Exec, Runs
  <2>4. \A g \in lost : g \in Frames /\ ref[g] = 0
    BY <2>1, GetFreePageIsFree
  <2>5. f \in Frames /\ ref[f] = 0 /\ f \notin lost
    <3>1. Free \ lost \subseteq 1..NFrames
      BY DEF Free, Frames
    <3>2. \E x \in Free \ lost : \A y \in Free \ lost : x <= y
      BY <2>3, <3>1, FirstExists, NFramesAssumption
    <3>3. f \in Free \ lost
      BY <2>2, <3>2
    <3> QED BY <3>3 DEF Free
  <2>6. data'[f] = "args" /\ \A g \in Frames : g # f /\ g \notin lost => data'[g] = data[g]
    BY <2>3, <2>5
  <2>7. /\ \A w \in Pages : pte'[p][w].frame = IF w = ArgPage THEN f ELSE NoFrame
        /\ vmas'[p] = ProgramVmas(p)
        /\ \A q \in Procs \ {p} : pte'[q] = pte[q] /\ vmas'[q] = vmas[q]
    BY <2>3 DEF Inv, TypeOK, ProgramPtes, NoPte
  <2>8. ASSUME NEW q \in Procs, NEW w \in Pages
        PROVE  Mem'[q][w] = IF q = p THEN ImageOf(w) ELSE Mem[q][w]
    <3>1. /\ Mem[q][w] = Cell(status[q], pte[q][w].frame, vmas[q], data, w)
          /\ Mem'[q][w] = Cell(status[q], pte'[q][w].frame, vmas'[q], data', w)
      BY <2>3, MemIsCell
    <3>2. CASE q = p
      <4>1. PICK dt : dt = data'
        OBVIOUS
      <4>2. f # NoFrame /\ dt[f] = "args"
        BY <2>5, <2>6, <4>1, NoFrameLemma
      <4>3. Cell("alive", IF w = ArgPage THEN f ELSE NoFrame, ProgramVmas(p), dt, w) = ImageOf(w)
        BY <4>2, ImageLemma
      <4>4. Mem'[q][w] = Cell("alive", IF w = ArgPage THEN f ELSE NoFrame,
                              ProgramVmas(p), dt, w)
        BY <2>0, <2>3, <2>7, <3>1, <3>2, <4>1
      <4> QED BY <3>2, <4>3, <4>4
    <3>3. CASE q # p
      <4>1. PICK g : g = pte[q][w].frame
        OBVIOUS
      <4>2. g # f /\ g \notin lost
        BY <2>4, <2>5, <4>1, FreeIsUnused, UsersLemma
      <4>3. g # NoFrame => data'[g] = data[g]
        BY <2>6, <4>1, <4>2, NoFrameLemma DEF Mapped
      <4>4. Mem'[q][w] = Cell(status[q], g, vmas[q], data', w)
        BY <2>7, <3>1, <3>3, <4>1
      <4> QED BY <3>1, <3>3, <4>1, <4>3, <4>4 DEF Cell
    <3> QED BY <3>2, <3>3
  <2>9. \E w \in Pages : Mem[p][w] # "nothing"
    BY <2>0, AliveHasMemory
  <2> QED BY <2>8, <2>9, MemExec
<1> QED BY <1>1, <1>2

\* The first shell is the first process of PrivateMemory.
LEMMA InitSeen == ASSUME Init PROVE Private!Init
<1>1. Shell \in Procs /\ 2 # NoFrame /\ 2 \in Frames
  BY ProcsAssumption, NFramesAssumption DEF Shell, NoFrame, Frames
<1>2. ASSUME NEW q \in Procs, NEW w \in Pages
      PROVE  Mem[q][w] = IF q = Shell THEN ImageOf(w) ELSE "nothing"
  <2>1. Mem[q][w] = Cell(status[q], pte[q][w].frame, vmas[q], data, w)
    BY MemIsCell
  <2>2. CASE q = Shell
    <3>1. PICK f : f = 2
      OBVIOUS
    <3>2. PICK dt : dt = data
      OBVIOUS
    <3>3. f # NoFrame /\ dt[f] = "args"
      BY <1>1, <3>1, <3>2 DEF Init
    <3>4. /\ status[q] = "alive" /\ vmas[q] = ProgramVmas(q)
          /\ pte[q][w].frame = IF w = ArgPage THEN f ELSE NoFrame
      BY <2>2, <3>1 DEF Init, ProgramPtes, NoPte
    <3>5. Cell("alive", IF w = ArgPage THEN f ELSE NoFrame, ProgramVmas(q), dt, w) = ImageOf(w)
      BY <3>3, ImageLemma
    <3>6. Mem[q][w] = Cell("alive", IF w = ArgPage THEN f ELSE NoFrame, ProgramVmas(q), dt, w)
      BY <2>1, <3>2, <3>4
    <3> QED BY <2>2, <3>5, <3>6
  <2>3. CASE q # Shell
    <3>1. status[q] = "none"
      BY <2>3 DEF Init
    <3> QED BY <2>1, <2>3, <3>1 DEF Cell
  <2> QED BY <2>2, <2>3
<1>3. Mem = [q \in Procs |-> IF q = Shell THEN [w \in Pages |-> ImageOf(w)]
                             ELSE [w \in Pages |-> "nothing"]]
  BY <1>2, MemIsFunction
<1>4. Freed = {}
  BY DEF Init, Freed
<1> QED BY <1>1, <1>3, <1>4 DEF Freed, Private!Init, Private!NoPages, Mem

\* Every step of a process is a step of PrivateMemory, or no process sees it.
LEMMA NextSeen ==
    ASSUME Inv, RInv, OnePlace, Next
    PROVE  \/ (Private!Step \/ Mem' = Mem) /\ Freed' = Freed
           \/ Mem' = Mem /\ \E p \in Procs : ~Private!Exists(p) /\ Freed' = Freed \cup {p}
<1>0. ASSUME NEW p \in Procs, ExitSt(p), status[p] = "alive" PROVE Freed' = Freed
  <2>1. \A q \in Procs : status'[q] = IF q = p THEN "zombie" ELSE status[q]
    BY <1>0 DEF ExitSt, Inv, TypeOK
  <2> QED BY <1>0, <2>1 DEF Freed
<1>2. ASSUME NEW p \in Procs, NEW v \in Pages, FaultNotPresent(p, v) \/ CopyFromUser(p, v)
      PROVE  (Private!Step \/ Mem' = Mem) /\ Freed' = Freed
  <2>1. Private!Step \/ Mem' = Mem
    BY <1>2, MapAPageSeen, PanicSeen, ExitStSeen DEF FaultNotPresent, CopyFromUser, Runs
  <2>2. Freed' = Freed
    BY <1>0, <1>2 DEF FaultNotPresent, CopyFromUser, MapAPage, Panic, Runs, Freed
  <2> QED BY <2>1, <2>2
<1>3. ASSUME NEW p \in Procs, NEW v \in Pages, FaultWrite(p, v) \/ Exec(p, v)
      PROVE  (Private!Step \/ Mem' = Mem) /\ Freed' = Freed
  <2>1. Private!Step \/ Mem' = Mem
    BY <1>3, FaultWriteSeen, ExecSeen
  <2>2. Freed' = Freed
    BY <1>0, <1>3 DEF FaultWrite, Exec, NewProgram, Panic, Runs, Freed
  <2> QED BY <2>1, <2>2
<1>4. ASSUME NEW p \in Procs, NEW v \in Pages, NEW d \in Writes, UserWrite(p, v, d)
      PROVE  (Private!Step \/ Mem' = Mem) /\ Freed' = Freed
  <2>1. Private!Step
    BY <1>4, StoreSeen DEF UserWrite, Runs
  <2> QED BY <1>4, <2>1 DEF UserWrite, Freed
<1>5. ASSUME NEW p \in Procs, NEW v \in Pages, NEW d \in KernelWrites, CopyFromKernel(p, v, d)
      PROVE  (Private!Step \/ Mem' = Mem) /\ Freed' = Freed
  <2>1. Private!Step \/ Mem' = Mem
    BY <1>5, CopyFromKernelSeen
  <2> QED BY <1>5, <2>1 DEF CopyFromKernel, Panic, Freed
<1>6. ASSUME NEW p \in Procs, NEW n \in 0..HeapMax, Brk(p, n)
      PROVE  (Private!Step \/ Mem' = Mem) /\ Freed' = Freed
  <2>1. Private!Step \/ Mem' = Mem
    BY <1>6, BrkSeen
  <2> QED BY <1>6, <2>1 DEF Brk, Panic, Freed
<1>7. ASSUME NEW p \in Procs, Fork(p) PROVE (Private!Step \/ Mem' = Mem) /\ Freed' = Freed
  <2>1. Private!Step \/ Mem' = Mem
    BY <1>7, ForkSeen
  <2>2. Freed' = Freed
    <3>1. CASE Panic
      BY <3>1 DEF Panic, Freed
    <3>2. CASE ~Panic
      <4>1. PICK c : c = NextTask
        OBVIOUS
      <4>2. Unborn # {} /\ status' = [status EXCEPT ![c] = "alive"]
        BY <1>7, <3>2, <4>1 DEF Fork
      <4>3. c \in Procs /\ status[c] = "none"
        BY <4>1, <4>2 DEF NextTask, Unborn
      <4>4. \A q \in Procs : status'[q] = IF q = c THEN "alive" ELSE status[q]
        BY <4>2, <4>3 DEF Inv, TypeOK
      <4> QED BY <4>3, <4>4 DEF Freed
    <3> QED BY <3>1, <3>2
  <2> QED BY <2>1, <2>2
<1>8. ASSUME NEW p \in Procs, Exit(p) PROVE (Private!Step \/ Mem' = Mem) /\ Freed' = Freed
  BY <1>0, <1>8, ExitStSeen DEF Exit, Runs
<1>9. ASSUME NEW p \in Procs, FreeProcess(p)
      PROVE  Mem' = Mem /\ ~Private!Exists(p) /\ Freed' = Freed \cup {p}
  <2>1. /\ status[p] = "zombie" /\ pte' = pte /\ vmas' = vmas /\ data' = data
        /\ \A q \in Procs : status'[q] = IF q = p THEN "freed" ELSE status[q]
    BY <1>9 DEF FreeProcess, Inv, TypeOK
  <2>2. ASSUME NEW q \in Procs, NEW w \in Pages PROVE Mem'[q][w] = Mem[q][w]
    <3>1. /\ Mem[q][w] = Cell(status[q], pte[q][w].frame, vmas[q], data, w)
          /\ Mem'[q][w] = Cell(status'[q], pte'[q][w].frame, vmas'[q], data', w)
      BY MemIsCell
    <3> QED BY <2>1, <3>1 DEF Cell
  <2>3. Mem[p] = [w \in Pages |-> "nothing"]
    BY <2>1 DEF Mem, View
  <2>4. Freed' = Freed \cup {p}
    BY <2>1 DEF Freed
  <2> QED BY <2>2, <2>3, <2>4, MemSame DEF Private!Exists, Private!NoPages, Mem
<1> QED BY <1>2, <1>3, <1>4, <1>5, <1>6, <1>7, <1>8, <1>9 DEF Next

LEMMA NextIsPrivate ==
    ASSUME Inv, RInv, OnePlace, [Next]_vars PROVE [Private!Next]_<<Mem, Freed>>
<1>1. CASE UNCHANGED vars
  <2>1. Mem' = Mem
    BY <1>1, NothingSeen DEF vars
  <2> QED BY <1>1, <2>1 DEF vars, Freed
<1>2. CASE Next
  BY <1>2, NextSeen DEF Private!Next, Private!GiveBack, Mem, Freed
<1> QED BY <1>1, <1>2

\* Demand paging, fork with copy-on-write, exec, brk and exit together give
\* every process a memory of its own, for any number of processes and frames
\* and for every history: what a program writes shows in its own memory only,
\* a child starts with a copy, and nothing else changes a page but the two
\* things PrivateMemory names, a store of the kernel into a page that is still
\* shared, and junk from the file in a page that nobody has written.
THEOREM MemoryIsPrivate == Spec => Refines
<1>1. Init => RInv /\ OnePlace /\ Private!Init
  BY InitRInv, InitPlace, InitSeen
<1>2. Inv /\ RInv /\ [Next]_vars => RInv'
  BY RInvNext
<1>3. Inv /\ OnePlace /\ [Next]_vars => OnePlace'
  BY PlaceNext
<1>4. Inv /\ RInv /\ OnePlace /\ [Next]_vars => [Private!Next]_<<Mem, Freed>>
  BY NextIsPrivate
<1> QED BY <1>1, <1>2, <1>3, <1>4, Invariance, PTL DEF Spec, Refines, Private!Spec, Mem, Freed

=============================================================================
