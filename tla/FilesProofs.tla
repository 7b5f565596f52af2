---------------------------- MODULE FilesProofs ----------------------------
(***************************************************************************)
(* The properties of Files hold for every archive, every number of         *)
(* processes and slots, and every path and size that programs use.         *)
(***************************************************************************)
EXTENDS Files, SequenceTheorems, WellFoundedInduction, TLAPS

(***************************************************************************)
(* The inductive invariant                                                 *)
(***************************************************************************)
Slots == [free : 0..1, type : {"FT_DIR", "FT_FILE"}, name : Seq(STRING) \cup {NoName},
          start : Nat, size : Nat, pos : Nat]
Helds == [open : BOOLEAN, own : BOOLEAN, path : Seq(STRING)]
Lists == [found : Seq(Nat), end : BOOLEAN]

VarsOK ==
    /\ tar \in Archives /\ alive \subseteq Procs
    /\ file_array \in [Procs -> [Fds -> Slots]]
    /\ held \in [Procs -> [Fds -> Helds]]
    /\ listed \in [Procs -> [Fds -> Lists]]
    /\ kpages \in 0..MaxPages /\ stuck \in BOOLEAN

\* The part of TypeOK that is about numbers.
SlotOK(s) ==
    /\ s.start <= Len(tar) + 1
    /\ s.size % BLOCK = 0
    /\ s.type = "FT_FILE" => s.pos <= s.size

\* A held descriptor has the slot that tarfs_open filled for its path; fork has
\* taken name and type from an inherited one.
HeldOK(s, h) ==
    h.open => /\ Exists(h.path) /\ IsSlotOf(s, h.path)
              /\ ~h.own => s.name = NoName /\ s.type = "FT_DIR"

\* The listing l of the directory dir when its next entry is sought from
\* header n on: it names in order what lies before n.
ListsUpTo(l, dir, n) ==
    /\ \A k \in DOMAIN l.found :
          /\ l.found[k] \in EntriesOf(dir) /\ l.found[k] < n
          /\ \A j \in 1..(k - 1) : l.found[j] < l.found[k]
    /\ \A i \in EntriesOf(dir) : i < n => \E k \in DOMAIN l.found : l.found[k] = i
    /\ l.end => \A i \in EntriesOf(dir) : i < n

\* A descriptor that its process opened itself has name and type too, and
\* getdents has told the program about it what it should.
OwnOK(s, h, l) ==
    h.open /\ h.own =>
        /\ s.name = h.path /\ s.type = Opened(h.path).type
        /\ s.type = "FT_FILE" => l = Unlisted
        /\ s.type = "FT_DIR" => ListsUpTo(l, h.path, s.start + s.pos)

Good(s, h, l) == SlotOK(s) /\ HeldOK(s, h) /\ OwnOK(s, h, l)

SlotsInv ==
    \A p \in Procs, fd \in Fds : Good(file_array[p][fd], held[p][fd], listed[p][fd])

Inv == VarsOK /\ SlotsInv

(***************************************************************************)
(* Padding, paths and the archive                                          *)
(***************************************************************************)
LEMMA Padded ==
    ASSUME NEW n \in Nat
    PROVE  Pad(n) \in Nat /\ Pad(n) % BLOCK = 0
<1>1. PICK k \in Nat : k = (n + BLOCK - 1) \div BLOCK
    BY BlockAssumption
<1>2. k * BLOCK \in Nat /\ (k * BLOCK) % BLOCK = 0
    BY BlockAssumption
<1>. QED
    BY <1>1, <1>2 DEF Pad

LEMMA TarTyped ==
    ASSUME tar \in Archives
    PROVE  /\ tar \in Seq(Headers) /\ Len(tar) \in Nat /\ DOMAIN tar = 1..Len(tar)
           /\ \A i \in DOMAIN tar :
                 /\ tar[i].path \in Seq(STRING) /\ tar[i].dir \in BOOLEAN
                 /\ tar[i].size \in Nat /\ tar[i].interp \in Seq(STRING)
<1>1. tar \in Seq(Headers)
    BY ArchivesAssumption
<1>2. Len(tar) \in Nat /\ DOMAIN tar = 1..Len(tar)
    BY <1>1
<1>3. ASSUME NEW i \in DOMAIN tar
      PROVE  tar[i] \in Headers
    BY <1>1, <1>2, ElementOfSeq
<1>. QED
    BY <1>1, <1>2, <1>3 DEF Headers

LEMMA ArchiveFacts ==
    ASSUME tar \in Archives, NEW i \in DOMAIN tar
    PROVE  /\ tar[i].path # Root /\ tar[i].path # NoName
           /\ \A j \in DOMAIN tar : tar[i].path = tar[j].path => i = j
           /\ Len(tar[i].path) > 1 => \E j \in 1..(i - 1) : tar[j].path = Front(tar[i].path)
    BY ArchivesAssumption

LEMMA LookupFinds ==
    ASSUME tar \in Archives, NEW path \in Seq(STRING), path # Root, Exists(path)
    PROVE  LET i == CHOOSE j \in Lookup(path) : TRUE IN
           i \in DOMAIN tar /\ tar[i].path = path
    BY DEF Exists, Lookup

\* What tarfs_open puts into a slot.
LEMMA OpenedSlot ==
    ASSUME tar \in Archives, NEW path \in Seq(STRING), Exists(path)
    PROVE  /\ Opened(path) \in Slots /\ SlotOK(Opened(path))
           /\ Opened(path).free = 1 /\ Opened(path).name = path /\ Opened(path).pos = 0
<1>1. CASE path = Root
  <2>1. /\ Opened(path) = [free |-> 1, type |-> "FT_DIR", name |-> Root, start |-> 1, size |-> 0, pos |-> 0]
        /\ Root \in Seq(STRING)
      BY <1>1 DEF Opened, Root
  <2>. QED
      BY <1>1, <2>1, TarTyped, BlockAssumption DEF Slots, SlotOK
<1>2. CASE path # Root
  <2>1. PICK i : i = CHOOSE j \in Lookup(path) : TRUE
      OBVIOUS
  <2>2. i \in 1..Len(tar) /\ Len(tar) \in Nat /\ tar[i].size \in Nat
      BY <1>2, <2>1, LookupFinds, TarTyped
  <2>3. Pad(tar[i].size) \in Nat /\ Pad(tar[i].size) % BLOCK = 0
      BY <2>2, Padded
  <2>4. Opened(path) =
           IF tar[i].dir
           THEN [free |-> 1, type |-> "FT_DIR", name |-> path, start |-> i + 1, size |-> 0, pos |-> 0]
           ELSE [free |-> 1, type |-> "FT_FILE", name |-> path, start |-> i,
                 size |-> Pad(tar[i].size), pos |-> 0]
      BY <1>2, <2>1 DEF Opened
  <2>. HIDE DEF Pad
  <2>. QED
      BY <2>2, <2>3, <2>4, BlockAssumption DEF Slots, SlotOK
<1>. QED
    BY <1>1, <1>2

\* traverse_tarfs, from the header behind the directory's own on, meets all
\* entries of the directory, and belongs_to_dir accepts just these.
LEMMA EntriesBelong ==
    ASSUME tar \in Archives, NEW dir \in Seq(STRING), Exists(dir), Opened(dir).type = "FT_DIR",
           NEW i \in DOMAIN tar
    PROVE  i \in EntriesOf(dir) <=> BelongsToDir(dir, tar[i].path) /\ i >= Opened(dir).start
<1>1. PICK path \in Seq(STRING) : path = tar[i].path
    BY TarTyped
<1>2. path # Root /\ Len(path) \in Nat /\ Len(path) > 0 /\ i \in Nat /\ i >= 1
    BY <1>1, TarTyped, ArchiveFacts DEF Root
<1>3. Front(path) \in Seq(STRING) /\ Len(Front(path)) = Len(path) - 1
  <2>1. PICK n \in Nat : n = Len(path) - 1
      BY <1>2
  <2>2. \A k \in 1..n : path[k] \in STRING
      BY <2>1, <1>2, ElementOfSeq
  <2>3. SubSeq(path, 1, n) \in Seq(STRING) /\ Len(SubSeq(path, 1, n)) = IF 1 <= n THEN n - 1 + 1 ELSE 0
      BY <2>2, SubSeqProperties
  <2>. QED
      BY <2>1, <2>3 DEF Front
<1>4. CASE dir = Root
  <2>1. Opened(dir).start = 1
      BY <1>4 DEF Opened
  <2>2. Len(path) = 1 <=> Front(path) = Root
      BY <1>2, <1>3, EmptySeq DEF Root
  <2>. QED
      BY <1>1, <1>2, <1>4, <2>1, <2>2 DEF EntriesOf, BelongsToDir
<1>5. CASE dir # Root
  <2>1. PICK h : h = CHOOSE j \in Lookup(dir) : TRUE
      OBVIOUS
  <2>2. h \in DOMAIN tar /\ tar[h].path = dir
      BY <1>5, <2>1, LookupFinds
  <2>3. Opened(dir).start = h + 1
      BY <1>5, <2>1 DEF Opened
  <2>4. dir # NoName /\ Len(dir) \in Nat /\ Len(dir) > 0
      BY <1>5, <2>2, ArchiveFacts DEF Root
  <2>5. SubSeq(dir, 1, Len(dir)) = dir
      BY <2>4
  <2>6. ASSUME Front(path) = dir
        PROVE  BelongsToDir(dir, path) /\ i >= h + 1
    <3>1. Len(dir) = Len(path) - 1 /\ SubSeq(path, 1, Len(dir)) = dir
        BY <1>2, <1>3, <2>6 DEF Front
    <3>2. BelongsToDir(dir, path)
        BY <1>2, <1>5, <2>4, <2>5, <3>1 DEF BelongsToDir, IsPrefix
    <3>3. PICK j \in 1..(i - 1) : tar[j].path = dir
        BY <1>1, <1>2, <2>4, <2>6, <3>1, ArchiveFacts
    <3>4. j \in DOMAIN tar
        BY <1>2, <3>3, TarTyped
    <3>5. j = h
        BY <2>2, <3>3, <3>4, ArchiveFacts
    <3>. QED
        BY <1>2, <3>2, <3>3, <3>5
  <2>7. ASSUME BelongsToDir(dir, path), i >= h + 1
        PROVE  Front(path) = dir
    <3>1. /\ Len(dir) <= Len(path) /\ Len(path) <= Len(dir) + 1
          /\ SubSeq(path, 1, Len(dir)) = dir
        BY <1>5, <2>5, <2>7 DEF BelongsToDir, IsPrefix
    <3>2. CASE Len(path) = Len(dir) + 1
        BY <2>4, <3>1, <3>2 DEF Front
    <3>3. CASE Len(path) = Len(dir)
      <4>1. path = dir
          BY <3>1, <3>3
      <4>2. i = h
          BY <1>1, <2>2, <4>1, ArchiveFacts
      <4>. QED
          BY <1>2, <2>7, <4>2
    <3>. QED
        BY <1>2, <2>4, <3>1, <3>2, <3>3
  <2>. QED
      BY <1>1, <1>2, <2>3, <2>6, <2>7 DEF EntriesOf
<1>. QED
    BY <1>4, <1>5

\* traverse_tarfs stops at an entry unless there is none.
LEMMA FirstInExists ==
    ASSUME NEW n \in Nat, NEW S \in SUBSET Nat, FirstIn(n, S) = {}
    PROVE  \A i \in S : i < n
<1>1. PICK T \in SUBSET Nat : T = {i \in S : i >= n}
    OBVIOUS
<1>2. SUFFICES ASSUME T # {}
               PROVE  FALSE
    BY <1>1
<1>3. \E i \in T : \A j \in T : ~(<<j, i>> \in OpToRel(<, Nat))
    BY <1>2, NatLessThanWellFounded, WFMin
<1>4. PICK i \in T : \A j \in T : ~(<<j, i>> \in OpToRel(<, Nat))
    BY <1>3
<1>5. ASSUME NEW j \in T
      PROVE  i <= j
  <2>1. i \in Nat /\ j \in Nat
      OBVIOUS
  <2>2. j < i => <<j, i>> \in OpToRel(<, Nat)
      BY <2>1 DEF OpToRel
  <2>3. ~(j < i)
      BY <1>4, <2>2, Zenon
  <2>. QED
      BY <2>1, <2>3
<1>6. i \in FirstIn(n, S)
    BY <1>1, <1>5 DEF FirstIn
<1>. QED
    BY <1>6

(***************************************************************************)
(* What the calls do to one slot                                           *)
(***************************************************************************)
LEMMA OpenSlot ==
    ASSUME tar \in Archives, NEW path \in Seq(STRING), Exists(path)
    PROVE  Good(Opened(path), [open |-> TRUE, own |-> TRUE, path |-> path], Unlisted)
<1>1. PICK s \in Slots : s = Opened(path)
    BY OpenedSlot
<1>2. SlotOK(s) /\ s.free = 1 /\ s.name = path /\ s.pos = 0
    BY <1>1, OpenedSlot
<1>3. ASSUME s.type = "FT_DIR"
      PROVE  ListsUpTo(Unlisted, path, s.start + s.pos)
  <2>1. s.start + s.pos = s.start /\ s.start \in Nat
      BY <1>2 DEF Slots
  <2>2. \A i \in EntriesOf(path) : i >= s.start /\ i \in Nat
      BY <1>1, <1>3, EntriesBelong, TarTyped DEF EntriesOf
  <2>3. \A i \in EntriesOf(path) : ~(i < s.start)
      BY <2>1, <2>2
  <2>. QED
      BY <2>1, <2>3 DEF ListsUpTo, Unlisted
<1>. QED
    BY <1>1, <1>2, <1>3 DEF Good, HeldOK, IsSlotOf, OwnOK

\* The slot of a new task_struct.
LEMMA ZeroSlot ==
    ASSUME tar \in Archives
    PROVE  FreeSlot \in Slots /\ SlotOK(FreeSlot)
    BY TarTyped, BlockAssumption DEF FreeSlot, Slots, SlotOK

LEMMA UnheldSlot ==
    ASSUME NEW s, SlotOK(s), NEW h \in Helds, ~h.open, NEW l
    PROVE  Good(s, h, l)
    BY DEF Good, HeldOK, IsSlotOf, OwnOK

LEMMA ReadSlot ==
    ASSUME NEW s \in Slots, NEW h \in Helds, NEW l, Good(s, h, l), NEW size \in Nat,
           s.type = "FT_FILE", NEW t, t = [s EXCEPT !.pos = @ + ReadAmount(s, size)]
    PROVE  t \in Slots /\ Good(t, h, l)
<1>1. s.pos \in Nat /\ s.size \in Nat /\ s.pos <= s.size
    BY DEF Slots, Good, SlotOK
<1>2. s.pos + ReadAmount(s, size) \in Nat /\ s.pos + ReadAmount(s, size) <= s.size
    BY <1>1 DEF ReadAmount
<1>3. t \in Slots
    BY <1>2 DEF Slots
<1>4. /\ t.free = s.free /\ t.type = s.type /\ t.name = s.name /\ t.start = s.start
      /\ t.size = s.size /\ t.pos = s.pos + ReadAmount(s, size)
    BY DEF Slots
<1>5. SlotOK(t)
    BY <1>2, <1>4 DEF Good, SlotOK
<1>6. HeldOK(t, h) /\ OwnOK(t, h, l)
    BY <1>4 DEF Good, HeldOK, IsSlotOf, OwnOK
<1>. QED
    BY <1>3, <1>5, <1>6 DEF Good

LEMMA FoundSlot ==
    ASSUME tar \in Archives, NEW s \in Slots, NEW h \in Helds, NEW l \in Lists, Good(s, h, l),
           s.type = "FT_DIR", NEW i \in DOMAIN tar, i >= s.start + s.pos,
           i \in NextEntry(s) \/ s.name = NoName,
           NEW t, t = [s EXCEPT !.pos = AfterEntry(s, i)],
           NEW m, m = [l EXCEPT !.found = Append(@, i)]
    PROVE  t \in Slots /\ m \in Lists /\ Good(t, h, m)
<1>1. i \in Nat /\ s.start \in Nat /\ s.pos \in Nat /\ AfterEntry(s, i) \in Nat
    BY TarTyped DEF Slots, AfterEntry
<1>2. t \in Slots
    BY <1>1 DEF Slots
<1>3. /\ t.free = s.free /\ t.type = s.type /\ t.name = s.name /\ t.start = s.start
      /\ t.size = s.size /\ t.start + t.pos = i + 1
    BY <1>1 DEF Slots, AfterEntry
<1>4. SlotOK(t) /\ HeldOK(t, h)
    BY <1>3 DEF Good, SlotOK, HeldOK, IsSlotOf
<1>5. l.found \in Seq(Nat)
    BY DEF Lists
<1>6. Append(l.found, i) \in Seq(Nat)
    BY <1>1, <1>5
<1>7. m \in Lists /\ m.found = Append(l.found, i) /\ m.end = l.end
    BY <1>6 DEF Lists
<1>8. ASSUME h.open, h.own
      PROVE  ListsUpTo(m, h.path, t.start + t.pos)
  <2>1. /\ h.path \in Seq(STRING) /\ Exists(h.path) /\ s.name = h.path
        /\ Opened(h.path).type = "FT_DIR" /\ Opened(h.path).start = s.start
        /\ ListsUpTo(l, h.path, s.start + s.pos)
      BY <1>8 DEF Good, HeldOK, IsSlotOf, OwnOK, Helds
  <2>2. s.name # NoName
    <3>1. CASE h.path = Root
        BY <2>1, <3>1 DEF Root, NoName
    <3>2. CASE h.path # Root
        BY <2>1, <3>2, LookupFinds, ArchiveFacts, ZenonT(60)
    <3>. QED
        BY <3>1, <3>2
  <2>3. i \in NextEntry(s)
      BY <2>2
  <2>4. /\ BelongsToDir(h.path, tar[i].path)
        /\ \A j \in DOMAIN tar :
              BelongsToDir(h.path, tar[j].path) /\ j >= s.start + s.pos => i <= j
      BY <2>1, <2>3 DEF NextEntry, FirstIn
  <2>5. i \in EntriesOf(h.path)
      BY <1>1, <2>1, <2>4, EntriesBelong
  <2>6. ASSUME NEW j \in EntriesOf(h.path)
        PROVE  j \in Nat /\ (j >= s.start + s.pos => i <= j)
    <3>1. j \in DOMAIN tar /\ j \in Nat
        BY TarTyped DEF EntriesOf
    <3>2. BelongsToDir(h.path, tar[j].path)
        BY <2>1, <3>1, EntriesBelong
    <3>. QED
        BY <2>4, <3>1, <3>2
  <2>7. PICK f \in Seq(Nat) : f = l.found
      BY <1>5
  <2>8. PICK n \in Nat : n = Len(f)
      OBVIOUS
  <2>9. PICK g : g = Append(f, i)
      OBVIOUS
  <2>10. /\ DOMAIN f = 1..n /\ DOMAIN g = 1..(n + 1) /\ g[n + 1] = i
         /\ \A k \in 1..n : g[k] = f[k] /\ f[k] \in Nat
      BY <1>1, <2>8, <2>9
  <2>11. /\ \A k \in 1..n :
               /\ f[k] \in EntriesOf(h.path) /\ f[k] < s.start + s.pos
               /\ \A j \in 1..(k - 1) : f[j] < f[k]
         /\ \A j \in EntriesOf(h.path) : j < s.start + s.pos => \E k \in 1..n : f[k] = j
         /\ l.end => \A j \in EntriesOf(h.path) : j < s.start + s.pos
      BY <2>1, <2>7, <2>10 DEF ListsUpTo
  <2>12. ASSUME NEW k \in 1..(n + 1)
         PROVE  /\ g[k] \in EntriesOf(h.path) /\ g[k] < i + 1
                /\ \A j \in 1..(k - 1) : g[j] < g[k]
    <3>1. CASE k = n + 1
      <4>1. ASSUME NEW j \in 1..n
            PROVE  g[j] < i
          BY <1>1, <2>10, <2>11
      <4>. QED
          BY <1>1, <2>5, <2>10, <3>1, <4>1
    <3>2. CASE k \in 1..n
      <4>1. g[k] = f[k] /\ f[k] \in Nat /\ f[k] < s.start + s.pos /\ f[k] \in EntriesOf(h.path)
          BY <2>10, <2>11, <3>2
      <4>2. ASSUME NEW j \in 1..(k - 1)
            PROVE  g[j] < g[k]
        <5>1. j \in 1..n
            BY <3>2
        <5>. QED
            BY <2>10, <2>11, <3>2, <4>1, <5>1
      <4>. QED
          BY <1>1, <4>1, <4>2
    <3>. QED
        BY <3>1, <3>2
  <2>13. ASSUME NEW j \in EntriesOf(h.path), j < i + 1
         PROVE  \E k \in 1..(n + 1) : g[k] = j
    <3>1. CASE j < s.start + s.pos
        BY <2>10, <2>11, <3>1
    <3>2. CASE ~(j < s.start + s.pos)
      <4>1. j = i
          BY <1>1, <2>6, <2>13, <3>2
      <4>. QED
          BY <2>10, <4>1
    <3>. QED
        BY <3>1, <3>2
  <2>14. ~l.end
      BY <1>1, <2>5, <2>11
  <2>15. m.found = g /\ DOMAIN g = 1..(n + 1) /\ ~m.end /\ t.start + t.pos = i + 1
      BY <1>3, <1>7, <2>7, <2>9, <2>10, <2>14
  <2>. QED
      BY <2>12, <2>13, <2>15 DEF ListsUpTo
<1>9. OwnOK(t, h, m)
    BY <1>3, <1>8 DEF Good, OwnOK
<1>. QED
    BY <1>2, <1>4, <1>7, <1>9 DEF Good

LEMMA EndSlot ==
    ASSUME tar \in Archives, NEW s \in Slots, NEW h \in Helds, NEW l \in Lists, Good(s, h, l),
           s.type = "FT_DIR", NextEntry(s) = {}, NEW m, m = [l EXCEPT !.end = TRUE]
    PROVE  m \in Lists /\ Good(s, h, m)
<1>1. m \in Lists /\ m.found = l.found /\ m.end = TRUE
    BY DEF Lists
<1>2. ASSUME h.open, h.own
      PROVE  ListsUpTo(m, h.path, s.start + s.pos)
  <2>1. /\ h.path \in Seq(STRING) /\ Exists(h.path) /\ s.name = h.path
        /\ Opened(h.path).type = "FT_DIR" /\ Opened(h.path).start = s.start
        /\ ListsUpTo(l, h.path, s.start + s.pos)
      BY <1>2 DEF Good, HeldOK, IsSlotOf, OwnOK, Helds
  <2>2. PICK n \in Nat : n = s.start + s.pos
      BY DEF Slots
  <2>3. PICK S : S = {i \in DOMAIN tar : BelongsToDir(h.path, tar[i].path)}
      OBVIOUS
  <2>4. \A i \in S : i < n
    <3>1. S \in SUBSET Nat
        BY <2>3, TarTyped
    <3>. QED
        BY <2>1, <2>2, <2>3, <3>1, FirstInExists DEF NextEntry
  <2>5. \A i \in EntriesOf(h.path) : i \in S
      BY <2>1, <2>3, EntriesBelong DEF EntriesOf
  <2>. QED
      BY <1>1, <2>1, <2>2, <2>4, <2>5 DEF ListsUpTo
<1>3. OwnOK(s, h, m)
    BY <1>2 DEF Good, OwnOK
<1>. QED
    BY <1>1, <1>3 DEF Good

LEMMA InheritedSlot ==
    ASSUME tar \in Archives, NEW s \in Slots, NEW h \in Helds, NEW l, Good(s, h, l), NEW m,
           NEW c, c = Inherited(s), NEW g, g = [h EXCEPT !.own = FALSE]
    PROVE  c \in Slots /\ g \in Helds /\ Good(c, g, m)
<1>1. g \in Helds /\ g.open = h.open /\ g.path = h.path /\ g.own = FALSE
    BY DEF Helds
<1>2. FreeSlot \in Slots /\ SlotOK(FreeSlot)
    BY ZeroSlot
<1>3. CASE s.free = 0
  <2>1. ~h.open
      BY <1>3 DEF Good, HeldOK, IsSlotOf
  <2>. QED
      BY <1>1, <1>2, <1>3, <2>1, UnheldSlot DEF Inherited
<1>4. CASE s.free # 0
  <2>1. c = [s EXCEPT !.name = NoName, !.type = "FT_DIR"] 
      BY <1>4 DEF Inherited
  <2>2. /\ c \in Slots /\ c.free = s.free /\ c.start = s.start /\ c.size = s.size
        /\ c.type = "FT_DIR" /\ c.name = NoName
      BY <2>1 DEF Slots
  <2>. QED
      BY <1>1, <2>2 DEF Good, SlotOK, HeldOK, IsSlotOf, OwnOK
<1>. QED
    BY <1>3, <1>4

(***************************************************************************)
(* The steps                                                               *)
(***************************************************************************)
LEMMA SameTar ==
    ASSUME tar' = tar, NEW s, NEW h, NEW l, Good(s, h, l)
    PROVE  Good(s, h, l)'
<1>1. EntriesOf(h.path)' = EntriesOf(h.path)
    BY DEF EntriesOf
<1>2. Exists(h.path)' = Exists(h.path) /\ Opened(h.path)' = Opened(h.path)
    BY DEF Exists, Opened, Lookup
<1>. QED
    BY <1>1, <1>2 DEF Good, SlotOK, HeldOK, IsSlotOf, OwnOK, ListsUpTo

LEMMA SlotStep ==
    ASSUME VarsOK', tar' = tar,
           \A p \in Procs, fd \in Fds : Good(file_array'[p][fd], held'[p][fd], listed'[p][fd])
    PROVE  Inv'
<1>1. ASSUME NEW p \in Procs, NEW fd \in Fds
      PROVE  (Good(file_array[p][fd], held[p][fd], listed[p][fd]))'
  <2>1. PICK s, h, l : s = file_array'[p][fd] /\ h = held'[p][fd] /\ l = listed'[p][fd]
      OBVIOUS
  <2>2. Good(s, h, l)'
      BY <2>1, SameTar
  <2>. QED
      BY <2>1, <2>2
<1>. QED
    BY <1>1 DEF Inv, SlotsInv

\* One slot changes, with what the program knows of it.
LEMMA OneSlot ==
    ASSUME Inv, NEW p \in Procs, NEW fd \in Fds,
           tar' = tar, alive' \subseteq Procs, kpages' \in 0..MaxPages, stuck' \in BOOLEAN,
           NEW s \in Slots, NEW h \in Helds, NEW l \in Lists, Good(s, h, l),
           file_array' = [file_array EXCEPT ![p][fd] = s],
           held' = [held EXCEPT ![p][fd] = h],
           listed' = [listed EXCEPT ![p][fd] = l]
    PROVE  Inv'
<1>1. VarsOK'
    BY DEF Inv, VarsOK
<1>2. ASSUME NEW q \in Procs, NEW g \in Fds
      PROVE  Good(file_array'[q][g], held'[q][g], listed'[q][g])
  <2>1. CASE q = p /\ g = fd
      BY <2>1 DEF Inv, VarsOK
  <2>2. CASE ~(q = p /\ g = fd)
    <3>1. /\ file_array'[q][g] = file_array[q][g]
          /\ held'[q][g] = held[q][g] /\ listed'[q][g] = listed[q][g]
        BY <2>2 DEF Inv, VarsOK
    <3>. QED
        BY <3>1 DEF Inv, SlotsInv
  <2>. QED
      BY <2>1, <2>2
<1>. QED
    BY <1>1, <1>2, SlotStep

\* The slots stay as they are.
LEMMA QuietStep ==
    ASSUME Inv, UNCHANGED <<tar, file_array, held, listed>>, alive' \subseteq Procs,
           kpages' \in 0..MaxPages, stuck' \in BOOLEAN
    PROVE  Inv'
<1>1. VarsOK'
    BY DEF Inv, VarsOK
<1>. QED
    BY <1>1, SlotStep DEF Inv, SlotsInv

LEMMA StuckInv ==
    ASSUME Inv, Stuck
    PROVE  Inv'
    BY QuietStep DEF Stuck, Inv, VarsOK

LEMMA ExitStInv ==
    ASSUME Inv, NEW p \in Procs, ExitSt(p)
    PROVE  Inv'
    BY QuietStep DEF ExitSt, Inv, VarsOK

\* The parts of one descriptor.
LEMMA SlotTyped ==
    ASSUME Inv, NEW p \in Procs, NEW fd \in Fds
    PROVE  /\ file_array[p][fd] \in Slots /\ held[p][fd] \in Helds /\ listed[p][fd] \in Lists
           /\ Good(file_array[p][fd], held[p][fd], listed[p][fd])
           /\ tar \in Archives /\ alive \subseteq Procs /\ kpages \in 0..MaxPages
           /\ stuck \in BOOLEAN
           /\ file_array[p][fd].free = 0 => ~held[p][fd].open
<1>1. /\ file_array[p][fd] \in Slots /\ held[p][fd] \in Helds /\ listed[p][fd] \in Lists
      /\ tar \in Archives /\ alive \subseteq Procs /\ kpages \in 0..MaxPages
      /\ stuck \in BOOLEAN
    BY DEF Inv, VarsOK
<1>2. Good(file_array[p][fd], held[p][fd], listed[p][fd])
    BY DEF Inv, SlotsInv
<1>. QED
    BY <1>1, <1>2 DEF Good, HeldOK, IsSlotOf

LEMMA SameHeld ==
    ASSUME Inv, NEW p \in Procs, NEW fd \in Fds
    PROVE  /\ held = [held EXCEPT ![p][fd] = held[p][fd]]
           /\ listed = [listed EXCEPT ![p][fd] = listed[p][fd]]
           /\ file_array = [file_array EXCEPT ![p][fd] = file_array[p][fd]]
    BY DEF Inv, VarsOK

LEMMA OpenInv ==
    ASSUME Inv, NEW p \in Procs, NEW path \in Paths, Open(p, path)
    PROVE  Inv'
<1>1. CASE NewFd(p) = {} /\ ExitSt(p)
    BY <1>1, ExitStInv
<1>2. ASSUME NEW fd \in NewFd(p),
             file_array' = [file_array EXCEPT ![p][fd] = Opened(path)],
             held' = [held EXCEPT ![p][fd] = [open |-> TRUE, own |-> TRUE, path |-> path]],
             listed' = [listed EXCEPT ![p][fd] = Unlisted],
             UNCHANGED <<tar, alive, cwd, kpages, stuck>>
      PROVE  Inv'
  <2>1. fd \in Fds /\ path \in Seq(STRING) /\ Exists(path)
      BY ProgramsAssumption DEF NewFd, FirstIn, Open
  <2>2. PICK s, h, l : /\ s = Opened(path) /\ h = [open |-> TRUE, own |-> TRUE, path |-> path]
                       /\ l = Unlisted
      OBVIOUS
  <2>3. tar \in Archives /\ alive \subseteq Procs /\ kpages \in 0..MaxPages /\ stuck \in BOOLEAN
      BY <2>1, SlotTyped
  <2>4. s \in Slots /\ h \in Helds /\ l \in Lists
      BY <2>1, <2>2, <2>3, OpenedSlot DEF Helds, Lists, Unlisted
  <2>5. Good(s, h, l)
      BY <2>1, <2>2, <2>3, OpenSlot
  <2>. QED
      BY <1>2, <2>1, <2>2, <2>3, <2>4, <2>5, OneSlot
<1>. QED
    BY <1>1, <1>2 DEF Open

LEMMA ReadInv ==
    ASSUME Inv, NEW p \in Procs, NEW fd \in Fds, NEW size \in ReadSizes, Read(p, fd, size)
    PROVE  Inv'
<1>1. PICK s \in Slots, h \in Helds, l \in Lists :
         s = file_array[p][fd] /\ h = held[p][fd] /\ l = listed[p][fd]
    BY SlotTyped
<1>2. CASE Stuck
    BY <1>2, StuckInv
<1>3. ASSUME s.type = "FT_FILE",
             file_array' = [file_array EXCEPT ![p][fd].pos = @ + ReadAmount(s, size)],
             UNCHANGED <<tar, alive, cwd, kpages, stuck, held, listed>>
      PROVE  Inv'
  <2>1. PICK t : t = [s EXCEPT !.pos = @ + ReadAmount(s, size)]
      OBVIOUS
  <2>2. file_array' = [file_array EXCEPT ![p][fd] = t]
      BY <1>1, <1>3, <2>1 DEF Inv, VarsOK
  <2>3. t \in Slots /\ Good(t, h, l)
      BY <1>1, <1>3, <2>1, SlotTyped, ReadSlot, ProgramsAssumption
  <2>4. held' = [held EXCEPT ![p][fd] = h] /\ listed' = [listed EXCEPT ![p][fd] = l]
      BY <1>1, <1>3, SameHeld
  <2>5. tar' = tar /\ alive' \subseteq Procs /\ kpages' \in 0..MaxPages /\ stuck' \in BOOLEAN
      BY <1>3, SlotTyped
  <2>. QED
      BY <2>2, <2>3, <2>4, <2>5, OneSlot
<1>. QED
    BY <1>1, <1>2, <1>3 DEF Read

LEMMA CloseInv ==
    ASSUME Inv, NEW p \in Procs, NEW fd \in Fds, Close(p, fd)
    PROVE  Inv'
<1>1. PICK s \in Slots, l \in Lists : s = file_array[p][fd] /\ l = listed[p][fd]
    BY SlotTyped
<1>2. PICK h : h = NotHeld
    OBVIOUS
<1>3. h \in Helds /\ ~h.open
    BY <1>2 DEF NotHeld, Helds, Root
<1>4. Good(s, h, l)
    BY <1>1, <1>3, SlotTyped, UnheldSlot DEF Good
<1>5. /\ held' = [held EXCEPT ![p][fd] = h] /\ listed' = [listed EXCEPT ![p][fd] = l]
      /\ file_array' = [file_array EXCEPT ![p][fd] = s]
    BY <1>1, <1>2, SameHeld DEF Close
<1>6. tar' = tar /\ alive' \subseteq Procs /\ kpages' \in 0..MaxPages /\ stuck' \in BOOLEAN
    BY SlotTyped DEF Close
<1>. QED
    BY <1>3, <1>4, <1>5, <1>6, OneSlot

LEMMA GetdentsInv ==
    ASSUME Inv, NEW p \in Procs, NEW fd \in Fds, Getdents(p, fd)
    PROVE  Inv'
<1>1. PICK s \in Slots, h \in Helds, l \in Lists :
         s = file_array[p][fd] /\ h = held[p][fd] /\ l = listed[p][fd]
    BY SlotTyped
<1>2. /\ Good(s, h, l) /\ tar \in Archives /\ alive \subseteq Procs /\ kpages \in 0..MaxPages
      /\ stuck \in BOOLEAN
    BY <1>1, SlotTyped
<1>3. CASE Stuck
    BY <1>3, StuckInv
<1>4. ASSUME s.type = "FT_DIR", NEW i \in DOMAIN tar, i >= s.start + s.pos,
             i \in NextEntry(s) \/ s.name = NoName,
             file_array' = [file_array EXCEPT ![p][fd].pos = AfterEntry(s, i)],
             listed' = [listed EXCEPT ![p][fd].found = Append(@, i)],
             UNCHANGED <<tar, alive, cwd, kpages, stuck, held>>
      PROVE  Inv'
  <2>1. PICK t, m : /\ t = [s EXCEPT !.pos = AfterEntry(s, i)]
                    /\ m = [l EXCEPT !.found = Append(@, i)]
      OBVIOUS
  <2>2. t \in Slots /\ m \in Lists /\ Good(t, h, m)
      BY <1>2, <1>4, <2>1, FoundSlot, SMTT(30)
  <2>3. /\ file_array' = [file_array EXCEPT ![p][fd] = t]
        /\ listed' = [listed EXCEPT ![p][fd] = m]
      BY <1>1, <1>4, <2>1 DEF Inv, VarsOK
  <2>4. held' = [held EXCEPT ![p][fd] = h]
      BY <1>1, <1>4, SameHeld
  <2>5. tar' = tar /\ alive' \subseteq Procs /\ kpages' \in 0..MaxPages /\ stuck' \in BOOLEAN
      BY <1>2, <1>4
  <2>. QED
      BY <2>2, <2>3, <2>4, <2>5, OneSlot
<1>5. ASSUME s.type = "FT_DIR", NextEntry(s) = {}, kpages < MaxPages, kpages' = kpages + 1,
             listed' = [listed EXCEPT ![p][fd].end = TRUE],
             UNCHANGED <<tar, alive, file_array, cwd, stuck, held>>
      PROVE  Inv'
  <2>1. PICK m : m = [l EXCEPT !.end = TRUE]
      OBVIOUS
  <2>2. m \in Lists /\ Good(s, h, m)
      BY <1>2, <1>5, <2>1, EndSlot
  <2>3. listed' = [listed EXCEPT ![p][fd] = m]
      BY <1>1, <1>5, <2>1 DEF Inv, VarsOK
  <2>4. /\ held' = [held EXCEPT ![p][fd] = h]
        /\ file_array' = [file_array EXCEPT ![p][fd] = s]
      BY <1>1, <1>5, SameHeld
  <2>5. kpages' \in 0..MaxPages
      BY <1>2, <1>5, ProgramsAssumption
  <2>. QED
      BY <1>2, <1>5, <2>2, <2>3, <2>4, <2>5, OneSlot, ZenonT(60)
<1>6. ASSUME NEW i \in NextEntry(s)
      PROVE  i \in DOMAIN tar /\ i >= s.start + s.pos
    BY DEF NextEntry, FirstIn
<1>7. ASSUME NEW i \in FirstIn(s.start + s.pos, {j \in DOMAIN tar : RootDirectory(j)})
      PROVE  i \in DOMAIN tar /\ i >= s.start + s.pos
    BY DEF FirstIn
<1>8. \/ Stuck
      \/ /\ s.type = "FT_DIR"
         /\ \E i \in DOMAIN tar :
               /\ i >= s.start + s.pos
               /\ i \in NextEntry(s) \/ s.name = NoName
               /\ file_array' = [file_array EXCEPT ![p][fd].pos = AfterEntry(s, i)]
               /\ listed' = [listed EXCEPT ![p][fd].found = Append(@, i)]
               /\ UNCHANGED <<tar, alive, cwd, kpages, stuck, held>>
      \/ /\ s.type = "FT_DIR"
         /\ NextEntry(s) = {} /\ kpages < MaxPages /\ kpages' = kpages + 1
         /\ listed' = [listed EXCEPT ![p][fd].end = TRUE]
         /\ UNCHANGED <<tar, alive, file_array, cwd, stuck, held>>
    BY <1>1, <1>6, <1>7, Zenon DEF Getdents
<1>. QED
    BY <1>3, <1>4, <1>5, <1>8

\* A free slot of p, which nobody holds.
LEMMA NewFdIsFree ==
    ASSUME Inv, NEW p \in Procs, NEW fd \in NewFd(p)
    PROVE  fd \in Fds /\ fd \in Nat /\ ~held[p][fd].open
<1>1. fd \in Fds /\ file_array[p][fd].free = 0
    BY DEF NewFd, FirstIn
<1>2. fd \in Nat
    BY <1>1, ProgramsAssumption DEF Fds, START_FD
<1>. QED
    BY <1>1, <1>2, SlotTyped

LEMMA ChdirInv ==
    ASSUME Inv, NEW p \in Procs, NEW path \in Paths, NEW up \in BOOLEAN, Chdir(p, path, up)
    PROVE  Inv'
<1>1. PICK to : to = IF up THEN Parent(path) ELSE path
    OBVIOUS
<1>2. to \in Seq(STRING)
  <2>1. path \in Seq(STRING)
      BY ProgramsAssumption
  <2>2. path # Root => Front(path) \in Seq(STRING)
    <3>1. PICK n \in Nat : n = Len(path)
        BY <2>1
    <3>2. \A k \in 1..(n - 1) : path[k] \in STRING
        BY <2>1, <3>1, ElementOfSeq
    <3>3. SubSeq(path, 1, n - 1) \in Seq(STRING)
        BY <3>2, SubSeqProperties
    <3>. QED
        BY <3>1, <3>3 DEF Front
  <2>3. Root \in Seq(STRING)
      BY DEF Root
  <2>. QED
      BY <1>1, <2>1, <2>2, <2>3 DEF Parent
<1>3. Exists(to)
    BY <1>1 DEF Chdir
<1>4. CASE NewFd(p) = {} /\ ExitSt(p)
    BY <1>4, ExitStInv
<1>5. ASSUME NEW fd \in NewFd(p),
             file_array' = [file_array EXCEPT ![p][fd] = Opened(to)],
             UNCHANGED <<tar, alive, kpages, stuck, held, listed>>
      PROVE  Inv'
  <2>1. fd \in Fds /\ ~held[p][fd].open
      BY NewFdIsFree
  <2>2. PICK s, h, l : s = Opened(to) /\ h = held[p][fd] /\ l = listed[p][fd]
      OBVIOUS
  <2>3. tar \in Archives /\ alive \subseteq Procs /\ kpages \in 0..MaxPages /\ stuck \in BOOLEAN
      BY <2>1, SlotTyped
  <2>4. s \in Slots /\ SlotOK(s) /\ h \in Helds /\ l \in Lists
      BY <1>2, <1>3, <2>1, <2>2, <2>3, OpenedSlot, SlotTyped
  <2>5. Good(s, h, l)
      BY <2>1, <2>2, <2>4, UnheldSlot
  <2>6. held' = [held EXCEPT ![p][fd] = h] /\ listed' = [listed EXCEPT ![p][fd] = l]
      BY <1>5, <2>1, <2>2, SameHeld
  <2>. QED
      BY <1>5, <2>1, <2>2, <2>3, <2>4, <2>5, <2>6, OneSlot
<1>. QED
    BY <1>1, <1>4, <1>5 DEF Chdir

\* exec fills one slot or two that nobody holds.
LEMMA ExecInv ==
    ASSUME Inv, NEW p \in Procs, NEW path \in Paths, Exec(p, path)
    PROVE  Inv'
<1>1. CASE ExecFails(p, path) /\ ExitSt(p)
    BY <1>1, ExitStInv
<1>2. ASSUME ~ExecFails(p, path), NEW i \in Lookup(path), NEW fd \in NewFd(p),
             UNCHANGED <<tar, alive, cwd, kpages, stuck, held, listed>>,
             \/ /\ tar[i].interp = NoName
                /\ file_array' = [file_array EXCEPT ![p][fd] = Opened(path)]
             \/ \E fd2 \in FreeAfter(p, fd) :
                   /\ tar[i].interp # NoName
                   /\ file_array' = [file_array EXCEPT ![p][fd] = Opened(path),
                                                       ![p][fd2] = Opened(tar[i].interp)]
      PROVE  Inv'
  <2>1. fd \in Fds /\ fd \in Nat /\ ~held[p][fd].open
      BY NewFdIsFree
  <2>2. tar \in Archives /\ alive \subseteq Procs /\ kpages \in 0..MaxPages /\ stuck \in BOOLEAN
      BY <2>1, SlotTyped
  <2>3. PICK s : s = Opened(path)
      OBVIOUS
  <2>4. s \in Slots /\ SlotOK(s)
    <3>1. path \in Seq(STRING) /\ Exists(path)
        BY <1>2, ProgramsAssumption DEF ExecFails
    <3>. QED
        BY <2>2, <2>3, <3>1, OpenedSlot
  <2>5. ASSUME NEW q \in Procs, NEW g \in Fds, NEW x \in Slots, SlotOK(x), ~held[q][g].open
        PROVE  Good(x, held[q][g], listed[q][g])
    <3>1. held[q][g] \in Helds
        BY SlotTyped
    <3>. QED
        BY <2>5, <3>1, UnheldSlot
  <2>6. CASE file_array' = [file_array EXCEPT ![p][fd] = s]
    <3>1. VarsOK'
        BY <1>2, <2>1, <2>4, <2>6 DEF Inv, VarsOK
    <3>2. ASSUME NEW q \in Procs, NEW g \in Fds
          PROVE  Good(file_array'[q][g], held'[q][g], listed'[q][g])
      <4>1. \/ file_array'[q][g] = file_array[q][g]
            \/ file_array'[q][g] = s /\ ~held[q][g].open
          BY <2>1, <2>6 DEF Inv, VarsOK
      <4>. QED
          BY <1>2, <2>4, <2>5, <4>1, SlotTyped
    <3>. QED
        BY <1>2, <3>1, <3>2, SlotStep
  <2>7. ASSUME NEW fd2 \in FreeAfter(p, fd), tar[i].interp # NoName,
               file_array' = [file_array EXCEPT ![p][fd] = Opened(path),
                                                ![p][fd2] = Opened(tar[i].interp)]
        PROVE  Inv'
    <3>1. fd2 \in Fds /\ ~held[p][fd2].open
      <4>1. fd2 \in Fds /\ file_array[p][fd2].free = 0
          BY DEF FreeAfter, FirstIn
      <4>. QED
          BY <4>1, SlotTyped
    <3>2. PICK x : x = Opened(tar[i].interp)
        OBVIOUS
    <3>3. x \in Slots /\ SlotOK(x)
      <4>1. tar[i].interp \in Seq(STRING)
          BY <2>2, TarTyped DEF Lookup
      <4>2. Exists(tar[i].interp)
          BY <1>2, <2>7 DEF ExecFails
      <4>. QED
          BY <2>2, <3>2, <4>1, <4>2, OpenedSlot
    <3>4. file_array' = [file_array EXCEPT ![p][fd] = s, ![p][fd2] = x]
        BY <2>3, <2>7, <3>2
    <3>5. VarsOK'
        BY <1>2, <2>1, <2>4, <3>1, <3>3, <3>4 DEF Inv, VarsOK
    <3>6. ASSUME NEW q \in Procs, NEW g \in Fds
          PROVE  Good(file_array'[q][g], held'[q][g], listed'[q][g])
      <4>1. \/ file_array'[q][g] = file_array[q][g]
            \/ file_array'[q][g] = s /\ ~held[q][g].open
            \/ file_array'[q][g] = x /\ ~held[q][g].open
          BY <2>1, <3>1, <3>4 DEF Inv, VarsOK
      <4>. QED
          BY <1>2, <2>4, <2>5, <3>3, <4>1, SlotTyped
    <3>. QED
        BY <1>2, <3>5, <3>6, SlotStep
  <2>. QED
      BY <1>2, <2>3, <2>6, <2>7
<1>. QED
    BY <1>1, <1>2 DEF Exec

LEMMA ForkInv ==
    ASSUME Inv, NEW p \in Procs, NEW c \in Procs, Fork(p, c)
    PROVE  Inv'
<1>1. /\ tar \in Archives /\ alive \subseteq Procs /\ kpages \in 0..MaxPages /\ stuck \in BOOLEAN
    BY DEF Inv, VarsOK
<1>2. ASSUME NEW fd \in Fds, NEW m
      PROVE  /\ Inherited(file_array[p][fd]) \in Slots
             /\ [held[p][fd] EXCEPT !.own = FALSE] \in Helds
             /\ Good(Inherited(file_array[p][fd]), [held[p][fd] EXCEPT !.own = FALSE], m)
  <2>1. PICK s \in Slots, h \in Helds, l \in Lists :
           s = file_array[p][fd] /\ h = held[p][fd] /\ l = listed[p][fd]
      BY SlotTyped
  <2>2. Good(s, h, l)
      BY <2>1, SlotTyped
  <2>. QED
      BY <1>1, <2>1, <2>2, InheritedSlot
<1>3. /\ file_array' = [file_array EXCEPT ![c] = [fd \in Fds |-> Inherited(file_array[p][fd])]]
      /\ held' = [held EXCEPT ![c] = [fd \in Fds |-> [held[p][fd] EXCEPT !.own = FALSE]]]
      /\ alive' = alive \cup {c} /\ UNCHANGED <<tar, kpages, stuck, listed>>
    BY DEF Fork
<1>4. VarsOK'
  <2>1. [fd \in Fds |-> Inherited(file_array[p][fd])] \in [Fds -> Slots]
      BY <1>2
  <2>2. [fd \in Fds |-> [held[p][fd] EXCEPT !.own = FALSE]] \in [Fds -> Helds]
      BY <1>2
  <2>3. file_array' \in [Procs -> [Fds -> Slots]]
      BY <1>3, <2>1 DEF Inv, VarsOK
  <2>4. held' \in [Procs -> [Fds -> Helds]]
      BY <1>3, <2>2 DEF Inv, VarsOK
  <2>. QED
      BY <1>1, <1>3, <2>3, <2>4 DEF Inv, VarsOK
<1>5. ASSUME NEW q \in Procs, NEW g \in Fds
      PROVE  Good(file_array'[q][g], held'[q][g], listed'[q][g])
  <2>1. CASE q = c
    <3>1. /\ file_array'[q][g] = Inherited(file_array[p][g])
          /\ held'[q][g] = [held[p][g] EXCEPT !.own = FALSE]
        BY <1>3, <2>1 DEF Inv, VarsOK
    <3>. QED
        BY <1>2, <3>1
  <2>2. CASE q # c
    <3>1. file_array'[q][g] = file_array[q][g] /\ held'[q][g] = held[q][g]
        BY <1>3, <2>2 DEF Inv, VarsOK
    <3>. QED
        BY <1>3, <3>1, SlotTyped
  <2>. QED
      BY <2>1, <2>2
<1>. QED
    BY <1>3, <1>4, <1>5, SlotStep

(***************************************************************************)
(* The theorems                                                            *)
(***************************************************************************)
LEMMA InitInv == Init => Inv
<1>. SUFFICES ASSUME Init
              PROVE  Inv
    OBVIOUS
<1>1. tar \in Archives
    BY DEF Init
<1>2. FreeSlot \in Slots /\ SlotOK(FreeSlot)
    BY <1>1, ZeroSlot
<1>3. NotHeld \in Helds /\ ~NotHeld.open /\ Unlisted \in Lists
    BY DEF NotHeld, Helds, Root, Unlisted, Lists
<1>4. VarsOK
  <2>1. alive \subseteq Procs
      BY ProgramsAssumption DEF Init
  <2>2. kpages \in 0..MaxPages
      BY ProgramsAssumption DEF Init
  <2>3. stuck \in BOOLEAN
      BY Zenon DEF Init
  <2>4. /\ file_array \in [Procs -> [Fds -> Slots]]
        /\ held \in [Procs -> [Fds -> Helds]]
        /\ listed \in [Procs -> [Fds -> Lists]]
      BY <1>2, <1>3 DEF Init
  <2>. QED
      BY <1>1, <2>1, <2>2, <2>3, <2>4 DEF VarsOK
<1>5. ASSUME NEW p \in Procs, NEW fd \in Fds
      PROVE  Good(file_array[p][fd], held[p][fd], listed[p][fd])
    BY <1>2, <1>3, UnheldSlot DEF Init
<1>. QED
    BY <1>4, <1>5 DEF Inv, SlotsInv

LEMMA StepInv == Inv /\ [Next]_vars => Inv'
<1>. SUFFICES ASSUME Inv, [Next]_vars
              PROVE  Inv'
    OBVIOUS
<1>1. CASE UNCHANGED vars
    BY <1>1, QuietStep DEF vars, Inv, VarsOK
<1>2. ASSUME NEW p \in Procs, NEW path \in Paths,
             Open(p, path) \/ Exec(p, path) \/ \E up \in BOOLEAN : Chdir(p, path, up)
      PROVE  Inv'
    BY <1>2, OpenInv, ExecInv, ChdirInv
<1>3. ASSUME NEW p \in Procs, NEW fd \in Fds,
             Close(p, fd) \/ Getdents(p, fd) \/ \E size \in ReadSizes : Read(p, fd, size)
      PROVE  Inv'
    BY <1>3, CloseInv, GetdentsInv, ReadInv
<1>4. ASSUME NEW p \in Procs, NEW c \in Procs, Fork(p, c)
      PROVE  Inv'
    BY <1>4, ForkInv
<1>. QED
    BY <1>1, <1>2, <1>3, <1>4 DEF Next

\* Every slot of every file_array stays inside the archive and its padded file,
\* a held descriptor keeps the slot tarfs_open filled, and what getdents has
\* told so far is what lies before the position of the descriptor.
THEOREM Invariance == Spec => []Inv
    BY InitInv, StepInv, PTL DEF Spec

\* TypeOK: no read leaves the padded content of its file, and no descriptor
\* starts behind the archive.
THEOREM TypeCorrect == Spec => []TypeOK
<1>1. ASSUME Inv, NEW p \in Procs, NEW fd \in Fds, NEW s, s = file_array[p][fd]
      PROVE  /\ s.free \in 0..1 /\ s.type \in {"FT_DIR", "FT_FILE"}
             /\ s.start \in 0..(Len(tar) + 1) /\ s.pos \in Nat
             /\ s.size \in Nat /\ s.size % BLOCK = 0
             /\ s.type = "FT_FILE" => s.pos <= s.size
  <2>1. s \in Slots /\ SlotOK(s) /\ Len(tar) \in Nat
      BY <1>1, SlotTyped, TarTyped DEF Good
  <2>. QED
      BY <2>1 DEF Slots, SlotOK
<1>2. Inv => TypeOK
    BY <1>1 DEF TypeOK, Inv, VarsOK
<1>. QED
    BY <1>2, Invariance, PTL

\* tarfs_open, chdir, exec and fork: a descriptor its process opened keeps its
\* file, name and type in a table that fills up; one that came through fork keeps
\* place and size and has lost name and type.  For any number of slots and
\* processes.
THEOREM DescriptorsKeepTheirFile == Spec => []HeldFdsKeepTheirFile
<1>1. Inv => HeldFdsKeepTheirFile
  <2>1. ASSUME Inv, NEW p \in Procs, NEW fd \in Fds, held[p][fd].open,
               NEW s \in Slots, s = file_array[p][fd], NEW h \in Helds, h = held[p][fd]
        PROVE  /\ IsSlotOf(s, h.path)
               /\ h.own => s.name = h.path /\ s.type = Opened(h.path).type
               /\ ~h.own => s.name = NoName /\ s.type = "FT_DIR"
    <3>1. HeldOK(s, h) /\ OwnOK(s, h, listed[p][fd])
        BY <2>1 DEF Inv, SlotsInv, Good
    <3>. QED
        BY <2>1, <3>1 DEF HeldOK, OwnOK
  <2>. QED
      BY <2>1, SlotTyped DEF HeldFdsKeepTheirFile
<1>. QED
    BY <1>1, Invariance, PTL

\* getdents: in every archive, a listing names the entries of its directory in
\* order, none twice, none skipped, none of another directory, and all of them
\* when it ends.
THEOREM ListingsAreExact == Spec => []ListingIsExact
<1>1. ASSUME Inv, NEW p \in Procs, NEW fd \in Fds, held[p][fd].open, held[p][fd].own,
             NEW l \in Lists, l = listed[p][fd], NEW dir, dir = held[p][fd].path
      PROVE  /\ \A k \in DOMAIN l.found :
                   /\ l.found[k] \in EntriesOf(dir)
                   /\ \A j \in 1..(k - 1) : l.found[j] < l.found[k]
             /\ \A i \in EntriesOf(dir) :
                   l.end \/ (\E k \in DOMAIN l.found : i < l.found[k])
                       => \E k \in DOMAIN l.found : l.found[k] = i
  <2>1. PICK s \in Slots, h \in Helds : s = file_array[p][fd] /\ h = held[p][fd]
      BY <1>1, SlotTyped
  <2>2. OwnOK(s, h, l) /\ tar \in Archives
      BY <1>1, <2>1, SlotTyped DEF Good
  <2>3. CASE s.type = "FT_FILE"
      BY <1>1, <2>1, <2>2, <2>3 DEF OwnOK, Unlisted
  <2>4. CASE s.type = "FT_DIR"
    <3>1. PICK n \in Nat : n = s.start + s.pos
        BY DEF Slots
    <3>2. ListsUpTo(l, dir, n)
        BY <1>1, <2>1, <2>2, <2>4, <3>1 DEF OwnOK
    <3>3. EntriesOf(dir) \subseteq Nat
        BY <2>2, TarTyped DEF EntriesOf
    <3>. QED
        BY <3>2, <3>3 DEF ListsUpTo
  <2>. QED
      BY <2>3, <2>4 DEF Slots
<1>2. Inv => ListingIsExact
    BY <1>1, SlotTyped DEF ListingIsExact
<1>. QED
    BY <1>2, Invariance, PTL

=============================================================================
