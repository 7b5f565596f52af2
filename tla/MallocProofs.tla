---------------------------- MODULE MallocProofs ----------------------------
(***************************************************************************)
(* The properties of Malloc hold for every heap, every chunk size and all  *)
(* sizes that programs ask for.                                            *)
(***************************************************************************)
EXTENDS Malloc, WellFoundedInduction, TLAPS

(***************************************************************************)
(* The inductive invariant                                                 *)
(***************************************************************************)
Tags == [size : 0..(MaxAddr + 8), alloc : 0..1]

\* What the header of a block says.
SizeAt(m, p)  == m[p - 4].size
AllocAt(m, p) == m[p - 4].alloc

BlockOK(m, brk, B, p) ==
    /\ p >= 8 /\ p % 8 = 0
    /\ SizeAt(m, p) >= 8 /\ SizeAt(m, p) % 8 = 0
    /\ p + SizeAt(m, p) \in B \cup {brk} /\ p + SizeAt(m, p) <= brk
    /\ m[p + SizeAt(m, p) - 8] = m[p - 4]

\* B are the blocks of the heap m: they follow one another, without a gap, from
\* the prologue to the break, where the epilogue is.
Tiled(m, brk, B) ==
    /\ m \in [Words -> Tags]
    /\ brk \in Words /\ brk % 8 = 0 /\ brk >= 16 /\ m[brk - 4] = PACK(0, 1)
    /\ B \subseteq Words /\ 8 \in B /\ SizeAt(m, 8) = 8 /\ AllocAt(m, 8) = 1
    /\ \A p \in B : BlockOK(m, brk, B, p)
    /\ \A q \in B \cup {brk} : q # 8 => \E p \in B : p + SizeAt(m, p) = q
    /\ \A p, q \in B : p < q => p + SizeAt(m, p) <= q

\* No two neighbours are free, except that bp may be one of them.
MergedExcept(m, brk, B, bp) ==
    \A p \in B :
        AllocAt(m, p) = 0 /\ p + SizeAt(m, p) # brk /\ p # bp /\ p + SizeAt(m, p) # bp
            => AllocAt(m, p + SizeAt(m, p)) = 1

\* What the program holds is what is allocated, and fits.
LiveOK(m, B, l) ==
    /\ \A p \in DOMAIN l : p \in B /\ p # 8 /\ AllocAt(m, p) = 1 /\ l[p] + 8 <= SizeAt(m, p)
    /\ \A p \in B : AllocAt(m, p) = 1 => p = 8 \/ p \in DOMAIN l

HeapOK(m, brk, B, l) == Tiled(m, brk, B) /\ MergedExcept(m, brk, B, 0) /\ LiveOK(m, B, l)

Inv ==
    /\ TypeOK
    /\ listp = NULL => mem = [a \in Words |-> Fresh] /\ curbrk = 0 /\ DOMAIN live = {}
    /\ listp # NULL => \E B : HeapOK(mem, curbrk, B, live)

(***************************************************************************)
(* Numbers and walks                                                       *)
(***************************************************************************)
\* A set of numbers has a smallest one.
LEMMA Smallest ==
    ASSUME NEW S \in SUBSET Nat, S # {}
    PROVE  \E x \in S : \A y \in S : x <= y
<1>1. \E x \in S : \A y \in S : ~(<<y, x>> \in OpToRel(<, Nat))
    BY NatLessThanWellFounded, WFMin
<1>2. PICK x \in S : \A y \in S : ~(<<y, x>> \in OpToRel(<, Nat))
    BY <1>1
<1>3. ASSUME NEW y \in S
      PROVE  x <= y
  <2>1. x \in Nat /\ y \in Nat
      OBVIOUS
  <2>2. y < x => <<y, x>> \in OpToRel(<, Nat)
      BY <2>1 DEF OpToRel
  <2>3. ~(y < x)
      BY <1>2, <2>2, Zenon
  <2>. QED
      BY <2>1, <2>3
<1>. QED
    BY <1>3

\* A bounded one has a largest one.
LEMMA Largest ==
    ASSUME NEW N \in Nat, NEW S \in SUBSET (0..N), S # {}
    PROVE  \E x \in S : \A y \in S : y <= x
<1>1. PICK T : T = {N - x : x \in S}
    OBVIOUS
<1>2. T \in SUBSET Nat /\ T # {}
  <2>1. \A x \in S : x \in 0..N
      OBVIOUS
  <2>2. \A x \in 0..N : N - x \in Nat
      OBVIOUS
  <2>. QED
      BY <1>1, <2>1, <2>2
<1>3. PICK t \in T : \A u \in T : t <= u
    BY <1>2, Smallest
<1>4. PICK x \in S : t = N - x
    BY <1>1
<1>5. ASSUME NEW y \in S
      PROVE  y <= x
  <2>1. N - y \in T
      BY <1>1
  <2>2. N - x <= N - y
      BY <1>3, <1>4, <2>1
  <2>. QED
      BY <2>2
<1>. QED
    BY <1>5

\* A walk that goes upward ends: the recursive functions of find_fit and of
\* Blocks exist.
IsWalk(g, D, Stop, val, comb, nxt) ==
    \A p \in D : g[p] = IF p \in Stop THEN val[p] ELSE comb[<<p, g[nxt[p]]>>]

Upward(D, Stop, nxt) == \A p \in D \ Stop : nxt[p] \in D /\ nxt[p] > p

LEMMA WalkExists ==
    ASSUME NEW N \in Nat, NEW D \in SUBSET (0..N), NEW U, NEW Stop \in SUBSET D,
           NEW val \in [D -> U], NEW comb \in [D \X U -> U],
           NEW nxt, Upward(D, Stop, nxt)
    PROVE  \E g \in [D -> U] : IsWalk(g, D, Stop, val, comb, nxt)
<1>. DEFINE From(k) == {p \in D : p >= k}
            Value(g, p) == IF p \in Stop THEN val[p] ELSE comb[<<p, g[nxt[p]]>>]
            Solves(g, k) == g \in [From(k) -> U] /\ \A p \in From(k) : g[p] = Value(g, p)
            Bad == {k \in 0..(N + 1) : ~\E g : Solves(g, k)}
<1>0. \A p \in D : p \in Nat /\ p <= N
    OBVIOUS
<1>1. N + 1 \notin Bad
  <2>1. From(N + 1) = {}
    <3>1. \A p \in D : ~(p >= N + 1)
        BY <1>0
    <3>. QED
        BY <3>1
  <2>2. Solves([p \in {} |-> val[p]], N + 1)
      BY <2>1
  <2>. QED
      BY <2>2
<1>2. Bad = {}
  <2>1. SUFFICES ASSUME Bad # {}
                 PROVE  FALSE
      OBVIOUS
  <2>2. PICK k \in Bad : \A j \in Bad : j <= k
    <3>1. Bad \in SUBSET (0..(N + 1)) /\ N + 1 \in Nat
        OBVIOUS
    <3>. HIDE DEF Bad
    <3>. QED
        BY <2>1, <3>1, Largest
  <2>3. k \in 0..N
    <3>1. k \in 0..(N + 1) /\ k # N + 1
        BY <1>1
    <3>. QED
        BY <3>1
  <2>4. k + 1 \in 0..(N + 1) /\ k + 1 \notin Bad
    <3>1. k + 1 \in 0..(N + 1) /\ ~(k + 1 <= k)
        BY <2>3
    <3>. HIDE DEF Bad
    <3>. QED
        BY <2>2, <3>1
  <2>5. PICK g : Solves(g, k + 1)
      BY <2>4
  <2>6. \A p \in From(k) : p = k \/ p \in From(k + 1)
      BY <1>0, <2>3
  <2>7. From(k + 1) \subseteq From(k) /\ k \notin From(k + 1)
    <3>1. \A p \in D : p >= k + 1 => p >= k
        BY <1>0, <2>3
    <3>2. ~(k >= k + 1)
        BY <2>3
    <3>. QED
        BY <3>1, <3>2
  <2>8. CASE k \in D
    <3>1. PICK h : h = [p \in From(k) |-> IF p = k THEN Value(g, k) ELSE g[p]]
        OBVIOUS
    <3>2. k \in From(k)
        BY <2>3, <2>8
    <3>3. \A p \in From(k) \ Stop : nxt[p] \in From(k + 1)
      <4>. TAKE p \in From(k) \ Stop
      <4>1. p \in Nat /\ p >= k /\ nxt[p] \in D /\ nxt[p] > p /\ nxt[p] \in Nat
          BY <1>0 DEF Upward
      <4>. QED
          BY <2>3, <4>1
    <3>4. Value(g, k) \in U
        BY <2>5, <2>8, <3>2, <3>3
    <3>5. h \in [From(k) -> U]
        BY <2>5, <2>6, <3>1, <3>4
    <3>6. \A p \in From(k + 1) : h[p] = g[p]
        BY <2>7, <3>1
    <3>7. ASSUME NEW p \in From(k)
          PROVE  h[p] = Value(h, p)
      <4>1. Value(h, p) = Value(g, p)
          BY <3>3, <3>6
      <4>2. CASE p = k
          BY <3>1, <4>1, <4>2
      <4>3. CASE p \in From(k + 1)
          BY <2>5, <3>6, <4>1, <4>3
      <4>. QED
          BY <2>6, <4>2, <4>3
    <3>8. Solves(h, k)
        BY <3>5, <3>7
    <3>. QED
        BY <3>8
  <2>9. CASE k \notin D
    <3>1. From(k) = From(k + 1)
        BY <2>6, <2>7, <2>9
    <3>2. Solves(g, k)
        BY <2>5, <3>1
    <3>. QED
        BY <3>2
  <2>. QED
      BY <2>8, <2>9
<1>3. PICK g : Solves(g, 0)
  <2>1. 0 \in 0..(N + 1)
      OBVIOUS
  <2>. QED
      BY <1>2, <2>1
<1>4. From(0) = D
  <2>1. \A p \in D : p >= 0
      BY <1>0
  <2>. QED
      BY <2>1
<1>. QED
    BY <1>3, <1>4 DEF IsWalk

(***************************************************************************)
(* Heaps                                                                   *)
(***************************************************************************)
LEMMA WordsFact ==
    \A a : a \in Words <=> a \in Int /\ 0 <= a /\ a <= MaxAddr /\ a % 4 = 0
BY RoomAssumption DEF Words, WSIZE

LEMMA Multiples ==
    ASSUME NEW a \in Int, NEW b \in Int, a % 8 = 0, b % 8 = 0
    PROVE  /\ (a + b) % 8 = 0 /\ (a - b) % 8 = 0 /\ (a - 8) % 4 = 0 /\ (a - 4) % 4 = 0
           /\ a % 4 = 0 /\ (a < b => a + 8 <= b)
OBVIOUS

LEMMA PackFact ==
    ASSUME NEW s, NEW a
    PROVE  /\ PACK(s, a).size = s /\ PACK(s, a).alloc = a
           /\ (s \in 0..(MaxAddr + 8) /\ a \in 0..1 => PACK(s, a) \in Tags)
BY DEF PACK, Tags

LEMMA PutFact ==
    ASSUME NEW m \in [Words -> Tags], NEW a \in Words, NEW t \in Tags
    PROVE  /\ PUT(m, a, t) \in [Words -> Tags] /\ PUT(m, a, t)[a] = t
           /\ \A w \in Words : w # a => PUT(m, a, t)[w] = m[w]
BY DEF PUT

LEMMA PutTwice ==
    ASSUME NEW m \in [Words -> Tags], NEW a \in Words, NEW b \in Words, NEW t \in Tags,
           NEW n, n = PUT(PUT(m, a, t), b, t)
    PROVE  /\ n \in [Words -> Tags] /\ n[a] = t /\ n[b] = t
           /\ \A w \in Words : w # a /\ w # b => n[w] = m[w]
<1>1. PICK k \in [Words -> Tags] : k = PUT(m, a, t)
    BY PutFact
<1>2. k[a] = t /\ \A w \in Words : w # a => k[w] = m[w]
    BY <1>1, PutFact
<1>3. n = PUT(k, b, t)
    BY <1>1
<1>4. n \in [Words -> Tags] /\ n[b] = t /\ \A w \in Words : w # b => n[w] = k[w]
    BY <1>3 DEF PUT
<1>. QED
    BY <1>2, <1>4

\* The blocks of a heap and their tags are where they can be read.
LEMMA BlockFact ==
    ASSUME NEW m, NEW brk, NEW B, Tiled(m, brk, B), NEW p \in B
    PROVE  /\ p \in Int /\ SizeAt(m, p) \in Int /\ AllocAt(m, p) \in 0..1 /\ brk \in Int
           /\ 8 <= p /\ p % 8 = 0 /\ p % 4 = 0 /\ p < brk /\ brk <= MaxAddr
           /\ brk % 8 = 0
           /\ SizeAt(m, p) >= 8 /\ SizeAt(m, p) % 8 = 0 /\ SizeAt(m, p) <= MaxAddr
           /\ p + SizeAt(m, p) \in B \cup {brk} /\ p + SizeAt(m, p) <= brk
           /\ m[p + SizeAt(m, p) - 8] = m[p - 4]
           /\ p - 4 \in Words /\ p + SizeAt(m, p) - 8 \in Words
           /\ m[p - 4] \in Tags /\ (p + SizeAt(m, p)) % 8 = 0
<1>1. BlockOK(m, brk, B, p) /\ p \in Words /\ brk \in Words /\ brk % 8 = 0 /\ m \in [Words -> Tags]
    BY DEF Tiled
<1>2. p \in Int /\ brk \in Int /\ brk <= MaxAddr /\ MaxAddr \in Int
    BY <1>1, WordsFact, RoomAssumption
<1>3. p >= 8 /\ p % 8 = 0
    BY <1>1 DEF BlockOK
<1>4. p < brk /\ p + SizeAt(m, p) <= brk
  <2>1. p - 4 \in Words
    <3>1. p <= MaxAddr
        BY <1>1, WordsFact
    <3>2. (p - 4) % 4 = 0
        BY <1>2, <1>3
    <3>. QED
        BY <1>2, <1>3, <3>1, <3>2, WordsFact
  <2>2. m[p - 4] \in Tags
      BY <1>1, <2>1
  <2>3. SizeAt(m, p) \in Int
      BY <2>2, <1>2 DEF Tags, SizeAt
  <2>4. SizeAt(m, p) >= 8 /\ p + SizeAt(m, p) <= brk
      BY <1>1 DEF BlockOK
  <2>. QED
      BY <1>2, <2>3, <2>4
<1>5. p - 4 \in Words /\ p % 4 = 0
  <2>1. p <= MaxAddr
      BY <1>1, WordsFact
  <2>2. (p - 4) % 4 = 0 /\ p % 4 = 0
      BY <1>2, <1>3
  <2>. QED
      BY <1>2, <1>3, <2>1, <2>2, WordsFact
<1>6. m[p - 4] \in Tags
    BY <1>1, <1>5
<1>7. SizeAt(m, p) \in Int /\ AllocAt(m, p) \in 0..1
    BY <1>6, <1>2 DEF Tags, SizeAt, AllocAt
<1>8. SizeAt(m, p) >= 8 /\ SizeAt(m, p) % 8 = 0 /\ p + SizeAt(m, p) \in B \cup {brk}
      /\ m[p + SizeAt(m, p) - 8] = m[p - 4]
    BY <1>1 DEF BlockOK
<1>9. (p + SizeAt(m, p)) % 8 = 0
    BY <1>2, <1>3, <1>7, <1>8, Multiples
<1>10. SizeAt(m, p) <= MaxAddr
    BY <1>2, <1>3, <1>4, <1>7
<1>11. p + SizeAt(m, p) - 8 \in Words
  <2>1. PICK e \in Int : e = p + SizeAt(m, p)
      BY <1>2, <1>7
  <2>2. e % 8 = 0 /\ e >= 8 /\ e <= MaxAddr
      BY <1>2, <1>3, <1>4, <1>7, <1>8, <1>9, <2>1
  <2>3. (e - 8) % 4 = 0 /\ e - 8 >= 0 /\ e - 8 <= MaxAddr /\ e - 8 \in Int
      BY <1>2, <2>2
  <2>4. e - 8 \in Words
      BY <2>3, WordsFact
  <2>5. p + SizeAt(m, p) - 8 = e - 8
      BY <1>2, <1>7, <2>1
  <2>. QED
      BY <2>4, <2>5
<1>. QED
    BY <1>1, <1>2, <1>3, <1>4, <1>5, <1>6, <1>7, <1>8, <1>9, <1>10, <1>11

\* So is a place where a block ends.
LEMMA EdgeFact ==
    ASSUME NEW m, NEW brk, NEW B, Tiled(m, brk, B), NEW e \in B \cup {brk}
    PROVE  e \in Int /\ e % 8 = 0 /\ e <= brk /\ brk \in Int
<1>1. brk \in Int /\ brk % 8 = 0
    BY WordsFact DEF Tiled
<1>2. CASE e \in B
  <2>1. e \in Int /\ e % 8 = 0 /\ e < brk
      BY <1>2, BlockFact
  <2>. QED
      BY <1>1, <2>1
<1>. QED
    BY <1>1, <1>2

\* Two blocks that end at the same place are one.
LEMMA SameEnd ==
    ASSUME NEW m, NEW brk, NEW B, Tiled(m, brk, B), NEW p \in B, NEW q \in B,
           p + SizeAt(m, p) = q + SizeAt(m, q)
    PROVE  p = q
<1>1. p < q => p + SizeAt(m, p) <= q
    BY DEF Tiled
<1>2. q < p => q + SizeAt(m, q) <= p
    BY DEF Tiled
<1>3. /\ p \in Int /\ q \in Int /\ SizeAt(m, p) \in Int /\ SizeAt(m, q) \in Int
      /\ SizeAt(m, p) >= 8 /\ SizeAt(m, q) >= 8
    BY BlockFact
<1>. QED
    BY <1>1, <1>2, <1>3

\* Writing one block over the blocks from f to e keeps the heap a heap,
\* whatever is left between the tags.
LEMMA Retagged ==
    ASSUME NEW m, NEW brk, NEW B, Tiled(m, brk, B),
           NEW f \in B, f # 8, NEW e \in B \cup {brk}, f < e,
           NEW a \in 0..1, NEW n \in [Words -> Tags],
           n[f - 4] = PACK(e - f, a), n[e - 8] = PACK(e - f, a),
           \A w \in Words : w < f - 4 \/ w >= e - 4 => n[w] = m[w],
           NEW C, C = {p \in B : p <= f \/ p >= e}
    PROVE  /\ Tiled(n, brk, C) /\ f \in C
           /\ SizeAt(n, f) = e - f /\ AllocAt(n, f) = a
           /\ \A p \in C : p # f => n[p - 4] = m[p - 4]
<1>1. /\ brk \in Words /\ brk % 8 = 0 /\ brk >= 16 /\ m[brk - 4] = PACK(0, 1)
      /\ B \subseteq Words /\ 8 \in B /\ SizeAt(m, 8) = 8 /\ AllocAt(m, 8) = 1
      /\ \A q \in B \cup {brk} : q # 8 => \E p \in B : p + SizeAt(m, p) = q
      /\ \A p, q \in B : p < q => p + SizeAt(m, p) <= q
      /\ brk \in Int
    BY WordsFact DEF Tiled
<1>2. /\ f \in Int /\ f % 8 = 0 /\ f >= 16 /\ f < brk
  <2>1. f \in Int /\ f % 8 = 0 /\ f >= 8 /\ f < brk
      BY BlockFact
  <2>. QED
      BY <2>1
<1>3. /\ e \in Int /\ e % 8 = 0 /\ e <= brk /\ e >= f + 8
  <2>1. e \in Int /\ e % 8 = 0 /\ e <= brk
      BY EdgeFact
  <2>2. f < e => f + 8 <= e
      BY <1>2, <2>1, Multiples
  <2>. QED
      BY <1>2, <2>1, <2>2
<1>4. SizeAt(n, f) = e - f /\ AllocAt(n, f) = a
    BY PackFact DEF SizeAt, AllocAt
<1>5. f \in C
    BY <1>2
<1>6. ASSUME NEW p \in C
      PROVE  /\ p \in B /\ p \in Int /\ SizeAt(m, p) \in Int /\ p >= 8 /\ p % 8 = 0
             /\ SizeAt(m, p) >= 8 /\ SizeAt(m, p) % 8 = 0 /\ (p <= f \/ p >= e)
             /\ p - 4 \in Words /\ p + SizeAt(m, p) - 8 \in Words
             /\ p + SizeAt(m, p) <= brk /\ p + SizeAt(m, p) \in B \cup {brk}
             /\ m[p + SizeAt(m, p) - 8] = m[p - 4]
    BY BlockFact
<1>7. ASSUME NEW p \in C, p # f
      PROVE  n[p - 4] = m[p - 4] /\ SizeAt(n, p) = SizeAt(m, p) /\ AllocAt(n, p) = AllocAt(m, p)
  <2>1. p - 4 \in Words /\ p \in Int /\ (p <= f \/ p >= e)
      BY <1>6
  <2>2. p - 4 < f - 4 \/ p - 4 >= e - 4
      BY <1>2, <1>3, <1>7, <2>1
  <2>. QED
      BY <2>1, <2>2 DEF SizeAt, AllocAt
<1>8. ASSUME NEW p \in C
      PROVE  BlockOK(n, brk, C, p)
  <2>1. CASE p = f
    <3>1. (e - f) % 8 = 0 /\ e - f >= 8 /\ f + (e - f) = e /\ e - f \in Int
        BY <1>2, <1>3, Multiples
    <3>2. e \in C \cup {brk}
        BY <1>3
    <3>. QED
        BY <1>2, <1>3, <1>4, <2>1, <3>1, <3>2 DEF BlockOK
  <2>2. CASE p # f
    <3>1. /\ n[p - 4] = m[p - 4] /\ SizeAt(n, p) = SizeAt(m, p)
        BY <1>7, <2>2
    <3>2. PICK s \in Int : s = p + SizeAt(m, p)
        BY <1>6
    <3>3. /\ p \in B /\ p \in Int /\ p >= 8 /\ (p <= f \/ p >= e) /\ s >= p + 8 /\ s <= brk
          /\ s \in B \cup {brk} /\ s - 8 \in Words /\ m[s - 8] = m[p - 4]
        BY <1>6, <3>2
    <3>4. p < f => s <= f
        BY <1>1, <3>2, <3>3
    <3>5. s <= f \/ s >= e + 8
        BY <1>2, <1>3, <2>2, <3>3, <3>4
    <3>6. s \in C \cup {brk}
        BY <1>2, <1>3, <3>3, <3>5
    <3>7. s - 8 < f - 4 \/ s - 8 >= e - 4
        BY <1>2, <1>3, <3>5
    <3>8. n[s - 8] = m[s - 8]
        BY <3>3, <3>7
    <3>. QED
        BY <1>6, <3>1, <3>2, <3>3, <3>6, <3>8 DEF BlockOK
  <2>. QED
      BY <2>1, <2>2
<1>9. ASSUME NEW q \in C \cup {brk}, q # 8
      PROVE  \E p \in C : p + SizeAt(n, p) = q
  <2>1. PICK p \in B : p + SizeAt(m, p) = q
      BY <1>1, <1>9
  <2>2. p \in Int /\ SizeAt(m, p) \in Int /\ SizeAt(m, p) >= 8 /\ p < brk /\ q <= brk /\ q \in Int
      BY <2>1, BlockFact
  <2>3. CASE q = e
      BY <1>2, <1>3, <1>4, <1>5, <2>3
  <2>4. CASE q # e
    <3>1. q <= f \/ q > e
      <4>1. q = brk \/ q <= f \/ q >= e
          OBVIOUS
      <4>. QED
          BY <1>1, <1>2, <1>3, <2>2, <2>4, <4>1
    <3>2. q <= f => p < f
        BY <1>2, <2>1, <2>2
    <3>3. q > e => p >= e
      <4>1. CASE e \in B
        <5>1. p < e => q <= e
            BY <1>1, <2>1, <4>1
        <5>. QED
            BY <1>3, <2>2, <5>1
      <4>2. CASE e = brk
          BY <1>1, <2>2, <4>2
      <4>. QED
          BY <4>1, <4>2
    <3>4. p \in C /\ p # f
        BY <1>2, <1>3, <2>2, <3>1, <3>2, <3>3
    <3>. QED
        BY <1>7, <2>1, <3>4
  <2>. QED
      BY <2>3, <2>4
<1>10. ASSUME NEW p \in C, NEW q \in C, p < q
       PROVE  p + SizeAt(n, p) <= q
  <2>1. p \in B /\ q \in B /\ p \in Int /\ q \in Int /\ (q <= f \/ q >= e)
      BY <1>6
  <2>2. CASE p = f
    <3>1. p + SizeAt(n, p) = e
        BY <1>2, <1>3, <1>4, <2>2
    <3>. QED
        BY <1>2, <1>3, <1>10, <2>1, <2>2, <3>1
  <2>3. CASE p # f
      BY <1>1, <1>7, <1>10, <2>1, <2>3
  <2>. QED
      BY <2>2, <2>3
<1>11. n[brk - 4] = PACK(0, 1)
  <2>1. brk - 4 \in Words
    <3>1. (brk - 4) % 4 = 0 /\ brk - 4 >= 0
        BY <1>1
    <3>2. brk <= MaxAddr
        BY <1>1, WordsFact
    <3>. QED
        BY <1>1, <3>1, <3>2, WordsFact, RoomAssumption
  <2>2. brk - 4 >= e - 4
      BY <1>1, <1>3
  <2>. QED
      BY <1>1, <2>1, <2>2
<1>12. 8 \in C /\ SizeAt(n, 8) = 8 /\ AllocAt(n, 8) = 1
  <2>1. 8 \in C
      BY <1>1, <1>2
  <2>. QED
      BY <1>1, <1>7, <2>1
<1>13. C \subseteq Words
    BY <1>1
<1>14. Tiled(n, brk, C)
    BY <1>1, <1>8, <1>9, <1>10, <1>11, <1>12, <1>13 DEF Tiled
<1>. QED
    BY <1>4, <1>5, <1>7, <1>14

\* The same for one block, which keeps its size: no block is lost.
LEMMA OneRetagged ==
    ASSUME NEW m, NEW brk, NEW B, Tiled(m, brk, B), NEW f \in B, f # 8,
           NEW s, s = SizeAt(m, f), NEW a \in 0..1, NEW n \in [Words -> Tags],
           n[f - 4] = PACK(s, a), n[f + s - 8] = PACK(s, a),
           \A w \in Words : w < f - 4 \/ w >= f + s - 4 => n[w] = m[w]
    PROVE  /\ Tiled(n, brk, B)
           /\ SizeAt(n, f) = s /\ AllocAt(n, f) = a
           /\ \A p \in B : p # f => n[p - 4] = m[p - 4]
<1>1. f \in Int /\ s \in Int /\ s >= 8 /\ f + s \in B \cup {brk}
    BY BlockFact
<1>2. PICK e \in B \cup {brk} : e = f + s
    BY <1>1
<1>3. e \in Int /\ f < e /\ e - f = s /\ f + s - 8 = e - 8 /\ f + s - 4 = e - 4
    BY <1>1, <1>2
<1>4. PICK C : C = {p \in B : p <= f \/ p >= e}
    OBVIOUS
<1>5. B = C
  <2>1. ASSUME NEW p \in B
        PROVE  p <= f \/ p >= e
    <3>1. p \in Int
        BY BlockFact
    <3>2. f < p => f + s <= p
        BY DEF Tiled
    <3>. QED
        BY <1>1, <1>2, <3>1, <3>2
  <2>. QED
      BY <1>4, <2>1
<1>6. n[f - 4] = PACK(e - f, a) /\ n[e - 8] = PACK(e - f, a)
    BY <1>3
<1>7. \A w \in Words : w < f - 4 \/ w >= e - 4 => n[w] = m[w]
    BY <1>3
<1>8. /\ Tiled(n, brk, C) /\ f \in C
      /\ SizeAt(n, f) = e - f /\ AllocAt(n, f) = a
      /\ \A p \in C : p # f => n[p - 4] = m[p - 4]
    BY <1>3, <1>4, <1>6, <1>7, Retagged
<1>. QED
    BY <1>3, <1>5, <1>8

\* A new block between the old break and the new one.
NewTags(m, brk, s, n) ==
    /\ n[brk - 4] = PACK(s, 0) /\ n[brk + s - 8] = PACK(s, 0)
    /\ n[brk + s - 4] = PACK(0, 1)
    /\ \A w \in Words : w < brk - 4 => n[w] = m[w]

LEMMA BlockAdded ==
    ASSUME NEW m, NEW brk, NEW B, Tiled(m, brk, B), NEW n \in [Words -> Tags],
           NEW s \in Int, s >= 8, s % 8 = 0, brk + s <= MaxAddr,
           NewTags(m, brk, s, n), NEW C, C = B \cup {brk}
    PROVE  /\ Tiled(n, brk + s, C)
           /\ SizeAt(n, brk) = s /\ AllocAt(n, brk) = 0 /\ brk \notin B
           /\ \A p \in B : n[p - 4] = m[p - 4]
<1>1. /\ brk \in Words /\ brk % 8 = 0 /\ brk >= 16
      /\ B \subseteq Words /\ 8 \in B /\ SizeAt(m, 8) = 8 /\ AllocAt(m, 8) = 1
      /\ \A q \in B \cup {brk} : q # 8 => \E p \in B : p + SizeAt(m, p) = q
      /\ \A p, q \in B : p < q => p + SizeAt(m, p) <= q
      /\ brk \in Int
    BY WordsFact DEF Tiled
<1>2. PICK e \in Int : e = brk + s
    BY <1>1
<1>3. /\ e % 8 = 0 /\ e >= 24 /\ e > brk /\ e <= MaxAddr
      /\ n[e - 8] = PACK(s, 0) /\ n[e - 4] = PACK(0, 1)
  <2>1. brk + s - 8 = e - 8 /\ brk + s - 4 = e - 4
      BY <1>1, <1>2
  <2>2. e % 8 = 0
      BY <1>1, <1>2, Multiples
  <2>3. n[e - 8] = PACK(s, 0) /\ n[e - 4] = PACK(0, 1)
      BY <2>1 DEF NewTags
  <2>. QED
      BY <1>1, <1>2, <2>2, <2>3
<1>4. SizeAt(n, brk) = s /\ AllocAt(n, brk) = 0 /\ n[brk - 4] = PACK(s, 0)
    BY PackFact DEF SizeAt, AllocAt, NewTags
<1>5. ASSUME NEW p \in B
      PROVE  /\ p \in Int /\ p >= 8 /\ p % 8 = 0 /\ SizeAt(m, p) \in Int
             /\ SizeAt(m, p) >= 8 /\ SizeAt(m, p) % 8 = 0 /\ p < brk
             /\ p + SizeAt(m, p) \in C /\ p + SizeAt(m, p) <= brk
             /\ m[p + SizeAt(m, p) - 8] = m[p - 4]
             /\ p - 4 \in Words /\ p + SizeAt(m, p) - 8 \in Words
    BY BlockFact
<1>6. ASSUME NEW p \in B
      PROVE  n[p - 4] = m[p - 4] /\ SizeAt(n, p) = SizeAt(m, p) /\ AllocAt(n, p) = AllocAt(m, p)
  <2>1. p - 4 \in Words /\ p - 4 < brk - 4
      BY <1>1, <1>5
  <2>. QED
      BY <2>1 DEF SizeAt, AllocAt, NewTags
<1>7. brk \notin B
  <2>1. brk \in B => brk < brk
      BY <1>5
  <2>. QED
      BY <1>1, <2>1
<1>8. ASSUME NEW p \in C
      PROVE  BlockOK(n, e, C, p)
  <2>1. CASE p = brk
      BY <1>1, <1>2, <1>3, <1>4, <2>1 DEF BlockOK
  <2>2. CASE p \in B
    <3>1. PICK t \in Int : t = p + SizeAt(m, p)
        BY <1>5, <2>2
    <3>2. /\ t \in C /\ t <= brk /\ t - 8 \in Words /\ t - 8 < brk - 4 /\ m[t - 8] = m[p - 4]
      <4>1. p + SizeAt(m, p) - 8 = t - 8
          BY <1>5, <2>2, <3>1
      <4>2. /\ t \in C /\ t <= brk /\ t - 8 \in Words /\ m[t - 8] = m[p - 4]
          BY <1>5, <2>2, <3>1, <4>1
      <4>3. t - 8 < brk - 4
          BY <1>1, <4>2
      <4>. QED
          BY <4>2, <4>3
    <3>3. n[t - 8] = m[t - 8]
        BY <3>2 DEF NewTags
    <3>4. t <= e
        BY <1>1, <1>3, <3>2
    <3>5. p + SizeAt(n, p) = t /\ p + SizeAt(n, p) - 8 = t - 8
        BY <1>5, <1>6, <2>2, <3>1
    <3>. QED
        BY <1>5, <1>6, <2>2, <3>2, <3>3, <3>4, <3>5 DEF BlockOK
  <2>. QED
      BY <2>1, <2>2
<1>9. ASSUME NEW q \in C \cup {e}, q # 8
      PROVE  \E p \in C : p + SizeAt(n, p) = q
  <2>1. CASE q = e
      BY <1>2, <1>4, <2>1
  <2>2. CASE q # e
      BY <1>1, <1>6, <1>9, <2>2
  <2>. QED
      BY <2>1, <2>2
<1>10. ASSUME NEW p \in C, NEW q \in C, p < q
       PROVE  p + SizeAt(n, p) <= q
  <2>1. CASE p = brk
    <3>1. q = brk \/ q < brk
        BY <1>5
    <3>2. q \in Int
        BY <1>1, <1>5
    <3>. QED
        BY <1>1, <1>10, <2>1, <3>1, <3>2
  <2>2. CASE p \in B /\ q = brk
      BY <1>5, <1>6, <2>2
  <2>3. CASE p \in B /\ q \in B
      BY <1>1, <1>6, <1>10, <2>3
  <2>. QED
      BY <2>1, <2>2, <2>3
<1>11. e \in Words
  <2>1. e % 4 = 0
      BY <1>3
  <2>. QED
      BY <1>3, <2>1, WordsFact
<1>12. 8 \in C /\ SizeAt(n, 8) = 8 /\ AllocAt(n, 8) = 1 /\ C \subseteq Words
    BY <1>1, <1>6
<1>13. Tiled(n, e, C)
  <2>1. e >= 16
      BY <1>3
  <2>. QED
      BY <1>3, <1>8, <1>9, <1>10, <1>11, <1>12, <2>1 DEF Tiled
<1>. QED
    BY <1>2, <1>4, <1>6, <1>7, <1>13

(***************************************************************************)
(* coalesce                                                                *)
(***************************************************************************)
\* What is allocated stays allocated, where it is; nothing else becomes so.
Keeps(m, B, n, C) ==
    /\ \A p \in B : AllocAt(m, p) = 1 => p \in C /\ n[p - 4] = m[p - 4]
    /\ \A p \in C : AllocAt(n, p) = 1 => p \in B /\ n[p - 4] = m[p - 4]

\* c is a free block of the heap n, of at least s bytes.
FreeBlock(n, C, c, s) == c \in C /\ c # 8 /\ AllocAt(n, c) = 0 /\ SizeAt(n, c) >= s

\* What coalesce does: q and x are the neighbours of bp, the merged block goes
\* from f to e.
MergedBlock(m, brk, B, bp, q, x, f, e) ==
    /\ q + SizeAt(m, q) = bp /\ x = bp + SizeAt(m, bp)
    /\ f = IF AllocAt(m, q) = 0 THEN q ELSE bp
    /\ x # brk /\ AllocAt(m, x) = 0 => x \in B /\ e = x + SizeAt(m, x)
    /\ ~(x # brk /\ AllocAt(m, x) = 0) => e = x
    /\ f # 8 /\ f <= bp /\ x <= e
    /\ Coalesce(m, bp) =
          [bp |-> f,
           mem |-> IF f # bp \/ e # x
                   THEN PUT(PUT(m, f - 4, PACK(e - f, 0)), e - 8, PACK(e - f, 0))
                   ELSE m]

LEMMA CoalesceIs ==
    ASSUME NEW m, NEW brk, NEW B, Tiled(m, brk, B), NEW bp \in B, bp # 8, AllocAt(m, bp) = 0
    PROVE  \E q \in B, x \in B \cup {brk}, f \in B, e \in B \cup {brk} :
              MergedBlock(m, brk, B, bp, q, x, f, e)
<1>1. PICK q \in B : q + SizeAt(m, q) = bp
    BY DEF Tiled
<1>2. /\ q \in Int /\ SizeAt(m, q) \in Int /\ SizeAt(m, q) >= 8 /\ m[q + SizeAt(m, q) - 8] = m[q - 4]
      /\ bp \in Int /\ SizeAt(m, bp) \in Int /\ SizeAt(m, bp) >= 8
      /\ bp + SizeAt(m, bp) \in B \cup {brk} /\ AllocAt(m, q) \in 0..1
    BY BlockFact
<1>3. PICK x \in B \cup {brk} : x = bp + SizeAt(m, bp)
    BY <1>2
<1>4. x \in Int
    BY <1>2, <1>3
<1>5. m[brk - 4] = PACK(0, 1) /\ AllocAt(m, 8) = 1
    BY DEF Tiled
<1>6. PICK nextFree \in BOOLEAN : nextFree = (m[x - 4].alloc = 0)
    OBVIOUS
<1>7. nextFree => x # brk /\ x \in B /\ AllocAt(m, x) = 0
  <2>1. m[brk - 4].alloc = 1
      BY <1>5, PackFact
  <2>2. nextFree => m[x - 4].alloc = 0
      BY <1>6
  <2>3. x = brk => m[x - 4].alloc # 0
      BY <2>1
  <2>. QED
      BY <2>2, <2>3, Zenon DEF AllocAt
<1>8. ~nextFree => ~(x # brk /\ AllocAt(m, x) = 0)
    BY <1>6 DEF AllocAt
<1>9. PICK e \in B \cup {brk} : e = IF nextFree THEN x + SizeAt(m, x) ELSE x
  <2>1. nextFree => x + SizeAt(m, x) \in B \cup {brk}
      BY <1>7, BlockFact
  <2>. QED
      BY <2>1
<1>10. nextFree => SizeAt(m, x) \in Int /\ SizeAt(m, x) >= 8
    BY <1>7, BlockFact
<1>11. PICK f \in B : f = IF AllocAt(m, q) = 0 THEN q ELSE bp
    OBVIOUS
<1>12. f # 8
    BY <1>5, <1>11
<1>13. f \in Int /\ e \in Int /\ f <= bp /\ x <= e /\ (nextFree <=> e # x)
       /\ (AllocAt(m, q) = 0 <=> f # bp)
  <2>1. e \in Int /\ x <= e /\ (nextFree <=> e # x)
      BY <1>4, <1>9, <1>10
  <2>2. f \in Int /\ f <= bp /\ (AllocAt(m, q) = 0 <=> f # bp)
      BY <1>1, <1>2, <1>11
  <2>. QED
      BY <2>1, <2>2
<1>14. m[bp - 8] = m[q - 4] /\ bp - 8 = q + SizeAt(m, q) - 8
  <2>1. q + SizeAt(m, q) - 8 = bp - 8
      BY <1>1, <1>2
  <2>. QED
      BY <1>2, <2>1
<1>15. PREV_BLKP(m, bp) = q
  <2>1. m[bp - 8].size = SizeAt(m, q)
      BY <1>14 DEF SizeAt
  <2>2. bp - SizeAt(m, q) = q
      BY <1>1, <1>2
  <2>. QED
      BY <2>1, <2>2 DEF PREV_BLKP, GET_SIZE, DSIZE
<1>16. NEXT_BLKP(m, bp) = x
  <2>1. bp + SizeAt(m, bp) - 8 + 8 = x
      BY <1>2, <1>3
  <2>. QED
      BY <2>1 DEF NEXT_BLKP, FTRP, GET_SIZE, DSIZE, HDRP, WSIZE, SizeAt
<1>17. /\ FTRP(m, q) = bp - 8 /\ FTRP(m, bp) = x - 8
       /\ (nextFree => FTRP(m, x) = e - 8)
  <2>1. q + SizeAt(m, q) - 8 = bp - 8 /\ bp + SizeAt(m, bp) - 8 = x - 8
      BY <1>1, <1>2, <1>3
  <2>2. nextFree => x + SizeAt(m, x) - 8 = e - 8
      BY <1>4, <1>9, <1>10
  <2>. QED
      BY <2>1, <2>2 DEF FTRP, GET_SIZE, DSIZE, HDRP, WSIZE, SizeAt
<1>18. (GET_ALLOC(m, FTRP(m, q)) = 0) <=> (AllocAt(m, q) = 0)
    BY <1>14, <1>17 DEF GET_ALLOC, AllocAt
<1>19. (GET_ALLOC(m, HDRP(x)) = 0) <=> nextFree
    BY <1>6 DEF GET_ALLOC, HDRP, WSIZE
<1>20. /\ GET_SIZE(m, HDRP(bp)) = SizeAt(m, bp) /\ GET_SIZE(m, HDRP(q)) = SizeAt(m, q)
       /\ GET_SIZE(m, HDRP(x)) = SizeAt(m, x)
    BY DEF GET_SIZE, HDRP, WSIZE, SizeAt
<1>21. SizeAt(m, bp) + (IF AllocAt(m, q) = 0 THEN SizeAt(m, q) ELSE 0)
                     + (IF nextFree THEN SizeAt(m, x) ELSE 0) = e - f
  <2>1. (IF AllocAt(m, q) = 0 THEN SizeAt(m, q) ELSE 0) = bp - f
      BY <1>1, <1>2, <1>11
  <2>2. (IF nextFree THEN SizeAt(m, x) ELSE 0) = e - x
      BY <1>4, <1>9, <1>10
  <2>3. SizeAt(m, bp) + (bp - f) + (e - x) = e - f
      BY <1>2, <1>3, <1>13
  <2>. QED
      BY <2>1, <2>2, <2>3
<1>22. FTRP(m, IF nextFree THEN x ELSE bp) = e - 8
    BY <1>9, <1>17
<1>23. HDRP(f) = f - 4
    BY DEF HDRP, WSIZE
<1>24. Coalesce(m, bp) =
          [bp |-> f,
           mem |-> IF f # bp \/ e # x
                   THEN PUT(PUT(m, f - 4, PACK(e - f, 0)), e - 8, PACK(e - f, 0))
                   ELSE m]
    BY <1>11, <1>13, <1>15, <1>16, <1>18, <1>19, <1>20, <1>21, <1>22, <1>23, Zenon DEF Coalesce
<1>25. /\ x # brk /\ AllocAt(m, x) = 0 => x \in B /\ e = x + SizeAt(m, x)
       /\ ~(x # brk /\ AllocAt(m, x) = 0) => e = x
    BY <1>7, <1>8, <1>9
<1>26. MergedBlock(m, brk, B, bp, q, x, f, e)
    BY <1>1, <1>3, <1>11, <1>12, <1>13, <1>24, <1>25 DEF MergedBlock
<1>. QED
    BY <1>26

\* coalesce leaves a heap without free neighbours, and a free block that
\* contains the one it was given.
LEMMA CoalesceMerges ==
    ASSUME NEW m, NEW brk, NEW B, Tiled(m, brk, B), NEW bp \in B, bp # 8, AllocAt(m, bp) = 0,
           MergedExcept(m, brk, B, bp),
           NEW c, c = Coalesce(m, bp)
    PROVE  \E C : /\ Tiled(c.mem, brk, C) /\ MergedExcept(c.mem, brk, C, 0)
                  /\ FreeBlock(c.mem, C, c.bp, SizeAt(m, bp))
                  /\ Keeps(m, B, c.mem, C)
<1>0. PICK q \in B, x \in B \cup {brk}, f \in B, e \in B \cup {brk} :
              MergedBlock(m, brk, B, bp, q, x, f, e)
    BY CoalesceIs
<1>1. /\ q + SizeAt(m, q) = bp /\ x = bp + SizeAt(m, bp)
      /\ f = IF AllocAt(m, q) = 0 THEN q ELSE bp
      /\ x # brk /\ AllocAt(m, x) = 0 => x \in B /\ e = x + SizeAt(m, x)
      /\ ~(x # brk /\ AllocAt(m, x) = 0) => e = x
      /\ f # 8 /\ f <= bp /\ x <= e
      /\ c = [bp |-> f,
              mem |-> IF f # bp \/ e # x
                      THEN PUT(PUT(m, f - 4, PACK(e - f, 0)), e - 8, PACK(e - f, 0))
                      ELSE m]
    BY <1>0 DEF MergedBlock
<1>2. PICK n : n = IF f # bp \/ e # x
                   THEN PUT(PUT(m, f - 4, PACK(e - f, 0)), e - 8, PACK(e - f, 0))
                   ELSE m
    OBVIOUS
<1>3. c.bp = f /\ c.mem = n
    BY <1>1, <1>2
<1>4. PICK C : C = {p \in B : p <= f \/ p >= e}
    OBVIOUS
<1>5. /\ m \in [Words -> Tags] /\ \A p, p2 \in B : p < p2 => p + SizeAt(m, p) <= p2
    BY DEF Tiled
<1>6. /\ bp \in Int /\ SizeAt(m, bp) \in Int /\ SizeAt(m, bp) >= 8 /\ bp % 8 = 0
      /\ q \in Int /\ SizeAt(m, q) \in Int /\ SizeAt(m, q) >= 8 /\ q < bp
      /\ f \in Int /\ f >= 8 /\ f % 8 = 0 /\ f - 4 \in Words /\ SizeAt(m, f) \in Int
      /\ brk \in Int /\ brk <= MaxAddr /\ brk % 8 = 0
      /\ m[bp - 4] \in Tags /\ m[bp + SizeAt(m, bp) - 8] = m[bp - 4] /\ MaxAddr \in Int
      /\ AllocAt(m, q) \in 0..1
  <2>1. /\ bp \in Int /\ SizeAt(m, bp) \in Int /\ SizeAt(m, bp) >= 8 /\ bp % 8 = 0
        /\ m[bp - 4] \in Tags /\ m[bp + SizeAt(m, bp) - 8] = m[bp - 4]
      BY BlockFact
  <2>2. q \in Int /\ SizeAt(m, q) \in Int /\ SizeAt(m, q) >= 8 /\ AllocAt(m, q) \in 0..1
      BY BlockFact
  <2>3. /\ f \in Int /\ f >= 8 /\ f % 8 = 0 /\ f - 4 \in Words /\ SizeAt(m, f) \in Int
        /\ brk \in Int /\ brk <= MaxAddr /\ brk % 8 = 0
      BY BlockFact
  <2>4. q < bp
      BY <1>1, <2>2
  <2>. QED
      BY <2>1, <2>2, <2>3, <2>4, RoomAssumption
<1>7. /\ x \in Int /\ x > bp /\ e \in Int /\ e > bp /\ f < e /\ e <= brk /\ e % 8 = 0
      /\ e >= f + 8 /\ e - 8 \in Words
  <2>1. x \in Int /\ x > bp
      BY <1>1, <1>6
  <2>2. e \in Int /\ e <= brk /\ e % 8 = 0
      BY EdgeFact
  <2>3. e > bp /\ f < e
      BY <1>1, <1>6, <2>1, <2>2
  <2>4. e >= f + 8
      BY <1>6, <2>2, <2>3, Multiples
  <2>5. e - 8 >= 0 /\ e - 8 <= MaxAddr /\ (e - 8) % 4 = 0
      BY <1>6, <2>2, <2>4
  <2>. QED
      BY <2>1, <2>2, <2>3, <2>4, <2>5, WordsFact
<1>8. PICK T : T = PACK(e - f, 0)
    OBVIOUS
<1>9. T \in Tags
  <2>1. e - f \in 0..(MaxAddr + 8)
      BY <1>6, <1>7
  <2>. QED
      BY <1>8, <2>1, PackFact
<1>10. /\ n \in [Words -> Tags] /\ n[f - 4] = T /\ n[e - 8] = T
       /\ \A w \in Words : w # f - 4 /\ w # e - 8 => n[w] = m[w]
  <2>1. CASE f # bp \/ e # x
    <3>1. PICK h \in Words, d \in Words : h = f - 4 /\ d = e - 8
        BY <1>6, <1>7
    <3>2. n = PUT(PUT(m, h, T), d, T)
        BY <1>2, <1>8, <2>1, <3>1
    <3>3. /\ n \in [Words -> Tags] /\ n[h] = T /\ n[d] = T
          /\ \A w \in Words : w # h /\ w # d => n[w] = m[w]
        BY <1>5, <1>9, <3>2, PutTwice
    <3>. QED
        BY <3>1, <3>3
  <2>2. CASE f = bp /\ e = x
    <3>1. n = m
        BY <1>2, <2>2
    <3>2. e - f = SizeAt(m, bp) /\ e - 8 = bp + SizeAt(m, bp) - 8
        BY <1>1, <1>6, <2>2
    <3>3. m[bp - 4] = PACK(SizeAt(m, bp), 0)
        BY <1>6 DEF Tags, PACK, SizeAt, AllocAt
    <3>. QED
        BY <1>5, <1>6, <1>8, <2>2, <3>1, <3>2, <3>3
  <2>. QED
      BY <2>1, <2>2
<1>11. \A w \in Words : w < f - 4 \/ w >= e - 4 => n[w] = m[w]
  <2>1. ASSUME NEW w \in Words, w < f - 4 \/ w >= e - 4
        PROVE  w # f - 4 /\ w # e - 8
      BY <1>6, <1>7, <2>1, WordsFact
  <2>. QED
      BY <1>10, <2>1
<1>12. /\ Tiled(n, brk, C) /\ f \in C
       /\ SizeAt(n, f) = e - f /\ AllocAt(n, f) = 0
       /\ \A p \in C : p # f => n[p - 4] = m[p - 4]
  <2>1. n[f - 4] = PACK(e - f, 0) /\ n[e - 8] = PACK(e - f, 0) /\ 0 \in 0..1
      BY <1>8, <1>10
  <2>. QED
      BY <1>1, <1>4, <1>7, <1>10, <1>11, <2>1, Retagged
<1>13. \A p \in C : p # f => SizeAt(n, p) = SizeAt(m, p) /\ AllocAt(n, p) = AllocAt(m, p)
    BY <1>12 DEF SizeAt, AllocAt
<1>14. e - f >= SizeAt(m, bp)
    BY <1>1, <1>6, <1>7
<1>15. FreeBlock(n, C, f, SizeAt(m, bp))
    BY <1>1, <1>12, <1>14 DEF FreeBlock
\* Blocks inside the merged one were free.
<1>16. AllocAt(m, f) = 0
    BY <1>1
<1>17. ASSUME NEW p \in B, p \notin C
       PROVE  AllocAt(m, p) = 0
  <2>1. p \in Int /\ f < p /\ p < e
    <3>1. p \in Int /\ ~(p <= f \/ p >= e)
        BY <1>4, <1>17, BlockFact
    <3>. QED
        BY <1>6, <1>7, <3>1
  <2>2. CASE p = bp
      BY <2>2
  <2>3. CASE p < bp
    <3>1. f = q
        BY <1>1, <1>6, <2>1, <2>3
    <3>2. q + SizeAt(m, q) <= p
        BY <1>5, <2>1, <3>1
    <3>. QED
        BY <1>1, <1>6, <2>1, <2>3, <3>2
  <2>4. CASE p > bp
    <3>1. x <= p
        BY <1>1, <1>5, <2>4
    <3>2. x # e
        BY <1>7, <2>1, <3>1
    <3>3. x \in B /\ AllocAt(m, x) = 0 /\ e = x + SizeAt(m, x)
        BY <1>1, <3>2
    <3>4. x < p => e <= p
        BY <1>5, <3>3
    <3>5. x = p
        BY <1>7, <2>1, <3>1, <3>4
    <3>. QED
        BY <3>3, <3>5
  <2>. QED
      BY <1>6, <2>1, <2>2, <2>3, <2>4
<1>18. Keeps(m, B, n, C)
  <2>1. ASSUME NEW p \in B, AllocAt(m, p) = 1
        PROVE  p \in C /\ n[p - 4] = m[p - 4]
      BY <1>12, <1>16, <1>17, <2>1
  <2>2. ASSUME NEW p \in C, AllocAt(n, p) = 1
        PROVE  p \in B /\ n[p - 4] = m[p - 4]
      BY <1>4, <1>12, <2>2
  <2>. QED
      BY <2>1, <2>2 DEF Keeps
<1>19. ASSUME NEW p \in C, AllocAt(n, p) = 0, p + SizeAt(n, p) # brk
       PROVE  AllocAt(n, p + SizeAt(n, p)) = 1
  <2>1. PICK s : s = p + SizeAt(n, p)
      OBVIOUS
  <2>2. s \in C /\ s # brk /\ s \in Int /\ p \in B /\ p \in Int /\ p < s /\ AllocAt(m, s) \in 0..1
    <3>1. /\ p + SizeAt(n, p) \in C \cup {brk} /\ p \in Int /\ SizeAt(n, p) \in Int
          /\ SizeAt(n, p) >= 8
        BY <1>12, BlockFact
    <3>2. s \in C /\ s # brk /\ s \in B /\ p \in B
        BY <1>4, <1>19, <2>1, <3>1
    <3>3. AllocAt(m, s) \in 0..1
        BY <3>2, BlockFact
    <3>. QED
        BY <2>1, <3>1, <3>2, <3>3
  <2>3. CASE p = f
    <3>1. s = e
        BY <1>6, <1>7, <1>12, <2>1, <2>3
    <3>2. CASE e = x
      <4>1. AllocAt(m, x) # 0
        <5>1. SizeAt(m, x) \in Int /\ SizeAt(m, x) >= 8
            BY <2>2, <3>1, <3>2, <1>4, BlockFact
        <5>2. x # x + SizeAt(m, x)
            BY <1>7, <5>1
        <5>. QED
            BY <1>1, <2>2, <3>1, <3>2, <5>2
      <4>2. AllocAt(n, s) = AllocAt(m, s) /\ AllocAt(m, s) = 1
        <5>1. s # f
            BY <1>7, <3>1
        <5>2. AllocAt(m, s) # 0
            BY <3>1, <3>2, <4>1
        <5>. QED
            BY <1>13, <2>2, <5>1, <5>2
      <4>. QED
          BY <2>1, <4>2
    <3>3. CASE e # x
      <4>1. x \in B /\ AllocAt(m, x) = 0 /\ e = x + SizeAt(m, x)
          BY <1>1, <3>3
      <4>2. x # bp /\ e # bp /\ e # brk
          BY <1>7, <2>2, <3>1
      <4>3. AllocAt(m, e) = 1
          BY <4>1, <4>2 DEF MergedExcept
      <4>4. s # f
          BY <1>7, <3>1
      <4>. QED
          BY <1>13, <2>1, <2>2, <3>1, <4>3, <4>4
    <3>. QED
        BY <3>2, <3>3
  <2>4. CASE p # f
    <3>1. s = p + SizeAt(m, p) /\ AllocAt(m, p) = 0
        BY <1>13, <1>19, <2>1, <2>4
    <3>2. p # bp
      <4>1. p <= f \/ p >= e
          BY <1>4
      <4>. QED
          BY <1>1, <1>6, <1>7, <2>2, <2>4, <4>1
    <3>3. CASE s = f
      <4>1. CASE f = bp
        <5>1. p = q
            BY <1>1, <2>2, <3>1, <3>3, <4>1, SameEnd
        <5>. QED
            BY <1>1, <1>6, <3>1, <4>1, <5>1
      <4>2. CASE f # bp
        <5>1. f = q /\ AllocAt(m, q) = 0
            BY <1>1, <4>2
        <5>2. AllocAt(m, s) = 1
            BY <2>2, <3>1, <3>2, <3>3, <4>2 DEF MergedExcept
        <5>. QED
            BY <3>3, <5>1, <5>2
      <4>. QED
          BY <4>1, <4>2
    <3>4. CASE s # f
      <4>1. s # bp
        <5>1. s <= f \/ s >= e
            BY <1>4, <2>2
        <5>. QED
            BY <1>1, <1>6, <1>7, <2>2, <3>4, <5>1
      <4>2. AllocAt(m, s) = 1
          BY <2>2, <3>1, <3>2, <4>1 DEF MergedExcept
      <4>. QED
          BY <1>13, <2>1, <2>2, <3>4, <4>2
    <3>. QED
        BY <3>3, <3>4
  <2>. QED
      BY <2>3, <2>4
<1>20. MergedExcept(n, brk, C, 0)
    BY <1>19 DEF MergedExcept
<1>. QED
    BY <1>3, <1>12, <1>15, <1>18, <1>20

(***************************************************************************)
(* extend_heap and minit                                                   *)
(***************************************************************************)
LEMMA KeepsTwice ==
    ASSUME NEW m, NEW B, NEW n, NEW C, NEW o, NEW D, Keeps(m, B, n, C), Keeps(n, C, o, D)
    PROVE  Keeps(m, B, o, D)
<1>1. ASSUME NEW p \in B, AllocAt(m, p) = 1
      PROVE  p \in D /\ o[p - 4] = m[p - 4]
  <2>1. p \in C /\ n[p - 4] = m[p - 4] /\ AllocAt(n, p) = 1
      BY <1>1 DEF Keeps, AllocAt
  <2>. QED
      BY <2>1 DEF Keeps
<1>2. ASSUME NEW p \in D, AllocAt(o, p) = 1
      PROVE  p \in B /\ o[p - 4] = m[p - 4]
  <2>1. p \in C /\ o[p - 4] = n[p - 4] /\ AllocAt(n, p) = 1
      BY <1>2 DEF Keeps, AllocAt
  <2>. QED
      BY <2>1 DEF Keeps
<1>. QED
    BY <1>1, <1>2 DEF Keeps

\* The tags that extend_heap writes before it merges.
LEMMA ExtendIs ==
    ASSUME NEW m \in [Words -> Tags], NEW brk \in Words, brk % 8 = 0, brk >= 16,
           NEW words \in Int, words % 2 = 0, words >= 4,
           NEW s \in Int, s = 4 * words, brk + s <= MaxAddr
    PROVE  \E n \in [Words -> Tags] :
              /\ NewTags(m, brk, s, n)
              /\ ExtendHeap(m, brk, words) =
                    [bp |-> Coalesce(n, brk).bp, mem |-> Coalesce(n, brk).mem, brk |-> brk + s]
<1>1. brk \in Int /\ MaxAddr \in Int /\ s % 8 = 0 /\ s >= 16
  <2>1. s % 8 = 0 /\ s >= 16
      OBVIOUS
  <2>. QED
      BY <2>1, WordsFact, RoomAssumption
<1>2. PICK h \in Words : h = brk - 4
  <2>1. (brk - 4) % 4 = 0 /\ brk - 4 >= 0 /\ brk - 4 <= MaxAddr
      BY <1>1
  <2>. QED
      BY <1>1, <2>1, WordsFact
<1>3. PICK e \in Int : e = brk + s
    BY <1>1
<1>4. e % 8 = 0 /\ e <= MaxAddr /\ e >= 32
  <2>1. e % 8 = 0
      BY <1>1, <1>3, Multiples
  <2>. QED
      BY <1>1, <1>3, <2>1
<1>5. PICK d \in Words : d = e - 8
  <2>1. (e - 8) % 4 = 0 /\ e - 8 >= 0 /\ e - 8 <= MaxAddr
      BY <1>1, <1>4
  <2>. QED
      BY <1>1, <2>1, WordsFact
<1>6. PICK b \in Words : b = e - 4
  <2>1. (e - 4) % 4 = 0 /\ e - 4 >= 0 /\ e - 4 <= MaxAddr
      BY <1>1, <1>4
  <2>. QED
      BY <1>1, <2>1, WordsFact
<1>7. h # d /\ h # b /\ d # b /\ h < d /\ h < b /\ h \in Int
    BY <1>1, <1>2, <1>3, <1>5, <1>6
<1>8. PICK t \in Tags : t = PACK(s, 0)
  <2>1. s \in 0..(MaxAddr + 8)
      BY <1>1
  <2>. QED
      BY <2>1, PackFact
<1>9. PICK u \in Tags : u = PACK(0, 1)
  <2>1. 0 \in 0..(MaxAddr + 8)
      BY <1>1
  <2>. QED
      BY <2>1, PackFact
<1>10. t.size = s
    BY <1>8, PackFact
<1>11. PICK m1 \in [Words -> Tags] : m1 = PUT(m, h, t)
    BY PutFact
<1>12. m1[h] = t /\ \A w \in Words : w # h => m1[w] = m[w]
    BY <1>11 DEF PUT
<1>13. FTRP(m1, brk) = d
  <2>1. m1[brk - 4].size = s
      BY <1>2, <1>10, <1>12
  <2>2. brk + s - 8 = d
      BY <1>1, <1>3, <1>5
  <2>. QED
      BY <2>1, <2>2 DEF FTRP, GET_SIZE, HDRP, WSIZE, DSIZE
<1>14. PICK m2 \in [Words -> Tags] : m2 = PUT(m1, d, t)
    BY PutFact
<1>15. m2[d] = t /\ \A w \in Words : w # d => m2[w] = m1[w]
    BY <1>14 DEF PUT
<1>16. HDRP(NEXT_BLKP(m2, brk)) = b
  <2>1. m2[brk - 4].size = s
      BY <1>2, <1>7, <1>10, <1>12, <1>15
  <2>2. (brk + s - 8) + 8 - 4 = b
      BY <1>1, <1>3, <1>6
  <2>. QED
      BY <1>1, <2>1, <2>2 DEF HDRP, NEXT_BLKP, FTRP, GET_SIZE, WSIZE, DSIZE
<1>17. PICK n \in [Words -> Tags] : n = PUT(m2, b, u)
    BY PutFact
<1>18. n[b] = u /\ \A w \in Words : w # b => n[w] = m2[w]
    BY <1>17 DEF PUT
<1>19. n[h] = t /\ n[d] = t /\ n[b] = u
    BY <1>7, <1>12, <1>15, <1>18
<1>20. ASSUME NEW w \in Words, w < brk - 4
       PROVE  n[w] = m[w]
  <2>1. w # h /\ w # d /\ w # b
      BY <1>2, <1>7, <1>20, WordsFact
  <2>. QED
      BY <2>1, <1>12, <1>15, <1>18
<1>21. words % 2 # 1 /\ words * WSIZE = s
    BY DEF WSIZE
<1>22. SbrkOk(brk, s)
    BY DEF SbrkOk
<1>23. HDRP(brk) = h
    BY <1>2 DEF HDRP, WSIZE
<1>24. ExtendHeap(m, brk, words) =
          [bp |-> Coalesce(n, brk).bp, mem |-> Coalesce(n, brk).mem, brk |-> brk + s]
    BY <1>8, <1>9, <1>11, <1>13, <1>14, <1>16, <1>17, <1>21, <1>22, <1>23, Zenon DEF ExtendHeap
<1>25. brk + s - 8 = d /\ brk + s - 4 = b
    BY <1>1, <1>3, <1>5, <1>6
<1>26. NewTags(m, brk, s, n)
    BY <1>2, <1>8, <1>9, <1>19, <1>20, <1>25 DEF NewTags
<1>. QED
    BY <1>24, <1>26

\* The new block is merged with what is free below it.
LEMMA ExtendTiles ==
    ASSUME NEW m, NEW brk, NEW B, Tiled(m, brk, B), MergedExcept(m, brk, B, 0),
           NEW n \in [Words -> Tags], NEW s \in Int, s >= 8, s % 8 = 0, brk + s <= MaxAddr,
           NewTags(m, brk, s, n), NEW c, c = Coalesce(n, brk)
    PROVE  \E C : /\ Tiled(c.mem, brk + s, C) /\ MergedExcept(c.mem, brk + s, C, 0)
                  /\ FreeBlock(c.mem, C, c.bp, s) /\ Keeps(m, B, c.mem, C)
<1>1. brk \in Int /\ brk >= 16
    BY WordsFact DEF Tiled
<1>2. PICK D : D = B \cup {brk}
    OBVIOUS
<1>3. /\ Tiled(n, brk + s, D)
      /\ SizeAt(n, brk) = s /\ AllocAt(n, brk) = 0 /\ brk \notin B
      /\ \A p \in B : n[p - 4] = m[p - 4]
    BY <1>2, BlockAdded
<1>4. \A p \in B : AllocAt(n, p) = AllocAt(m, p) /\ SizeAt(n, p) = SizeAt(m, p)
    BY <1>3 DEF AllocAt, SizeAt
<1>5. Keeps(m, B, n, D)
  <2>1. ASSUME NEW p \in D, AllocAt(n, p) = 1
        PROVE  p \in B /\ n[p - 4] = m[p - 4]
      BY <1>2, <1>3, <2>1
  <2>. QED
      BY <1>2, <1>3, <2>1 DEF Keeps
<1>6. MergedExcept(n, brk + s, D, brk)
  <2>1. ASSUME NEW p \in D, AllocAt(n, p) = 0, p # brk, p + SizeAt(n, p) # brk
        PROVE  AllocAt(n, p + SizeAt(n, p)) = 1
    <3>1. p \in B /\ AllocAt(m, p) = 0 /\ SizeAt(n, p) = SizeAt(m, p)
        BY <1>2, <1>4, <2>1
    <3>2. PICK t : t = p + SizeAt(m, p)
        OBVIOUS
    <3>3. t \in B /\ t # 0 /\ p # 0
      <4>1. p \in Int /\ SizeAt(m, p) \in Int /\ SizeAt(m, p) >= 8 /\ p >= 8 /\ t \in B \cup {brk}
          BY <3>1, <3>2, BlockFact
      <4>2. t \in B
          BY <2>1, <3>1, <3>2, <4>1
      <4>. QED
          BY <3>2, <4>1, <4>2
    <3>4. AllocAt(m, t) = 1
        BY <2>1, <3>1, <3>2, <3>3 DEF MergedExcept
    <3>. QED
        BY <1>4, <3>1, <3>2, <3>3, <3>4
  <2>. QED
      BY <2>1 DEF MergedExcept
<1>8. brk \in D /\ brk # 8
    BY <1>1, <1>2
<1>9. PICK C : /\ Tiled(c.mem, brk + s, C) /\ MergedExcept(c.mem, brk + s, C, 0)
               /\ FreeBlock(c.mem, C, c.bp, SizeAt(n, brk))
               /\ Keeps(n, D, c.mem, C)
    BY <1>3, <1>6, <1>8, CoalesceMerges
<1>10. Keeps(m, B, c.mem, C)
    BY <1>5, <1>9, KeepsTwice
<1>. QED
    BY <1>3, <1>9, <1>10

ExtendResult(m, brk, B, s, r) ==
    IF brk + s <= MaxAddr
    THEN \E C : /\ Tiled(r.mem, r.brk, C) /\ MergedExcept(r.mem, r.brk, C, 0)
                /\ FreeBlock(r.mem, C, r.bp, s) /\ Keeps(m, B, r.mem, C)
    ELSE r = [bp |-> NULL, mem |-> m, brk |-> brk]

\* extend_heap either fails and changes nothing or adds a free block of the
\* size it was asked for, merged with what is free below it.
LEMMA ExtendAdds ==
    ASSUME NEW m, NEW brk, NEW B, Tiled(m, brk, B), MergedExcept(m, brk, B, 0),
           NEW words \in Int, words % 2 = 0, words >= 4,
           NEW s \in Int, s = 4 * words, NEW r, r = ExtendHeap(m, brk, words)
    PROVE  ExtendResult(m, brk, B, s, r)
<1>1. m \in [Words -> Tags] /\ brk \in Words /\ brk % 8 = 0 /\ brk >= 16 /\ brk \in Int
    BY WordsFact DEF Tiled
<1>2. s % 8 = 0 /\ s >= 16
    OBVIOUS
<1>3. CASE brk + s <= MaxAddr
  <2>1. PICK n \in [Words -> Tags] :
              /\ NewTags(m, brk, s, n)
              /\ r = [bp |-> Coalesce(n, brk).bp, mem |-> Coalesce(n, brk).mem, brk |-> brk + s]
      BY <1>1, <1>3, ExtendIs
  <2>2. NewTags(m, brk, s, n) /\ s >= 8
      BY <1>2, <2>1
  <2>3. PICK c : c = Coalesce(n, brk)
      OBVIOUS
  <2>4. \E C : /\ Tiled(c.mem, brk + s, C) /\ MergedExcept(c.mem, brk + s, C, 0)
               /\ FreeBlock(c.mem, C, c.bp, s) /\ Keeps(m, B, c.mem, C)
      BY <1>2, <1>3, <2>2, <2>3, ExtendTiles
  <2>5. r.bp = c.bp /\ r.mem = c.mem /\ r.brk = brk + s
      BY <2>1, <2>3
  <2>. QED
      BY <1>3, <2>4, <2>5 DEF ExtendResult
<1>4. CASE ~(brk + s <= MaxAddr)
  <2>1. words % 2 # 1 /\ words * WSIZE = s
      BY DEF WSIZE
  <2>2. ~SbrkOk(brk, s)
      BY <1>4 DEF SbrkOk
  <2>3. ExtendHeap(m, brk, words) = [bp |-> NULL, mem |-> m, brk |-> brk]
      BY <2>1, <2>2, Zenon DEF ExtendHeap
  <2>. QED
      BY <1>4, <2>3 DEF ExtendResult
<1>. QED
    BY <1>3, <1>4

\* minit leaves a heap whose only allocated block is the prologue.
LEMMA MinitMakesHeap ==
    ASSUME mem = [a \in Words |-> Fresh], NEW r, r = Minit
    PROVE  \E C : /\ Tiled(r.mem, r.brk, C) /\ MergedExcept(r.mem, r.brk, C, 0)
                  /\ \A p \in C : AllocAt(r.mem, p) = 1 => p = 8
<1>1. 4 \in Words /\ 8 \in Words /\ 12 \in Words /\ 16 \in Words
  <2>1. MaxAddr \in Int /\ 16 <= MaxAddr
      BY RoomAssumption, ChunkAssumption
  <2>2. 4 % 4 = 0 /\ 8 % 4 = 0 /\ 12 % 4 = 0 /\ 16 % 4 = 0
      OBVIOUS
  <2>3. 4 <= MaxAddr /\ 8 <= MaxAddr /\ 12 <= MaxAddr
      BY <2>1
  <2>. QED
      BY <2>1, <2>2, <2>3, WordsFact
<1>2. PICK t \in Tags : t = PACK(8, 1)
  <2>1. 8 \in 0..(MaxAddr + 8) /\ 1 \in 0..1
      BY RoomAssumption
  <2>. QED
      BY <2>1, PackFact
<1>3. PICK u \in Tags : u = PACK(0, 1)
  <2>1. 0 \in 0..(MaxAddr + 8) /\ 1 \in 0..1
      BY RoomAssumption
  <2>. QED
      BY <2>1, PackFact
<1>4. PICK m0 \in [Words -> Tags] : m0 = mem
  <2>1. Fresh \in Tags
    <3>1. 0 \in 0..(MaxAddr + 8) /\ 0 \in 0..1
        BY RoomAssumption
    <3>. QED
        BY <3>1, PackFact DEF Fresh
  <2>. QED
      BY <2>1
<1>5. PICK n : n = PUT(PUT(PUT(m0, 4, t), 8, t), 12, u)
    OBVIOUS
<1>6. n \in [Words -> Tags] /\ n[4] = t /\ n[8] = t /\ n[12] = u
    BY <1>1, <1>5 DEF PUT
<1>7. Minit = ExtendHeap(n, 16, CHUNK_SIZE \div 4)
  <2>1. 2 * WSIZE = 8 /\ 3 * WSIZE = 12 /\ 4 * WSIZE = 16 /\ WSIZE = 4 /\ DSIZE = 8
      BY DEF WSIZE, DSIZE
  <2>. QED
      BY <1>2, <1>3, <1>4, <1>5, <2>1, Zenon DEF Minit
<1>8. SizeAt(n, 8) = 8 /\ AllocAt(n, 8) = 1
  <2>1. 8 - 4 = 4
      OBVIOUS
  <2>. QED
      BY <1>2, <1>6, <2>1, PackFact DEF SizeAt, AllocAt
<1>9. PICK B : B = {8}
    OBVIOUS
<1>10. Tiled(n, 16, B)
  <2>1. BlockOK(n, 16, B, 8)
    <3>1. 8 + 8 = 16 /\ 8 + 8 - 8 = 8 /\ 8 - 4 = 4 /\ 8 % 8 = 0 /\ 8 >= 8 /\ 16 <= 16
        OBVIOUS
    <3>. QED
        BY <1>6, <1>8, <3>1 DEF BlockOK
  <2>2. \A q \in B \cup {16} : q # 8 => \E p \in B : p + SizeAt(n, p) = q
    <3>1. 8 + SizeAt(n, 8) = 16
        BY <1>8
    <3>. QED
        BY <1>9, <3>1
  <2>3. \A p, q \in B : p < q => p + SizeAt(n, p) <= q
      BY <1>9
  <2>4. 16 % 8 = 0 /\ 16 >= 16 /\ 16 - 4 = 12
      OBVIOUS
  <2>5. n[16 - 4] = PACK(0, 1)
      BY <1>3, <1>6, <2>4
  <2>. QED
      BY <1>1, <1>6, <1>8, <1>9, <2>1, <2>2, <2>3, <2>4, <2>5 DEF Tiled
<1>11. MergedExcept(n, 16, B, 0)
    BY <1>8, <1>9 DEF MergedExcept
<1>12. PICK words \in Int : words = CHUNK_SIZE \div 4
    BY ChunkAssumption
<1>13. words % 2 = 0 /\ words >= 4 /\ 4 * words = CHUNK_SIZE
    BY <1>12, ChunkAssumption
<1>14. r = ExtendHeap(n, 16, words)
    BY <1>7, <1>12
<1>15. PICK s \in Int : s = 4 * words
    OBVIOUS
<1>16. 16 + s <= MaxAddr
    BY <1>13, <1>15, RoomAssumption
<1>17. PICK C : /\ Tiled(r.mem, r.brk, C) /\ MergedExcept(r.mem, r.brk, C, 0)
                /\ FreeBlock(r.mem, C, r.bp, s) /\ Keeps(n, B, r.mem, C)
  <2>1. ExtendResult(n, 16, B, s, r)
      BY <1>10, <1>11, <1>13, <1>14, <1>15, ExtendAdds
  <2>. QED
      BY <1>16, <2>1 DEF ExtendResult
<1>. QED
    BY <1>9, <1>17 DEF Keeps

(***************************************************************************)
(* place, free, and the stores of the program                              *)
(***************************************************************************)
\* A block whose alloc bit changes: free neighbours are what they were, but for
\* the block itself.
LEMMA OneChanged ==
    ASSUME NEW m, NEW brk, NEW B, Tiled(m, brk, B), MergedExcept(m, brk, B, 0),
           NEW f \in B, NEW n, SizeAt(n, f) = SizeAt(m, f),
           \A p \in B : p # f => n[p - 4] = m[p - 4]
    PROVE  /\ MergedExcept(n, brk, B, f)
           /\ (AllocAt(n, f) = 1 => MergedExcept(n, brk, B, 0))
<1>1. ASSUME NEW p \in B, AllocAt(n, p) = 0, p + SizeAt(n, p) # brk, p # f,
             p + SizeAt(n, p) # f
      PROVE  AllocAt(n, p + SizeAt(n, p)) = 1
  <2>1. SizeAt(n, p) = SizeAt(m, p) /\ AllocAt(m, p) = 0
      BY <1>1 DEF SizeAt, AllocAt
  <2>2. PICK t : t = p + SizeAt(m, p)
      OBVIOUS
  <2>3. t \in B /\ t # 0 /\ p # 0
    <3>1. p \in Int /\ SizeAt(m, p) \in Int /\ SizeAt(m, p) >= 8 /\ p >= 8 /\ t \in B \cup {brk}
        BY <2>2, BlockFact
    <3>2. t \in B
        BY <1>1, <2>1, <2>2, <3>1
    <3>. QED
        BY <2>2, <3>1, <3>2
  <2>4. AllocAt(m, t) = 1
      BY <1>1, <2>1, <2>2, <2>3 DEF MergedExcept
  <2>5. n[t - 4] = m[t - 4]
      BY <1>1, <2>1, <2>2, <2>3
  <2>. QED
      BY <2>1, <2>2, <2>4, <2>5 DEF AllocAt
<1>2. MergedExcept(n, brk, B, f)
    BY <1>1 DEF MergedExcept
<1>3. ASSUME AllocAt(n, f) = 1
      PROVE  MergedExcept(n, brk, B, 0)
  <2>1. ASSUME NEW p \in B, AllocAt(n, p) = 0, p + SizeAt(n, p) # brk
        PROVE  AllocAt(n, p + SizeAt(n, p)) = 1
    <3>1. p # f
        BY <1>3, <2>1
    <3>. QED
        BY <1>1, <1>3, <2>1, <3>1
  <2>. QED
      BY <2>1 DEF MergedExcept
<1>. QED
    BY <1>2, <1>3

\* place marks the whole of a free block allocated and leaves the others alone:
\* the tags it writes for the rest of the block are inside the block.
LEMMA PlaceAllocates ==
    ASSUME NEW m, NEW brk, NEW B, Tiled(m, brk, B), MergedExcept(m, brk, B, 0),
           NEW rsize \in Int, rsize >= 16, rsize % 8 = 0,
           NEW bp, FreeBlock(m, B, bp, rsize), NEW n, n = Place(m, bp, rsize)
    PROVE  /\ Tiled(n, brk, B) /\ MergedExcept(n, brk, B, 0)
           /\ AllocAt(n, bp) = 1 /\ SizeAt(n, bp) = SizeAt(m, bp)
           /\ \A p \in B : p # bp => n[p - 4] = m[p - 4]
<1>1. bp \in B /\ bp # 8 /\ SizeAt(m, bp) >= rsize
    BY DEF FreeBlock
<1>2. PICK b : b = SizeAt(m, bp)
    OBVIOUS
<1>3. /\ bp \in Int /\ b \in Int /\ bp >= 8 /\ bp % 8 = 0 /\ b % 8 = 0 /\ b >= rsize
      /\ bp - 4 \in Words /\ bp + b - 8 \in Words /\ b <= MaxAddr /\ bp + b <= brk
      /\ brk <= MaxAddr /\ brk \in Int /\ MaxAddr \in Int
    BY <1>1, <1>2, BlockFact, RoomAssumption
<1>4. m \in [Words -> Tags]
    BY DEF Tiled
<1>5. PICK h \in Words, d \in Words : h = bp - 4 /\ d = bp + b - 8
    BY <1>3
<1>6. PICK t \in Tags : t = PACK(b, 1)
  <2>1. b \in 0..(MaxAddr + 8) /\ 1 \in 0..1
      BY <1>3
  <2>. QED
      BY <2>1, PackFact
<1>7. PICK rest \in Int : rest = bp + rsize
    BY <1>3
<1>8. PICK m1 : m1 = PUT(m, HDRP(rest), PACK(b - rsize, 0))
    OBVIOUS
<1>9. PICK split : split = IF b > rsize THEN PUT(m1, FTRP(m1, rest), PACK(b - rsize, 0)) ELSE m
    OBVIOUS
<1>10. /\ split \in [Words -> Tags]
       /\ \A w \in Words : w < bp - 4 \/ w >= bp + b - 4 => split[w] = m[w]
  <2>1. CASE b > rsize
    <3>1. PICK g : g = rest - 4
        OBVIOUS
    <3>2. g \in Words /\ bp <= g /\ g < d /\ g \in Int
      <4>1. g \in Int /\ bp <= g /\ g < d
        <5>1. rsize + 8 <= b
            BY <1>3, <2>1, Multiples
        <5>. QED
            BY <1>3, <1>5, <1>7, <3>1, <5>1
      <4>2. g % 4 = 0
        <5>1. rest % 8 = 0
            BY <1>3, <1>7, Multiples
        <5>. QED
            BY <3>1, <5>1
      <4>3. 0 <= g /\ g <= MaxAddr
          BY <1>3, <1>5, <4>1
      <4>. QED
          BY <4>1, <4>2, <4>3, WordsFact
    <3>3. PICK v \in Tags : v = PACK(b - rsize, 0)
      <4>1. b - rsize \in 0..(MaxAddr + 8) /\ 0 \in 0..1
          BY <1>3, <2>1
      <4>. QED
          BY <4>1, PackFact
    <3>4. HDRP(rest) = g
        BY <3>1 DEF HDRP, WSIZE
    <3>5. m1 \in [Words -> Tags] /\ m1[g] = v /\ \A w \in Words : w # g => m1[w] = m[w]
        BY <1>4, <1>8, <3>2, <3>3, <3>4 DEF PUT
    <3>6. FTRP(m1, rest) = d
      <4>1. m1[g].size = b - rsize
          BY <3>3, <3>5, PackFact
      <4>2. rest + (b - rsize) - 8 = d
          BY <1>3, <1>5, <1>7
      <4>. QED
          BY <3>4, <4>1, <4>2 DEF FTRP, GET_SIZE, DSIZE
    <3>7. split = PUT(m1, d, v)
        BY <1>9, <2>1, <3>3, <3>6
    <3>8. split \in [Words -> Tags] /\ \A w \in Words : w # g /\ w # d => split[w] = m[w]
        BY <3>5, <3>7 DEF PUT
    <3>9. \A w \in Words : w < bp - 4 \/ w >= bp + b - 4 => w # g /\ w # d
        BY <1>3, <1>5, <3>2, WordsFact
    <3>. QED
        BY <3>8, <3>9
  <2>2. CASE ~(b > rsize)
      BY <1>4, <1>9, <2>2
  <2>. QED
      BY <2>1, <2>2
<1>11. PICK m2 : m2 = PUT(split, h, t)
    OBVIOUS
<1>12. m2 \in [Words -> Tags] /\ m2[h] = t
    BY <1>10, <1>11 DEF PUT
<1>13. FTRP(m2, bp) = d
    BY <1>5, <1>6, <1>12, PackFact DEF FTRP, GET_SIZE, HDRP, WSIZE, DSIZE
<1>14. n = PUT(m2, d, t)
  <2>1. GET_SIZE(m, HDRP(bp)) = b /\ HDRP(bp) = h
      BY <1>2, <1>5 DEF GET_SIZE, HDRP, WSIZE, SizeAt
  <2>. QED
      BY <1>6, <1>7, <1>8, <1>9, <1>11, <1>13, <2>1, Zenon DEF Place
<1>15. /\ n \in [Words -> Tags] /\ n[h] = t /\ n[d] = t
       /\ \A w \in Words : w # h /\ w # d => n[w] = split[w]
    BY <1>10, <1>11, <1>14, PutTwice
<1>16. \A w \in Words : w < bp - 4 \/ w >= bp + b - 4 => w # h /\ w # d
    BY <1>3, <1>5, WordsFact
<1>17. \A w \in Words : w < bp - 4 \/ w >= bp + b - 4 => n[w] = m[w]
    BY <1>10, <1>15, <1>16
<1>18. n[bp - 4] = PACK(b, 1) /\ n[bp + b - 8] = PACK(b, 1) /\ 1 \in 0..1
    BY <1>5, <1>6, <1>15
<1>19. /\ Tiled(n, brk, B)
       /\ SizeAt(n, bp) = b /\ AllocAt(n, bp) = 1
       /\ \A p \in B : p # bp => n[p - 4] = m[p - 4]
    BY <1>1, <1>2, <1>15, <1>17, <1>18, OneRetagged
<1>20. MergedExcept(n, brk, B, 0)
    BY <1>1, <1>2, <1>19, OneChanged
<1>. QED
    BY <1>2, <1>19, <1>20

\* free turns one block into a free one and merges it.
LEMMA FreeReleases ==
    ASSUME NEW m, NEW brk, NEW B, Tiled(m, brk, B), MergedExcept(m, brk, B, 0),
           NEW bp \in B, bp # 8, NEW s, s = SizeAt(m, bp),
           NEW m1, m1 = PUT(m, HDRP(bp), PACK(s, 0)),
           NEW m2, m2 = PUT(m1, FTRP(m1, bp), PACK(s, 0)),
           NEW n, n = Coalesce(m2, bp).mem
    PROVE  \E C : /\ Tiled(n, brk, C) /\ MergedExcept(n, brk, C, 0)
                  /\ \A p \in B : p # bp /\ AllocAt(m, p) = 1 => p \in C /\ n[p - 4] = m[p - 4]
                  /\ \A p \in C : AllocAt(n, p) = 1 => p \in B /\ p # bp /\ n[p - 4] = m[p - 4]
<1>1. /\ bp \in Int /\ s \in Int /\ bp >= 8 /\ s >= 8 /\ s <= MaxAddr
      /\ bp - 4 \in Words /\ bp + s - 8 \in Words /\ MaxAddr \in Int
    BY BlockFact, RoomAssumption
<1>2. m \in [Words -> Tags]
    BY DEF Tiled
<1>3. PICK h \in Words, d \in Words : h = bp - 4 /\ d = bp + s - 8
    BY <1>1
<1>4. PICK t \in Tags : t = PACK(s, 0)
  <2>1. s \in 0..(MaxAddr + 8) /\ 0 \in 0..1
      BY <1>1
  <2>. QED
      BY <2>1, PackFact
<1>5. m1 = PUT(m, h, t)
    BY <1>3, <1>4 DEF HDRP, WSIZE
<1>6. FTRP(m1, bp) = d
  <2>1. m1[h] = t
      BY <1>2, <1>5 DEF PUT
  <2>. QED
      BY <1>3, <1>4, <2>1, PackFact DEF FTRP, GET_SIZE, HDRP, WSIZE, DSIZE
<1>7. m2 = PUT(PUT(m, h, t), d, t)
    BY <1>4, <1>5, <1>6
<1>8. /\ m2 \in [Words -> Tags] /\ m2[h] = t /\ m2[d] = t
      /\ \A w \in Words : w # h /\ w # d => m2[w] = m[w]
    BY <1>2, <1>7, PutTwice
<1>9. \A w \in Words : w < bp - 4 \/ w >= bp + s - 4 => w # h /\ w # d
    BY <1>1, <1>3, WordsFact
<1>10. \A w \in Words : w < bp - 4 \/ w >= bp + s - 4 => m2[w] = m[w]
    BY <1>8, <1>9
<1>11. m2[bp - 4] = PACK(s, 0) /\ m2[bp + s - 8] = PACK(s, 0) /\ 0 \in 0..1
    BY <1>3, <1>4, <1>8
<1>12. /\ Tiled(m2, brk, B)
       /\ SizeAt(m2, bp) = s /\ AllocAt(m2, bp) = 0
       /\ \A p \in B : p # bp => m2[p - 4] = m[p - 4]
    BY <1>8, <1>10, <1>11, OneRetagged
<1>13. MergedExcept(m2, brk, B, bp)
    BY <1>12, OneChanged
<1>14. PICK c : c = Coalesce(m2, bp)
    OBVIOUS
<1>15. PICK C : /\ Tiled(c.mem, brk, C) /\ MergedExcept(c.mem, brk, C, 0)
                /\ FreeBlock(c.mem, C, c.bp, SizeAt(m2, bp))
                /\ Keeps(m2, B, c.mem, C)
    BY <1>12, <1>13, <1>14, CoalesceMerges
<1>16. n = c.mem
    BY <1>14
<1>17. ASSUME NEW p \in B, p # bp, AllocAt(m, p) = 1
       PROVE  p \in C /\ n[p - 4] = m[p - 4]
  <2>1. m2[p - 4] = m[p - 4] /\ AllocAt(m2, p) = 1
      BY <1>12, <1>17 DEF AllocAt
  <2>. QED
      BY <1>15, <1>16, <2>1 DEF Keeps
<1>18. ASSUME NEW p \in C, AllocAt(n, p) = 1
       PROVE  p \in B /\ p # bp /\ n[p - 4] = m[p - 4]
  <2>1. p \in B /\ n[p - 4] = m2[p - 4]
      BY <1>15, <1>16, <1>18 DEF Keeps
  <2>2. AllocAt(m2, p) = 1
      BY <1>18, <2>1 DEF AllocAt
  <2>3. p # bp
      BY <1>12, <2>2
  <2>. QED
      BY <1>12, <2>1, <2>3
<1>. QED
    BY <1>15, <1>16, <1>17, <1>18

\* The program writes what it asked for: no tag is touched.
LEMMA UseKeepsTags ==
    ASSUME NEW m, NEW brk, NEW B, Tiled(m, brk, B), MergedExcept(m, brk, B, 0),
           NEW bp \in B, bp # 8, AllocAt(m, bp) = 1,
           NEW l \in Nat, l + 8 <= SizeAt(m, bp), NEW n,
           n = [a \in Words |-> IF bp <= a /\ a < bp + l THEN Payload ELSE m[a]]
    PROVE  /\ Tiled(n, brk, B) /\ MergedExcept(n, brk, B, 0)
           /\ \A p \in B : n[p - 4] = m[p - 4]
<1>1. PICK s : s = SizeAt(m, bp)
    OBVIOUS
<1>2. /\ bp \in Int /\ s \in Int /\ bp >= 8 /\ s >= 8 /\ l + 8 <= s
      /\ bp - 4 \in Words /\ bp + s - 8 \in Words /\ MaxAddr \in Int
      /\ m[bp + s - 8] = m[bp - 4] /\ m[bp - 4] \in Tags
    BY <1>1, BlockFact, RoomAssumption
<1>3. m \in [Words -> Tags]
    BY DEF Tiled
<1>4. Payload \in Tags
  <2>1. MaxAddr + 8 \in 0..(MaxAddr + 8) /\ 1 \in 0..1
      BY RoomAssumption
  <2>. QED
      BY <2>1, PackFact DEF Payload, DSIZE
<1>5. n \in [Words -> Tags]
    BY <1>3, <1>4
<1>6. PICK h \in Words, d \in Words : h = bp - 4 /\ d = bp + s - 8
    BY <1>2
<1>7. ~(bp <= h /\ h < bp + l) /\ ~(bp <= d /\ d < bp + l)
    BY <1>2, <1>6
<1>8. n[h] = m[h] /\ n[d] = m[d]
    BY <1>7
<1>9. m[h] = PACK(s, 1)
    BY <1>1, <1>2, <1>6 DEF Tags, PACK, SizeAt, AllocAt
<1>10. n[bp - 4] = PACK(s, 1) /\ n[bp + s - 8] = PACK(s, 1) /\ 1 \in 0..1
    BY <1>2, <1>6, <1>8, <1>9
<1>11. ASSUME NEW w \in Words, w < bp - 4 \/ w >= bp + s - 4
       PROVE  n[w] = m[w]
  <2>1. ~(bp <= w /\ w < bp + l)
      BY <1>2, <1>11, WordsFact
  <2>. QED
      BY <2>1
<1>12. /\ Tiled(n, brk, B)
       /\ SizeAt(n, bp) = s /\ AllocAt(n, bp) = 1
       /\ \A p \in B : p # bp => n[p - 4] = m[p - 4]
    BY <1>1, <1>5, <1>10, <1>11, OneRetagged
<1>13. MergedExcept(n, brk, B, 0)
    BY <1>1, <1>12, OneChanged
<1>14. n[bp - 4] = m[bp - 4]
    BY <1>6, <1>8
<1>. QED
    BY <1>12, <1>13, <1>14

(***************************************************************************)
(* The walks                                                               *)
(***************************************************************************)
LEMMA PayloadsFact ==
    /\ \A p : p \in Payloads <=> p \in Words /\ p # 0
    /\ \A p \in Payloads : p \in 0..MaxAddr /\ p - 4 \in Words /\ p \in Nat
    /\ MaxAddr \in Nat
<1>1. ASSUME NEW p \in Payloads
      PROVE  p \in 0..MaxAddr /\ p - 4 \in Words /\ p \in Nat
  <2>1. p \in Int /\ 0 <= p /\ p <= MaxAddr /\ p % 4 = 0 /\ p # 0
      BY WordsFact DEF Payloads
  <2>2. p - 4 >= 0 /\ (p - 4) % 4 = 0 /\ p - 4 <= MaxAddr
      BY <2>1, RoomAssumption
  <2>. QED
      BY <2>1, <2>2, WordsFact, RoomAssumption
<1>. QED
    BY <1>1, RoomAssumption DEF Payloads

\* A block and the end of the heap are places a walk can be at.
LEMMA EdgesArePayloads ==
    ASSUME NEW m, NEW brk, NEW B, Tiled(m, brk, B)
    PROVE  B \cup {brk} \subseteq Payloads
<1>1. B \subseteq Words /\ brk \in Words /\ brk >= 16
    BY DEF Tiled
<1>2. \A p \in B : p >= 8
    BY BlockFact
<1>3. 0 \notin B /\ brk # 0
    BY <1>1, <1>2
<1>. QED
    BY <1>1, <1>3, PayloadsFact

LEMMA NextIs ==
    ASSUME NEW m \in [Words -> Tags], NEW p \in Payloads
    PROVE  /\ NEXT_BLKP(m, p) = p + SizeAt(m, p) /\ SizeAt(m, p) \in Nat
           /\ GET_SIZE(m, HDRP(p)) = SizeAt(m, p) /\ GET_ALLOC(m, HDRP(p)) = AllocAt(m, p)
           /\ (SizeAt(m, p) # 0 => NEXT_BLKP(m, p) > p)
<1>1. p \in Int /\ p - 4 \in Words
    BY PayloadsFact
<1>2. m[p - 4] \in Tags
    BY <1>1
<1>3. SizeAt(m, p) \in Nat
    BY <1>2, RoomAssumption DEF Tags, SizeAt
<1>4. GET_SIZE(m, HDRP(p)) = SizeAt(m, p) /\ GET_ALLOC(m, HDRP(p)) = AllocAt(m, p)
    BY DEF GET_SIZE, GET_ALLOC, HDRP, WSIZE, SizeAt, AllocAt
<1>5. NEXT_BLKP(m, p) = p + SizeAt(m, p)
  <2>1. (p + SizeAt(m, p) - 8) + 8 = p + SizeAt(m, p)
      BY <1>1, <1>3
  <2>. QED
      BY <1>4, <2>1 DEF NEXT_BLKP, FTRP, DSIZE
<1>. QED
    BY <1>1, <1>3, <1>4, <1>5

\* The recursive function of find_fit exists, so it is what its equation says.
LEMMA FindFitWalks ==
    ASSUME NEW m \in [Words -> Tags], NEW size \in Int
    PROVE  \E h : /\ FindFit(m, size) = h[NEXT_BLKP(m, 2 * WSIZE)]
                  /\ h = [p \in Payloads |->
                            IF GET_SIZE(m, HDRP(p)) = 0 THEN NULL
                            ELSE IF GET_ALLOC(m, HDRP(p)) = 0 /\ GET_SIZE(m, HDRP(p)) >= size THEN p
                            ELSE IF NEXT_BLKP(m, p) \notin Payloads THEN NULL
                            ELSE h[NEXT_BLKP(m, p)]]
<1>. DEFINE Fits(p) == GET_ALLOC(m, HDRP(p)) = 0 /\ GET_SIZE(m, HDRP(p)) >= size
            Step(h, p) == IF GET_SIZE(m, HDRP(p)) = 0 THEN NULL
                          ELSE IF Fits(p) THEN p
                          ELSE IF NEXT_BLKP(m, p) \notin Payloads THEN NULL
                          ELSE h[NEXT_BLKP(m, p)]
            Ends(p) == GET_SIZE(m, HDRP(p)) = 0 \/ Fits(p) \/ NEXT_BLKP(m, p) \notin Payloads
<1>1. PICK U : U = Payloads \cup {NULL}
    OBVIOUS
<1>2. PICK Stop : Stop = {p \in Payloads : Ends(p)}
    OBVIOUS
<1>3. PICK val : val = [p \in Payloads |-> IF GET_SIZE(m, HDRP(p)) = 0 THEN NULL
                                           ELSE IF Fits(p) THEN p ELSE NULL]
    OBVIOUS
<1>4. PICK comb : comb = [x \in Payloads \X U |-> x[2]]
    OBVIOUS
<1>5. PICK nxt : nxt = [p \in Payloads |-> NEXT_BLKP(m, p)]
    OBVIOUS
<1>6. Stop \in SUBSET Payloads /\ val \in [Payloads -> U] /\ comb \in [Payloads \X U -> U]
    BY <1>1, <1>2, <1>3, <1>4
<1>7. Upward(Payloads, Stop, nxt)
  <2>. SUFFICES ASSUME NEW p \in Payloads \ Stop
                PROVE  nxt[p] \in Payloads /\ nxt[p] > p
      BY DEF Upward
  <2>1. NEXT_BLKP(m, p) \in Payloads /\ GET_SIZE(m, HDRP(p)) # 0
      BY <1>2
  <2>2. NEXT_BLKP(m, p) > p
      BY <2>1, NextIs
  <2>. QED
      BY <1>5, <2>1, <2>2
<1>8. Payloads \in SUBSET (0..MaxAddr) /\ MaxAddr \in Nat
    BY PayloadsFact
<1>9. PICK g \in [Payloads -> U] : IsWalk(g, Payloads, Stop, val, comb, nxt)
    BY <1>6, <1>7, <1>8, WalkExists
<1>10. ASSUME NEW p \in Payloads
       PROVE  g[p] = Step(g, p)
  <2>1. CASE p \in Stop
    <3>1. g[p] = val[p] /\ Ends(p)
        BY <1>2, <1>9, <2>1 DEF IsWalk
    <3>. QED
        BY <1>3, <3>1
  <2>2. CASE p \notin Stop
    <3>1. g[p] = comb[<<p, g[nxt[p]]>>] /\ nxt[p] \in Payloads
        BY <1>7, <1>9, <2>2 DEF IsWalk, Upward
    <3>2. <<p, g[nxt[p]]>> \in Payloads \X U
        BY <3>1
    <3>3. g[p] = g[nxt[p]] /\ ~Ends(p)
        BY <1>2, <1>4, <2>2, <3>1, <3>2
    <3>. QED
        BY <1>5, <3>3
  <2>. QED
      BY <2>1, <2>2
<1>11. g = [p \in Payloads |-> Step(g, p)]
    BY <1>10
<1>12. \E h : h = [p \in Payloads |-> Step(h, p)]
    BY <1>11
<1>. QED
    BY <1>12, Zenon DEF FindFit

\* find_fit returns NULL or a free block that is large enough.
LEMMA FindFitFits ==
    ASSUME NEW m, NEW brk, NEW B, Tiled(m, brk, B), NEW size \in Int,
           NEW r, r = FindFit(m, size)
    PROVE  r = NULL \/ FreeBlock(m, B, r, size)
<1>1. /\ m \in [Words -> Tags] /\ m[brk - 4] = PACK(0, 1) /\ 8 \in B /\ SizeAt(m, 8) = 8
    BY DEF Tiled
<1>2. PICK h : /\ r = h[NEXT_BLKP(m, 2 * WSIZE)]
               /\ h = [p \in Payloads |->
                            IF GET_SIZE(m, HDRP(p)) = 0 THEN NULL
                            ELSE IF GET_ALLOC(m, HDRP(p)) = 0 /\ GET_SIZE(m, HDRP(p)) >= size THEN p
                            ELSE IF NEXT_BLKP(m, p) \notin Payloads THEN NULL
                            ELSE h[NEXT_BLKP(m, p)]]
    BY <1>1, FindFitWalks
<1>3. B \cup {brk} \subseteq Payloads
    BY EdgesArePayloads
<1>4. ASSUME NEW p \in Payloads
      PROVE  h[p] = IF SizeAt(m, p) = 0 THEN NULL
                    ELSE IF AllocAt(m, p) = 0 /\ SizeAt(m, p) >= size THEN p
                    ELSE IF p + SizeAt(m, p) \notin Payloads THEN NULL
                    ELSE h[p + SizeAt(m, p)]
  <2>1. /\ NEXT_BLKP(m, p) = p + SizeAt(m, p)
        /\ GET_SIZE(m, HDRP(p)) = SizeAt(m, p) /\ GET_ALLOC(m, HDRP(p)) = AllocAt(m, p)
      BY <1>1, NextIs
  <2>2. h[p] = IF GET_SIZE(m, HDRP(p)) = 0 THEN NULL
               ELSE IF GET_ALLOC(m, HDRP(p)) = 0 /\ GET_SIZE(m, HDRP(p)) >= size THEN p
               ELSE IF NEXT_BLKP(m, p) \notin Payloads THEN NULL
               ELSE h[NEXT_BLKP(m, p)]
      BY <1>2
  <2>. QED
      BY <2>1, <2>2
<1>. DEFINE Good(p) == h[p] = NULL \/ FreeBlock(m, B, h[p], size)
            Bad == {p \in B \cup {brk} : p # 8 /\ ~Good(p)}
<1>5. Bad = {}
  <2>1. SUFFICES ASSUME Bad # {}
                 PROVE  FALSE
      OBVIOUS
  <2>2. PICK p \in Bad : \A q \in Bad : q <= p
    <3>1. Bad \in SUBSET (0..MaxAddr) /\ MaxAddr \in Nat
        BY <1>3, PayloadsFact
    <3>. HIDE DEF Bad
    <3>. QED
        BY <2>1, <3>1, Largest
  <2>3. p \in Payloads /\ p # 8 /\ ~Good(p)
      BY <1>3
  <2>4. CASE p = brk
    <3>1. SizeAt(m, p) = 0
        BY <1>1, <2>4, PackFact DEF SizeAt
    <3>. QED
        BY <1>4, <2>3, <3>1
  <2>5. CASE p \in B
    <3>1. PICK t : t = p + SizeAt(m, p)
        OBVIOUS
    <3>2. /\ p \in Int /\ SizeAt(m, p) \in Int /\ SizeAt(m, p) >= 8 /\ p >= 8 /\ t \in B \cup {brk}
        BY <2>5, <3>1, BlockFact
    <3>3. t \in Int /\ t > p /\ t # 8 /\ SizeAt(m, p) # 0 /\ ~(t <= p)
        BY <3>1, <3>2
    <3>4. t \in Payloads /\ t \notin Bad
      <4>. HIDE DEF Bad
      <4>. QED
          BY <1>3, <2>2, <3>2, <3>3
    <3>5. Good(t)
        BY <3>2, <3>3, <3>4
    <3>6. CASE AllocAt(m, p) = 0 /\ SizeAt(m, p) >= size
      <4>1. h[p] = p
          BY <1>4, <2>3, <3>3, <3>6
      <4>. QED
          BY <2>3, <2>5, <3>6, <4>1 DEF FreeBlock
    <3>7. CASE ~(AllocAt(m, p) = 0 /\ SizeAt(m, p) >= size)
      <4>1. h[p] = h[t]
          BY <1>4, <2>3, <3>1, <3>3, <3>4, <3>7
      <4>. QED
          BY <2>3, <3>5, <4>1
    <3>. QED
        BY <3>6, <3>7
  <2>. QED
      BY <2>4, <2>5
<1>6. NEXT_BLKP(m, 2 * WSIZE) = 16
  <2>1. 2 * WSIZE = 8 /\ 8 \in Payloads
      BY <1>1, <1>3 DEF WSIZE
  <2>2. NEXT_BLKP(m, 8) = 8 + SizeAt(m, 8)
      BY <1>1, <2>1, NextIs
  <2>. QED
      BY <1>1, <2>1, <2>2
<1>7. 16 \in B \cup {brk} /\ 16 # 8
  <2>1. 8 + SizeAt(m, 8) \in B \cup {brk}
      BY <1>1, BlockFact
  <2>. QED
      BY <1>1, <2>1
<1>8. Good(16)
    BY <1>5, <1>7
<1>. QED
    BY <1>2, <1>6, <1>8

\* The same for the walk that the properties use.
LEMMA BlocksWalk ==
    ASSUME mem \in [Words -> Tags], curbrk \in Int, listp # NULL
    PROVE  \E h : /\ Blocks = h[listp]
                  /\ h = [p \in Payloads |->
                            IF GET_SIZE(mem, HDRP(p)) \notin 1..(curbrk - p)
                               \/ NEXT_BLKP(mem, p) \notin Payloads
                            THEN {p}
                            ELSE {p} \cup h[NEXT_BLKP(mem, p)]]
<1>. DEFINE Ends(p) == GET_SIZE(mem, HDRP(p)) \notin 1..(curbrk - p)
                       \/ NEXT_BLKP(mem, p) \notin Payloads
            Step(h, p) == IF Ends(p) THEN {p} ELSE {p} \cup h[NEXT_BLKP(mem, p)]
<1>1. PICK U : U = SUBSET Payloads
    OBVIOUS
<1>2. PICK Stop : Stop = {p \in Payloads : Ends(p)}
    OBVIOUS
<1>3. PICK val : val = [p \in Payloads |-> {p}]
    OBVIOUS
<1>4. PICK comb : comb = [x \in Payloads \X U |-> {x[1]} \cup x[2]]
    OBVIOUS
<1>5. PICK nxt : nxt = [p \in Payloads |-> NEXT_BLKP(mem, p)]
    OBVIOUS
<1>6. Stop \in SUBSET Payloads /\ val \in [Payloads -> U] /\ comb \in [Payloads \X U -> U]
  <2>1. \A x \in Payloads \X U : {x[1]} \cup x[2] \in U
      BY <1>1
  <2>. QED
      BY <1>1, <1>2, <1>3, <1>4, <2>1
<1>7. Upward(Payloads, Stop, nxt)
  <2>. SUFFICES ASSUME NEW p \in Payloads \ Stop
                PROVE  nxt[p] \in Payloads /\ nxt[p] > p
      BY DEF Upward
  <2>1. NEXT_BLKP(mem, p) \in Payloads /\ GET_SIZE(mem, HDRP(p)) \in 1..(curbrk - p)
      BY <1>2
  <2>2. p \in Int
      BY PayloadsFact
  <2>3. GET_SIZE(mem, HDRP(p)) # 0
      BY <2>1, <2>2
  <2>4. NEXT_BLKP(mem, p) > p
      BY <2>3, NextIs
  <2>. QED
      BY <1>5, <2>1, <2>4
<1>8. Payloads \in SUBSET (0..MaxAddr) /\ MaxAddr \in Nat
    BY PayloadsFact
<1>9. PICK g \in [Payloads -> U] : IsWalk(g, Payloads, Stop, val, comb, nxt)
    BY <1>6, <1>7, <1>8, WalkExists
<1>10. ASSUME NEW p \in Payloads
       PROVE  g[p] = Step(g, p)
  <2>1. CASE p \in Stop
    <3>1. g[p] = val[p] /\ Ends(p)
        BY <1>2, <1>9, <2>1 DEF IsWalk
    <3>. QED
        BY <1>3, <3>1
  <2>2. CASE p \notin Stop
    <3>1. g[p] = comb[<<p, g[nxt[p]]>>] /\ nxt[p] \in Payloads
        BY <1>7, <1>9, <2>2 DEF IsWalk, Upward
    <3>2. <<p, g[nxt[p]]>> \in Payloads \X U
        BY <3>1
    <3>3. g[p] = {p} \cup g[nxt[p]] /\ ~Ends(p)
        BY <1>2, <1>4, <2>2, <3>1, <3>2
    <3>. QED
        BY <1>5, <3>3
  <2>. QED
      BY <2>1, <2>2
<1>11. g = [p \in Payloads |-> Step(g, p)]
    BY <1>10
<1>12. \E h : h = [p \in Payloads |-> Step(h, p)]
    BY <1>11
<1>. QED
    BY <1>12, Zenon DEF Blocks

\* In a heap that is tiled the walk visits every block, then the break.
LEMMA BlocksAre ==
    ASSUME NEW B, Tiled(mem, curbrk, B), listp = 8
    PROVE  Blocks = B \cup {curbrk} /\ Block = B
<1>1. /\ mem \in [Words -> Tags] /\ curbrk \in Int /\ 8 \in B /\ listp # NULL
      /\ \A p, q \in B : p < q => p + SizeAt(mem, p) <= q
    BY WordsFact DEF Tiled, NULL
<1>2. PICK h : /\ Blocks = h[listp]
               /\ h = [p \in Payloads |->
                         IF GET_SIZE(mem, HDRP(p)) \notin 1..(curbrk - p)
                            \/ NEXT_BLKP(mem, p) \notin Payloads
                         THEN {p}
                         ELSE {p} \cup h[NEXT_BLKP(mem, p)]]
    BY <1>1, BlocksWalk
<1>3. PICK brk : brk = curbrk
    OBVIOUS
<1>4. PICK E : E = B \cup {brk}
    OBVIOUS
<1>5. E \subseteq Payloads /\ brk \in Int /\ \A p \in E : p \in Int /\ p <= brk
    BY <1>1, <1>3, <1>4, EdgesArePayloads, EdgeFact
<1>6. ASSUME NEW p \in Payloads
      PROVE  h[p] = IF SizeAt(mem, p) \notin 1..(brk - p) \/ p + SizeAt(mem, p) \notin Payloads
                    THEN {p} ELSE {p} \cup h[p + SizeAt(mem, p)]
  <2>1. NEXT_BLKP(mem, p) = p + SizeAt(mem, p) /\ GET_SIZE(mem, HDRP(p)) = SizeAt(mem, p)
      BY <1>1, NextIs
  <2>2. h[p] = IF GET_SIZE(mem, HDRP(p)) \notin 1..(curbrk - p) \/ NEXT_BLKP(mem, p) \notin Payloads
               THEN {p} ELSE {p} \cup h[NEXT_BLKP(mem, p)]
      BY <1>2
  <2>. QED
      BY <1>3, <2>1, <2>2
<1>. DEFINE Above(p) == {q \in E : q >= p}
            Bad == {p \in E : h[p] # Above(p)}
<1>7. Bad = {}
  <2>1. SUFFICES ASSUME Bad # {}
                 PROVE  FALSE
      OBVIOUS
  <2>2. PICK p \in Bad : \A q \in Bad : q <= p
    <3>1. Bad \in SUBSET (0..MaxAddr) /\ MaxAddr \in Nat
        BY <1>5, PayloadsFact
    <3>. HIDE DEF Bad
    <3>. QED
        BY <2>1, <3>1, Largest
  <2>3. p \in Payloads /\ p \in E /\ h[p] # Above(p) /\ p \in Int
      BY <1>5
  <2>4. CASE p = brk
    <3>1. SizeAt(mem, p) \notin 1..(brk - p)
        BY <1>5, <2>4
    <3>2. h[p] = {p}
        BY <1>6, <2>3, <3>1
    <3>3. \A q \in E : q >= p <=> q = p
        BY <1>5, <2>4
    <3>4. Above(p) = {p}
        BY <2>3, <3>3
    <3>. QED
        BY <2>3, <3>2, <3>4
  <2>5. CASE p \in B
    <3>1. PICK t : t = p + SizeAt(mem, p)
        OBVIOUS
    <3>2. /\ SizeAt(mem, p) \in Int /\ SizeAt(mem, p) >= 8 /\ t \in E /\ t <= brk
        BY <1>3, <1>4, <2>5, <3>1, BlockFact
    <3>3. t \in Int /\ t > p /\ ~(t <= p) /\ SizeAt(mem, p) \in 1..(brk - p)
        BY <1>5, <2>3, <3>1, <3>2
    <3>4. t \in Payloads /\ t \notin Bad
      <4>. HIDE DEF Bad
      <4>. QED
          BY <1>5, <2>2, <3>2, <3>3
    <3>5. h[t] = Above(t)
        BY <3>2, <3>4
    <3>6. h[p] = {p} \cup Above(t)
        BY <1>6, <2>3, <3>1, <3>3, <3>4, <3>5
    <3>7. ASSUME NEW q \in E
          PROVE  q >= p <=> q = p \/ q >= t
      <4>1. p < q => t <= q
        <5>1. CASE q \in B
            BY <1>1, <2>5, <3>1, <5>1
        <5>2. CASE q = brk
            BY <3>2, <5>2
        <5>. QED
            BY <1>4, <5>1, <5>2
      <4>2. q \in Int
          BY <1>5
      <4>. QED
          BY <2>3, <3>3, <4>1, <4>2
    <3>8. Above(p) = {p} \cup Above(t)
        BY <2>3, <3>7
    <3>. QED
        BY <2>3, <3>6, <3>8
  <2>. QED
      BY <1>4, <2>3, <2>4, <2>5
<1>8. Blocks = E
  <2>1. 8 \in E
      BY <1>1, <1>4
  <2>2. h[8] = Above(8)
      BY <1>7, <2>1
  <2>3. \A q \in E : q >= 8
    <3>1. \A q \in B : q >= 8
        BY BlockFact
    <3>2. brk >= 16 /\ brk \in Int
        BY <1>3, <1>5 DEF Tiled
    <3>3. brk >= 8
        BY <3>2
    <3>. QED
        BY <1>4, <3>1, <3>3
  <2>4. Above(8) = E
      BY <2>3
  <2>. QED
      BY <1>2, <2>2, <2>4
<1>9. curbrk \notin B
  <2>1. curbrk \in B => curbrk < curbrk
      BY BlockFact
  <2>. QED
      BY <1>1, <2>1
<1>. QED
    BY <1>3, <1>4, <1>8, <1>9 DEF Block

(***************************************************************************)
(* The steps                                                               *)
(***************************************************************************)
LEMMA LiveKept ==
    ASSUME NEW m, NEW B, NEW n, NEW C, NEW l, LiveOK(m, B, l), Keeps(m, B, n, C)
    PROVE  LiveOK(n, C, l)
<1>1. ASSUME NEW p \in DOMAIN l
      PROVE  p \in C /\ p # 8 /\ AllocAt(n, p) = 1 /\ l[p] + 8 <= SizeAt(n, p)
  <2>1. p \in B /\ p # 8 /\ AllocAt(m, p) = 1 /\ l[p] + 8 <= SizeAt(m, p)
      BY DEF LiveOK
  <2>2. p \in C /\ n[p - 4] = m[p - 4]
      BY <2>1 DEF Keeps
  <2>. QED
      BY <2>1, <2>2 DEF AllocAt, SizeAt
<1>2. ASSUME NEW p \in C, AllocAt(n, p) = 1
      PROVE  p = 8 \/ p \in DOMAIN l
  <2>1. p \in B /\ n[p - 4] = m[p - 4]
      BY <1>2 DEF Keeps
  <2>2. AllocAt(m, p) = 1
      BY <1>2, <2>1 DEF AllocAt
  <2>. QED
      BY <2>1, <2>2 DEF LiveOK
<1>. QED
    BY <1>1, <1>2 DEF LiveOK

LEMMA TagsAre == Tags = [size : 0..(MaxAddr + DSIZE), alloc : 0..1]
BY DEF Tags, DSIZE

\* A step that leaves a good heap leaves the invariant true.
LEMMA HeapGivesInv ==
    ASSUME NEW B, HeapOK(mem', curbrk', B, live'), listp' = 8,
           \A p \in DOMAIN live' : live'[p] \in Sizes
    PROVE  Inv'
<1>1. Tiled(mem', curbrk', B) /\ LiveOK(mem', B, live')
    BY DEF HeapOK
<1>2. mem' \in [Words -> Tags] /\ curbrk' \in Words /\ B \subseteq Words
    BY <1>1 DEF Tiled
<1>3. curbrk' \in 0..MaxAddr
    BY <1>2, WordsFact, RoomAssumption
<1>4. \A p \in DOMAIN live' : p \in Words
    BY <1>1, <1>2 DEF LiveOK
<1>5. listp' \in {NULL, 2 * WSIZE} /\ listp' # NULL
    BY DEF NULL, WSIZE
<1>6. TypeOK'
    BY <1>2, <1>3, <1>4, <1>5, TagsAre DEF TypeOK
<1>. QED
    BY <1>5, <1>6 DEF Inv

LEMMA AdjustedFits ==
    ASSUME NEW size \in Nat
    PROVE  /\ Adjusted(size) \in Int /\ Adjusted(size) >= 16 /\ Adjusted(size) % 8 = 0
           /\ size + 8 <= Adjusted(size)
<1>1. CASE size <= 8
    BY <1>1 DEF Adjusted, DSIZE
<1>2. CASE size > 8
  <2>1. PICK k \in Int : k = (size + 8 + 7) \div 8
      OBVIOUS
  <2>2. 8 * k <= size + 15 /\ size + 15 < 8 * k + 8
      BY <2>1
  <2>3. Adjusted(size) = k * 8
      BY <1>2, <2>1 DEF Adjusted, DSIZE
  <2>4. (k * 8) % 8 = 0 /\ k * 8 \in Int
      OBVIOUS
  <2>. QED
      BY <1>2, <2>2, <2>3, <2>4
<1>. QED
    BY <1>1, <1>2

LEMMA ExtendShape ==
    ASSUME NEW m, NEW brk, NEW words
    PROVE  \E x, y, z : ExtendHeap(m, brk, words) = [bp |-> x, mem |-> y, brk |-> z]
BY Zenon DEF ExtendHeap

LEMMA MallocStep ==
    ASSUME Inv, NEW size \in Sizes, Malloc(size)
    PROVE  Inv'
<1>1. PICK st : st = IF listp = NULL THEN Minit ELSE [bp |-> 0, mem |-> mem, brk |-> curbrk]
    OBVIOUS
<1>2. \E x, y, z : st = [bp |-> x, mem |-> y, brk |-> z]
  <2>1. CASE listp = NULL
    <3>1. PICK m, words : Minit = ExtendHeap(m, 4 * WSIZE, words)
        BY Zenon DEF Minit
    <3>2. \E x, y, z : ExtendHeap(m, 4 * WSIZE, words) = [bp |-> x, mem |-> y, brk |-> z]
        BY ExtendShape
    <3>. QED
        BY <1>1, <2>1, <3>1, <3>2
  <2>2. CASE listp # NULL
      BY <1>1, <2>2
  <2>. QED
      BY <2>1, <2>2
<1>3. PICK B : HeapOK(st.mem, st.brk, B, live)
  <2>1. CASE listp = NULL
    <3>1. mem = [a \in Words |-> Fresh] /\ DOMAIN live = {} /\ st = Minit
        BY <1>1, <2>1 DEF Inv
    <3>2. PICK C : /\ Tiled(st.mem, st.brk, C) /\ MergedExcept(st.mem, st.brk, C, 0)
                   /\ \A p \in C : AllocAt(st.mem, p) = 1 => p = 8
        BY <3>1, MinitMakesHeap
    <3>3. LiveOK(st.mem, C, live)
        BY <3>1, <3>2 DEF LiveOK
    <3>. QED
        BY <3>2, <3>3 DEF HeapOK
  <2>2. CASE listp # NULL
    <3>1. st.mem = mem /\ st.brk = curbrk
        BY <1>1, <2>2
    <3>. QED
        BY <2>2, <3>1 DEF Inv
  <2>. QED
      BY <2>1, <2>2
<1>4. Tiled(st.mem, st.brk, B) /\ MergedExcept(st.mem, st.brk, B, 0) /\ LiveOK(st.mem, B, live)
    BY <1>3 DEF HeapOK
<1>5. size \in Nat
    BY SizesAssumption
<1>6. PICK asize \in Int : asize = Adjusted(size)
    BY <1>5, AdjustedFits
<1>7. asize >= 16 /\ asize % 8 = 0 /\ size + 8 <= asize
    BY <1>5, <1>6, AdjustedFits
<1>8. PICK fit : fit = FindFit(st.mem, asize)
    OBVIOUS
<1>9. PICK more : more = IF fit # NULL THEN [st EXCEPT !.bp = fit]
                         ELSE ExtendHeap(st.mem, st.brk, LargerOf(asize, CHUNK_SIZE))
    OBVIOUS
<1>10. more.bp # NULL =>
          \E C : /\ Tiled(more.mem, more.brk, C) /\ MergedExcept(more.mem, more.brk, C, 0)
                 /\ FreeBlock(more.mem, C, more.bp, asize) /\ LiveOK(more.mem, C, live)
  <2>1. CASE fit # NULL
    <3>1. more.mem = st.mem /\ more.brk = st.brk /\ more.bp = fit
        BY <1>2, <1>9, <2>1
    <3>2. FreeBlock(st.mem, B, fit, asize)
        BY <1>4, <1>8, <2>1, FindFitFits
    <3>. QED
        BY <1>4, <3>1, <3>2
  <2>2. CASE fit = NULL
    <3>1. PICK words : words = LargerOf(asize, CHUNK_SIZE)
        OBVIOUS
    <3>2. words \in Int /\ words % 2 = 0 /\ words >= 4 /\ words >= asize
        BY <1>7, <3>1, ChunkAssumption DEF LargerOf
    <3>3. PICK s \in Int : s = 4 * words
        BY <3>2
    <3>4. s >= asize
        BY <1>7, <3>2, <3>3
    <3>5. more = ExtendHeap(st.mem, st.brk, words)
        BY <1>9, <2>2, <3>1
    <3>6. ExtendResult(st.mem, st.brk, B, s, more)
        BY <1>4, <3>2, <3>3, <3>5, ExtendAdds
    <3>7. CASE st.brk + s <= MaxAddr
      <4>1. PICK C : /\ Tiled(more.mem, more.brk, C) /\ MergedExcept(more.mem, more.brk, C, 0)
                     /\ FreeBlock(more.mem, C, more.bp, s) /\ Keeps(st.mem, B, more.mem, C)
          BY <3>6, <3>7 DEF ExtendResult
      <4>2. LiveOK(more.mem, C, live)
          BY <1>4, <4>1, LiveKept
      <4>3. SizeAt(more.mem, more.bp) \in Int /\ SizeAt(more.mem, more.bp) >= s
          BY <4>1, BlockFact DEF FreeBlock
      <4>4. SizeAt(more.mem, more.bp) >= asize
          BY <3>4, <4>3
      <4>5. FreeBlock(more.mem, C, more.bp, asize)
          BY <4>1, <4>4 DEF FreeBlock
      <4>. QED
          BY <4>1, <4>2, <4>5
    <3>8. CASE ~(st.brk + s <= MaxAddr)
        BY <3>6, <3>8 DEF ExtendResult
    <3>. QED
        BY <3>7, <3>8
  <2>. QED
      BY <2>1, <2>2
<1>11. /\ listp' = 2 * WSIZE
       /\ IF size = 0 \/ more.bp = NULL
          THEN mem' = st.mem /\ curbrk' = st.brk /\ UNCHANGED live
          ELSE /\ mem' = Place(more.mem, more.bp, asize)
               /\ curbrk' = more.brk
               /\ live' = [p \in DOMAIN live \cup {more.bp} |->
                              IF p = more.bp THEN size ELSE live[p]]
    BY <1>1, <1>6, <1>8, <1>9, Zenon DEF Malloc
<1>12. listp' = 8
    BY <1>11 DEF WSIZE
<1>13. \A p \in DOMAIN live : live[p] \in Sizes
    BY DEF Inv, TypeOK
<1>14. CASE size = 0 \/ more.bp = NULL
  <2>1. mem' = st.mem /\ curbrk' = st.brk /\ live' = live
      BY <1>11, <1>14
  <2>2. HeapOK(mem', curbrk', B, live')
      BY <1>3, <2>1
  <2>3. \A p \in DOMAIN live' : live'[p] \in Sizes
      BY <1>13, <2>1
  <2>. QED
      BY <1>12, <2>2, <2>3, HeapGivesInv
<1>15. CASE ~(size = 0 \/ more.bp = NULL)
  <2>1. PICK bp, m, brk, n : bp = more.bp /\ m = more.mem /\ brk = more.brk /\ n = mem'
      OBVIOUS
  <2>2. /\ n = Place(m, bp, asize) /\ curbrk' = brk
        /\ live' = [p \in DOMAIN live \cup {bp} |-> IF p = bp THEN size ELSE live[p]]
      BY <1>11, <1>15, <2>1
  <2>3. PICK C : /\ Tiled(m, brk, C) /\ MergedExcept(m, brk, C, 0)
                 /\ FreeBlock(m, C, bp, asize) /\ LiveOK(m, C, live)
      BY <1>10, <1>15, <2>1
  <2>4. /\ Tiled(n, brk, C) /\ MergedExcept(n, brk, C, 0)
        /\ AllocAt(n, bp) = 1 /\ SizeAt(n, bp) = SizeAt(m, bp)
        /\ \A p \in C : p # bp => n[p - 4] = m[p - 4]
      BY <1>7, <2>2, <2>3, PlaceAllocates
  <2>5. bp \in C /\ bp # 8 /\ AllocAt(m, bp) = 0 /\ SizeAt(m, bp) >= asize
      BY <2>3 DEF FreeBlock
  <2>6. size + 8 <= SizeAt(n, bp)
    <3>1. SizeAt(m, bp) \in Int
        BY <2>3, <2>5, BlockFact
    <3>. QED
        BY <1>5, <1>7, <2>4, <2>5, <3>1
  <2>7. ASSUME NEW p \in DOMAIN live'
        PROVE  p \in C /\ p # 8 /\ AllocAt(n, p) = 1 /\ live'[p] + 8 <= SizeAt(n, p)
    <3>1. CASE p = bp
      <4>1. live'[p] = size
          BY <2>2, <3>1
      <4>. QED
          BY <2>4, <2>5, <2>6, <3>1, <4>1
    <3>2. CASE p # bp
      <4>1. p \in DOMAIN live /\ live'[p] = live[p]
          BY <2>2, <3>2
      <4>2. p \in C /\ p # 8 /\ AllocAt(m, p) = 1 /\ live[p] + 8 <= SizeAt(m, p)
          BY <2>3, <4>1 DEF LiveOK
      <4>3. n[p - 4] = m[p - 4]
          BY <2>4, <3>2, <4>2
      <4>. QED
          BY <4>1, <4>2, <4>3 DEF AllocAt, SizeAt
    <3>. QED
        BY <3>1, <3>2
  <2>8. ASSUME NEW p \in C, AllocAt(n, p) = 1
        PROVE  p = 8 \/ p \in DOMAIN live'
    <3>1. CASE p = bp
        BY <2>2, <3>1
    <3>2. CASE p # bp
      <4>1. AllocAt(m, p) = 1
          BY <2>4, <2>8, <3>2 DEF AllocAt
      <4>2. p = 8 \/ p \in DOMAIN live
          BY <2>3, <4>1 DEF LiveOK
      <4>. QED
          BY <2>2, <4>2
    <3>. QED
        BY <3>1, <3>2
  <2>9. HeapOK(mem', curbrk', C, live')
    <3>1. LiveOK(n, C, live')
        BY <2>7, <2>8 DEF LiveOK
    <3>. QED
        BY <2>1, <2>2, <2>4, <3>1 DEF HeapOK
  <2>10. \A p \in DOMAIN live' : live'[p] \in Sizes
      BY <1>13, <2>2
  <2>. QED
      BY <1>12, <2>9, <2>10, HeapGivesInv
<1>. QED
    BY <1>14, <1>15

LEMMA FreeStep ==
    ASSUME Inv, NEW bp \in DOMAIN live, Free(bp)
    PROVE  Inv'
<1>1. listp # NULL
    BY DEF Inv
<1>2. listp = 8
    BY <1>1 DEF Inv, TypeOK, WSIZE
<1>3. PICK B : HeapOK(mem, curbrk, B, live)
    BY <1>1 DEF Inv
<1>4. PICK m, brk, s, m1, m2, n :
        /\ m = mem /\ brk = curbrk /\ s = SizeAt(m, bp)
        /\ m1 = PUT(m, HDRP(bp), PACK(s, 0)) /\ m2 = PUT(m1, FTRP(m1, bp), PACK(s, 0))
        /\ n = Coalesce(m2, bp).mem
    OBVIOUS
<1>5. Tiled(m, brk, B) /\ MergedExcept(m, brk, B, 0) /\ LiveOK(m, B, live)
    BY <1>3, <1>4 DEF HeapOK
<1>6. bp \in B /\ bp # 8
    BY <1>5 DEF LiveOK
<1>7. PICK C : /\ Tiled(n, brk, C) /\ MergedExcept(n, brk, C, 0)
               /\ \A p \in B : p # bp /\ AllocAt(m, p) = 1 => p \in C /\ n[p - 4] = m[p - 4]
               /\ \A p \in C : AllocAt(n, p) = 1 => p \in B /\ p # bp /\ n[p - 4] = m[p - 4]
    BY <1>4, <1>5, <1>6, FreeReleases
<1>8. GET_SIZE(mem, HDRP(bp)) = s
    BY <1>4 DEF GET_SIZE, HDRP, WSIZE, SizeAt
<1>9. /\ mem' = n /\ live' = [q \in DOMAIN live \ {bp} |-> live[q]]
      /\ curbrk' = brk /\ listp' = 8
    BY <1>2, <1>4, <1>8 DEF Free
<1>10. ASSUME NEW p \in DOMAIN live'
       PROVE  p \in C /\ p # 8 /\ AllocAt(n, p) = 1 /\ live'[p] + 8 <= SizeAt(n, p)
  <2>1. p \in DOMAIN live /\ p # bp /\ live'[p] = live[p]
      BY <1>9
  <2>2. p \in B /\ p # 8 /\ AllocAt(m, p) = 1 /\ live[p] + 8 <= SizeAt(m, p)
      BY <1>5, <2>1 DEF LiveOK
  <2>3. p \in C /\ n[p - 4] = m[p - 4]
      BY <1>7, <2>1, <2>2
  <2>. QED
      BY <2>1, <2>2, <2>3 DEF AllocAt, SizeAt
<1>11. ASSUME NEW p \in C, AllocAt(n, p) = 1
       PROVE  p = 8 \/ p \in DOMAIN live'
  <2>1. p \in B /\ p # bp /\ n[p - 4] = m[p - 4]
      BY <1>7, <1>11
  <2>2. AllocAt(m, p) = 1
      BY <1>11, <2>1 DEF AllocAt
  <2>3. p = 8 \/ p \in DOMAIN live
      BY <1>5, <2>1, <2>2 DEF LiveOK
  <2>. QED
      BY <1>9, <2>1, <2>3
<1>12. HeapOK(mem', curbrk', C, live')
  <2>1. LiveOK(n, C, live')
      BY <1>10, <1>11 DEF LiveOK
  <2>. QED
      BY <1>7, <1>9, <2>1 DEF HeapOK
<1>13. \A p \in DOMAIN live' : live'[p] \in Sizes
    BY <1>9 DEF Inv, TypeOK
<1>. QED
    BY <1>9, <1>12, <1>13, HeapGivesInv

LEMMA UseStep ==
    ASSUME Inv, NEW bp \in DOMAIN live, Use(bp)
    PROVE  Inv'
<1>1. listp # NULL
    BY DEF Inv
<1>2. listp = 8
    BY <1>1 DEF Inv, TypeOK, WSIZE
<1>3. PICK B : HeapOK(mem, curbrk, B, live)
    BY <1>1 DEF Inv
<1>4. PICK m, brk, l, n :
        /\ m = mem /\ brk = curbrk /\ l = live[bp]
        /\ n = [a \in Words |-> IF bp <= a /\ a < bp + l THEN Payload ELSE m[a]]
    OBVIOUS
<1>5. Tiled(m, brk, B) /\ MergedExcept(m, brk, B, 0) /\ LiveOK(m, B, live)
    BY <1>3, <1>4 DEF HeapOK
<1>6. bp \in B /\ bp # 8 /\ AllocAt(m, bp) = 1 /\ l + 8 <= SizeAt(m, bp)
    BY <1>4, <1>5 DEF LiveOK
<1>7. l \in Nat
    BY <1>4, SizesAssumption DEF Inv, TypeOK
<1>8. /\ Tiled(n, brk, B) /\ MergedExcept(n, brk, B, 0)
      /\ \A p \in B : n[p - 4] = m[p - 4]
    BY <1>4, <1>5, <1>6, <1>7, UseKeepsTags
<1>9. /\ mem' = n /\ live' = live /\ curbrk' = brk /\ listp' = 8
    BY <1>2, <1>4 DEF Use, WordsOf
<1>10. LiveOK(n, B, live)
  <2>1. \A p \in B : AllocAt(n, p) = AllocAt(m, p) /\ SizeAt(n, p) = SizeAt(m, p)
      BY <1>8 DEF AllocAt, SizeAt
  <2>. QED
      BY <1>5, <2>1 DEF LiveOK
<1>11. HeapOK(mem', curbrk', B, live')
    BY <1>8, <1>9, <1>10 DEF HeapOK
<1>12. \A p \in DOMAIN live' : live'[p] \in Sizes
    BY <1>9 DEF Inv, TypeOK
<1>. QED
    BY <1>9, <1>11, <1>12, HeapGivesInv

(***************************************************************************)
(* Theorems                                                                *)
(***************************************************************************)
LEMMA InitInv == Init => Inv
<1>. SUFFICES ASSUME Init
              PROVE  Inv
    OBVIOUS
<1>1. Fresh \in Tags
  <2>1. 0 \in 0..(MaxAddr + 8) /\ 0 \in 0..1
      BY RoomAssumption
  <2>. QED
      BY <2>1, PackFact DEF Fresh
<1>2. mem \in [Words -> Tags] /\ curbrk \in 0..MaxAddr /\ DOMAIN live = {}
    BY <1>1, RoomAssumption DEF Init
<1>3. TypeOK
    BY <1>2, TagsAre DEF Init, TypeOK
<1>. QED
    BY <1>2, <1>3 DEF Init, Inv

LEMMA NextInv == Inv /\ [Next]_vars => Inv'
<1>. SUFFICES ASSUME Inv, [Next]_vars
              PROVE  Inv'
    OBVIOUS
<1>1. CASE \E size \in Sizes : Malloc(size)
    BY <1>1, MallocStep
<1>2. CASE \E p \in DOMAIN live : Free(p)
    BY <1>2, FreeStep
<1>3. CASE \E p \in DOMAIN live : Use(p)
    BY <1>3, UseStep
<1>4. CASE UNCHANGED vars
    BY <1>4 DEF vars, Inv, TypeOK
<1>. QED
    BY <1>1, <1>2, <1>3, <1>4 DEF Next

\* malloc, free and the stores of the program keep the heap a row of blocks
\* whose tags agree, in which what is allocated is what the program holds.
THEOREM Invariance == Spec => []Inv
BY InitInv, NextInv, PTL DEF Spec

\* The variables keep their types: no tag is larger than the heap and the break
\* never passes __max_addr.
THEOREM TypeCorrect == Spec => []TypeOK
<1>1. Inv => TypeOK
    BY DEF Inv
<1>. QED
    BY <1>1, Invariance, PTL

\* What the walk over the headers sees in a heap that satisfies the invariant.
LEMMA InvBlocks ==
    ASSUME Inv, listp # NULL
    PROVE  /\ listp = 8 /\ HeapOK(mem, curbrk, Block, live) /\ Blocks = Block \cup {curbrk}
           /\ \A p \in Block : /\ HDRP(p) = p - 4 /\ FTRP(mem, p) = p + SizeAt(mem, p) - 8
                               /\ NEXT_BLKP(mem, p) = p + SizeAt(mem, p)
                               /\ p \in Int /\ SizeAt(mem, p) \in Int /\ p % 8 = 0
<1>1. listp = 8
    BY DEF Inv, TypeOK, WSIZE
<1>2. PICK B : HeapOK(mem, curbrk, B, live)
    BY DEF Inv
<1>3. Tiled(mem, curbrk, B)
    BY <1>2 DEF HeapOK
<1>4. Blocks = B \cup {curbrk} /\ Block = B
    BY <1>1, <1>3, BlocksAre
<1>5. ASSUME NEW p \in B
      PROVE  /\ HDRP(p) = p - 4 /\ FTRP(mem, p) = p + SizeAt(mem, p) - 8
             /\ NEXT_BLKP(mem, p) = p + SizeAt(mem, p)
             /\ p \in Int /\ SizeAt(mem, p) \in Int /\ p % 8 = 0
  <2>1. p \in Int /\ SizeAt(mem, p) \in Int /\ p % 8 = 0
      BY <1>3, BlockFact
  <2>2. NEXT_BLKP(mem, p) = p + SizeAt(mem, p)
    <3>1. mem \in [Words -> Tags] /\ p \in Payloads
        BY <1>3, EdgesArePayloads DEF Tiled
    <3>. QED
        BY <3>1, NextIs
  <2>3. HDRP(p) = p - 4 /\ FTRP(mem, p) = p + SizeAt(mem, p) - 8
      BY DEF HDRP, FTRP, GET_SIZE, WSIZE, DSIZE, SizeAt
  <2>. QED
      BY <2>1, <2>2, <2>3
<1>. QED
    BY <1>1, <1>2, <1>4, <1>5

\* Boundary tags: after any sequence of calls header and footer of every block
\* agree and the blocks fill the heap exactly up to the epilogue at the break,
\* so that coalesce finds its neighbours and find_fit ends.
THEOREM BoundaryTagsAgree == Spec => []HeapIsTiled
<1>1. Inv => HeapIsTiled
  <2>. SUFFICES ASSUME Inv, listp # NULL
                PROVE  /\ \A p \in Block : mem[HDRP(p)] = mem[FTRP(mem, p)]
                       /\ curbrk \in Blocks
                       /\ mem[HDRP(curbrk)] = PACK(0, 1)
      BY DEF HeapIsTiled
  <2>1. Tiled(mem, curbrk, Block)
      BY InvBlocks DEF HeapOK
  <2>2. mem[curbrk - 4] = PACK(0, 1)
      BY <2>1 DEF Tiled
  <2>3. \A p \in Block : mem[p + SizeAt(mem, p) - 8] = mem[p - 4]
      BY <2>1, BlockFact
  <2>4. \A p \in Block : mem[HDRP(p)] = mem[FTRP(mem, p)]
      BY <2>3, InvBlocks
  <2>. QED
      BY <2>2, <2>4, InvBlocks DEF HDRP, WSIZE
<1>. QED
    BY <1>1, Invariance, PTL

\* malloc never gives memory away twice: every block the program holds is a
\* block of the heap, allocated, aligned, and large enough, its tags outside
\* the part that the program may use.
THEOREM HeldBlocksStaySafe == Spec => []HeldBlocksAreSafe
<1>1. Inv => HeldBlocksAreSafe
  <2>. SUFFICES ASSUME Inv, NEW p \in DOMAIN live
                PROVE  /\ p \in Block /\ GET_ALLOC(mem, HDRP(p)) = 1
                       /\ p % DSIZE = 0
                       /\ p + live[p] <= FTRP(mem, p)
      BY DEF HeldBlocksAreSafe
  <2>1. listp # NULL
      BY DEF Inv
  <2>2. p \in Block /\ AllocAt(mem, p) = 1 /\ live[p] + 8 <= SizeAt(mem, p)
      BY <2>1, InvBlocks DEF HeapOK, LiveOK
  <2>3. /\ HDRP(p) = p - 4 /\ FTRP(mem, p) = p + SizeAt(mem, p) - 8
        /\ p \in Int /\ SizeAt(mem, p) \in Int /\ p % 8 = 0
      BY <2>1, <2>2, InvBlocks
  <2>4. live[p] \in Nat
      BY SizesAssumption DEF Inv, TypeOK
  <2>5. p + live[p] <= p + SizeAt(mem, p) - 8
      BY <2>2, <2>3, <2>4
  <2>. QED
      BY <2>2, <2>3, <2>5 DEF GET_ALLOC, AllocAt, DSIZE
<1>. QED
    BY <1>1, Invariance, PTL

\* coalesce: after every call no two neighbours are free.
THEOREM FreeBlocksStayMerged == Spec => []FreeBlocksAreMerged
<1>1. Inv => FreeBlocksAreMerged
  <2>. SUFFICES ASSUME Inv, NEW p \in Block, GET_ALLOC(mem, HDRP(p)) = 0,
                       NEXT_BLKP(mem, p) # curbrk
                PROVE  GET_ALLOC(mem, HDRP(NEXT_BLKP(mem, p))) = 1
      BY DEF FreeBlocksAreMerged
  <2>1. CASE listp = NULL
      BY <2>1 DEF Block, Blocks
  <2>2. CASE listp # NULL
    <3>1. HDRP(p) = p - 4 /\ NEXT_BLKP(mem, p) = p + SizeAt(mem, p)
        BY <2>2, InvBlocks
    <3>2. Tiled(mem, curbrk, Block) /\ MergedExcept(mem, curbrk, Block, 0)
        BY <2>2, InvBlocks DEF HeapOK
    <3>3. AllocAt(mem, p) = 0 /\ p + SizeAt(mem, p) # curbrk
        BY <3>1 DEF GET_ALLOC, AllocAt
    <3>4. p # 0 /\ p + SizeAt(mem, p) # 0
      <4>1. p \in Int /\ SizeAt(mem, p) \in Int /\ p >= 8 /\ SizeAt(mem, p) >= 8
          BY <3>2, BlockFact
      <4>. QED
          BY <4>1
    <3>5. AllocAt(mem, p + SizeAt(mem, p)) = 1
        BY <3>2, <3>3, <3>4 DEF MergedExcept
    <3>. QED
        BY <3>1, <3>5 DEF GET_ALLOC, HDRP, WSIZE, AllocAt
  <2>. QED
      BY <2>1, <2>2
<1>. QED
    BY <1>1, Invariance, PTL

\* free gives every byte back: what is allocated is held by the program, but
\* for the prologue.
THEOREM AllocatedBlocksAreHeld == Spec => []NothingLeaks
<1>1. Inv => NothingLeaks
  <2>. SUFFICES ASSUME Inv, NEW p \in Block, GET_ALLOC(mem, HDRP(p)) = 1
                PROVE  p = listp \/ p \in DOMAIN live
      BY DEF NothingLeaks
  <2>1. CASE listp = NULL
      BY <2>1 DEF Block, Blocks
  <2>2. CASE listp # NULL
    <3>1. AllocAt(mem, p) = 1
        BY <2>2, InvBlocks DEF GET_ALLOC, AllocAt
    <3>2. LiveOK(mem, Block, live) /\ listp = 8
        BY <2>2, InvBlocks DEF HeapOK
    <3>. QED
        BY <3>1, <3>2 DEF LiveOK
  <2>. QED
      BY <2>1, <2>2
<1>. QED
    BY <1>1, Invariance, PTL

=============================================================================
