---------------------------- MODULE ShellProofs ----------------------------
(***************************************************************************)
(* The properties of Shell hold for every archive, every set of lines and  *)
(* scripts, and every size of arg_list, SH_VAR_LIST and file_array.        *)
(***************************************************************************)
EXTENDS Shell, FiniteSetTheorems, WellFoundedInduction, TLAPS

-----------------------------------------------------------------------------
(* parse_cmds: what holds after each turn of its loop *)

Even(s, p) == QuotesBefore(s, p) % 2 = 0

\* A closing quote with something other than a space after it.
UglyAt(s, p) == /\ s[p] = "q" /\ ~Even(s, p)
                /\ p < Len(s) /\ s[p + 1] \notin {"sp", "nl"}

\* The words that end before a.
Found(s, a) == {w \in WordSpans(s) : w[2] < a}

\* The loop has come to a: not past the end of the line, not past an ugly
\* quote, not inside a word and not inside quotes.
Reaches(s, a) ==
    /\ a \in 1 .. Len(s) + 1
    /\ \A i \in 1 .. a - 1 : i \in Cut(s)
    /\ \A p \in Cut(s) : p < a => ~UglyAt(s, p)
    /\ a = 1 \/ Blank(s, a)
    /\ EndOfLine(s, a) \/ Even(s, a)

\* args are the words that end before a, from left to right.
Lists(s, spans, args) == \A i \in 1 .. Len(args) : args[i] = SubSeq(s, spans[i][1], spans[i][2])
Enumerates(s, a, args) ==
    \E spans \in [1 .. Len(args) -> Found(s, a)] :
        InOrder(spans) /\ Cardinality(Found(s, a)) = Len(args) /\ Lists(s, spans, args)

\* Only spaces are left.
Over(s, a) == EndOfLine(s, SkipSpaces(s, a))

LoopOK(s, n, st) ==
    \/ st.args = NULL /\ Ugly(s)
    \/ /\ st.args \in Seq(Seq(STRING))
       /\ Reaches(s, st.at)
       /\ Enumerates(s, st.at, st.args)
       /\ Len(st.args) = n \/ Over(s, st.at)

\* A set of numbers has a smallest one.
LEMMA Smallest ==
    ASSUME NEW S \in SUBSET Nat, S # {}
    PROVE  \E x \in S : \A y \in S : x <= y
<1>1. PICK x \in S : \A y \in S : ~(<<y, x>> \in OpToRel(<, Nat))
    BY NatLessThanWellFounded, WFMin
<1>2. ASSUME NEW y \in S
      PROVE  x <= y
  <2>1. x \in Nat /\ y \in Nat
      OBVIOUS
  <2>2. y < x => <<y, x>> \in OpToRel(<, Nat)
      BY <2>1 DEF OpToRel
  <2>3. ~(y < x)
      BY <1>1, <2>2, Zenon
  <2>. QED
      BY <2>1, <2>3
<1>. QED
    BY <1>2

\* Min finds the smallest number.
LEMMA MinIsFirst ==
    ASSUME NEW S \in SUBSET Nat, S # {}
    PROVE  Min(S) \in S /\ \A y \in S : Min(S) <= y
BY Smallest DEF Min

\* Skipping spaces stops at the first character that is none.
LEMMA SkipSpacesStops ==
    ASSUME NEW s \in Seq(STRING), NEW p \in 1 .. Len(s) + 1, NEW b, b = SkipSpaces(s, p)
    PROVE  /\ b \in p .. Len(s) + 1
           /\ b > Len(s) \/ s[b] # "sp"
           /\ \A i \in p .. b - 1 : i \in 1 .. Len(s) /\ s[i] = "sp"
<1>. DEFINE S == {q \in p .. Len(s) + 1 : q > Len(s) \/ s[q] # "sp"}
<1>1. Len(s) \in Nat
    OBVIOUS
<1>2. S \in SUBSET Nat /\ Len(s) + 1 \in S
    BY <1>1
<1>3. b = Min(S)
    BY DEF SkipSpaces
<1>4. b \in S /\ \A y \in S : b <= y
  <2>. HIDE DEF S
  <2>. QED
      BY <1>2, <1>3, MinIsFirst
<1>5. ASSUME NEW i \in p .. b - 1
      PROVE  i \in 1 .. Len(s) /\ s[i] = "sp"
  <2>1. b \in p .. Len(s) + 1 /\ i \in 1 .. Len(s) /\ ~(b <= i)
      BY <1>1, <1>4
  <2>2. i \notin S
      BY <1>4, <2>1
  <2>. QED
      BY <1>1, <2>1, <2>2
<1>. QED
    BY <1>4, <1>5

\* The word that starts at b ends where the inner loop leaves it first.
FirstLeft(s, b, q) ==
    /\ q \in b .. Len(s) + 1
    /\ Leaves(s, b, q)
    /\ \A i \in b .. q - 1 : ~Leaves(s, b, i)

Closed(s, q) == ~EndOfLine(s, q) /\ s[q] = "q"

\* What TakeWord gives, in terms of the position q where the word is left.
LEMMA TakeWordStops ==
    ASSUME NEW s \in Seq(STRING), NEW b \in 1 .. Len(s) + 1
    PROVE  \E q : /\ FirstLeft(s, b, q)
                  /\ TakeWord(s, b) =
                        [at   |-> IF Closed(s, q) THEN q + 1 ELSE q,
                         word |-> SubSeq(s, b, (IF Closed(s, q) THEN q + 1 ELSE q) - 1),
                         ugly |-> Closed(s, q) /\ q < Len(s) /\ s[q + 1] \notin {"sp", "nl"}]
<1>. DEFINE S == {r \in b .. Len(s) + 1 : Leaves(s, b, r)}
<1>1. Len(s) \in Nat
    OBVIOUS
<1>2. S \in SUBSET Nat /\ Len(s) + 1 \in S
    BY <1>1 DEF Leaves, EndOfLine
<1>3. PICK q : q = Min(S)
    OBVIOUS
<1>4. q \in S /\ \A y \in S : q <= y
  <2>. HIDE DEF S
  <2>. QED
      BY <1>2, <1>3, MinIsFirst
<1>5. ASSUME NEW i \in b .. q - 1
      PROVE  ~Leaves(s, b, i)
  <2>1. q \in b .. Len(s) + 1 /\ i \in b .. Len(s) + 1 /\ ~(q <= i)
      BY <1>1, <1>4
  <2>2. i \notin S
      BY <1>4, <2>1
  <2>. QED
      BY <2>1, <2>2
<1>6. FirstLeft(s, b, q)
    BY <1>4, <1>5 DEF FirstLeft
<1>7. TakeWord(s, b) =
                        [at   |-> IF Closed(s, q) THEN q + 1 ELSE q,
                         word |-> SubSeq(s, b, (IF Closed(s, q) THEN q + 1 ELSE q) - 1),
                         ugly |-> Closed(s, q) /\ q < Len(s) /\ s[q + 1] \notin {"sp", "nl"}]
    BY <1>3, Zenon DEF TakeWord, Closed
<1>. QED
    BY <1>6, <1>7

-----------------------------------------------------------------------------
(* Quotes and words *)

\* One more quote turns an even number of them into an odd one.
LEMMA Parity ==
    ASSUME NEW n \in Nat
    PROVE  /\ n % 2 = 0 => (n + 1) % 2 # 0
           /\ n % 2 # 0 => (n + 1) % 2 = 0
           /\ n % 2 = 1 <=> n % 2 # 0
OBVIOUS

\* The quotes before a position can be counted.
LEMMA QuotesAreFinite ==
    ASSUME NEW s, NEW p \in Nat
    PROVE  /\ IsFiniteSet({i \in 1 .. p - 1 : s[i] = "q"})
           /\ QuotesBefore(s, p) \in Nat
<1>1. IsFiniteSet(1 .. p - 1)
    BY FS_Interval
<1>2. IsFiniteSet({i \in 1 .. p - 1 : s[i] = "q"})
    BY <1>1, FS_Subset
<1>. QED
    BY <1>2, FS_CardinalityType DEF QuotesBefore

\* A stretch without quotes does not change whether a position is quoted.
LEMMA NoQuoteBetween ==
    ASSUME NEW s, NEW p \in Nat \ {0}, NEW q \in Nat, p <= q,
           \A i \in p .. q - 1 : s[i] # "q"
    PROVE  Even(s, q) <=> Even(s, p)
<1>1. {i \in 1 .. q - 1 : s[i] = "q"} = {i \in 1 .. p - 1 : s[i] = "q"}
    OBVIOUS
<1>. QED
    BY <1>1, Zenon DEF Even, QuotesBefore

\* A stretch with one quote does.
LEMMA OneQuoteBetween ==
    ASSUME NEW s, NEW p \in Nat \ {0}, NEW q \in Nat, NEW k \in p .. q - 1,
           s[k] = "q", \A i \in p .. q - 1 : s[i] = "q" => i = k
    PROVE  Even(s, q) <=> ~Even(s, p)
<1>1. PICK A : A = {i \in 1 .. p - 1 : s[i] = "q"}
    OBVIOUS
<1>2. PICK B : B = {i \in 1 .. q - 1 : s[i] = "q"}
    OBVIOUS
<1>3. B = A \cup {k} /\ k \notin A
    BY <1>1, <1>2
<1>4. IsFiniteSet(A) /\ Cardinality(A) \in Nat /\ QuotesBefore(s, p) = Cardinality(A)
    BY <1>1, QuotesAreFinite DEF QuotesBefore
<1>5. Cardinality(B) = Cardinality(A) + 1
    BY <1>3, <1>4, FS_AddElement
<1>6. QuotesBefore(s, q) = Cardinality(A) + 1
    BY <1>2, <1>5 DEF QuotesBefore
<1>. QED
    BY <1>4, <1>6, Parity DEF Even

\* Two words are the same or apart.
LEMMA WordsApart ==
    ASSUME NEW s \in Seq(STRING), NEW v \in WordSpans(s), NEW w \in WordSpans(s)
    PROVE  v = w \/ v[2] < w[1] \/ w[2] < v[1]
<1>1. /\ v \in Cut(s) \X Cut(s) /\ w \in Cut(s) \X Cut(s)
      /\ v[1] <= v[2] /\ w[1] <= w[2]
      /\ \A p \in v[1] .. v[2] : ~Blank(s, p)
      /\ \A p \in w[1] .. w[2] : ~Blank(s, p)
      /\ Blank(s, v[1] - 1) /\ Blank(s, v[2] + 1)
      /\ Blank(s, w[1] - 1) /\ Blank(s, w[2] + 1)
    BY DEF WordSpans
<1>2. /\ v[1] \in Nat /\ v[2] \in Nat /\ w[1] \in Nat /\ w[2] \in Nat
      /\ v = <<v[1], v[2]>> /\ w = <<w[1], w[2]>>
    BY <1>1 DEF Cut
<1>3. ASSUME ~(v[2] < w[1]), ~(w[2] < v[1])
      PROVE  v[1] = w[1] /\ v[2] = w[2]
  <2>1. w[1] - 1 \notin v[1] .. v[2] /\ v[1] - 1 \notin w[1] .. w[2]
      BY <1>1
  <2>2. v[1] = w[1]
      BY <1>1, <1>2, <1>3, <2>1
  <2>3. w[2] + 1 \notin v[1] .. v[2] /\ v[2] + 1 \notin w[1] .. w[2]
      BY <1>1
  <2>4. v[2] = w[2]
      BY <1>1, <1>2, <1>3, <2>3
  <2>. QED
      BY <2>2, <2>4
<1>. QED
    BY <1>2, <1>3

\* A line has finitely many words.
LEMMA WordsAreFinite ==
    ASSUME NEW s \in Seq(STRING)
    PROVE  IsFiniteSet(WordSpans(s)) /\ Cardinality(WordSpans(s)) \in Nat
<1>1. Len(s) \in Nat
    OBVIOUS
<1>2. IsFiniteSet(1 .. Len(s))
    BY <1>1, FS_Interval
<1>3. Cut(s) \subseteq 1 .. Len(s)
    BY DEF Cut
<1>4. IsFiniteSet(Cut(s))
    BY <1>2, <1>3, FS_Subset
<1>5. IsFiniteSet(Cut(s) \X Cut(s))
    BY <1>4, FS_Product
<1>6. WordSpans(s) \subseteq Cut(s) \X Cut(s)
    BY DEF WordSpans
<1>. QED
    BY <1>5, <1>6, FS_Subset, FS_CardinalityType

\* The loop is at a word.
LEMMA SpacesAreBlank ==
    ASSUME NEW s \in Seq(STRING), NEW a, Reaches(s, a), NEW b, b = SkipSpaces(s, a),
           ~EndOfLine(s, b)
    PROVE  /\ a \in Nat \ {0} /\ b \in Nat \ {0} /\ a <= b /\ b <= Len(s) /\ s[b] # "sp"
           /\ \A i \in 1 .. b : i \in Cut(s)
           /\ \A i \in a .. b - 1 : Blank(s, i) /\ s[i] = "sp"
           /\ Even(s, b) /\ Blank(s, b - 1)
<1>1. Len(s) \in Nat /\ DOMAIN s = 1 .. Len(s)
    OBVIOUS
<1>2. a \in 1 .. Len(s) + 1
    BY DEF Reaches
<1>3. /\ b \in a .. Len(s) + 1
      /\ b > Len(s) \/ s[b] # "sp"
      /\ \A i \in a .. b - 1 : i \in 1 .. Len(s) /\ s[i] = "sp"
    BY <1>2, SkipSpacesStops
<1>4. b <= Len(s) /\ s[b] \notin {"#", "nl"} /\ s[b] # "sp" /\ a \in Nat \ {0} /\ b \in Nat \ {0} /\ a <= b
    BY <1>1, <1>2, <1>3 DEF EndOfLine
<1>5. \A i \in 1 .. b : i \in 1 .. Len(s) /\ s[i] \notin {"#", "nl"}
  <2>. SUFFICES ASSUME NEW i \in 1 .. b
                PROVE  i \in 1 .. Len(s) /\ s[i] \notin {"#", "nl"}
      OBVIOUS
  <2>1. i \in 1 .. Len(s)
      BY <1>1, <1>4
  <2>2. CASE i < a
    <3>1. i \in Cut(s)
        BY <1>4, <2>2 DEF Reaches
    <3>2. i \in 1 .. i
        BY <2>1
    <3>. QED
        BY <2>1, <3>1, <3>2 DEF Cut
  <2>3. CASE i >= a /\ i < b
      BY <1>3, <1>4, <2>1, <2>3
  <2>4. CASE i = b
      BY <1>4, <2>1, <2>4
  <2>. QED
      BY <1>4, <2>2, <2>3, <2>4
<1>6. ASSUME NEW i \in 1 .. b
      PROVE  i \in Cut(s)
  <2>1. \A j \in 1 .. i : j \in 1 .. b
      BY <1>4
  <2>. QED
      BY <1>1, <1>5, <2>1 DEF Cut
<1>7. ~EndOfLine(s, a)
  <2>1. CASE a = b
      BY <2>1
  <2>2. CASE a < b
      BY <1>1, <1>3, <1>4, <2>2 DEF EndOfLine
  <2>. QED
      BY <1>4, <2>1, <2>2
<1>8. Even(s, a)
    BY <1>7 DEF Reaches
<1>9. ASSUME NEW i \in a .. b
      PROVE  Even(s, i)
  <2>1. \A j \in a .. i - 1 : s[j] # "q"
    <3>1. \A j \in a .. i - 1 : j \in a .. b - 1
        BY <1>4
    <3>. QED
        BY <1>3, <3>1
  <2>2. i \in Nat /\ a <= i
      BY <1>4
  <2>. QED
      BY <1>4, <1>8, <2>1, <2>2, NoQuoteBetween
<1>10. ASSUME NEW i \in a .. b - 1
       PROVE  Blank(s, i) /\ s[i] = "sp"
  <2>1. i \in a .. b
      BY <1>4
  <2>. QED
      BY <1>3, <1>9, <2>1 DEF Blank, Even
<1>11. Even(s, b)
    BY <1>4, <1>9
<1>12. Blank(s, b - 1)
  <2>1. CASE b > a
      BY <1>4, <1>10, <2>1
  <2>2. CASE b = a /\ a # 1
    <3>1. Blank(s, b)
        BY <2>2 DEF Reaches
    <3>2. b \in Cut(s)
        BY <1>4, <1>6
    <3>. QED
        BY <1>4, <3>1, <3>2 DEF Blank
  <2>3. CASE b = a /\ a = 1
    <3>1. b - 1 \notin Cut(s)
        BY <1>1, <2>3 DEF Cut
    <3>. QED
        BY <3>1 DEF Blank
  <2>. QED
      BY <1>4, <2>1, <2>2, <2>3
<1>. QED
    BY <1>4, <1>6, <1>10, <1>11, <1>12

\* No word holds the end of the line.
LEMMA EndIsBlank ==
    ASSUME NEW s \in Seq(STRING), NEW p \in Nat \ {0}, EndOfLine(s, p)
    PROVE  p \notin Cut(s) /\ Blank(s, p)
<1>1. p \notin Cut(s)
    BY DEF EndOfLine, Cut
<1>. QED
    BY <1>1 DEF Blank

\* The stretch that the inner loop crosses has no end of the line in it, a
\* space only after a quote, and one quote at most.
LEMMA WordCrossed ==
    ASSUME NEW s \in Seq(STRING), NEW b \in Nat \ {0}, b <= Len(s), s[b] # "sp",
           \A i \in 1 .. b : i \in Cut(s), NEW q, FirstLeft(s, b, q)
    PROVE  /\ q \in Nat /\ b < q /\ q <= Len(s) + 1
           /\ \A i \in 1 .. q - 1 : i \in Cut(s)
           /\ \A i \in b .. q - 1 : s[i] = "sp" => QuoteFlag(s, b, i)
           /\ \A i \in b .. q - 1 : s[i] = "q" => ~QuoteFlag(s, b, i)
<1>1. Len(s) \in Nat /\ DOMAIN s = 1 .. Len(s)
    OBVIOUS
<1>2. q \in b .. Len(s) + 1 /\ Leaves(s, b, q) /\ \A i \in b .. q - 1 : ~Leaves(s, b, i)
    BY DEF FirstLeft
<1>3. b \in 1 .. b /\ b \in Cut(s)
    BY <1>1
<1>4. s[b] \notin {"#", "nl"}
    BY <1>3 DEF Cut
<1>5. ~QuoteFlag(s, b, b)
    BY <1>1 DEF QuoteFlag
<1>6. ~Leaves(s, b, b)
    BY <1>1, <1>4, <1>5 DEF Leaves, EndOfLine
<1>7. q \in Nat /\ b < q /\ q <= Len(s) + 1
  <2>1. q # b
      BY <1>2, <1>6
  <2>. QED
      BY <1>1, <1>2, <2>1
<1>8. \A i \in b .. q - 1 : i \in 1 .. Len(s) /\ s[i] \notin {"#", "nl"}
  <2>. SUFFICES ASSUME NEW i \in b .. q - 1
                PROVE  i \in 1 .. Len(s) /\ s[i] \notin {"#", "nl"}
      OBVIOUS
  <2>1. ~EndOfLine(s, i)
      BY <1>2 DEF Leaves
  <2>2. i \in 1 .. Len(s)
      BY <1>1, <1>7
  <2>. QED
      BY <2>1, <2>2 DEF EndOfLine
<1>9. ASSUME NEW i \in 1 .. q - 1
      PROVE  i \in Cut(s)
  <2>1. CASE i <= b
      BY <2>1, <1>7
  <2>2. CASE i > b
    <3>1. ASSUME NEW j \in 1 .. i
          PROVE  s[j] \notin {"#", "nl"}
      <4>1. CASE j <= b
        <5>1. j \in Cut(s) /\ j \in 1 .. j
            BY <4>1
        <5>. QED
            BY <5>1 DEF Cut
      <4>2. CASE j > b
        <5>1. j \in b .. q - 1
            BY <4>2, <1>7
        <5>. QED
            BY <5>1, <1>8
      <4>. QED
          BY <4>1, <4>2
    <3>2. i \in b .. q - 1
        BY <2>2, <1>7
    <3>3. i \in DOMAIN s
        BY <1>1, <1>8, <3>2
    <3>. QED
        BY <3>1, <3>3 DEF Cut
  <2>. QED
      BY <2>1, <2>2, <1>7
<1>10. ASSUME NEW i \in b .. q - 1
       PROVE  /\ s[i] = "sp" => QuoteFlag(s, b, i)
              /\ s[i] = "q" => ~QuoteFlag(s, b, i)
    BY <1>2 DEF Leaves
<1>. QED
    BY <1>7, <1>9, <1>10

\* Nothing up to a' is ugly when nothing up to a is, spaces follow, and no
\* closing quote but a last one that is not ugly.
LEMMA StillReaches ==
    ASSUME NEW s \in Seq(STRING), NEW a, Reaches(s, a), NEW b \in Nat, NEW c \in Nat, a <= b, b < c,
           c <= Len(s) + 1,
           \A i \in a .. b - 1 : s[i] = "sp",
           \A i \in b .. c - 1 : ~UglyAt(s, i),
           \A i \in 1 .. c - 1 : i \in Cut(s),
           Blank(s, c), EndOfLine(s, c) \/ Even(s, c)
    PROVE  Reaches(s, c)
<1>1. Len(s) \in Nat /\ a \in Nat
    BY DEF Reaches
<1>2. ASSUME NEW p \in Cut(s), p < c
      PROVE  ~UglyAt(s, p)
  <2>1. p \in Nat
      BY DEF Cut
  <2>2. CASE p < a
      BY <2>2 DEF Reaches
  <2>3. CASE p >= a /\ p < b
    <3>1. s[p] = "sp"
        BY <1>1, <2>1, <2>3
    <3>. QED
        BY <3>1 DEF UglyAt
  <2>4. CASE p >= b
    <3>1. p \in b .. c - 1
        BY <1>2, <2>1, <2>4
    <3>. QED
        BY <3>1
  <2>. QED
      BY <1>1, <2>1, <2>2, <2>3, <2>4
<1>3. c \in 1 .. Len(s) + 1
    BY <1>1
<1>. QED
    BY <1>2, <1>3 DEF Reaches

\* The argument ends in an ugly quote.
UglyEnd(s, q) == Closed(s, q) /\ q < Len(s) /\ s[q + 1] \notin {"sp", "nl"}

\* What one turn of the loop takes is a word of the line, or shows that the
\* line is ugly.
LEMMA WordTaken ==
    ASSUME NEW s \in Seq(STRING), NEW a, Reaches(s, a), NEW b, b = SkipSpaces(s, a),
           ~EndOfLine(s, b), NEW q, FirstLeft(s, b, q),
           NEW c, c = IF Closed(s, q) THEN q + 1 ELSE q
    PROVE  /\ a \in Nat /\ b \in Nat \ {0} /\ c \in Nat /\ a <= b /\ b < c /\ c <= Len(s) + 1
           /\ \A i \in a .. b - 1 : Blank(s, i)
           /\ UglyEnd(s, q) => Ugly(s)
           /\ ~UglyEnd(s, q) => Reaches(s, c) /\ <<b, c - 1>> \in WordSpans(s)
<1>1. Len(s) \in Nat /\ DOMAIN s = 1 .. Len(s)
    OBVIOUS
<1>2. /\ a \in Nat \ {0} /\ b \in Nat \ {0} /\ a <= b /\ b <= Len(s) /\ s[b] # "sp"
      /\ \A i \in 1 .. b : i \in Cut(s)
      /\ \A i \in a .. b - 1 : Blank(s, i) /\ s[i] = "sp"
      /\ Even(s, b) /\ Blank(s, b - 1)
    BY SpacesAreBlank
<1>3. /\ q \in Nat /\ b < q /\ q <= Len(s) + 1
      /\ \A i \in 1 .. q - 1 : i \in Cut(s)
      /\ \A i \in b .. q - 1 : s[i] = "sp" => QuoteFlag(s, b, i)
      /\ \A i \in b .. q - 1 : s[i] = "q" => ~QuoteFlag(s, b, i)
    BY <1>2, WordCrossed
<1>4. Leaves(s, b, q)
    BY DEF FirstLeft
<1>5. c \in Nat /\ b < c /\ c <= Len(s) + 1
  <2>1. CASE Closed(s, q)
    <3>1. q <= Len(s) /\ c = q + 1
        BY <1>1, <1>3, <2>1 DEF Closed, EndOfLine
    <3>. QED
        BY <1>1, <1>2, <1>3, <3>1
  <2>2. CASE ~Closed(s, q)
      BY <1>3, <2>2
  <2>. QED
      BY <2>1, <2>2
<1>6. ASSUME \A i \in b .. c - 1 : ~Blank(s, i), Blank(s, c), \A i \in 1 .. c - 1 : i \in Cut(s)
      PROVE  <<b, c - 1>> \in WordSpans(s)
  <2>1. b \in 1 .. c - 1 /\ c - 1 \in 1 .. c - 1 /\ b <= c - 1 /\ (c - 1) + 1 = c
      BY <1>2, <1>5
  <2>. QED
      BY <1>2, <1>6, <2>1 DEF WordSpans
<1>7. CASE ~QuoteFlag(s, b, q)
  <2>1. \A i \in b .. q - 1 : s[i] # "q"
      BY <1>7 DEF QuoteFlag
  <2>2. ASSUME NEW i \in b .. q - 1
        PROVE  ~QuoteFlag(s, b, i)
    <3>1. \A j \in b .. i - 1 : j \in b .. q - 1
        BY <1>2, <1>3
    <3>. QED
        BY <2>1, <3>1 DEF QuoteFlag
  <2>3. ~Closed(s, q) /\ c = q /\ ~UglyEnd(s, q)
      BY <1>4, <1>7 DEF Closed, Leaves, UglyEnd
  <2>4. ASSUME NEW i \in b .. q - 1
        PROVE  ~Blank(s, i) /\ ~UglyAt(s, i)
    <3>1. i \in Cut(s) /\ s[i] # "sp"
        BY <1>2, <1>3, <2>2
    <3>. QED
        BY <2>1, <3>1 DEF Blank, UglyAt
  <2>5. Even(s, q)
      BY <1>2, <1>3, <2>1, NoQuoteBetween
  <2>6. Blank(s, q)
    <3>1. CASE EndOfLine(s, q)
        BY <1>2, <1>3, <3>1, EndIsBlank
    <3>2. CASE ~EndOfLine(s, q)
        BY <1>4, <1>7, <2>5, <3>2 DEF Leaves, Blank, Even
    <3>. QED
        BY <3>1, <3>2
  <2>7. <<b, c - 1>> \in WordSpans(s)
      BY <1>3, <1>6, <2>3, <2>4, <2>6
  <2>8. Reaches(s, q)
      BY <1>2, <1>3, <2>4, <2>5, <2>6, StillReaches
  <2>. QED
      BY <1>2, <1>5, <2>3, <2>7, <2>8
<1>8. CASE QuoteFlag(s, b, q)
  <2>1. PICK k \in b .. q - 1 : s[k] = "q"
      BY <1>8 DEF QuoteFlag
  <2>2. ASSUME NEW i \in b .. q - 1, s[i] = "q"
        PROVE  i = k
    <3>1. CASE i < k
      <4>1. i \in b .. k - 1
          BY <1>2, <1>3, <3>1
      <4>2. QuoteFlag(s, b, k)
          BY <2>2, <4>1 DEF QuoteFlag
      <4>. QED
          BY <1>3, <2>1, <4>2
    <3>2. CASE i > k
      <4>1. k \in b .. i - 1
          BY <1>2, <1>3, <3>2
      <4>2. QuoteFlag(s, b, i)
          BY <2>1, <4>1 DEF QuoteFlag
      <4>. QED
          BY <1>3, <2>2, <4>2
    <3>. QED
        BY <1>2, <1>3, <3>1, <3>2
  <2>3. Even(s, k)
    <3>1. \A i \in b .. k - 1 : s[i] # "q"
      <4>1. \A i \in b .. k - 1 : i \in b .. q - 1 /\ i # k
          BY <1>2, <1>3
      <4>. QED
          BY <2>2, <4>1
    <3>2. k \in Nat /\ b <= k
        BY <1>2, <1>3
    <3>. QED
        BY <1>2, <3>1, <3>2, NoQuoteBetween
  <2>4. ASSUME NEW i \in (k + 1) .. q
        PROVE  ~Even(s, i)
    <3>1. \A j \in b .. i - 1 : s[j] = "q" => j = k
      <4>1. \A j \in b .. i - 1 : j \in b .. q - 1
          BY <1>2, <1>3
      <4>. QED
          BY <2>2, <4>1
    <3>2. k \in b .. i - 1 /\ i \in Nat
        BY <1>2, <1>3
    <3>. QED
        BY <1>2, <2>1, <3>1, <3>2, OneQuoteBetween
  <2>5. ASSUME NEW i \in b .. q - 1
        PROVE  ~Blank(s, i) /\ ~UglyAt(s, i)
    <3>1. i \in Cut(s)
        BY <1>2, <1>3
    <3>2. CASE i <= k
      <4>1. ~QuoteFlag(s, b, i)
        <5>1. \A j \in b .. i - 1 : j \in b .. q - 1 /\ j # k
            BY <1>2, <1>3, <3>2
        <5>. QED
            BY <2>2, <5>1 DEF QuoteFlag
      <4>2. s[i] # "sp"
          BY <1>3, <4>1
      <4>3. s[i] = "q" => Even(s, i)
          BY <2>2, <2>3
      <4>. QED
          BY <3>1, <4>2, <4>3 DEF Blank, UglyAt
    <3>3. CASE i > k
      <4>1. i \in (k + 1) .. q
          BY <1>2, <1>3, <3>3
      <4>2. ~Even(s, i) /\ s[i] # "q"
        <5>1. i # k
            BY <1>2, <1>3, <3>3
        <5>. QED
            BY <2>2, <2>4, <4>1, <5>1
      <4>. QED
          BY <3>1, <4>2 DEF Blank, UglyAt, Even
    <3>. QED
        BY <1>2, <1>3, <3>2, <3>3
  <2>6. ~Even(s, q)
    <3>1. q \in (k + 1) .. q
        BY <1>2, <1>3
    <3>. QED
        BY <2>4, <3>1
  <2>7. CASE EndOfLine(s, q)
    <3>1. c = q /\ ~UglyEnd(s, q)
        BY <2>7 DEF Closed, UglyEnd
    <3>2. Blank(s, q)
        BY <1>2, <1>3, <2>7, EndIsBlank
    <3>3. <<b, c - 1>> \in WordSpans(s)
        BY <1>3, <1>6, <2>5, <3>1, <3>2
    <3>4. Reaches(s, q)
        BY <1>2, <1>3, <2>5, <2>7, <3>2, StillReaches
    <3>. QED
        BY <1>2, <1>5, <3>1, <3>3, <3>4
  <2>8. CASE ~EndOfLine(s, q)
    <3>1. s[q] = "q" /\ Closed(s, q) /\ c = q + 1
        BY <1>4, <1>8, <2>8 DEF Leaves, Closed
    <3>2. q \in DOMAIN s /\ s[q] \notin {"#", "nl"}
        BY <1>1, <1>2, <1>3, <2>8 DEF EndOfLine
    <3>3. q \in Cut(s)
      <4>1. ASSUME NEW j \in 1 .. q
            PROVE  s[j] \notin {"#", "nl"}
        <5>1. CASE j = q
            BY <3>2, <5>1
        <5>2. CASE j # q
          <6>1. j \in 1 .. q - 1 /\ j \in 1 .. j
              BY <1>3, <5>2
          <6>2. j \in Cut(s)
              BY <1>3, <6>1
          <6>. QED
              BY <6>1, <6>2 DEF Cut
        <5>. QED
            BY <5>1, <5>2
      <4>. QED
          BY <3>2, <4>1 DEF Cut
    <3>4. ~Blank(s, q)
        BY <2>6, <3>1, <3>3 DEF Blank
    <3>5. UglyEnd(s, q) => Ugly(s)
      <4>1. QuotesBefore(s, q) % 2 = 1
          BY <1>3, <2>6, QuotesAreFinite, Parity DEF Even
      <4>. QED
          BY <3>1, <3>3, <4>1 DEF UglyEnd, Ugly
    <3>6. CASE ~UglyEnd(s, q)
      <4>1. ~UglyAt(s, q)
          BY <3>1, <3>6 DEF UglyAt, UglyEnd
      <4>2. Even(s, c)
        <5>1. q \in q .. c - 1 /\ \A i \in q .. c - 1 : s[i] = "q" => i = q
            BY <1>3, <3>1
        <5>2. q \in Nat \ {0}
            BY <1>2, <1>3
        <5>. QED
            BY <1>5, <2>6, <3>1, <5>1, <5>2, OneQuoteBetween
      <4>3. Blank(s, c)
        <5>1. CASE EndOfLine(s, c)
            BY <1>2, <1>5, <5>1, EndIsBlank
        <5>2. CASE ~EndOfLine(s, c)
          <6>1. q < Len(s) /\ s[c] # "nl"
              BY <1>1, <1>3, <3>1, <3>2, <5>2 DEF EndOfLine
          <6>2. s[c] = "sp"
              BY <3>1, <3>6, <6>1 DEF UglyEnd
          <6>. QED
              BY <4>2, <6>2 DEF Blank, Even
        <5>. QED
            BY <5>1, <5>2
      <4>4. ASSUME NEW i \in b .. c - 1
            PROVE  ~Blank(s, i) /\ ~UglyAt(s, i)
        <5>1. i = q \/ i \in b .. q - 1
            BY <1>2, <1>3, <3>1
        <5>. QED
            BY <2>5, <3>4, <4>1, <5>1
      <4>5. \A i \in 1 .. c - 1 : i \in Cut(s)
        <5>1. \A i \in 1 .. c - 1 : i = q \/ i \in 1 .. q - 1
            BY <1>2, <1>3, <3>1
        <5>. QED
            BY <1>3, <3>3, <5>1
      <4>6. <<b, c - 1>> \in WordSpans(s)
          BY <1>6, <4>3, <4>4, <4>5
      <4>7. Reaches(s, c)
          BY <1>2, <1>5, <4>2, <4>3, <4>4, <4>5, StillReaches
      <4>. QED
          BY <1>2, <1>5, <3>6, <4>6, <4>7
    <3>. QED
        BY <1>2, <1>5, <3>5, <3>6
  <2>. QED
      BY <2>7, <2>8
<1>. QED
    BY <1>7, <1>8

-----------------------------------------------------------------------------
(* The loop of parse_cmds *)

\* Nothing but blanks from a up to b.
BlankFrom(s, a, b) == \A i \in a .. b - 1 : Blank(s, i)

\* The word after the spaces is the next one.
LEMMA FoundGrows ==
    ASSUME NEW s \in Seq(STRING), NEW a \in Nat, NEW b \in Nat, NEW c \in Nat, a <= b, b < c,
           BlankFrom(s, a, b), NEW w \in WordSpans(s), w[1] = b, w[2] = c - 1
    PROVE  Found(s, c) = Found(s, a) \cup {w} /\ w \notin Found(s, a)
<1>1. w[1] = b /\ w[2] = c - 1
    OBVIOUS
<1>2. w \notin Found(s, a)
    BY <1>1 DEF Found
<1>3. w \in Found(s, c)
    BY <1>1 DEF Found
<1>4. ASSUME NEW v \in WordSpans(s)
      PROVE  /\ v[1] \in Nat /\ v[2] \in Nat /\ v[1] <= v[2]
             /\ \A p \in v[1] .. v[2] : ~Blank(s, p)
  <2>1. v \in Cut(s) \X Cut(s) /\ v[1] <= v[2] /\ \A p \in v[1] .. v[2] : ~Blank(s, p)
      BY DEF WordSpans
  <2>. QED
      BY <2>1 DEF Cut
<1>5. ASSUME NEW v \in Found(s, a)
      PROVE  v \in Found(s, c)
  <2>1. v \in WordSpans(s) /\ v[2] < a
      BY DEF Found
  <2>. QED
      BY <1>4, <2>1 DEF Found
<1>6. ASSUME NEW v \in Found(s, c), v # w
      PROVE  v \in Found(s, a)
  <2>1. v \in WordSpans(s) /\ v[2] < c
      BY DEF Found
  <2>2. /\ v[1] \in Nat /\ v[2] \in Nat /\ v[1] <= v[2]
        /\ \A p \in v[1] .. v[2] : ~Blank(s, p)
      BY <1>4, <2>1
  <2>3. v[2] < w[1] \/ w[2] < v[1]
      BY <1>6, <2>1, WordsApart
  <2>4. v[2] < b
      BY <1>1, <2>1, <2>2, <2>3
  <2>5. v[2] \in v[1] .. v[2]
      BY <2>2
  <2>6. v[2] \notin a .. b - 1
      BY <2>2, <2>5 DEF BlankFrom
  <2>7. v[2] < a
      BY <2>2, <2>4, <2>6
  <2>. QED
      BY <2>1, <2>7 DEF Found
<1>. QED
    BY <1>2, <1>3, <1>5, <1>6

\* One more word after the spaces, one more argument.
LEMMA EnumerationGrows ==
    ASSUME NEW s \in Seq(STRING), NEW a \in Nat, NEW b \in Nat, NEW c \in Nat, a <= b, b < c,
           BlankFrom(s, a, b), <<b, c - 1>> \in WordSpans(s),
           NEW args \in Seq(Seq(STRING)), Enumerates(s, a, args),
           NEW word \in Seq(STRING), word = SubSeq(s, b, c - 1)
    PROVE  Enumerates(s, c, Append(args, word))
<1>1. PICK w : w = <<b, c - 1>>
    OBVIOUS
<1>2. PICK F : F = Found(s, a)
    OBVIOUS
<1>3. PICK G : G = Found(s, c)
    OBVIOUS
<1>4. G = F \cup {w} /\ w \notin F
  <2>1. w \in WordSpans(s) /\ w[1] = b /\ w[2] = c - 1
      BY <1>1
  <2>2. Found(s, c) = Found(s, a) \cup {w} /\ w \notin Found(s, a)
      BY <2>1, FoundGrows
  <2>. QED
      BY <1>2, <1>3, <2>2
<1>5. PICK n \in Nat : n = Len(args)
    OBVIOUS
<1>6. PICK spans \in [1 .. n -> F] :
          InOrder(spans) /\ Cardinality(F) = n /\ Lists(s, spans, args)
    BY <1>2, <1>5 DEF Enumerates
<1>7. PICK more : more = Append(args, word)
    OBVIOUS
<1>8. Len(more) = n + 1 /\ more[n + 1] = word /\ \A i \in 1 .. n : more[i] = args[i]
    BY <1>5, <1>7
<1>9. PICK t : t = [i \in 1 .. n + 1 |-> IF i <= n THEN spans[i] ELSE w]
    OBVIOUS
<1>10. t[n + 1] = w /\ \A i \in 1 .. n : t[i] = spans[i]
    BY <1>9
<1>11. t \in [1 .. n + 1 -> G]
    BY <1>4, <1>9
<1>12. \A v \in F : v[1] \in Nat /\ v[1] < b
  <2>. SUFFICES ASSUME NEW v \in F
                PROVE  v[1] \in Nat /\ v[1] < b
      OBVIOUS
  <2>1. v \in Cut(s) \X Cut(s) /\ v[1] <= v[2] /\ v[2] < a
      BY <1>2 DEF Found, WordSpans
  <2>2. v[1] \in Nat /\ v[2] \in Nat
      BY <2>1 DEF Cut
  <2>. QED
      BY <2>1, <2>2
<1>13. InOrder(t)
  <2>. SUFFICES ASSUME NEW i \in 1 .. n + 1, NEW j \in 1 .. n + 1, i < j
                PROVE  t[i][1] < t[j][1]
      BY <1>11 DEF InOrder
  <2>1. i \in 1 .. n /\ t[i] = spans[i] /\ spans[i] \in F
      BY <1>10
  <2>2. CASE j = n + 1
    <3>1. t[j][1] = b
        BY <1>1, <1>10, <2>2
    <3>. QED
        BY <1>12, <2>1, <3>1
  <2>3. CASE j # n + 1
    <3>1. j \in 1 .. n /\ t[j] = spans[j]
        BY <1>10, <2>3
    <3>. QED
        BY <1>6, <2>1, <3>1 DEF InOrder
  <2>. QED
      BY <2>2, <2>3
<1>14. Lists(s, t, more)
  <2>. SUFFICES ASSUME NEW i \in 1 .. n + 1
                PROVE  more[i] = SubSeq(s, t[i][1], t[i][2])
      BY <1>8 DEF Lists
  <2>1. CASE i = n + 1
    <3>1. t[i][1] = b /\ t[i][2] = c - 1
        BY <1>1, <1>10, <2>1
    <3>. QED
        BY <1>8, <2>1, <3>1
  <2>2. CASE i # n + 1
    <3>1. i \in 1 .. n /\ t[i] = spans[i] /\ more[i] = args[i]
        BY <1>8, <1>10, <2>2
    <3>. QED
        BY <1>5, <1>6, <3>1 DEF Lists
  <2>. QED
      BY <2>1, <2>2
<1>15. Cardinality(G) = n + 1
  <2>1. IsFiniteSet(F)
      BY <1>2, WordsAreFinite, FS_Subset DEF Found
  <2>. QED
      BY <1>4, <1>6, <2>1, FS_AddElement
<1>. QED
    BY <1>3, <1>7, <1>8, <1>11, <1>13, <1>14, <1>15 DEF Enumerates

\* At the end of the line nothing is left to skip.
LEMMA EndIsOver ==
    ASSUME NEW s \in Seq(STRING), NEW a \in 1 .. Len(s) + 1, EndOfLine(s, a)
    PROVE  Over(s, a)
<1>1. PICK b : b = SkipSpaces(s, a)
    OBVIOUS
<1>2. /\ b \in a .. Len(s) + 1
      /\ \A i \in a .. b - 1 : i \in 1 .. Len(s) /\ s[i] = "sp"
    BY <1>1, SkipSpacesStops
<1>3. Len(s) \in Nat /\ a \notin a .. b - 1
    BY <1>2 DEF EndOfLine
<1>4. b = a
    BY <1>2, <1>3
<1>. QED
    BY <1>1, <1>4 DEF Over

\* A word that is not empty, as a string.
LEMMA SubWord ==
    ASSUME NEW s \in Seq(STRING), NEW b \in Nat \ {0}, NEW c \in Nat, b < c, c <= Len(s) + 1
    PROVE  SubSeq(s, b, c - 1) \in Seq(STRING) /\ SubSeq(s, b, c - 1) # << >>
<1>1. Len(s) \in Nat
    OBVIOUS
<1>2. \A i \in 1 .. (c - 1) - b + 1 : b + i - 1 \in 1 .. Len(s)
    BY <1>1
<1>3. SubSeq(s, b, c - 1) \in Seq(STRING)
    BY <1>1, <1>2
<1>4. Len(SubSeq(s, b, c - 1)) = c - b
    BY <1>1
<1>. QED
    BY <1>3, <1>4

\* One turn of the loop.
LEMMA TakeArgOK ==
    ASSUME NEW s \in Seq(STRING), NEW n \in Nat, NEW st, LoopOK(s, n, st)
    PROVE  LoopOK(s, n + 1, TakeArg(s, st))
<1>1. PICK b : b = SkipSpaces(s, st.at)
    OBVIOUS
<1>2. PICK w : w = TakeWord(s, b)
    OBVIOUS
<1>3. TakeArg(s, st) = IF st.args = NULL \/ EndOfLine(s, st.at) \/ w.word = << >> THEN st
                       ELSE IF w.ugly THEN [at |-> st.at, args |-> NULL]
                       ELSE [at |-> w.at, args |-> Append(st.args, w.word)]
    BY <1>1, <1>2, Zenon DEF TakeArg
<1>4. CASE st.args = NULL
  <2>1. NULL \notin Seq(Seq(STRING))
      BY NullAssumption
  <2>2. Ugly(s)
      BY <1>4, <2>1 DEF LoopOK
  <2>3. TakeArg(s, st) = st
      BY <1>3, <1>4
  <2>. QED
      BY <1>4, <2>2, <2>3 DEF LoopOK
<1>5. CASE st.args # NULL
  <2>1. /\ st.args \in Seq(Seq(STRING)) /\ Reaches(s, st.at)
        /\ Enumerates(s, st.at, st.args)
        /\ Len(st.args) = n \/ Over(s, st.at)
      BY <1>5 DEF LoopOK
  <2>2. PICK a : a = st.at
      OBVIOUS
  <2>3. PICK args \in Seq(Seq(STRING)) : args = st.args
      BY <2>1
  <2>4. a \in 1 .. Len(s) + 1 /\ a \in Nat
      BY <2>1, <2>2 DEF Reaches
  <2>5. b \in 1 .. Len(s) + 1
    <3>1. b \in a .. Len(s) + 1
        BY <1>1, <2>2, <2>4, SkipSpacesStops
    <3>. QED
        BY <2>4, <3>1
  <2>6. PICK q : /\ FirstLeft(s, b, q)
                 /\ w = [at   |-> IF Closed(s, q) THEN q + 1 ELSE q,
                         word |-> SubSeq(s, b, (IF Closed(s, q) THEN q + 1 ELSE q) - 1),
                         ugly |-> Closed(s, q) /\ q < Len(s) /\ s[q + 1] \notin {"sp", "nl"}]
      BY <1>2, <2>5, TakeWordStops
  <2>7. PICK c : c = IF Closed(s, q) THEN q + 1 ELSE q
      OBVIOUS
  <2>8. w.at = c /\ w.word = SubSeq(s, b, c - 1) /\ (w.ugly <=> UglyEnd(s, q))
    <3>1. w.at = c
        BY <2>6, <2>7
    <3>2. w.word = SubSeq(s, b, c - 1)
        BY <2>6, <2>7
    <3>3. w.ugly <=> UglyEnd(s, q)
        BY <2>6 DEF UglyEnd
    <3>. QED
        BY <3>1, <3>2, <3>3
  <2>9. CASE Over(s, a)
    <3>1. EndOfLine(s, b)
        BY <1>1, <2>2, <2>9 DEF Over
    <3>2. c = b
      <4>1. Leaves(s, b, b)
          BY <3>1 DEF Leaves
      <4>2. b \notin b .. q - 1 /\ q \in b .. Len(s) + 1
          BY <2>6, <4>1 DEF FirstLeft
      <4>3. q = b
          BY <2>5, <4>2
      <4>. QED
          BY <2>7, <3>1, <4>3 DEF Closed
    <3>3. w.word = << >>
        BY <2>5, <2>8, <3>2
    <3>4. TakeArg(s, st) = st
        BY <1>3, <3>3
    <3>. QED
        BY <2>1, <2>2, <2>9, <3>4 DEF LoopOK
  <2>10. CASE ~Over(s, a)
    <3>1. ~EndOfLine(s, b) /\ ~EndOfLine(s, a)
        BY <1>1, <2>2, <2>4, <2>10, EndIsOver DEF Over
    <3>2. /\ b \in Nat \ {0} /\ c \in Nat /\ a <= b /\ b < c /\ c <= Len(s) + 1
          /\ BlankFrom(s, a, b)
          /\ UglyEnd(s, q) => Ugly(s)
          /\ ~UglyEnd(s, q) => Reaches(s, c) /\ <<b, c - 1>> \in WordSpans(s)
        BY <1>1, <2>1, <2>2, <2>6, <2>7, <3>1, WordTaken DEF BlankFrom
    <3>3. PICK word \in Seq(STRING) : word = SubSeq(s, b, c - 1) /\ word # << >>
        BY <3>2, SubWord
    <3>4. CASE UglyEnd(s, q)
      <4>1. TakeArg(s, st) = [at |-> st.at, args |-> NULL]
          BY <1>3, <1>5, <2>2, <2>8, <3>1, <3>3, <3>4
      <4>. QED
          BY <3>2, <3>4, <4>1 DEF LoopOK
    <3>5. CASE ~UglyEnd(s, q)
      <4>1. TakeArg(s, st) = [at |-> c, args |-> Append(args, word)]
          BY <1>3, <1>5, <2>2, <2>3, <2>8, <3>1, <3>3, <3>5
      <4>2. Enumerates(s, c, Append(args, word))
          BY <2>1, <2>2, <2>3, <2>4, <3>2, <3>3, <3>5, EnumerationGrows
      <4>3. Append(args, word) \in Seq(Seq(STRING)) /\ Len(Append(args, word)) = n + 1
        <5>1. Len(args) = n
            BY <2>1, <2>2, <2>3, <2>10
        <5>2. PICK S : S = Seq(STRING)
            OBVIOUS
        <5>3. args \in Seq(S) /\ word \in S
            BY <5>2
        <5>4. Append(args, word) \in Seq(S) /\ Len(Append(args, word)) = Len(args) + 1
            BY <5>3
        <5>. QED
            BY <5>1, <5>2, <5>4
      <4>. QED
          BY <3>2, <3>5, <4>1, <4>2, <4>3 DEF LoopOK
    <3>. QED
        BY <3>4, <3>5
  <2>. QED
      BY <2>9, <2>10
<1>. QED
    BY <1>4, <1>5

FirstState == [at |-> 1, args |-> << >>]

\* g are the first N states of the loop.
IsLoop(s, N, g) == g = [n \in 0 .. N |-> IF n = 0 THEN FirstState ELSE TakeArg(s, g[n - 1])]

\* The recursive function of ParseLoop exists.
LEMMA LoopExists ==
    ASSUME NEW s, NEW N \in Nat
    PROVE  \E g : IsLoop(s, N, g)
<1>. DEFINE Bad == {k \in Nat : ~\E g : IsLoop(s, k, g)}
<1>1. ASSUME Bad # {}
      PROVE  FALSE
  <2>1. PICK k \in Bad : \A j \in Bad : k <= j
    <3>1. Bad \in SUBSET Nat
        OBVIOUS
    <3>. HIDE DEF Bad
    <3>. QED
        BY <1>1, <3>1, Smallest
  <2>2. k \in Nat /\ ~\E g : IsLoop(s, k, g)
      OBVIOUS
  <2>3. CASE k = 0
    <3>1. PICK g : g = [n \in 0 .. 0 |-> FirstState]
        OBVIOUS
    <3>2. IsLoop(s, 0, g)
        BY <3>1 DEF IsLoop
    <3>. QED
        BY <2>2, <2>3, <3>2
  <2>4. CASE k # 0
    <3>1. PICK m \in Nat : k = m + 1
      <4>1. k - 1 \in Nat /\ k = (k - 1) + 1
          BY <2>2, <2>4
      <4>. QED
          BY <4>1
    <3>2. m \notin Bad
      <4>1. ~(k <= m)
          BY <3>1
      <4>. HIDE DEF Bad
      <4>. QED
          BY <2>1, <4>1
    <3>3. PICK g : IsLoop(s, m, g)
        BY <3>2
    <3>4. PICK h : h = [n \in 0 .. m + 1 |-> IF n <= m THEN g[n] ELSE TakeArg(s, g[m])]
        OBVIOUS
    <3>5. ASSUME NEW n \in 0 .. m + 1
          PROVE  h[n] = IF n = 0 THEN FirstState ELSE TakeArg(s, h[n - 1])
      <4>1. CASE n = 0
        <5>1. h[0] = g[0] /\ g[0] = FirstState
            BY <3>3, <3>4 DEF IsLoop
        <5>. QED
            BY <4>1, <5>1
      <4>2. CASE n # 0 /\ n <= m
        <5>1. h[n] = g[n] /\ h[n - 1] = g[n - 1]
            BY <3>4, <4>2
        <5>2. g[n] = TakeArg(s, g[n - 1])
            BY <3>3, <4>2 DEF IsLoop
        <5>. QED
            BY <4>2, <5>1, <5>2
      <4>3. CASE n = m + 1
        <5>1. h[n] = TakeArg(s, g[m]) /\ h[m] = g[m] /\ n - 1 = m /\ n # 0
            BY <3>4, <4>3
        <5>. QED
            BY <5>1
      <4>. QED
          BY <4>1, <4>2, <4>3
    <3>6. h = [n \in 0 .. m + 1 |-> IF n = 0 THEN FirstState ELSE TakeArg(s, h[n - 1])]
        BY <3>4, <3>5
    <3>7. IsLoop(s, k, h)
        BY <3>1, <3>6 DEF IsLoop
    <3>. QED
        BY <2>2, <3>7
  <2>. QED
      BY <2>3, <2>4
<1>. QED
    BY <1>1

\* Before the first turn nothing is found.
LEMMA LoopStarts ==
    ASSUME NEW s \in Seq(STRING)
    PROVE  LoopOK(s, 0, FirstState)
<1>1. Len(s) \in Nat
    OBVIOUS
<1>2. QuotesBefore(s, 1) = 0
  <2>1. {i \in 1 .. 1 - 1 : s[i] = "q"} = {}
      OBVIOUS
  <2>. QED
      BY <2>1, FS_EmptySet DEF QuotesBefore
<1>3. Reaches(s, 1)
  <2>1. Even(s, 1)
      BY <1>2 DEF Even
  <2>2. \A p \in Cut(s) : ~(p < 1)
      BY <1>1 DEF Cut
  <2>. QED
      BY <1>1, <2>1, <2>2 DEF Reaches
<1>4. Found(s, 1) = {}
  <2>. SUFFICES ASSUME NEW w \in WordSpans(s)
                PROVE  ~(w[2] < 1)
      BY DEF Found
  <2>1. w[2] \in Cut(s)
      BY DEF WordSpans
  <2>. QED
      BY <1>1, <2>1 DEF Cut
<1>5. Cardinality(Found(s, 1)) = 0
    BY <1>4, FS_EmptySet
<1>6. Enumerates(s, 1, << >>)
  <2>1. PICK e : e = [i \in 1 .. 0 |-> i]
      OBVIOUS
  <2>2. Len(<< >>) = 0 /\ 1 .. 0 = {}
      OBVIOUS
  <2>3. e \in [1 .. Len(<< >>) -> Found(s, 1)]
      BY <2>1, <2>2
  <2>4. InOrder(e) /\ Lists(s, e, << >>)
      BY <2>1, <2>2 DEF InOrder, Lists
  <2>. QED
      BY <1>5, <2>2, <2>3, <2>4 DEF Enumerates
<1>7. << >> \in Seq(Seq(STRING)) /\ Len(<< >>) = 0
    OBVIOUS
<1>. QED
    BY <1>3, <1>6, <1>7 DEF LoopOK, FirstState

\* LoopOK holds after every turn: there is no first turn after which it fails.
LEMMA ParseLoopOK ==
    ASSUME NEW s \in Seq(STRING), NEW h, h = ParseLoop(s), NEW m \in 0 .. MAX_ARG_NUM
    PROVE  LoopOK(s, m, h[m])
<1>1. IsLoop(s, MAX_ARG_NUM, h)
  <2>1. \E g : g = [n \in 0 .. MAX_ARG_NUM |->
                        IF n = 0 THEN [at |-> 1, args |-> << >>] ELSE TakeArg(s, g[n - 1])]
      BY LoopExists, SizesAssumption, ZenonT(60) DEF IsLoop, FirstState
  <2>2. h = [n \in 0 .. MAX_ARG_NUM |->
                        IF n = 0 THEN [at |-> 1, args |-> << >>] ELSE TakeArg(s, h[n - 1])]
      BY <2>1, Zenon DEF ParseLoop
  <2>. QED
      BY <2>2 DEF IsLoop, FirstState
<1>. DEFINE Bad == {k \in 0 .. MAX_ARG_NUM : ~LoopOK(s, k, h[k])}
<1>2. ASSUME Bad # {}
      PROVE  FALSE
  <2>1. PICK k \in Bad : \A j \in Bad : k <= j
    <3>1. Bad \in SUBSET Nat
        BY SizesAssumption
    <3>. HIDE DEF Bad
    <3>. QED
        BY <1>2, <3>1, Smallest
  <2>2. k \in 0 .. MAX_ARG_NUM /\ ~LoopOK(s, k, h[k]) /\ MAX_ARG_NUM \in Nat
      BY SizesAssumption
  <2>3. k # 0
    <3>1. h[0] = FirstState
        BY <1>1, <2>2 DEF IsLoop
    <3>. QED
        BY <2>2, <3>1, LoopStarts
  <2>4. PICK n \in Nat : k = n + 1
    <3>1. k - 1 \in Nat /\ k = (k - 1) + 1
        BY <2>2, <2>3
    <3>. QED
        BY <3>1
  <2>5. LoopOK(s, n, h[n])
    <3>1. n \in 0 .. MAX_ARG_NUM /\ ~(k <= n)
        BY <2>2, <2>4
    <3>. QED
        BY <2>1, <3>1
  <2>6. h[k] = TakeArg(s, h[n])
    <3>1. k - 1 = n
        BY <2>4
    <3>. QED
        BY <1>1, <2>2, <2>3, <3>1 DEF IsLoop
  <2>. QED
      BY <2>2, <2>4, <2>5, <2>6, TakeArgOK
<1>. QED
    BY <1>2

\* When only spaces are left all words are found, and nothing is ugly.
LEMMA OverIsAll ==
    ASSUME NEW s \in Seq(STRING), NEW a, Reaches(s, a), Over(s, a)
    PROVE  Found(s, a) = WordSpans(s) /\ ~Ugly(s)
<1>1. Len(s) \in Nat /\ DOMAIN s = 1 .. Len(s) /\ a \in 1 .. Len(s) + 1 /\ a \in Nat \ {0}
    BY DEF Reaches
<1>2. PICK b : b = SkipSpaces(s, a)
    OBVIOUS
<1>3. /\ b \in a .. Len(s) + 1
      /\ \A i \in a .. b - 1 : i \in 1 .. Len(s) /\ s[i] = "sp"
    BY <1>1, <1>2, SkipSpacesStops
<1>4. EndOfLine(s, b)
    BY <1>2 DEF Over
<1>5. ASSUME NEW p \in Cut(s), p >= a
      PROVE  s[p] = "sp" /\ Blank(s, p)
  <2>1. p \in 1 .. Len(s) /\ \A i \in 1 .. p : s[i] \notin {"#", "nl"}
      BY <1>1 DEF Cut
  <2>2. p < b
    <3>1. ASSUME b <= p PROVE FALSE
      <4>1. b \in 1 .. p
          BY <1>1, <1>3, <2>1, <3>1
      <4>. QED
          BY <1>1, <1>4, <2>1, <4>1 DEF EndOfLine
    <3>. QED
        BY <1>1, <1>3, <2>1, <3>1
  <2>3. p \in a .. b - 1
      BY <1>1, <1>3, <1>5, <2>1, <2>2
  <2>4. \A i \in a .. p - 1 : s[i] # "q"
    <3>1. \A i \in a .. p - 1 : i \in a .. b - 1
        BY <1>1, <1>3, <2>1, <2>2
    <3>. QED
        BY <1>3, <3>1
  <2>5. ~EndOfLine(s, a)
    <3>1. a \in a .. b - 1 /\ a \in 1 .. p
        BY <1>1, <1>3, <1>5, <2>1, <2>2
    <3>. QED
        BY <1>1, <2>1, <3>1 DEF EndOfLine
  <2>6. Even(s, p)
    <3>1. Even(s, a)
        BY <2>5 DEF Reaches
    <3>2. p \in Nat /\ a <= p
        BY <1>1, <1>5, <2>1
    <3>. QED
        BY <1>1, <2>4, <3>1, <3>2, NoQuoteBetween
  <2>. QED
      BY <1>3, <2>3, <2>6 DEF Blank, Even
<1>6. ASSUME NEW w \in WordSpans(s)
      PROVE  w[2] < a
  <2>1. /\ w \in Cut(s) \X Cut(s) /\ w[1] <= w[2]
        /\ \A p \in w[1] .. w[2] : ~Blank(s, p)
      BY DEF WordSpans
  <2>2. w[1] \in Nat /\ w[2] \in Nat /\ w[2] \in Cut(s)
      BY <2>1 DEF Cut
  <2>3. w[2] \in w[1] .. w[2]
      BY <2>1, <2>2
  <2>. QED
      BY <1>1, <1>5, <2>1, <2>2, <2>3
<1>7. ~Ugly(s)
  <2>. SUFFICES ASSUME NEW p \in Cut(s), s[p] = "q", QuotesBefore(s, p) % 2 = 1,
                       p < Len(s), s[p + 1] \notin {"sp", "nl"}
                PROVE  FALSE
      BY DEF Ugly
  <2>1. p \in Nat
      BY <1>1 DEF Cut
  <2>2. p < a
      BY <1>1, <1>5, <2>1
  <2>3. UglyAt(s, p)
      BY DEF UglyAt, Even
  <2>. QED
      BY <2>2, <2>3 DEF Reaches
<1>. QED
    BY <1>6, <1>7 DEF Found

\* parse_cmds gives the words of the line, or NULL for a line it must refuse.
THEOREM ParserSplits ==
    ASSUME NEW s \in Seq(STRING)
    PROVE  /\ ParseCmds(s) \in {NULL} \cup Seq(Seq(STRING))
           /\ IsSplit(s, ParseCmds(s))
<1>1. PICK W : W = WordSpans(s)
    OBVIOUS
<1>2. IsFiniteSet(W) /\ Cardinality(W) \in Nat
    BY <1>1, WordsAreFinite
<1>3. PICK st : st = ParseLoop(s)[MAX_ARG_NUM]
    OBVIOUS
<1>4. LoopOK(s, MAX_ARG_NUM, st)
  <2>1. MAX_ARG_NUM \in 0 .. MAX_ARG_NUM
      BY SizesAssumption
  <2>. QED
      BY <1>3, <2>1, ParseLoopOK
<1>5. PICK args : args = st.args
    OBVIOUS
<1>6. PICK r : r = ParseCmds(s)
    OBVIOUS
<1>7. r = IF args # NULL /\ Len(args) >= MAX_ARG_NUM THEN NULL ELSE args
    BY <1>3, <1>5, <1>6, Zenon DEF ParseCmds
<1>8. CASE args = NULL /\ Ugly(s)
  <2>1. r = NULL
      BY <1>7, <1>8
  <2>. QED
      BY <1>6, <1>8, <2>1 DEF IsSplit
<1>9. CASE ~(args = NULL /\ Ugly(s))
  <2>1. /\ args \in Seq(Seq(STRING)) /\ Reaches(s, st.at)
        /\ Enumerates(s, st.at, args)
        /\ Len(args) = MAX_ARG_NUM \/ Over(s, st.at)
      BY <1>4, <1>5, <1>9 DEF LoopOK
  <2>2. PICK a : a = st.at
      OBVIOUS
  <2>3. PICK n \in Nat : n = Len(args)
      BY <2>1
  <2>4. PICK spans \in [1 .. n -> Found(s, a)] :
            InOrder(spans) /\ Cardinality(Found(s, a)) = n /\ Lists(s, spans, args)
      BY <2>1, <2>2, <2>3 DEF Enumerates
  <2>5. args # NULL
      BY <2>1, NullAssumption
  <2>6. Found(s, a) \subseteq W
      BY <1>1 DEF Found
  <2>7. CASE n >= MAX_ARG_NUM
    <3>1. r = NULL
        BY <1>7, <2>3, <2>5, <2>7
    <3>2. n <= Cardinality(W)
        BY <1>2, <2>4, <2>6, FS_Subset
    <3>3. Cardinality(W) >= MAX_ARG_NUM
        BY <1>2, <2>7, <3>2, SizesAssumption
    <3>. QED
        BY <1>1, <1>6, <3>1, <3>3 DEF IsSplit
  <2>8. CASE ~(n >= MAX_ARG_NUM)
    <3>1. r = args
        BY <1>7, <2>3, <2>8
    <3>2. Over(s, a)
        BY <2>1, <2>2, <2>3, <2>8, SizesAssumption
    <3>3. Found(s, a) = W /\ ~Ugly(s)
        BY <1>1, <2>1, <2>2, <3>2, OverIsAll
    <3>4. Cardinality(W) = n /\ spans \in [1 .. n -> W]
        BY <2>4, <3>3
    <3>5. args = [i \in 1 .. n |-> SubSeq(s, spans[i][1], spans[i][2])]
      <4>1. args = [i \in 1 .. n |-> args[i]]
          BY <2>1, <2>3
      <4>2. \A i \in 1 .. n : args[i] = SubSeq(s, spans[i][1], spans[i][2])
          BY <2>3, <2>4 DEF Lists
      <4>. QED
          BY <4>1, <4>2
    <3>6. IsSplit(s, args)
        BY <1>1, <2>4, <2>8, <3>3, <3>4, <3>5 DEF IsSplit
    <3>. QED
        BY <1>6, <2>1, <3>1, <3>6
  <2>. QED
      BY <2>7, <2>8
<1>. QED
    BY <1>8, <1>9

-----------------------------------------------------------------------------
(* The inductive invariant *)

\* A list of entries with different names, PS1 and a prompt for it among them;
\* asg is the map that it stands for.
Listing(list) == list \in Seq({list[i] : i \in DOMAIN list})
ListOK(list, asg) ==
    /\ Listing(list)
    /\ Len(list) <= MAX_SH_VAR_NUM
    /\ \A i, j \in DOMAIN list : list[i].name = list[j].name => i = j
    /\ \E i \in DOMAIN list : list[i].name = PS1
    /\ \A i \in DOMAIN list :
           list[i].name = PS1 => list[i].value \in Seq(STRING) /\ PS1Accepted(list[i].value)
    /\ DOMAIN asg = {list[i].name : i \in DOMAIN list}
    /\ \A i \in DOMAIN list : asg[list[i].name] = list[i].value

LinePart ==
    /\ pc \in {"prompt", "execute", "waitpid", "wait", "dead", "halted"}
    /\ script \in {NULL} \cup Seq(Seq(STRING))
    /\ arg_list \in {NULL} \cup Seq(Seq(STRING))
    /\ ParseIsSplit

VarPart ==
    /\ env_path \in BOOLEAN
    /\ ListOK(var_list, assigned)
    /\ cwd \in Dirs
    /\ prompt = PromptOf(var_list, cwd)

\* A child that runs is in the background, or it is the one waited for.  A slot
\* of file_array is lost with every child.
ChildPart ==
    /\ fds \in 0 .. FreeFds /\ forked \in 0 .. fds
    /\ alive \subseteq 1 .. forked /\ fg \in 0 .. forked
    /\ alive \subseteq background \cup {fg}
    /\ ForegroundBeforePrompt

Inv == LinePart /\ VarPart /\ ChildPart

-----------------------------------------------------------------------------
(* SH_VAR_LIST *)

\* A function on 1 .. n is a sequence.
LEMMA ListingFact ==
    ASSUME NEW n \in Nat, NEW f, f = [i \in 1 .. n |-> f[i]]
    PROVE  Listing(f) /\ DOMAIN f = 1 .. n /\ Len(f) = n
<1>1. DOMAIN f = 1 .. n
    OBVIOUS
<1>2. PICK S : S = {f[i] : i \in 1 .. n}
    OBVIOUS
<1>3. f \in [1 .. n -> S]
    BY <1>2
<1>4. f \in Seq(S)
    BY <1>3
<1>. QED
    BY <1>1, <1>2, <1>4 DEF Listing

\* A sequence is a function on 1 .. Len.
LEMMA SequenceIsFunction ==
    ASSUME NEW T, NEW m \in Seq(T)
    PROVE  m = [i \in 1 .. Len(m) |-> m[i]]
OBVIOUS

\* m is list with e after it.
Appended(list, e, m) ==
    /\ Listing(m) /\ Len(m) = Len(list) + 1 /\ DOMAIN m = 1 .. Len(list) + 1
    /\ m[Len(list) + 1] = e
    /\ \A i \in DOMAIN list : m[i] = list[i]

\* What Append does to a list of entries.
LEMMA AppendFact ==
    ASSUME NEW list, Listing(list), NEW e, NEW m, m = Append(list, e)
    PROVE  Appended(list, e, m)
<1>1. PICK S : S = {list[i] : i \in DOMAIN list}
    OBVIOUS
<1>2. list \in Seq(S)
    BY <1>1 DEF Listing
<1>3. Len(list) \in Nat /\ DOMAIN list = 1 .. Len(list)
    BY <1>2
<1>4. PICK T : T = S \cup {e}
    OBVIOUS
<1>5. list \in Seq(T) /\ e \in T
  <2>1. \A i \in 1 .. Len(list) : list[i] \in T
      BY <1>2, <1>4
  <2>2. list \in [1 .. Len(list) -> T]
      BY <1>2, <2>1
  <2>. QED
      BY <1>3, <1>4, <2>2
<1>6. /\ m \in Seq(T) /\ Len(m) = Len(list) + 1
      /\ m[Len(list) + 1] = e /\ \A i \in 1 .. Len(list) : m[i] = list[i]
    BY <1>5
<1>7. m = [i \in 1 .. Len(list) + 1 |-> m[i]]
  <2>1. m = [i \in 1 .. Len(m) |-> m[i]]
      BY <1>6, SequenceIsFunction
  <2>. QED
      BY <1>6, <2>1
<1>8. Listing(m) /\ DOMAIN m = 1 .. Len(list) + 1
  <2>1. Len(list) + 1 \in Nat
      BY <1>3
  <2>. QED
      BY <1>7, <2>1, ListingFact
<1>. QED
    BY <1>3, <1>6, <1>8 DEF Appended

\* A value that may be stored under a name.
Storable(name, value) == name = PS1 => value \in Seq(STRING) /\ PS1Accepted(value)

\* The map with one more assignment.
Assigned(asg, name, value) ==
    [n \in DOMAIN asg \cup {name} |-> IF n = name THEN value ELSE asg[n]]

Named(list, name) == \E i \in DOMAIN list : list[i].name = name

\* set_var on a name that is in the list.
LEMMA SetVarReplaces ==
    ASSUME NEW list, NEW asg, ListOK(list, asg), NEW name, NEW value, Storable(name, value),
           Named(list, name)
    PROVE  ListOK(SetVar(list, name, value), Assigned(asg, name, value))
<1>1. PICK old : old = {i \in DOMAIN list : list[i].name = name}
    OBVIOUS
<1>2. PICK entry : entry = [name |-> name, value |-> value]
    OBVIOUS
<1>3. PICK m : m = [i \in DOMAIN list |-> IF i \in old THEN entry ELSE list[i]]
    OBVIOUS
<1>4. SetVar(list, name, value) = m
  <2>1. old # {}
      BY <1>1 DEF Named
  <2>. QED
      BY <1>1, <1>2, <1>3, <2>1, Zenon DEF SetVar
<1>5. PICK n \in Nat : n = Len(list) /\ DOMAIN list = 1 .. n
    BY DEF ListOK, Listing
<1>6. Listing(m) /\ DOMAIN m = 1 .. n /\ Len(m) = n
  <2>1. m = [i \in 1 .. n |-> m[i]]
      BY <1>3, <1>5
  <2>. QED
      BY <2>1, ListingFact
<1>7. \A i \in 1 .. n : m[i].name = list[i].name
    BY <1>1, <1>2, <1>3, <1>5
<1>8. \A i \in 1 .. n : m[i].value = IF list[i].name = name THEN value ELSE list[i].value
    BY <1>1, <1>2, <1>3, <1>5
<1>9. PICK b : b = Assigned(asg, name, value)
    OBVIOUS
<1>10. name \in DOMAIN asg
    BY DEF ListOK, Named
<1>11. DOMAIN b = DOMAIN asg /\ b[name] = value /\ \A x \in DOMAIN asg : x # name => b[x] = asg[x]
    BY <1>9, <1>10 DEF Assigned
<1>12. DOMAIN b = {m[i].name : i \in DOMAIN m}
    BY <1>5, <1>6, <1>7, <1>11 DEF ListOK
<1>13. ASSUME NEW i \in DOMAIN m
       PROVE  b[m[i].name] = m[i].value
  <2>1. m[i].name = list[i].name /\ list[i].name \in DOMAIN asg /\ asg[list[i].name] = list[i].value
      BY <1>5, <1>6, <1>7 DEF ListOK
  <2>. QED
      BY <1>6, <1>8, <1>11, <2>1
<1>14. ASSUME NEW i \in DOMAIN m, m[i].name = PS1
       PROVE  m[i].value \in Seq(STRING) /\ PS1Accepted(m[i].value)
  <2>1. list[i].name = PS1 /\ i \in DOMAIN list
      BY <1>5, <1>6, <1>7, <1>14
  <2>2. list[i].value \in Seq(STRING) /\ PS1Accepted(list[i].value)
      BY <2>1 DEF ListOK
  <2>. QED
      BY <1>6, <1>8, <2>1, <2>2 DEF Storable
<1>15. \A i, j \in DOMAIN m : m[i].name = m[j].name => i = j
    BY <1>5, <1>6, <1>7 DEF ListOK
<1>16. \E i \in DOMAIN m : m[i].name = PS1
    BY <1>5, <1>6, <1>7 DEF ListOK
<1>17. Len(m) <= MAX_SH_VAR_NUM
    BY <1>5, <1>6 DEF ListOK
<1>. QED
    BY <1>4, <1>6, <1>9, <1>12, <1>13, <1>14, <1>15, <1>16, <1>17 DEF ListOK

\* set_var on a new name, with a slot for it.
LEMMA SetVarAdds ==
    ASSUME NEW list, NEW asg, ListOK(list, asg), NEW name, NEW value, Storable(name, value),
           ~Named(list, name), Len(list) < MAX_SH_VAR_NUM
    PROVE  ListOK(SetVar(list, name, value), Assigned(asg, name, value))
<1>1. PICK entry : entry = [name |-> name, value |-> value]
    OBVIOUS
<1>2. PICK m : m = Append(list, entry)
    OBVIOUS
<1>3. SetVar(list, name, value) = m
  <2>1. {i \in DOMAIN list : list[i].name = name} = {}
      BY DEF Named
  <2>. QED
      BY <1>1, <1>2, <2>1, Zenon DEF SetVar
<1>4. PICK n \in Nat : n = Len(list) /\ DOMAIN list = 1 .. n
    BY DEF ListOK, Listing
<1>5. /\ Listing(m) /\ Len(m) = n + 1 /\ DOMAIN m = 1 .. n + 1
      /\ m[n + 1] = entry /\ \A i \in 1 .. n : m[i] = list[i]
  <2>1. Listing(list)
      BY DEF ListOK
  <2>2. Appended(list, entry, m)
      BY <1>2, <2>1, AppendFact
  <2>. QED
      BY <1>4, <2>2 DEF Appended
<1>6. PICK b : b = Assigned(asg, name, value)
    OBVIOUS
<1>7. name \notin DOMAIN asg
    BY DEF ListOK, Named
<1>8. /\ DOMAIN b = DOMAIN asg \cup {name} /\ b[name] = value
      /\ \A x \in DOMAIN asg : x # name => b[x] = asg[x]
    BY <1>6 DEF Assigned
<1>9. m[n + 1].name = name /\ m[n + 1].value = value
    BY <1>1, <1>5
<1>10. \A i \in DOMAIN m : i = n + 1 \/ i \in 1 .. n
    BY <1>5
<1>11. n + 1 \in DOMAIN m /\ \A i \in 1 .. n : i \in DOMAIN m /\ i # n + 1
    BY <1>5
<1>12. \A i \in 1 .. n : list[i].name \in DOMAIN asg /\ list[i].name # name
    BY <1>4 DEF ListOK, Named
<1>13. DOMAIN b = {m[i].name : i \in DOMAIN m}
  <2>1. DOMAIN asg = {list[i].name : i \in 1 .. n}
      BY <1>4 DEF ListOK
  <2>2. ASSUME NEW x \in DOMAIN b
        PROVE  \E i \in DOMAIN m : m[i].name = x
    <3>1. CASE x = name
        BY <1>9, <1>11, <3>1
    <3>2. CASE x # name
      <4>1. PICK i \in 1 .. n : list[i].name = x
          BY <1>8, <2>1, <3>2
      <4>. QED
          BY <1>5, <1>11, <4>1
    <3>. QED
        BY <3>1, <3>2
  <2>3. ASSUME NEW i \in DOMAIN m
        PROVE  m[i].name \in DOMAIN b
      BY <1>5, <1>8, <1>9, <1>10, <1>12
  <2>. QED
      BY <2>2, <2>3
<1>14. ASSUME NEW i \in DOMAIN m
       PROVE  b[m[i].name] = m[i].value
  <2>1. CASE i = n + 1
      BY <1>8, <1>9, <2>1
  <2>2. CASE i \in 1 .. n
    <3>1. m[i] = list[i] /\ asg[list[i].name] = list[i].value
        BY <1>4, <1>5, <2>2 DEF ListOK
    <3>. QED
        BY <1>8, <1>12, <2>2, <3>1
  <2>. QED
      BY <1>10, <2>1, <2>2
<1>15. ASSUME NEW i \in DOMAIN m, m[i].name = PS1
       PROVE  m[i].value \in Seq(STRING) /\ PS1Accepted(m[i].value)
  <2>1. CASE i = n + 1
      BY <1>9, <1>15, <2>1 DEF Storable
  <2>2. CASE i \in 1 .. n
      BY <1>4, <1>5, <1>15, <2>2 DEF ListOK
  <2>. QED
      BY <1>10, <2>1, <2>2
<1>16. ASSUME NEW i \in DOMAIN m, NEW j \in DOMAIN m, m[i].name = m[j].name
       PROVE  i = j
  <2>1. CASE i \in 1 .. n /\ j \in 1 .. n
    <3>1. i \in DOMAIN list /\ j \in DOMAIN list /\ list[i].name = list[j].name
        BY <1>4, <1>5, <1>16, <2>1
    <3>. QED
        BY <3>1 DEF ListOK
  <2>2. CASE i = n + 1 /\ j \in 1 .. n
      BY <1>5, <1>9, <1>12, <1>16, <2>2
  <2>3. CASE i \in 1 .. n /\ j = n + 1
      BY <1>5, <1>9, <1>12, <1>16, <2>3
  <2>. QED
      BY <1>10, <2>1, <2>2, <2>3
<1>17. \E i \in DOMAIN m : m[i].name = PS1
  <2>1. PICK i \in 1 .. n : list[i].name = PS1
      BY <1>4 DEF ListOK
  <2>. QED
      BY <1>5, <1>11, <2>1
<1>18. Len(m) <= MAX_SH_VAR_NUM
    BY <1>4, <1>5, SizesAssumption
<1>. QED
    BY <1>3, <1>5, <1>6, <1>13, <1>14, <1>15, <1>16, <1>17, <1>18 DEF ListOK

\* set_var on a new name, without a slot for it.
LEMMA SetVarFull ==
    ASSUME NEW list, NEW name, NEW value, ~Named(list, name), ~(Len(list) < MAX_SH_VAR_NUM)
    PROVE  SetVar(list, name, value) = list
<1>1. {i \in DOMAIN list : list[i].name = name} = {}
    BY DEF Named
<1>. QED
    BY <1>1, Zenon DEF SetVar

\* There is a prompt for every directory.
LEMMA PromptExists ==
    ASSUME NEW list, NEW asg, ListOK(list, asg), NEW dir \in Dirs
    PROVE  PromptOf(list, dir) # NULL
<1>1. PICK k : k = CHOOSE i \in DOMAIN list : list[i].name = PS1
    OBVIOUS
<1>2. k \in DOMAIN list /\ list[k].name = PS1
    BY <1>1 DEF ListOK
<1>3. PICK ps1 : ps1 = list[k].value
    OBVIOUS
<1>4. ps1 \in Seq(STRING) /\ PS1Accepted(ps1)
    BY <1>2, <1>3 DEF ListOK
<1>5. PromptOf(list, dir) = [format |-> ps1, cwd |-> dir]
    BY <1>1, <1>3, <1>4, Zenon DEF PromptOf
<1>6. [format |-> ps1, cwd |-> dir] \in [format : Seq(STRING), cwd : Dirs]
    BY <1>4
<1>. QED
    BY <1>5, <1>6, NullAssumption

\* A part of a string is a string.
LEMMA SubTyped ==
    ASSUME NEW s \in Seq(STRING), NEW b \in Nat \ {0}, NEW c \in Nat, c <= Len(s)
    PROVE  SubSeq(s, b, c) \in Seq(STRING)
<1>1. Len(s) \in Nat
    OBVIOUS
<1>2. \A i \in 1 .. c - b + 1 : b + i - 1 \in 1 .. Len(s)
    BY <1>1
<1>. QED
    BY <1>1, <1>2

\* What is assigned is a string, unless its quotes do not match.
LEMMA ValueTyped ==
    ASSUME NEW word \in Seq(STRING), IsAssignment(word)
    PROVE  ValueOf(word) \in {NULL} \cup Seq(STRING)
<1>. DEFINE Ends(i) == word[i] \in Names /\ \A j \in 1 .. i - 1 : word[j] \notin Names
<1>1. Len(word) \in Nat /\ DOMAIN word = 1 .. Len(word)
    OBVIOUS
<1>2. \E i \in DOMAIN word : Ends(i)
  <2>1. PICK S : S = {i \in DOMAIN word : word[i] \in Names}
      OBVIOUS
  <2>2. S \in SUBSET Nat /\ S # {}
      BY <1>1, <2>1 DEF IsAssignment
  <2>3. PICK i \in S : \A j \in S : i <= j
      BY <2>2, Smallest
  <2>4. ASSUME NEW j \in 1 .. i - 1
        PROVE  word[j] \notin Names
    <3>1. i \in 1 .. Len(word)
        BY <1>1, <2>1
    <3>2. j \in DOMAIN word /\ ~(i <= j)
        BY <1>1, <3>1
    <3>. QED
        BY <2>1, <2>3, <3>2
  <2>. QED
      BY <2>1, <2>3, <2>4
<1>3. PICK k : k = CHOOSE i \in DOMAIN word : Ends(i)
    OBVIOUS
<1>4. k \in 1 .. Len(word)
  <2>1. k \in DOMAIN word
    <3>. HIDE DEF Ends
    <3>. QED
        BY <1>2, <1>3
  <2>. QED
      BY <1>1, <2>1
<1>5. NameOf(word) = SubSeq(word, 1, k)
    BY <1>3, Zenon DEF NameOf
<1>6. Len(NameOf(word)) = k
    BY <1>1, <1>4, <1>5
<1>7. PICK v : v = SubSeq(word, Len(NameOf(word)) + 1, Len(word))
    OBVIOUS
<1>8. v \in Seq(STRING)
  <2>1. v = SubSeq(word, k + 1, Len(word)) /\ k + 1 \in Nat \ {0}
      BY <1>1, <1>4, <1>6, <1>7
  <2>. QED
      BY <1>1, <2>1, SubTyped
<1>9. PICK u : u = SubSeq(v, 2, Len(v) - 1)
    OBVIOUS
<1>10. Len(v) >= 2 => u \in Seq(STRING)
    BY <1>8, <1>9, SubTyped
<1>11. ValueOf(word) = IF Len(v) >= 2 /\ v[1] = "q" /\ Last(v) = "q" THEN u
                       ELSE IF v # << >> /\ (v[1] = "q" \/ Last(v) = "q") THEN NULL
                       ELSE v
    BY <1>7, <1>9, Zenon DEF ValueOf
<1>12. CASE Len(v) >= 2 /\ v[1] = "q" /\ Last(v) = "q"
    BY <1>10, <1>11, <1>12
<1>13. CASE ~(Len(v) >= 2 /\ v[1] = "q" /\ Last(v) = "q")
    BY <1>8, <1>11, <1>13
<1>. QED
    BY <1>12, <1>13

\* set_PS1 would accept the prompt that main starts with.
LEMMA DefaultIsStorable == Storable(PS1, DefaultPS1) /\ PATH # PS1
<1>1. DefaultPS1 \in Seq(STRING)
    BY PromptAssumption
<1>2. PS1Accepted(DefaultPS1)
  <2>1. DOMAIN DefaultPS1 = 1 .. 1 /\ DefaultPS1[1] # "\\x"
      BY DEF DefaultPS1
  <2>2. \A i \in 1 .. 1 : i = 1
      OBVIOUS
  <2>. QED
      BY <2>1, <2>2 DEF PS1Accepted
<1>3. PATH # PS1
    BY DEF PATH, PS1
<1>. QED
    BY <1>1, <1>2, <1>3 DEF Storable

\* The variables that main starts with.
LEMMA InitVarsOK ==
    ASSUME NEW withPath \in BOOLEAN, NEW list, list = InitVars(withPath), NEW asg,
           asg = [n \in {list[i].name : i \in DOMAIN list} |->
                      IF n = PATH THEN EnvPath ELSE DefaultPS1]
    PROVE  /\ ListOK(list, asg)
           /\ PromptOf(list, << >>) = [format |-> DefaultPS1, cwd |-> << >>]
<1>1. PICK e : e = [name |-> PATH, value |-> EnvPath]
    OBVIOUS
<1>2. PICK d : d = [name |-> PS1, value |-> DefaultPS1]
    OBVIOUS
<1>3. e.name = PATH /\ e.value = EnvPath /\ d.name = PS1 /\ d.value = DefaultPS1 /\ PATH # PS1
    BY <1>1, <1>2, DefaultIsStorable
<1>4. list = IF withPath THEN Append(<<e>>, d) ELSE <<d>>
  <2>1. {i \in DOMAIN << >> : << >>[i].name = PATH} = {} /\ {i \in DOMAIN << >> : << >>[i].name = PS1} = {}
      OBVIOUS
  <2>2. Len(<< >>) < MAX_SH_VAR_NUM
      BY SizesAssumption
  <2>3. SetVar(<< >>, PATH, EnvPath) = Append(<< >>, e) /\ SetVar(<< >>, PS1, DefaultPS1) = Append(<< >>, d)
      BY <1>1, <1>2, <2>1, <2>2, Zenon DEF SetVar
  <2>4. Append(<< >>, e) = <<e>> /\ Append(<< >>, d) = <<d>>
      OBVIOUS
  <2>5. {i \in DOMAIN <<e>> : <<e>>[i].name = PS1} = {}
      BY <1>3
  <2>6. Len(<<e>>) < MAX_SH_VAR_NUM
      BY SizesAssumption
  <2>7. SetVar(<<e>>, PS1, DefaultPS1) = Append(<<e>>, d)
      BY <1>2, <2>5, <2>6, Zenon DEF SetVar
  <2>. QED
      BY <2>3, <2>4, <2>7 DEF InitVars
<1>5. CASE withPath = TRUE
  <2>1. list = Append(<<e>>, d)
      BY <1>4, <1>5
  <2>2. PICK l : l = <<e>>
      OBVIOUS
  <2>3. /\ DOMAIN list = 1 .. 2 /\ Len(list) = 2 /\ list[1] = e /\ list[2] = d
        /\ Listing(list)
    <3>1. DOMAIN l = 1 .. 1 /\ Len(l) = 1 /\ l[1] = e /\ l = [i \in 1 .. 1 |-> l[i]]
        BY <2>2
    <3>2. Listing(l)
        BY <3>1, ListingFact
    <3>3. Appended(l, d, list)
        BY <2>1, <2>2, <3>2, AppendFact
    <3>. QED
        BY <3>1, <3>3 DEF Appended
  <2>4. \A i \in DOMAIN list : i = 1 \/ i = 2
      BY <2>3
  <2>5. {list[i].name : i \in DOMAIN list} = {PATH, PS1}
    <3>1. 1 \in DOMAIN list /\ 2 \in DOMAIN list
        BY <2>3
    <3>. QED
        BY <1>3, <2>3, <2>4, <3>1
  <2>6. DOMAIN asg = {list[i].name : i \in DOMAIN list}
      OBVIOUS
  <2>7. asg[PATH] = EnvPath /\ asg[PS1] = DefaultPS1
      BY <1>3, <2>5
  <2>8. ListOK(list, asg)
    <3>1. \A i, j \in DOMAIN list : list[i].name = list[j].name => i = j
        BY <1>3, <2>3, <2>4
    <3>2. \E i \in DOMAIN list : list[i].name = PS1
        BY <1>3, <2>3
    <3>3. \A i \in DOMAIN list :
              list[i].name = PS1 => list[i].value \in Seq(STRING) /\ PS1Accepted(list[i].value)
        BY <1>3, <2>3, <2>4, DefaultIsStorable DEF Storable
    <3>4. \A i \in DOMAIN list : asg[list[i].name] = list[i].value
        BY <1>3, <2>3, <2>4, <2>7
    <3>5. Len(list) <= MAX_SH_VAR_NUM
        BY <2>3, SizesAssumption
    <3>. QED
        BY <2>3, <2>6, <3>1, <3>2, <3>3, <3>4, <3>5 DEF ListOK
  <2>9. (CHOOSE i \in DOMAIN list : list[i].name = PS1) = 2
      BY <1>3, <2>3, <2>4
  <2>10. PromptOf(list, << >>) = [format |-> DefaultPS1, cwd |-> << >>]
    <3>1. list[CHOOSE i \in DOMAIN list : list[i].name = PS1].value = DefaultPS1
        BY <1>3, <2>3, <2>9
    <3>. QED
        BY <3>1, DefaultIsStorable, Zenon DEF PromptOf, Storable
  <2>. QED
      BY <2>8, <2>10
<1>6. CASE withPath = FALSE
  <2>1. list = <<d>>
      BY <1>4, <1>6
  <2>2. DOMAIN list = 1 .. 1 /\ Len(list) = 1 /\ list[1] = d
      BY <2>1
  <2>3. Listing(list)
    <3>1. list = [i \in 1 .. 1 |-> list[i]]
        BY <2>1
    <3>. QED
        BY <3>1, ListingFact
  <2>4. \A i \in DOMAIN list : i = 1
      BY <2>2
  <2>5. {list[i].name : i \in DOMAIN list} = {PS1}
    <3>1. 1 \in DOMAIN list
        BY <2>2
    <3>. QED
        BY <1>3, <2>2, <2>4, <3>1
  <2>6. DOMAIN asg = {list[i].name : i \in DOMAIN list}
      OBVIOUS
  <2>7. asg[PS1] = DefaultPS1
      BY <1>3, <2>5
  <2>8. ListOK(list, asg)
    <3>1. \A i, j \in DOMAIN list : list[i].name = list[j].name => i = j
        BY <2>4
    <3>2. \E i \in DOMAIN list : list[i].name = PS1
        BY <1>3, <2>2
    <3>3. \A i \in DOMAIN list :
              list[i].name = PS1 => list[i].value \in Seq(STRING) /\ PS1Accepted(list[i].value)
        BY <1>3, <2>2, <2>4, DefaultIsStorable DEF Storable
    <3>4. \A i \in DOMAIN list : asg[list[i].name] = list[i].value
        BY <1>3, <2>2, <2>4, <2>7
    <3>5. Len(list) <= MAX_SH_VAR_NUM
        BY <2>2, SizesAssumption
    <3>. QED
        BY <2>3, <2>6, <3>1, <3>2, <3>3, <3>4, <3>5 DEF ListOK
  <2>9. (CHOOSE i \in DOMAIN list : list[i].name = PS1) = 1
      BY <1>3, <2>2, <2>4
  <2>10. PromptOf(list, << >>) = [format |-> DefaultPS1, cwd |-> << >>]
    <3>1. list[CHOOSE i \in DOMAIN list : list[i].name = PS1].value = DefaultPS1
        BY <1>3, <2>2, <2>9
    <3>. QED
        BY <3>1, DefaultIsStorable, Zenon DEF PromptOf, Storable
  <2>. QED
      BY <2>8, <2>10
<1>. QED
    BY <1>5, <1>6

-----------------------------------------------------------------------------
(* The steps *)

\* What main sets up satisfies the invariant.
LEMMA InitInv == Init => Inv
<1>. SUFFICES ASSUME Init
              PROVE  Inv
    OBVIOUS
<1>. USE DEF Init
<1>1. LinePart
  <2>1. script \in {NULL} \cup Seq(Seq(STRING))
      BY LinesAssumption DEF Interactive
  <2>2. arg_list \in {NULL} \cup Seq(Seq(STRING))
      OBVIOUS
  <2>. QED
      BY <2>1, <2>2 DEF LinePart, ParseIsSplit
<1>2. VarPart
  <2>1. ListOK(var_list, assigned) /\ PromptOf(var_list, << >>) = [format |-> DefaultPS1, cwd |-> << >>]
      BY InitVarsOK
  <2>. QED
      BY <2>1, RootAssumption DEF VarPart
<1>3. ChildPart
  <2>1. fds \in 0 .. FreeFds
      BY SizesAssumption
  <2>. QED
      BY <2>1, SizesAssumption DEF ChildPart, ForegroundBeforePrompt
<1>. QED
    BY <1>1, <1>2, <1>3 DEF Inv

\* No line is read, and none is left to execute.
LEMMA LineSettles ==
    ASSUME LinePart, pc' \in {"prompt", "waitpid", "wait", "dead", "halted"}, arg_list' = << >>, script' = script
    PROVE  LinePart'
<1>1. (arg_list \in {NULL} \cup Seq(Seq(STRING)))'
    OBVIOUS
<1>. QED
    BY <1>1 DEF LinePart, ParseIsSplit

\* Nothing of the variables, the directory and the prompt changes.
LEMMA VarsStay ==
    ASSUME VarPart, UNCHANGED <<env_path, var_list, assigned, cwd, prompt>>
    PROVE  VarPart'
BY DEF VarPart

\* Nothing of the children changes, and the shell does not come back to its prompt.
LEMMA ChildrenStay ==
    ASSUME ChildPart, UNCHANGED <<fds, forked, alive, fg, background>>,
           pc' \in {"prompt", "execute"} => pc \in {"prompt", "execute"}
    PROVE  ChildPart'
BY DEF ChildPart, ForegroundBeforePrompt

\* A slot more is taken, and no child made.
LEMMA SlotTaken ==
    ASSUME ChildPart, pc \in {"prompt", "execute"}, fds' \in {fds, fds + 1}, fds' \in 0 .. FreeFds,
           UNCHANGED <<forked, alive, fg, background>>
    PROVE  ChildPart'
<1>1. fds \in Nat /\ forked \in 0 .. fds'
    BY SizesAssumption DEF ChildPart
<1>. QED
    BY <1>1 DEF ChildPart, ForegroundBeforePrompt

\* The process ends (exit).
LEMMA DiesInv == Inv /\ Dies => Inv'
<1>. SUFFICES ASSUME Inv, Dies
              PROVE  Inv'
    OBVIOUS
<1>. USE DEF Dies
<1>1. LinePart'
    BY LineSettles DEF Inv
<1>2. VarPart'
    BY VarsStay DEF Inv
<1>3. ChildPart'
    BY ChildrenStay DEF Inv
<1>. QED
    BY <1>1, <1>2, <1>3 DEF Inv

\* The loop of main goes on, and nothing has changed.
Skips == /\ pc = "execute" /\ Done
         /\ UNCHANGED <<script, var_list, env_path, prompt, cwd, fds, forked, alive, fg, background, assigned>>

\* A line without effect: no command, not found, refused.
LEMMA SkipsInv == Inv /\ Skips => Inv'
<1>. SUFFICES ASSUME Inv, Skips
              PROVE  Inv'
    OBVIOUS
<1>. USE DEF Skips, Done
<1>1. LinePart'
    BY LineSettles DEF Inv
<1>2. VarPart'
    BY VarsStay DEF Inv
<1>3. ChildPart'
    BY ChildrenStay DEF Inv
<1>. QED
    BY <1>1, <1>2, <1>3 DEF Inv

\* A line is typed (myfgets), and parsed.
LEMMA ReadLineInv ==
    ASSUME Inv, NEW s \in Lines, ReadLine(s)
    PROVE  Inv'
<1>. USE DEF ReadLine
<1>1. LinePart'
  <2>1. s \in Seq(STRING)
      BY LinesAssumption
  <2>2. ParseCmds(s) \in {NULL} \cup Seq(Seq(STRING)) /\ IsSplit(s, ParseCmds(s))
      BY <2>1, ParserSplits
  <2>3. IsSplit(line', arg_list') /\ arg_list' \in {NULL} \cup Seq(Seq(STRING))
      BY <2>2
  <2>. QED
      BY <2>3 DEF Inv, LinePart, ParseIsSplit
<1>2. VarPart'
    BY VarsStay DEF Inv
<1>3. ChildPart'
    BY ChildrenStay DEF Inv
<1>. QED
    BY <1>1, <1>2, <1>3 DEF Inv

\* A line of the script is read, and parsed.
LEMMA ScriptLineInv == Inv /\ ScriptLine => Inv'
<1>. SUFFICES ASSUME Inv, ScriptLine
              PROVE  Inv'
    OBVIOUS
<1>. USE DEF ScriptLine
<1>1. LinePart'
  <2>1. PICK S : S = Seq(STRING)
      OBVIOUS
  <2>2. script \in Seq(S) /\ script # << >>
      BY <2>1 DEF Inv, LinePart, Interactive
  <2>3. Head(script) \in S /\ Tail(script) \in Seq(S)
      BY <2>2
  <2>4. PICK s \in Seq(STRING) : s = Head(script)
      BY <2>1, <2>3
  <2>5. ParseCmds(s) \in {NULL} \cup Seq(Seq(STRING)) /\ IsSplit(s, ParseCmds(s))
      BY ParserSplits
  <2>6. line' = s /\ arg_list' = ParseCmds(s)
      BY <2>4
  <2>7. IsSplit(line', arg_list') /\ arg_list' \in {NULL} \cup Seq(Seq(STRING))
      BY <2>5, <2>6
  <2>8. script' \in {NULL} \cup Seq(Seq(STRING))
      BY <2>1, <2>3
  <2>. QED
      BY <2>7, <2>8 DEF LinePart, ParseIsSplit
<1>2. VarPart'
    BY VarsStay DEF Inv
<1>3. ChildPart'
    BY ChildrenStay DEF Inv
<1>. QED
    BY <1>1, <1>2, <1>3 DEF Inv

\* cd: a new directory and a new prompt, or neither.
LEMMA CdInv ==
    ASSUME Inv, NEW args, Cd(args)
    PROVE  Inv'
<1>. DEFINE to == IF Len(args) = 2 THEN Resolved(FullPath(args[2])) ELSE <<"=">>
            ok == Len(args) = 2 /\ to \in Dirs
<1>1. pc = "execute"
    BY DEF Cd, Executes
<1>2. \/ /\ ok /\ fds < FreeFds
         /\ cwd' = to
         /\ fds' = fds + 1
         /\ DoneWithPrompt(var_list, to)
         /\ UNCHANGED <<script, var_list, env_path, forked, alive, fg, background, assigned>>
      \/ Dies
      \/ Skips
      \/ /\ DoneWithPrompt(var_list, cwd)
         /\ UNCHANGED <<script, var_list, env_path, cwd, fds, forked, alive, fg, background, assigned>>
    BY <1>1, Zenon DEF Cd, Skips
<1>3. CASE /\ ok /\ fds < FreeFds
           /\ cwd' = to
           /\ fds' = fds + 1
           /\ DoneWithPrompt(var_list, to)
           /\ UNCHANGED <<script, var_list, env_path, forked, alive, fg, background, assigned>>
  <2>1. cwd' \in Dirs /\ prompt' = PromptOf(var_list, cwd')
      BY <1>3 DEF DoneWithPrompt
  <2>. HIDE DEF to, ok
  <2>2. LinePart'
      BY <1>3, LineSettles DEF Inv, DoneWithPrompt, Done
  <2>3. VarPart'
      BY <1>3, <2>1 DEF Inv, VarPart
  <2>4. ChildPart'
    <3>1. fds' \in 0 .. FreeFds
        BY <1>3, SizesAssumption DEF Inv, ChildPart
    <3>. QED
        BY <1>1, <1>3, <3>1, SlotTaken DEF Inv
  <2>. QED
      BY <2>2, <2>3, <2>4 DEF Inv
<1>4. CASE /\ DoneWithPrompt(var_list, cwd)
           /\ UNCHANGED <<script, var_list, env_path, cwd, fds, forked, alive, fg, background, assigned>>
  <2>2. LinePart'
      BY <1>4, LineSettles DEF Inv, DoneWithPrompt, Done
  <2>3. VarPart'
      BY <1>4 DEF Inv, VarPart, DoneWithPrompt
  <2>4. ChildPart'
      BY <1>1, <1>4, ChildrenStay DEF Inv
  <2>. QED
      BY <2>2, <2>3, <2>4 DEF Inv
<1>. QED
    BY <1>2, <1>3, <1>4, DiesInv, SkipsInv

\* ls: a slot of file_array is lost, and the prompt is made anew.
LEMMA LsInv ==
    ASSUME Inv, NEW args, Ls(args)
    PROVE  Inv'
<1>1. pc = "execute"
    BY DEF Ls, Executes
<1>2. PICK opens \in BOOLEAN :
         \/ Dies
         \/ fds < FreeFds /\ Halts
         \/ /\ opens => fds < FreeFds
            /\ fds' = IF opens THEN fds + 1 ELSE fds
            /\ UNCHANGED <<var_list, cwd>>
            /\ DoneWithPrompt(var_list, cwd)
            /\ UNCHANGED <<script, env_path, forked, alive, fg, background, assigned>>
  <2>. DEFINE op == Len(args) <= 2 /\ Listed(args) \in Archive
  <2>1. \/ Dies
        \/ fds < FreeFds /\ Halts
        \/ /\ op => fds < FreeFds
           /\ fds' = IF op THEN fds + 1 ELSE fds
           /\ UNCHANGED <<var_list, cwd>>
           /\ DoneWithPrompt(var_list, cwd)
           /\ UNCHANGED <<script, env_path, forked, alive, fg, background, assigned>>
      BY Zenon DEF Ls
  <2>2. op \in BOOLEAN
      OBVIOUS
  <2>. HIDE DEF op
  <2>. QED
      BY <2>1, <2>2, Zenon
<1>3. CASE /\ opens => fds < FreeFds
           /\ fds' = IF opens THEN fds + 1 ELSE fds
           /\ UNCHANGED <<var_list, cwd>>
           /\ DoneWithPrompt(var_list, cwd)
           /\ UNCHANGED <<script, env_path, forked, alive, fg, background, assigned>>
  <2>2. LinePart'
      BY <1>3, LineSettles DEF Inv, DoneWithPrompt, Done
  <2>3. VarPart'
      BY <1>3 DEF Inv, VarPart, DoneWithPrompt
  <2>4. ChildPart'
    <3>1. fds' \in 0 .. FreeFds /\ fds' \in {fds, fds + 1}
        BY <1>3, SizesAssumption DEF Inv, ChildPart
    <3>. QED
        BY <1>1, <1>3, <3>1, SlotTaken DEF Inv
  <2>. QED
      BY <2>2, <2>3, <2>4 DEF Inv
<1>4. CASE fds < FreeFds /\ Halts
  <2>. USE <1>4 DEF Halts
  <2>1. LinePart'
      BY LineSettles DEF Inv
  <2>2. VarPart'
      BY VarsStay DEF Inv
  <2>3. fds' \in 0 .. FreeFds
      BY SizesAssumption DEF Inv, ChildPart
  <2>4. ChildPart'
      BY <1>1, <2>3, SlotTaken DEF Inv
  <2>. QED
      BY <2>1, <2>2, <2>4 DEF Inv
<1>. QED
    BY <1>2, <1>3, <1>4, DiesInv

\* An assignment: the list and the map change together, or neither does.
LEMMA AssignInv ==
    ASSUME Inv, NEW args, Assign(args)
    PROVE  Inv'
<1>1. pc = "execute" /\ args = arg_list /\ args # NULL /\ args # << >> /\ IsAssignment(args[1])
    BY DEF Assign, Executes
<1>2. args[1] \in Seq(STRING)
  <2>1. PICK S : S = Seq(STRING)
      OBVIOUS
  <2>2. args \in Seq(S) /\ args # << >>
      BY <1>1, <2>1 DEF Inv, LinePart
  <2>3. args[1] \in S
      BY <2>2
  <2>. QED
      BY <2>1, <2>3
<1>3. PICK name : name = NameOf(args[1])
    OBVIOUS
<1>4. PICK value : value = ValueOf(args[1])
    OBVIOUS
<1>5. value \in {NULL} \cup Seq(STRING)
    BY <1>1, <1>2, <1>4, ValueTyped
<1>6. PICK accepted \in BOOLEAN :
          accepted <=> CASE name = PATH -> PathAccepted(value)
                         [] name = PS1  -> PS1Accepted(value)
                         [] OTHER       -> TRUE
    <2>. DEFINE acc == CASE name = PATH -> PathAccepted(value)
                         [] name = PS1  -> PS1Accepted(value)
                         [] OTHER       -> TRUE
    <2>1. (acc = TRUE) \in BOOLEAN /\ ((acc = TRUE) <=> acc)
      <3>1. acc \in BOOLEAN
          BY DEF PathAccepted, PS1Accepted
      <3>. HIDE DEF acc
      <3>. QED
          BY <3>1
    <2>. HIDE DEF acc
    <2>2. \E b \in BOOLEAN : b <=> acc
        BY <2>1
    <2>. QED
        BY <2>2 DEF acc
<1>7. PICK stored : stored = IF name = PATH THEN ExpandPath(value) ELSE value
    OBVIOUS
<1>8. \/ Skips
      \/ Dies
      \/ /\ value # NULL
         /\ var_list' = IF accepted THEN SetVar(var_list, name, stored) ELSE var_list
         /\ assigned' = IF accepted /\ (HasVar(name) \/ Len(var_list) < MAX_SH_VAR_NUM)
                        THEN [n \in DOMAIN assigned \cup {name} |->
                                 IF n = name THEN stored ELSE assigned[n]]
                        ELSE assigned
         /\ UNCHANGED cwd
         /\ DoneWithPrompt(var_list', cwd)
         /\ UNCHANGED <<script, env_path, fds, forked, alive, fg, background>>
    BY <1>1, <1>3, <1>4, <1>6, <1>7 DEF Assign, Skips
<1>9. CASE /\ value # NULL
           /\ var_list' = IF accepted THEN SetVar(var_list, name, stored) ELSE var_list
           /\ assigned' = IF accepted /\ (HasVar(name) \/ Len(var_list) < MAX_SH_VAR_NUM)
                          THEN [n \in DOMAIN assigned \cup {name} |->
                                   IF n = name THEN stored ELSE assigned[n]]
                          ELSE assigned
           /\ UNCHANGED cwd
           /\ DoneWithPrompt(var_list', cwd)
           /\ UNCHANGED <<script, env_path, fds, forked, alive, fg, background>>
  <2>1. LinePart'
      BY <1>9, LineSettles DEF Inv, DoneWithPrompt, Done
  <2>2. ListOK(var_list, assigned)
      BY DEF Inv, VarPart
  <2>3. HasVar(name) <=> Named(var_list, name)
      BY DEF HasVar, Named
  <2>4. accepted => Storable(name, stored)
      BY <1>5, <1>6, <1>7, <1>9, DefaultIsStorable DEF Storable
  <2>5. ListOK(var_list', assigned')
    <3>1. CASE ~accepted
        BY <1>9, <2>2, <3>1
    <3>2. CASE accepted /\ ~Named(var_list, name) /\ ~(Len(var_list) < MAX_SH_VAR_NUM)
        BY <1>9, <2>2, <2>3, <3>2, SetVarFull
    <3>3. CASE accepted /\ (Named(var_list, name) \/ Len(var_list) < MAX_SH_VAR_NUM)
      <4>1. var_list' = SetVar(var_list, name, stored)
          BY <1>9, <3>3
      <4>2. assigned' = Assigned(assigned, name, stored)
          BY <1>9, <2>3, <3>3 DEF Assigned
      <4>3. ListOK(SetVar(var_list, name, stored), Assigned(assigned, name, stored))
        <5>1. CASE Named(var_list, name)
            BY <2>2, <2>4, <3>3, <5>1, SetVarReplaces
        <5>2. CASE ~Named(var_list, name)
            BY <2>2, <2>4, <3>3, <5>2, SetVarAdds
        <5>. QED
            BY <5>1, <5>2
      <4>. QED
          BY <4>1, <4>2, <4>3
    <3>. QED
        BY <3>1, <3>2, <3>3
  <2>6. VarPart'
    <3>1. prompt' = PromptOf(var_list', cwd')
        BY <1>9 DEF DoneWithPrompt
    <3>. QED
        BY <1>9, <2>5, <3>1 DEF Inv, VarPart
  <2>7. ChildPart'
      BY <1>1, <1>9, ChildrenStay DEF Inv
  <2>. QED
      BY <2>1, <2>6, <2>7 DEF Inv
<1>. QED
    BY <1>8, <1>9, DiesInv, SkipsInv

\* A program is started, in the background or in the foreground.
LEMMA RunInv ==
    ASSUME Inv, NEW args, Run(args)
    PROVE  Inv'
<1>1. pc = "execute"
    BY DEF Run, IsProgram, Executes
<1>2. CASE Dies
    BY <1>2, DiesInv
<1>3. CASE ~Dies
  <2>1. /\ fds < FreeFds
        /\ fds' = fds + 1
        /\ forked' = forked + 1
        /\ alive' = alive \cup {forked'}
        /\ background' = IF Last(args) = <<"&">> THEN background \cup {forked'} ELSE background
        /\ IF InBackground(args)
           THEN Done /\ UNCHANGED fg
           ELSE pc' = "waitpid" /\ line' = << >> /\ arg_list' = << >> /\ fg' = forked'
        /\ UNCHANGED <<script, var_list, env_path, prompt, cwd, assigned>>
      BY <1>3 DEF Run
  <2>2. LinePart'
      BY <2>1, LineSettles DEF Inv, Done
  <2>3. VarPart'
      BY <2>1, VarsStay DEF Inv
  <2>4. ChildPart'
    <3>1. /\ fds \in Nat /\ forked \in Nat /\ forked <= fds /\ alive \subseteq 1 .. forked
          /\ fg \in 0 .. forked /\ alive \subseteq background
        BY <1>1, SizesAssumption DEF Inv, ChildPart, ForegroundBeforePrompt
    <3>2. fds' \in 0 .. FreeFds /\ forked' \in 0 .. fds'
        BY <2>1, <3>1, SizesAssumption
    <3>3. alive' \subseteq 1 .. forked' /\ fg' \in 0 .. forked'
        BY <2>1, <3>1
    <3>4. CASE InBackground(args)
      <4>1. background' = background \cup {forked'} /\ alive' \subseteq background'
          BY <2>1, <3>1, <3>4 DEF InBackground
      <4>. QED
          BY <3>2, <3>3, <4>1 DEF ChildPart, ForegroundBeforePrompt
    <3>5. CASE ~InBackground(args)
      <4>1. background' = background /\ pc' = "waitpid" /\ fg' = forked'
          BY <2>1, <3>5 DEF InBackground
      <4>2. alive' \subseteq background' \cup {fg'}
          BY <2>1, <3>1, <4>1
      <4>. QED
          BY <3>2, <3>3, <4>1, <4>2 DEF ChildPart, ForegroundBeforePrompt
    <3>. QED
        BY <3>4, <3>5
  <2>. QED
      BY <2>2, <2>3, <2>4 DEF Inv
<1>. QED
    BY <1>2, <1>3

\* waitpid goes to sleep.
LEMMA WaitpidInv == Inv /\ Waitpid => Inv'
<1>. SUFFICES ASSUME Inv, Waitpid
              PROVE  Inv'
    OBVIOUS
<1>. USE DEF Waitpid
<1>1. LinePart'
    BY DEF Inv, LinePart, ParseIsSplit
<1>2. VarPart'
    BY VarsStay DEF Inv
<1>3. ChildPart'
    BY ChildrenStay DEF Inv
<1>. QED
    BY <1>1, <1>2, <1>3 DEF Inv

\* waitpid returns: its child is gone, and what runs is in the background.
LEMMA WaitpidReturnsInv == Inv /\ WaitpidReturns => Inv'
<1>. SUFFICES ASSUME Inv, WaitpidReturns
              PROVE  Inv'
    OBVIOUS
<1>. USE DEF WaitpidReturns, Done
<1>1. LinePart'
    BY LineSettles DEF Inv
<1>2. VarPart'
    BY VarsStay DEF Inv
<1>3. ChildPart'
  <2>1. alive' \subseteq background' /\ fg' \in 0 .. forked'
      BY SizesAssumption DEF Inv, ChildPart
  <2>. QED
      BY <2>1 DEF Inv, ChildPart, ForegroundBeforePrompt
<1>. QED
    BY <1>1, <1>2, <1>3 DEF Inv

\* A child ends, whatever the shell is doing.
LEMMA ChildExitsInv ==
    ASSUME Inv, NEW c, ChildExits(c)
    PROVE  Inv'
<1>. USE DEF ChildExits
<1>1. LinePart'
    BY DEF Inv, LinePart, ParseIsSplit
<1>2. VarPart'
    BY VarsStay DEF Inv
<1>3. ChildPart'
    BY DEF Inv, ChildPart, ForegroundBeforePrompt
<1>. QED
    BY <1>1, <1>2, <1>3 DEF Inv

\* Nothing changes.
LEMMA StutterInv == Inv /\ UNCHANGED vars => Inv'
<1>. SUFFICES ASSUME Inv, UNCHANGED vars
              PROVE  Inv'
    OBVIOUS
<1>. USE DEF vars
<1>1. LinePart'
    BY DEF Inv, LinePart, ParseIsSplit
<1>2. VarPart'
    BY VarsStay DEF Inv
<1>3. ChildPart'
    BY ChildrenStay DEF Inv
<1>. QED
    BY <1>1, <1>2, <1>3 DEF Inv

\* The invariant is inductive: one step per action.
LEMMA NextInv == Inv /\ [Next]_vars => Inv'
<1>. SUFFICES ASSUME Inv, [Next]_vars
              PROVE  Inv'
    OBVIOUS
<1>1. ASSUME NEW s \in Lines, ReadLine(s)
      PROVE  Inv'
    BY <1>1, ReadLineInv
<1>2. CASE ScriptLine
    BY <1>2, ScriptLineInv
<1>3. CASE ScriptEnds
    BY <1>3, DiesInv DEF ScriptEnds
<1>4. CASE Refused
  <2>1. Skips \/ Dies
      BY <1>4 DEF Refused, Skips
  <2>. QED
      BY <2>1, SkipsInv, DiesInv
<1>5. ASSUME NEW args, NoCommand(args) \/ NotFound(args)
      PROVE  Inv'
  <2>1. Skips
      BY <1>5 DEF NoCommand, NotFound, IsProgram, Executes, Skips
  <2>. QED
      BY <2>1, SkipsInv
<1>6. ASSUME NEW args, Exit(args) \/ LookupRunsPast(args)
      PROVE  Inv'
    BY <1>6, DiesInv DEF Exit, LookupRunsPast
<1>7. CASE Execute
  <2>1. CASE Waitpid
      BY <2>1, WaitpidInv
  <2>2. CASE WaitpidReturns
      BY <2>2, WaitpidReturnsInv
  <2>3. ASSUME NEW args,
               \/ NoCommand(args) \/ Cd(args) \/ Ls(args) \/ Assign(args) \/ Exit(args)
               \/ NotFound(args) \/ LookupRunsPast(args) \/ Run(args)
        PROVE  Inv'
      BY <1>5, <1>6, <2>3, CdInv, LsInv, AssignInv, RunInv
  <2>. QED
      BY <1>4, <1>7, <2>1, <2>2, <2>3 DEF Execute
<1>8. ASSUME NEW c \in 1 .. FreeFds, ChildExits(c)
      PROVE  Inv'
    BY <1>8, ChildExitsInv
<1>9. CASE UNCHANGED vars
    BY <1>9, StutterInv
<1>. QED
    BY <1>1, <1>2, <1>3, <1>7, <1>8, <1>9 DEF Next

-----------------------------------------------------------------------------
(* The theorems *)

\* Every step of main and execute, and every end of a child, keeps Inv.
THEOREM Invariance == Spec => []Inv
<1>. QED
    BY InitInv, NextInv, PTL DEF Spec

\* The variables have their types; SH_VAR_LIST stays in its slots, there are
\* never more children than slots of file_array, and parse_PS1 always makes a
\* prompt.
THEOREM TypeCorrect == Spec => []TypeOK
<1>1. Inv => TypeOK
  <2>. SUFFICES ASSUME Inv
                PROVE  TypeOK
      OBVIOUS
  <2>1. prompt # NULL
      BY PromptExists DEF Inv, VarPart
  <2>2. forked \in 0 .. FreeFds
      BY SizesAssumption DEF Inv, ChildPart
  <2>. QED
      BY <2>1, <2>2 DEF Inv, LinePart, VarPart, ChildPart, ListOK, TypeOK
<1>. QED
    BY <1>1, Invariance, PTL

\* A line that is about to be executed has been split by parse_cmds as the
\* reference says, whatever its length and its quotes.
THEOREM LinesAreSplit == Spec => []ParseIsSplit
<1>1. Inv => ParseIsSplit
    BY DEF Inv, LinePart
<1>. QED
    BY <1>1, Invariance, PTL

\* get_var gives the value that was accepted last for a name.
THEOREM VariablesAreAMap == Spec => []VarsAreAMap
<1>1. Inv => VarsAreAMap
  <2>. SUFFICES ASSUME Inv
                PROVE  VarsAreAMap
      OBVIOUS
  <2>1. ListOK(var_list, assigned)
      BY DEF Inv, VarPart
  <2>2. DOMAIN assigned = {var_list[i].name : i \in DOMAIN var_list}
      BY <2>1 DEF ListOK
  <2>3. ASSUME NEW n \in DOMAIN assigned
        PROVE  GetVar(n) = assigned[n]
    <3>. DEFINE First(i) == /\ var_list[i].name = n
                            /\ \A j \in 1 .. i - 1 : var_list[j].name # n
    <3>1. PICK i \in DOMAIN var_list : var_list[i].name = n
        BY <2>2
    <3>2. \A j \in DOMAIN var_list : var_list[j].name = n => j = i
        BY <2>1, <3>1 DEF ListOK
    <3>3. DOMAIN var_list = 1 .. Len(var_list) /\ Len(var_list) \in Nat
        BY <2>1 DEF ListOK, Listing
    <3>4. First(i)
      <4>1. ASSUME NEW j \in 1 .. i - 1
            PROVE  j \in DOMAIN var_list /\ j # i
          BY <3>1, <3>3
      <4>. QED
          BY <3>1, <3>2, <4>1
    <3>5. PICK k : k = CHOOSE m \in DOMAIN var_list : First(m)
        OBVIOUS
    <3>6. k \in DOMAIN var_list /\ First(k)
      <4>. HIDE DEF First
      <4>. QED
          BY <3>4, <3>5
    <3>7. k = i
        BY <3>2, <3>6
    <3>8. HasVar(n)
        BY <3>1 DEF HasVar
    <3>9. GetVar(n) = var_list[k].value
        BY <3>5, <3>8, Zenon DEF GetVar
    <3>10. assigned[var_list[i].name] = var_list[i].value
        BY <2>1 DEF ListOK
    <3>. QED
        BY <3>1, <3>7, <3>9, <3>10
  <2>. QED
      BY <2>2, <2>3 DEF VarsAreAMap
<1>. QED
    BY <1>1, Invariance, PTL

\* The prompt is the one that parse_PS1 would make now.
THEOREM PromptStaysCurrent == Spec => []PromptIsCurrent
<1>1. Inv => PromptIsCurrent
    BY DEF Inv, VarPart, PromptIsCurrent
<1>. QED
    BY <1>1, Invariance, PTL

\* What runs while the shell is at its prompt was started with "&".
THEOREM ForegroundIsOver == Spec => []ForegroundBeforePrompt
<1>1. Inv => ForegroundBeforePrompt
    BY DEF Inv, ChildPart
<1>. QED
    BY <1>1, Invariance, PTL

=============================================================================
