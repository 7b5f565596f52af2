--------------------------- MODULE TerminalProofs ---------------------------
(***************************************************************************)
(* The properties of Terminal hold for every keyboard, every size of the   *)
(* buffer, all programs that read and all sizes they ask for, with keys    *)
(* between any two statements of a read that has slept.                    *)
(***************************************************************************)
EXTENDS Terminal, TLAPS

(***************************************************************************)
(* The inductive invariant                                                 *)
(***************************************************************************)
\* The characters of b from position o on are those of u, and z is d more than
\* their number.
Holds(b, z, u, o, d) ==
    /\ Len(u) = z - d
    /\ \A i \in 1..Len(u) : Char(u[i]) = b[o + i - 1]

\* Reader r has copied from the buffer and not put size and state right yet.
Copying(r) == pc[r] \in {"empty", "notready", "shift", "cut"}

\* What the statements of read_stdin may count on.
KeptAt(r) ==
    /\ pc[r] = "part" => asked[r] <= stdin_buf_size
    /\ pc[r] \in {"empty", "notready"} => unread = << >>
    /\ pc[r] = "notready" => stdin_buf_size = 0
    /\ pc[r] = "shift" => Holds(stdin_buf, stdin_buf_size, unread, asked[r], asked[r])
    /\ pc[r] = "cut" => Holds(stdin_buf, stdin_buf_size, unread, 0, asked[r])

\* The buffer and what is unread agree but for the reader that is Copying.
KeptInv ==
    ~disturbed =>
        /\ (\A r \in Readers : ~Copying(r)) => Holds(stdin_buf, stdin_buf_size, unread, 0, 0)
        /\ \A r \in Readers : KeptAt(r)

\* Only one reader is between the statements of read_stdin.
AloneInv == ~disturbed => \A q, r \in Readers : Inside(q) /\ Inside(r) => q = r

\* u ends with a line end.
EndsLine(u) == Len(u) > 0 /\ Char(u[Len(u)]) = Newline

\* What a reader may count on while nobody types after the line.
ReadyAt(r) ==
    /\ Inside(r) /\ pc[r] # "notready" => stdin_buf_state
    /\ pc[r] = "part" /\ ~ahead => asked[r] < stdin_buf_size
    /\ pc[r] = "drain" /\ ~ahead => stdin_buf_size <= asked[r]

\* A line that is ready and that nobody has typed behind ends with a newline.
ReadyInv ==
    ~disturbed =>
        /\ \A r \in Readers : ReadyAt(r)
        /\ (stdin_buf_state /\ ~ahead /\ \A r \in Readers : pc[r] \notin {"empty", "notready"})
              => EndsLine(unread)
        /\ vanished \subseteq {Newline}

\* Who is in a read has asked for something.
AskedInv == \A r \in Readers : pc[r] # "user" => asked[r] # 0

Inv ==
    /\ TypeOK /\ NoGhostKeys /\ AskedInv
    /\ AloneInv /\ KeptInv /\ ReadyInv /\ LineIsReady

(***************************************************************************)
(* Sequences and characters                                                *)
(***************************************************************************)
\* A part of a sequence, from m to n.
LEMMA PartLemma ==
    ASSUME NEW S, NEW s \in Seq(S), NEW m \in Nat \ {0}, NEW n \in Int, n <= Len(s)
    PROVE  /\ SubSeq(s, m, n) \in Seq(S)
           /\ Len(SubSeq(s, m, n)) = IF m <= n THEN n - m + 1 ELSE 0
           /\ \A i \in 1..(n - m + 1) : SubSeq(s, m, n)[i] = s[m + i - 1]
<1>1. Len(s) \in Nat /\ \A i \in 1..Len(s) : s[i] \in S
  OBVIOUS
<1>2. CASE m <= n
  BY <1>1, <1>2
<1>3. CASE ~(m <= n)
  BY <1>1, <1>3
<1> QED BY <1>2, <1>3

\* One stroke more.
LEMMA AppendLemma ==
    ASSUME NEW u \in Seq(Strokes), NEW s \in Strokes
    PROVE  /\ Append(u, s) \in Seq(Strokes)
           /\ Len(Append(u, s)) = Len(u) + 1
           /\ Append(u, s)[Len(u) + 1] = s
           /\ \A i \in 1..Len(u) : Append(u, s)[i] = u[i]
OBVIOUS

\* What a copy of n characters leaves unread.
LEMMA RestLemma ==
    ASSUME unread \in Seq(Strokes), NEW n \in Int
    PROVE  /\ Rest(n) \in Seq(Strokes)
           /\ n \in 0..Len(unread) =>
                 /\ Len(Rest(n)) = Len(unread) - n
                 /\ \A i \in 1..(Len(unread) - n) : Rest(n)[i] = unread[i + n]
<1>1. Len(unread) \in Nat
  OBVIOUS
<1>2. CASE n <= 0
  <2>1. Rest(n) = unread
    BY <1>2 DEF Rest
  <2>2. n \in 0..Len(unread) => n = 0
    BY <1>2
  <2>3. \A i \in 1..Len(unread) : i + 0 = i
    BY <1>1
  <2> QED BY <1>1, <2>1, <2>2, <2>3
<1>3. CASE n > 0
  <2>1. PICK t : t = SubSeq(unread, n + 1, Len(unread))
    OBVIOUS
  <2>2. Rest(n) = t
    BY <1>3, <2>1 DEF Rest
  <2>3. n + 1 \in Nat \ {0} /\ Len(unread) \in Int /\ Len(unread) <= Len(unread)
    BY <1>1, <1>3
  <2>4. /\ t \in Seq(Strokes)
        /\ Len(t) = IF n + 1 <= Len(unread) THEN Len(unread) - (n + 1) + 1 ELSE 0
        /\ \A i \in 1..(Len(unread) - (n + 1) + 1) : t[i] = unread[n + 1 + i - 1]
    BY <2>1, <2>3, PartLemma
  <2>5. ASSUME n \in 0..Len(unread)
        PROVE  Len(t) = Len(unread) - n /\ \A i \in 1..(Len(unread) - n) : t[i] = unread[i + n]
    BY <1>1, <1>3, <2>4, <2>5
  <2> QED BY <2>2, <2>4, <2>5
<1> QED BY <1>2, <1>3

\* Characters are strokes of the normal map, or letters.
LEMMA CharType == ASSUME NEW s \in Strokes PROVE Char(s) \in Strokes
<1>1. s[1] \in NormalKeys \cup {NO} /\ "normalmap" \in Maps
  BY DEF Strokes, Maps
<1>2. <<s[1], "normalmap">> \in Strokes
  BY <1>1 DEF Strokes
<1> QED BY <1>2 DEF Char

\* The strokes the decoder makes.
LEMMA StrokeTypes ==
    ASSUME TypeOK
    PROVE  /\ <<normal_key_pressed, "normalmap">> \in Strokes
           /\ <<normal_key_pressed, "shiftmap">> \in Strokes
           /\ Enter \in Strokes /\ NUL \in Strokes
BY DEF TypeOK, Strokes, Maps, Enter, NUL, NormalKeys

\* As long as nothing bad has happened, unread is remembered.
LEMMA RecallLemma ==
    ASSUME TypeOK, NEW bad \in BOOLEAN, NEW u, Recall(bad, u)
    PROVE  /\ disturbed' \in BOOLEAN
           /\ unread' = << >> \/ unread' = u
           /\ ~disturbed' => ~disturbed /\ ~bad /\ unread' = u
BY Zenon DEF TypeOK, Recall

(***************************************************************************)
(* What one scan code can do to the buffer                                 *)
(***************************************************************************)
\* A character is put into the buffer; Enter makes the line ready.
Puts(s) ==
    /\ Put(s)
    /\ \/ s # Enter /\ UNCHANGED stdin_buf_state
       \/ s = Enter /\ stdin_buf_state' = TRUE
    /\ pc' = pc \/ pc' = Woken

Typed == (\E s \in Strokes : Puts(s)) \/ Erase \/ Silent

\* kbd.c:72-99 and 106-133: with a special key.
LEMMA SpecialIsTyped == ASSUME TypeOK, EmitSpecial PROVE Typed
<1>1. CASE special_key_pressed = "Shift"
  <2>1. PICK s \in Strokes : s = <<normal_key_pressed, "shiftmap">>
    BY StrokeTypes
  <2>2. s # Enter
    BY <2>1 DEF Enter
  <2>3. Put(s) /\ UNCHANGED <<stdin_buf_state, pc>>
    BY <1>1, <2>1 DEF EmitSpecial
  <2> QED BY <2>2, <2>3 DEF Typed, Puts
<1>2. CASE special_key_pressed # "Shift"
  BY <1>2 DEF EmitSpecial, Typed
<1> QED BY <1>1, <1>2

\* kbd.c:55-70: without one.
LEMMA NormalIsTyped == ASSUME TypeOK, EmitNormal PROVE Typed
<1>1. CASE normal_key_pressed = "Backspace"
  BY <1>1 DEF EmitNormal, Typed
<1>2. CASE normal_key_pressed = "Enter"
  <2>1. Put(Enter) /\ stdin_buf_state' = TRUE /\ pc' = Woken
    BY <1>2 DEF EmitNormal
  <2> QED BY <2>1, StrokeTypes DEF Typed, Puts
<1>3. CASE normal_key_pressed \notin {"Backspace", "Enter"}
  <2>1. PICK s \in Strokes : s = <<normal_key_pressed, "normalmap">>
    BY StrokeTypes
  <2>2. Put(s) /\ UNCHANGED <<stdin_buf_state, pc>>
    BY <1>3, <2>1 DEF EmitNormal
  <2>3. s # Enter
    BY <1>3, <2>1 DEF Enter
  <2> QED BY <2>2, <2>3 DEF Typed, Puts
<1> QED BY <1>1, <1>2, <1>3

\* The release of a normal key.
LEMMA ReleaseIsTyped == ASSUME TypeOK, NormalReleased PROVE Typed
BY SpecialIsTyped, NormalIsTyped DEF NormalReleased

\* The keyboard's steps and the readers' steps.
KeyStep ==
    /\ Typed /\ UNCHANGED <<asked, vanished>> /\ in_service' \in BOOLEAN
    /\ \/ \E k \in NormalKeys : Down(k) /\ normal_key_pressed' = k /\ UNCHANGED special_key_pressed
       \/ \E k \in Specials : Down(k) /\ special_key_pressed' = k /\ UNCHANGED normal_key_pressed
       \/ /\ normal_key_pressed' = NO /\ special_key_pressed' = NO
          /\ held' \subseteq held
       \/ UNCHANGED <<held, normal_key_pressed, special_key_pressed>>

ReadStep(r) == (\E n \in ReadSizes : Read(r, n) \/ ReadSleeps(r, n)) \/ Resumed(r)

\* Every step is the keyboard's or one reader's.
LEMMA StepsSplit ==
    ASSUME TypeOK, Next PROVE KeyStep \/ (UNCHANGED keys /\ \E r \in Readers : ReadStep(r))
<1> USE DEF KeyStrikes, Acknowledged
<1>0. in_service \in BOOLEAN
  BY DEF TypeOK
<1>1. ASSUME NEW k \in NormalKeys, PressNormal(k) PROVE KeyStep
  BY <1>0, <1>1 DEF PressNormal, KeyStep, Typed
<1>2. ASSUME NEW k \in Specials, PressSpecial(k) PROVE KeyStep
  BY <1>0, <1>2 DEF PressSpecial, KeyStep, Typed
<1>3. ASSUME NEW k \in NormalKeys, ReleaseNormal(k) PROVE KeyStep
  <2>1. Typed
    BY <1>3, ReleaseIsTyped DEF ReleaseNormal
  <2> QED BY <1>0, <1>3, <2>1 DEF ReleaseNormal, NormalReleased, KeyStep, Up
<1>4. ASSUME NEW k \in Specials, ReleaseSpecial(k) PROVE KeyStep
  <2>1. Typed
    BY <1>4, SpecialIsTyped DEF ReleaseSpecial, Typed
  <2> QED BY <1>0, <1>4, <2>1 DEF ReleaseSpecial, KeyStep, Up
<1>5. ASSUME PressUnknown PROVE KeyStep
  <2>1. Typed
    BY <1>5, ReleaseIsTyped DEF PressUnknown
  <2> QED BY <1>0, <1>5, <2>1 DEF PressUnknown, NormalReleased, KeyStep
<1>6. ASSUME KbdNoData PROVE KeyStep
  BY <1>6 DEF KbdNoData, KeyStep, Typed
<1>7. ASSUME NEW r \in Readers, ReadStep(r) PROVE UNCHANGED keys
  BY <1>7 DEF ReadStep, Resumed, Read, ReadSleeps, ReadTests, ReadSleepsAgain, ReadCompares, ReadCopies,
              ReadEmpties, ReadSetsNotReady, ReadCopiesPart, ReadShifts, ReadCuts, ReadFails
<1> QED BY <1>1, <1>2, <1>3, <1>4, <1>5, <1>6, <1>7 DEF Next, ReadStep

(***************************************************************************)
(* Type correctness and the keys                                           *)
(***************************************************************************)
\* The initial state is well typed.
LEMMA InitType == Init => TypeOK
<1> SUFFICES ASSUME Init PROVE TypeOK
  OBVIOUS
<1>1. stdin_buf \in [Slots -> Strokes]
  BY DEF Init, Strokes, NUL, Maps
<1>2. stdin_buf_size \in (-MaxUnder)..MaxBuf
  BY BoundsAssumption DEF Init
<1>3. unread \in Seq(Strokes)
  BY DEF Init
<1>4. pc \in [Readers -> Places] /\ asked \in [Readers -> ReadSizes \cup {0}]
  BY DEF Init, Places
<1> QED BY <1>1, <1>2, <1>3, <1>4 DEF Init, TypeOK

\* Whatever is recalled is a sequence of strokes.
LEMMA RecallType ==
    ASSUME TypeOK, NEW bad \in BOOLEAN, NEW u \in Seq(Strokes), Recall(bad, u)
    PROVE  disturbed' \in BOOLEAN /\ unread' \in Seq(Strokes)
<1>1. << >> \in Seq(Strokes)
  OBVIOUS
<1> QED BY <1>1, RecallLemma

\* The conditions that are recalled have a truth value.
LEMMA BadType ==
    /\ TooLate \in BOOLEAN /\ TakesTooMuch \in BOOLEAN
    /\ \A r \in Readers : Overlaps(r) \in BOOLEAN
BY DEF TooLate, TakesTooMuch, Overlaps

\* A scan code keeps the types.
LEMMA TypedType ==
    ASSUME TypeOK, Typed
    PROVE  /\ stdin_buf' \in [Slots -> Strokes]
           /\ stdin_buf_size' \in (-MaxUnder)..MaxBuf
           /\ stdin_buf_state' \in BOOLEAN
           /\ pc' \in [Readers -> Places]
           /\ unread' \in Seq(Strokes)
           /\ disturbed' \in BOOLEAN /\ ahead' \in BOOLEAN
<1> DEFINE Goal == /\ stdin_buf' \in [Slots -> Strokes]
                   /\ stdin_buf_size' \in (-MaxUnder)..MaxBuf
                   /\ stdin_buf_state' \in BOOLEAN
                   /\ pc' \in [Readers -> Places]
                   /\ unread' \in Seq(Strokes)
                   /\ disturbed' \in BOOLEAN /\ ahead' \in BOOLEAN
<1>0. unread \in Seq(Strokes) /\ Len(unread) \in Nat
  BY DEF TypeOK
<1>1. ASSUME NEW s \in Strokes, Puts(s) PROVE Goal
  <2>1. PICK c \in Strokes : c = Char(s)
    BY CharType
  <2>2. stdin_buf' \in [Slots -> Strokes]
    BY <1>1, <2>1 DEF TypeOK, Puts, Put
  <2>3. stdin_buf_size' \in (-MaxUnder)..MaxBuf
    BY <1>1, BoundsAssumption DEF TypeOK, Puts, Put, Slots
  <2>4. stdin_buf_state' \in BOOLEAN /\ ahead' \in BOOLEAN
    BY <1>1 DEF TypeOK, Puts, Put
  <2>5. pc' \in [Readers -> Places]
    BY <1>1 DEF TypeOK, Puts, Woken, Places
  <2>6. PICK u \in Seq(Strokes) : u = Append(unread, s)
    BY <1>0, AppendLemma
  <2>7. Recall(TooLate, u)
    BY <1>1, <2>6 DEF Puts, Put
  <2>8. disturbed' \in BOOLEAN /\ unread' \in Seq(Strokes)
    BY <2>7, BadType, RecallType
  <2> QED BY <2>2, <2>3, <2>4, <2>5, <2>8
<1>2. CASE Erase
  <2>1. stdin_buf_size' \in (-MaxUnder)..MaxBuf
    BY <1>2, BoundsAssumption DEF TypeOK, Erase
  <2>0. 1 \in Nat \ {0} /\ Len(unread) - 1 \in Int /\ Len(unread) - 1 <= Len(unread)
    BY <1>0
  <2>2. PICK u \in Seq(Strokes) : u = SubSeq(unread, 1, Len(unread) - 1)
    BY <1>0, <2>0, PartLemma
  <2>3. Recall(TakesTooMuch, u)
    BY <1>2, <2>2 DEF Erase
  <2>4. disturbed' \in BOOLEAN /\ unread' \in Seq(Strokes)
    BY <2>3, BadType, RecallType
  <2> QED BY <1>2, <2>1, <2>4 DEF TypeOK, Erase
<1>3. CASE Silent
  BY <1>3 DEF TypeOK, Silent, buffer
<1> QED BY <1>1, <1>2, <1>3 DEF Typed

\* The keyboard keeps the types.
LEMMA KeyStepType == ASSUME TypeOK, KeyStep PROVE TypeOK'
<1>1. /\ held' \subseteq NormalKeys \cup Specials
      /\ normal_key_pressed' \in NormalKeys \cup {NO}
      /\ special_key_pressed' \in Specials \cup {NO}
  BY DEF TypeOK, KeyStep, Down
<1>2. asked' \in [Readers -> ReadSizes \cup {0}] /\ in_service' \in BOOLEAN /\ Typed
  BY DEF TypeOK, KeyStep
<1> QED BY <1>1, <1>2, TypedType DEF TypeOK

\* The rest that moves down is made of characters.
LEMMA ShiftedType == ASSUME TypeOK, NEW n \in Nat PROVE Shifted(n) \in [Slots -> Strokes]
<1>1. ASSUME NEW i \in Slots, i >= 0, i + n < stdin_buf_size PROVE i + n \in Slots
  BY <1>1, BoundsAssumption DEF TypeOK, Slots
<1> QED BY <1>1 DEF TypeOK, Shifted

\* A size that was asked for is a number.
LEMMA AskedType == ASSUME TypeOK, NEW r \in Readers PROVE asked[r] \in Nat
<1>1. CASE asked[r] = 0
  BY <1>1
<1>2. CASE asked[r] # 0
  <2>1. asked[r] \in ReadSizes
    BY <1>2 DEF TypeOK
  <2> QED BY <2>1, ReadSizesAssumption
<1> QED BY <1>1, <1>2

\* A reader goes from one place to another.
LEMMA GotoType ==
    ASSUME TypeOK, NEW r \in Readers, NEW from, NEW to \in Places, Goto(r, from, to)
    PROVE  pc' \in [Readers -> Places] /\ pc'[r] = to /\ \A q \in Readers \ {r} : pc'[q] = pc[q]
BY DEF TypeOK, Goto

\* The readers keep the types.
LEMMA ReadStepType == ASSUME TypeOK, NEW r \in Readers, ReadStep(r), UNCHANGED keys PROVE TypeOK'
<1>1. /\ held' \subseteq NormalKeys \cup Specials
      /\ normal_key_pressed' \in NormalKeys \cup {NO}
      /\ special_key_pressed' \in Specials \cup {NO}
      /\ in_service' \in BOOLEAN
  BY DEF TypeOK, keys
<1>2. asked[r] \in Nat /\ stdin_buf_size \in Int /\ stdin_buf_state \in BOOLEAN /\ unread \in Seq(Strokes)
  BY AskedType, BoundsAssumption DEF TypeOK
<1>3. \A x : Returns(r, x) => Goto(r, x, "user") /\ asked' \in [Readers -> ReadSizes \cup {0}]
  BY DEF Returns, TypeOK
<1>4. {"user", "asleep", "sleep", "enter", "drain", "empty", "notready", "part", "shift", "cut"} \subseteq Places
  BY DEF Places
<1> DEFINE Buf == /\ stdin_buf' \in [Slots -> Strokes]
                  /\ stdin_buf_size' \in (-MaxUnder)..MaxBuf
                  /\ stdin_buf_state' \in BOOLEAN
           Hist == unread' \in Seq(Strokes) /\ disturbed' \in BOOLEAN /\ ahead' \in BOOLEAN
           Asked == asked' \in [Readers -> ReadSizes \cup {0}]
           Pc == pc' \in [Readers -> Places]
<1>5. /\ UNCHANGED buffer => Buf
      /\ UNCHANGED history => Hist
      /\ UNCHANGED asked => Asked
      /\ UNCHANGED pc => Pc
  BY DEF TypeOK, buffer, history
<1>6. Buf /\ Hist /\ Asked /\ Pc => TypeOK'
  BY <1>1 DEF TypeOK
<1>7. ASSUME NEW from, NEW to \in Places, Goto(r, from, to) PROVE Pc
  BY <1>7, GotoType
<1>8. ASSUME NEW bad \in BOOLEAN, NEW m \in Int, Recall(bad, Rest(m))
      PROVE  unread' \in Seq(Strokes) /\ disturbed' \in BOOLEAN
  <2>1. PICK u \in Seq(Strokes) : u = Rest(m)
    BY <1>2, RestLemma
  <2>2. Recall(bad, u)
    BY <1>8, <2>1
  <2> QED BY <2>2, RecallType
<1>9. ASSUME NEW n \in ReadSizes, Read(r, n) PROVE TypeOK'
  <2>1. n \in Nat
    BY ReadSizesAssumption
  <2>2. Copied(n) \in Int /\ Overlaps(r) \in BOOLEAN
    BY <1>2, <2>1, BadType DEF Copied
  <2>3. unread' \in Seq(Strokes) /\ disturbed' \in BOOLEAN
    BY <1>8, <1>9, <2>2 DEF Read
  <2>4. ahead' \in BOOLEAN
    BY <1>9 DEF Read
  <2>5. stdin_buf' \in [Slots -> Strokes]
    BY <1>9, <2>1, ShiftedType DEF Read, TypeOK
  <2>6. stdin_buf_size' \in (-MaxUnder)..MaxBuf
    BY <1>9, <2>1, BoundsAssumption DEF Read, TypeOK, TakesAll
  <2>7. stdin_buf_state' \in BOOLEAN
    BY <1>9 DEF Read, StateAfter
  <2>8. Pc /\ Asked
    BY <1>5, <1>9 DEF Read
  <2> QED BY <1>6, <2>3, <2>4, <2>5, <2>6, <2>7, <2>8
<1>10. ASSUME NEW n \in ReadSizes, ReadSleeps(r, n) PROVE TypeOK'
  <2>1. Pc /\ Asked
    BY <1>4, <1>10 DEF ReadSleeps, TypeOK
  <2> QED BY <1>5, <1>6, <1>10, <2>1 DEF ReadSleeps
<1>11. CASE ReadTests(r)
  <2>1. PICK to \in Places : Goto(r, "woken", to)
    BY <1>4, <1>11 DEF ReadTests
  <2>2. PICK bad \in BOOLEAN : Recall(bad, unread)
    BY <1>2, <1>11, BadType DEF ReadTests
  <2>3. unread' \in Seq(Strokes) /\ disturbed' \in BOOLEAN
    BY <1>2, <2>2, RecallType
  <2>4. ahead' \in BOOLEAN
    BY <1>11 DEF ReadTests, TypeOK
  <2> QED BY <1>5, <1>6, <1>7, <1>11, <2>1, <2>3, <2>4 DEF ReadTests
<1>12. CASE ReadSleepsAgain(r)
  BY <1>4, <1>5, <1>6, <1>7, <1>12 DEF ReadSleepsAgain
<1>13. CASE ReadCompares(r)
  <2>1. PICK to \in Places : Goto(r, "enter", to)
    BY <1>4, <1>13 DEF ReadCompares
  <2> QED BY <1>5, <1>6, <1>7, <1>13, <2>1 DEF ReadCompares
<1>14. CASE ReadCopies(r)
  <2>1. unread' \in Seq(Strokes) /\ disturbed' \in BOOLEAN
    BY <1>2, <1>8, <1>14 DEF ReadCopies
  <2>2. ahead' \in BOOLEAN
    BY <1>14 DEF ReadCopies, TypeOK
  <2>3. Pc
    BY <1>4, <1>7, <1>14 DEF ReadCopies
  <2> QED BY <1>5, <1>6, <1>14, <2>1, <2>2, <2>3 DEF ReadCopies
<1>15. CASE ReadEmpties(r)
  <2>1. Buf
    BY <1>15, BoundsAssumption DEF ReadEmpties, TypeOK
  <2>2. Pc
    BY <1>4, <1>7, <1>15 DEF ReadEmpties
  <2> QED BY <1>5, <1>6, <1>15, <2>1, <2>2 DEF ReadEmpties
<1>16. CASE ReadSetsNotReady(r)
  <2>1. Buf /\ Hist
    BY <1>16 DEF ReadSetsNotReady, TypeOK
  <2>2. Pc /\ Asked
    BY <1>3, <1>4, <1>7, <1>16 DEF ReadSetsNotReady
  <2> QED BY <1>6, <2>1, <2>2
<1>17. CASE ReadCopiesPart(r)
  <2>4. Recall(FALSE, Rest(asked[r]))
    BY <1>17, Zenon DEF ReadCopiesPart
  <2>5. asked[r] \in Int
    BY <1>2
  <2>1. unread' \in Seq(Strokes) /\ disturbed' \in BOOLEAN
    BY <1>8, <2>4, <2>5
  <2>2. ahead' \in BOOLEAN
    BY <1>17 DEF ReadCopiesPart, TypeOK
  <2>3. Pc
    BY <1>4, <1>7, <1>17 DEF ReadCopiesPart
  <2> QED BY <1>5, <1>6, <1>17, <2>1, <2>2, <2>3 DEF ReadCopiesPart
<1>18. CASE ReadShifts(r)
  <2>1. stdin_buf' \in [Slots -> Strokes]
    BY <1>2, <1>18, ShiftedType DEF ReadShifts
  <2>2. Buf
    BY <1>18, <2>1 DEF ReadShifts, TypeOK
  <2>3. Pc
    BY <1>4, <1>7, <1>18 DEF ReadShifts
  <2> QED BY <1>5, <1>6, <1>18, <2>2, <2>3 DEF ReadShifts
<1>19. CASE ReadCuts(r)
  <2>1. stdin_buf_size' \in (-MaxUnder)..MaxBuf
    BY <1>2, <1>19, BoundsAssumption DEF ReadCuts, TypeOK
  <2>2. Buf
    BY <1>19, <2>1 DEF ReadCuts, TypeOK
  <2>3. Pc /\ Asked
    BY <1>3, <1>4, <1>7, <1>19 DEF ReadCuts
  <2> QED BY <1>5, <1>6, <1>19, <2>2, <2>3 DEF ReadCuts
<1>20. CASE ReadFails(r)
  <2>1. Pc /\ Asked
    BY <1>3, <1>4, <1>7, <1>20 DEF ReadFails
  <2> QED BY <1>5, <1>6, <1>20, <2>1 DEF ReadFails
<1> QED
  BY <1>9, <1>10, <1>11, <1>12, <1>13, <1>14, <1>15, <1>16, <1>17, <1>18, <1>19, <1>20
  DEF ReadStep, Resumed

\* The keys that are remembered are down.
LEMMA GhostStep ==
    ASSUME NoGhostKeys, KeyStep \/ UNCHANGED keys PROVE NoGhostKeys'
BY DEF NoGhostKeys, KeyStep, keys, Down

(***************************************************************************)
(* What the buffer holds: one statement of kbdintr or read_stdin           *)
(***************************************************************************)
\* kbd.c:59: a character is put behind the last one.
LEMMA PutHolds ==
    ASSUME NEW b \in [Slots -> Strokes], NEW z \in Slots, NEW u \in Seq(Strokes), NEW s \in Strokes,
           NEW o \in Nat, Holds(b, z, u, o, o)
    PROVE  Holds([b EXCEPT ![z] = Char(s)], z + 1, Append(u, s), o, o)
<1>1. PICK l \in Nat : l = Len(u)
  OBVIOUS
<1>2. z = o + l /\ z \in Int
  BY <1>1, BoundsAssumption DEF Holds, Slots
<1>3. PICK c \in Strokes : c = Char(s)
  BY CharType
<1>4. PICK v \in Seq(Strokes) : v = Append(u, s)
  BY AppendLemma
<1>5. Len(v) = l + 1 /\ v[l + 1] = s /\ \A i \in 1..l : v[i] = u[i]
  BY <1>1, <1>4, AppendLemma
<1>6. PICK b1 \in [Slots -> Strokes] : b1 = [b EXCEPT ![z] = c]
  BY <1>3
<1>7. ASSUME NEW i \in 1..(l + 1) PROVE Char(v[i]) = b1[o + i - 1]
  <2>1. CASE i = l + 1
    <3>1. o + i - 1 = z
      BY <1>2, <2>1
    <3>2. b1[z] = c
      BY <1>6
    <3> QED BY <1>3, <1>5, <2>1, <3>1, <3>2
  <2>2. CASE i # l + 1
    <3>1. i \in 1..l /\ o + i - 1 \in Slots /\ o + i - 1 # z
      BY <1>2, <2>2, BoundsAssumption DEF Slots
    <3>2. b1[o + i - 1] = b[o + i - 1]
      BY <1>6, <3>1
    <3>3. Char(u[i]) = b[o + i - 1]
      BY <1>1, <3>1 DEF Holds
    <3> QED BY <1>5, <3>1, <3>2, <3>3
  <2> QED BY <2>1, <2>2
<1>8. Len(v) = (z + 1) - o
  BY <1>2, <1>5
<1>9. Holds(b1, z + 1, v, o, o)
  BY <1>5, <1>7, <1>8 DEF Holds
<1> QED BY <1>3, <1>4, <1>6, <1>9

\* kbd.c:68: the last character is taken back.
LEMMA EraseHolds ==
    ASSUME NEW b, NEW z \in Int, NEW u \in Seq(Strokes), NEW o \in Nat, NEW d \in Int,
           Holds(b, z, u, o, d), u # << >>
    PROVE  Holds(b, z - 1, SubSeq(u, 1, Len(u) - 1), o, d)
<1>1. PICK l \in Nat : l = Len(u) /\ l > 0
  OBVIOUS
<1>0. 1 \in Nat \ {0} /\ l - 1 \in Int /\ l - 1 <= Len(u)
  BY <1>1
<1>2. PICK v \in Seq(Strokes) : v = SubSeq(u, 1, l - 1)
  BY <1>0, PartLemma
<1>5. /\ Len(v) = IF 1 <= l - 1 THEN l - 1 - 1 + 1 ELSE 0
      /\ \A i \in 1..(l - 1 - 1 + 1) : v[i] = u[1 + i - 1]
  BY <1>0, <1>2, PartLemma
<1>6. Len(v) = l - 1 /\ \A i \in 1..(l - 1) : v[i] = u[i]
  BY <1>1, <1>5
<1>3. Len(v) = (z - 1) - d
  BY <1>1, <1>6 DEF Holds
<1>4. \A i \in 1..Len(v) : Char(v[i]) = b[o + i - 1]
  BY <1>1, <1>6 DEF Holds
<1> QED BY <1>1, <1>2, <1>3, <1>4 DEF Holds

\* syscall.c:285: n characters are copied to the program.
LEMMA CopyHolds ==
    ASSUME unread \in Seq(Strokes), NEW b, NEW z \in Int, NEW n \in 0..z,
           Holds(b, z, unread, 0, 0)
    PROVE  Holds(b, z, Rest(n), n, n)
<1>1. PICK l \in Nat : l = Len(unread) /\ l = z
  BY DEF Holds
<1>2. PICK v \in Seq(Strokes) : v = Rest(n)
  BY RestLemma
<1>6. n \in Int /\ n \in 0..Len(unread)
  BY <1>1
<1>3. Len(v) = l - n /\ \A i \in 1..(l - n) : v[i] = unread[i + n]
  BY <1>1, <1>2, <1>6, RestLemma
<1>4. ASSUME NEW i \in 1..Len(v) PROVE Char(v[i]) = b[n + i - 1]
  <2>1. i + n \in 1..l /\ v[i] = unread[i + n] /\ 0 + (i + n) - 1 = n + i - 1
    BY <1>1, <1>3
  <2>2. Char(unread[i + n]) = b[0 + (i + n) - 1]
    BY <1>1, <2>1 DEF Holds
  <2> QED BY <2>1, <2>2
<1>5. Len(v) = z - n
  BY <1>1, <1>3
<1> QED BY <1>2, <1>4, <1>5 DEF Holds

\* syscall.c:277: everything is copied.
LEMMA AllCopied ==
    ASSUME unread \in Seq(Strokes), NEW b, NEW z \in Int, Holds(b, z, unread, 0, 0)
    PROVE  Rest(z) = << >>
<1>1. Len(unread) \in Nat /\ z = Len(unread)
  BY DEF Holds
<1>2. z \in 0..Len(unread)
  BY <1>1
<1>3. PICK v \in Seq(Strokes) : v = Rest(z)
  BY RestLemma
<1>4. Len(v) = Len(unread) - z
  BY <1>2, <1>3, RestLemma
<1>5. Len(v) = 0
  BY <1>1, <1>4
<1> QED BY <1>3, <1>5

\* syscall.c:287: the rest moves down.
LEMMA ShiftHolds ==
    ASSUME TypeOK, NEW u \in Seq(Strokes), NEW n \in Nat, Holds(stdin_buf, stdin_buf_size, u, n, n)
    PROVE  Holds(Shifted(n), stdin_buf_size, u, 0, n)
<1>1. PICK z \in Int : z = stdin_buf_size /\ z <= MaxBuf
  BY BoundsAssumption DEF TypeOK
<1>2. PICK l \in Nat : l = Len(u) /\ l = z - n
  BY <1>1 DEF Holds
<1>3. ASSUME NEW i \in 1..l PROVE Char(u[i]) = Shifted(n)[0 + i - 1]
  <2>1. i - 1 \in Slots /\ i - 1 >= 0 /\ (i - 1) + n < z /\ (i - 1) + n = n + i - 1 /\ 0 + i - 1 = i - 1
    BY <1>1, <1>2, BoundsAssumption DEF Slots
  <2>2. Shifted(n)[i - 1] = stdin_buf[(i - 1) + n]
    BY <1>1, <2>1 DEF Shifted
  <2>3. Char(u[i]) = stdin_buf[n + i - 1]
    BY <1>2 DEF Holds
  <2> QED BY <2>1, <2>2, <2>3
<1> QED BY <1>1, <1>2, <1>3 DEF Holds

\* syscall.c:290: the size is put right.
LEMMA CutHolds ==
    ASSUME NEW b, NEW z \in Int, NEW u \in Seq(Strokes), NEW n \in Nat, Holds(b, z, u, 0, n)
    PROVE  Holds(b, z - n, u, 0, 0)
<1>1. Len(u) \in Nat /\ Len(u) = z - n
  BY DEF Holds
<1>2. Len(u) = (z - n) - 0
  BY <1>1
<1> QED BY <1>2 DEF Holds

\* An empty buffer holds nothing.
LEMMA NothingHeld == ASSUME NEW b PROVE Holds(b, 0, << >>, 0, 0)
BY DEF Holds

(***************************************************************************)
(* Where the readers are                                                   *)
(***************************************************************************)
\* A scan code wakes readers and moves nobody else.
LEMMA KeyPlaces ==
    ASSUME TypeOK, Typed, NEW r \in Readers
    PROVE  pc'[r] = pc[r] \/ (pc[r] = "asleep" /\ pc'[r] = "woken")
BY DEF TypeOK, Typed, Puts, Woken, Erase, Silent

\* One reader moves at a time.
LEMMA OthersStay ==
    ASSUME TypeOK, NEW r \in Readers, ReadStep(r), NEW q \in Readers \ {r}
    PROVE  pc'[q] = pc[q] /\ asked'[q] = asked[q]
<1> USE DEF TypeOK, Goto, Returns
<1>1. ASSUME NEW n \in ReadSizes, Read(r, n) \/ ReadSleeps(r, n)
      PROVE  pc'[q] = pc[q] /\ asked'[q] = asked[q]
  BY <1>1 DEF Read, ReadSleeps
<1>2. CASE ReadTests(r) \/ ReadSleepsAgain(r) \/ ReadCompares(r) \/ ReadCopies(r)
  BY <1>2 DEF ReadTests, ReadSleepsAgain, ReadCompares, ReadCopies
<1>3. CASE ReadEmpties(r) \/ ReadSetsNotReady(r) \/ ReadCopiesPart(r)
  BY <1>3 DEF ReadEmpties, ReadSetsNotReady, ReadCopiesPart
<1>4. CASE ReadShifts(r) \/ ReadCuts(r) \/ ReadFails(r)
  BY <1>4 DEF ReadShifts, ReadCuts, ReadFails
<1> QED BY <1>1, <1>2, <1>3, <1>4 DEF ReadStep, Resumed

\* A size that is asked for is not 0.
LEMMA AskedStep ==
    ASSUME TypeOK, AskedInv, KeyStep \/ \E r \in Readers : ReadStep(r) PROVE AskedInv'
<1>1. CASE KeyStep
  <2>1. asked' = asked /\ Typed
    BY <1>1 DEF KeyStep
  <2> QED BY <2>1, KeyPlaces DEF AskedInv
<1>2. ASSUME NEW r \in Readers, ReadStep(r) PROVE AskedInv'
  <2>1. \A q \in Readers \ {r} : pc'[q] = pc[q] /\ asked'[q] = asked[q]
    BY <1>2, OthersStay
  <2>2. pc'[r] # "user" => asked'[r] # 0
    <3> USE DEF TypeOK, AskedInv, Goto, Returns
    <3>1. ASSUME NEW n \in ReadSizes, Read(r, n) \/ ReadSleeps(r, n) PROVE <2>2
      <4>1. n # 0
        BY ReadSizesAssumption
      <4> QED BY <3>1, <4>1 DEF Read, ReadSleeps
    <3>2. CASE ReadTests(r) \/ ReadSleepsAgain(r) \/ ReadCompares(r) \/ ReadCopies(r)
      BY <3>2 DEF ReadTests, ReadSleepsAgain, ReadCompares, ReadCopies
    <3>3. CASE ReadEmpties(r) \/ ReadSetsNotReady(r) \/ ReadCopiesPart(r)
      BY <3>3 DEF ReadEmpties, ReadSetsNotReady, ReadCopiesPart
    <3>4. CASE ReadShifts(r) \/ ReadCuts(r) \/ ReadFails(r)
      BY <3>4 DEF ReadShifts, ReadCuts, ReadFails
    <3> QED BY <1>2, <3>1, <3>2, <3>3, <3>4 DEF ReadStep, Resumed
  <2> QED BY <2>1, <2>2 DEF AskedInv
<1> QED BY <1>1, <1>2

\* What is not disturbed after a reader's step was not disturbed before.  If
\* another reader is between the statements of read_stdin, the step does not
\* touch what that reader depends on; and nobody joins it there.
LEMMA ReadCalm ==
    ASSUME TypeOK, AloneInv, NEW r \in Readers, ReadStep(r), ~disturbed'
    PROVE  /\ ~disturbed
           /\ \/ \A q \in Readers \ {r} : ~Inside(q)
              \/ UNCHANGED <<buffer, unread, ahead>> /\ ~Inside(r)'
<1>0. stdin_buf_state \in BOOLEAN /\ Overlaps(r) \in BOOLEAN
  BY BadType DEF TypeOK
<1>1. ~disturbed /\ Inside(r) => \A q \in Readers \ {r} : ~Inside(q)
  BY DEF AloneInv
<1>2. ~Overlaps(r) => \A q \in Readers \ {r} : ~Inside(q)
  BY DEF Overlaps
<1>3. ASSUME ~disturbed, Inside(r) PROVE ~disturbed /\ \A q \in Readers \ {r} : ~Inside(q)
  BY <1>1, <1>3
<1>4. ASSUME NEW u, Recall(FALSE, u) PROVE ~disturbed
  BY <1>4, RecallLemma
<1>5. ASSUME NEW n \in ReadSizes, Read(r, n)
      PROVE  ~disturbed /\ \A q \in Readers \ {r} : ~Inside(q)
  <2>1. PICK u : Recall(Overlaps(r), u)
    BY <1>5 DEF Read
  <2>2. ~disturbed /\ ~Overlaps(r)
    BY <1>0, <2>1, RecallLemma
  <2> QED BY <1>2, <2>2
<1>6. ASSUME NEW n \in ReadSizes, ReadSleeps(r, n)
      PROVE  ~disturbed /\ UNCHANGED <<buffer, unread, ahead>> /\ ~Inside(r)'
  <2>1. pc'[r] = "asleep"
    BY <1>6 DEF ReadSleeps, TypeOK
  <2> QED BY <1>6, <2>1 DEF ReadSleeps, history, Inside
<1>7. ASSUME ReadTests(r)
      PROVE  /\ ~disturbed
             /\ \/ \A q \in Readers \ {r} : ~Inside(q)
                \/ UNCHANGED <<buffer, unread, ahead>> /\ ~Inside(r)'
  <2>1. PICK bad \in BOOLEAN : bad = (stdin_buf_state /\ Overlaps(r))
    BY <1>0
  <2>2. Recall(bad, unread)
    BY <1>7, <2>1 DEF ReadTests
  <2>3. ~disturbed /\ ~bad /\ unread' = unread
    BY <2>2, RecallLemma
  <2>4. pc'[r] = IF stdin_buf_state THEN "enter" ELSE "sleep"
    BY <1>7 DEF ReadTests, Goto, TypeOK
  <2>5. CASE stdin_buf_state
    BY <1>2, <2>1, <2>3, <2>5
  <2>6. CASE ~stdin_buf_state
    <3>1. ~Inside(r)'
      BY <2>4, <2>6 DEF Inside
    <3> QED BY <1>7, <2>3, <3>1 DEF ReadTests
  <2> QED BY <2>5, <2>6
<1>8. ASSUME ReadSleepsAgain(r)
      PROVE  ~disturbed /\ UNCHANGED <<buffer, unread, ahead>> /\ ~Inside(r)'
  <2>1. pc'[r] = "asleep"
    BY <1>8 DEF ReadSleepsAgain, Goto, TypeOK
  <2> QED BY <1>8, <2>1 DEF ReadSleepsAgain, history, Inside
<1>9. CASE ReadCompares(r) \/ ReadEmpties(r) \/ ReadShifts(r)
  <2>1. Inside(r) /\ ~disturbed
    BY <1>9 DEF ReadCompares, ReadEmpties, ReadShifts, Goto, Inside, history
  <2> QED BY <1>3, <2>1
<1>10. CASE ReadCopies(r) \/ ReadCopiesPart(r)
  <2>1. Inside(r)
    BY <1>10 DEF ReadCopies, ReadCopiesPart, Goto, Inside
  <2>2. \E u : Recall(FALSE, u)
    BY <1>10 DEF ReadCopies, ReadCopiesPart
  <2>3. ~disturbed
    BY <1>4, <2>2
  <2> QED BY <1>3, <2>1, <2>3
<1>11. CASE ReadSetsNotReady(r) \/ ReadCuts(r) \/ ReadFails(r)
  <2>1. Inside(r) /\ ~disturbed
    BY <1>11 DEF ReadSetsNotReady, ReadCuts, ReadFails, Goto, Returns, Inside, history
  <2> QED BY <1>3, <2>1
<1> QED BY <1>5, <1>6, <1>7, <1>8, <1>9, <1>10, <1>11 DEF ReadStep, Resumed

\* What is not disturbed after a scan code was not disturbed before.
LEMMA KeyCalm == ASSUME TypeOK, Typed, ~disturbed' PROVE ~disturbed
<1>1. ASSUME NEW s \in Strokes, Puts(s) PROVE ~disturbed
  <2>1. PICK u : Recall(TooLate, u)
    BY <1>1 DEF Puts, Put
  <2> QED BY <2>1, BadType, RecallLemma
<1>2. CASE Erase
  <2>1. PICK u : Recall(TakesTooMuch, u)
    BY <1>2 DEF Erase
  <2> QED BY <2>1, BadType, RecallLemma
<1>3. CASE Silent
  BY <1>3 DEF Silent
<1> QED BY <1>1, <1>2, <1>3 DEF Typed

\* No second reader gets in.
LEMMA AloneStep ==
    ASSUME TypeOK, AloneInv, KeyStep \/ \E r \in Readers : ReadStep(r) PROVE AloneInv'
<1> SUFFICES ASSUME ~disturbed', NEW p \in Readers, NEW q \in Readers, Inside(p)', Inside(q)'
             PROVE  p = q
  BY DEF AloneInv
<1>1. CASE KeyStep
  <2>1. Typed
    BY <1>1 DEF KeyStep
  <2>2. ~disturbed
    BY <2>1, KeyCalm
  <2>3. Inside(p) /\ Inside(q)
    BY <2>1, KeyPlaces DEF Inside
  <2> QED BY <2>2, <2>3 DEF AloneInv
<1>2. ASSUME NEW r \in Readers, ReadStep(r) PROVE p = q
  <2>1. \A x \in Readers \ {r} : Inside(x)' => Inside(x)
    BY <1>2, OthersStay DEF Inside
  <2>2. ~disturbed /\ (Inside(r)' => \A x \in Readers \ {r} : ~Inside(x))
    BY <1>2, ReadCalm DEF Inside
  <2> QED BY <2>1, <2>2 DEF AloneInv
<1> QED BY <1>1, <1>2

(***************************************************************************)
(* What the buffer holds: the steps                                        *)
(***************************************************************************)
\* A character that does not come too late is kept.
LEMMA PutsKept ==
    ASSUME TypeOK, KeptInv, UNCHANGED asked, NEW s \in Strokes, Puts(s), ~disturbed'
    PROVE  KeptInv'
<1>1. PICK u \in Seq(Strokes) : u = Append(unread, s)
  BY AppendLemma DEF TypeOK
<1>2. Recall(TooLate, u)
  BY <1>1 DEF Puts, Put
<1>3. ~disturbed /\ ~TooLate /\ unread' = Append(unread, s)
  BY <1>1, <1>2, BadType, RecallLemma
<1>4. PICK z \in Slots : z = stdin_buf_size
  BY DEF Puts, Put
<1>5. stdin_buf' = [stdin_buf EXCEPT ![z] = Char(s)] /\ stdin_buf_size' = z + 1 /\ z \in Int
  BY <1>4, BoundsAssumption DEF Puts, Put, Slots
<1>6. stdin_buf \in [Slots -> Strokes] /\ unread \in Seq(Strokes)
  BY DEF TypeOK
<1>7. ASSUME NEW o \in Nat, Holds(stdin_buf, stdin_buf_size, unread, o, o)
      PROVE  Holds(stdin_buf', stdin_buf_size', unread', o, o)
  BY <1>3, <1>4, <1>5, <1>6, <1>7, PutHolds
<1>8. Typed
  BY DEF Typed
<1>9. \A r \in Readers : pc'[r] = pc[r] \/ (pc[r] = "asleep" /\ pc'[r] = "woken")
  BY <1>8, KeyPlaces
<1>10. (\A r \in Readers : ~Copying(r)') => Holds(stdin_buf', stdin_buf_size', unread', 0, 0)
  <2> SUFFICES ASSUME \A r \in Readers : ~Copying(r)'
               PROVE  Holds(stdin_buf', stdin_buf_size', unread', 0, 0)
    OBVIOUS
  <2>1. \A r \in Readers : ~Copying(r)
    BY <1>9 DEF Copying
  <2> QED BY <1>3, <1>7, <2>1 DEF KeptInv
<1>11. ASSUME NEW r \in Readers PROVE KeptAt(r)'
  <2>1. KeptAt(r) /\ asked[r] \in Nat /\ asked' = asked
    BY <1>3, AskedType DEF KeptInv
  <2>2. pc'[r] \notin {"empty", "notready", "cut"}
    BY <1>3, <1>9 DEF TooLate
  <2>3. pc'[r] = "part" => pc[r] = "part"
    BY <1>9
  <2>4. pc'[r] = "part" => asked'[r] <= stdin_buf_size'
    BY <1>4, <1>5, <2>1, <2>3 DEF KeptAt
  <2>5. pc'[r] = "shift" => pc[r] = "shift"
    BY <1>9
  <2>6. pc'[r] = "shift" => Holds(stdin_buf', stdin_buf_size', unread', asked'[r], asked'[r])
    BY <1>7, <2>1, <2>5 DEF KeptAt
  <2> QED BY <2>2, <2>4, <2>6 DEF KeptAt
<1> QED BY <1>10, <1>11 DEF KeptInv

\* A Backspace that does not take too much takes the last character.
LEMMA EraseKept ==
    ASSUME TypeOK, KeptInv, UNCHANGED asked, Erase, ~disturbed'
    PROVE  KeptInv'
<1>1. PICK u : u = SubSeq(unread, 1, Len(unread) - 1)
  OBVIOUS
<1>2. Recall(TakesTooMuch, u)
  BY <1>1 DEF Erase
<1>3. ~disturbed /\ ~TakesTooMuch /\ unread' = SubSeq(unread, 1, Len(unread) - 1)
  BY <1>1, <1>2, BadType, RecallLemma
<1>4. PICK z \in Int : z = stdin_buf_size
  BY BoundsAssumption DEF TypeOK
<1>5. stdin_buf' = stdin_buf /\ stdin_buf_size' = z - 1 /\ pc' = pc
  BY <1>4 DEF Erase
<1>6. unread \in Seq(Strokes) /\ unread # << >>
  BY <1>3 DEF TypeOK, TakesTooMuch
<1>7. ASSUME NEW o \in Nat, NEW d \in Int, Holds(stdin_buf, stdin_buf_size, unread, o, d)
      PROVE  Holds(stdin_buf', stdin_buf_size', unread', o, d)
  BY <1>3, <1>4, <1>5, <1>6, <1>7, EraseHolds
<1>10. (\A r \in Readers : ~Copying(r)') => Holds(stdin_buf', stdin_buf_size', unread', 0, 0)
  BY <1>3, <1>5, <1>7 DEF KeptInv, Copying
<1>11. ASSUME NEW r \in Readers PROVE KeptAt(r)'
  <2>1. KeptAt(r) /\ asked[r] \in Nat /\ asked[r] \in Int /\ asked' = asked
    BY <1>3, AskedType DEF KeptInv
  <2>2. pc[r] \notin {"empty", "notready"}
    BY <1>6, <2>1 DEF KeptAt
  <2>3. pc[r] = "part" => asked[r] <= z - 1
    BY <1>3, <1>4, <2>1 DEF TakesTooMuch
  <2>4. pc[r] = "shift" => Holds(stdin_buf', stdin_buf_size', unread', asked[r], asked[r])
    BY <1>7, <2>1 DEF KeptAt
  <2>5. pc[r] = "cut" => Holds(stdin_buf', stdin_buf_size', unread', 0, asked[r])
    BY <1>7, <2>1 DEF KeptAt
  <2> QED BY <1>5, <2>1, <2>2, <2>3, <2>4, <2>5 DEF KeptAt
<1> QED BY <1>10, <1>11 DEF KeptInv

\* Every scan code.
LEMMA KeyStepKept == ASSUME TypeOK, KeptInv, KeyStep PROVE KeptInv'
<1>1. UNCHANGED asked /\ Typed
  BY DEF KeyStep
<1>2. ASSUME disturbed' PROVE KeptInv'
  BY <1>2 DEF KeptInv
<1>3. ASSUME Silent PROVE KeptInv'
  BY <1>1, <1>3 DEF Silent, buffer, KeptInv, KeptAt, Copying, Holds
<1> QED BY <1>1, <1>2, <1>3, PutsKept, EraseKept DEF Typed

\* What a reader's step leaves alone, another reader can go on counting on.
LEMMA OthersKept ==
    ASSUME TypeOK, AloneInv, KeptInv, NEW r \in Readers, ReadStep(r), ~disturbed',
           NEW q \in Readers \ {r}
    PROVE  KeptAt(q)'
<1>1. ~disturbed /\ KeptAt(q)
  BY ReadCalm DEF KeptInv
<1>2. pc'[q] = pc[q] /\ asked'[q] = asked[q]
  BY OthersStay
<1>3. CASE ~Inside(q)
  BY <1>2, <1>3 DEF KeptAt, Inside
<1>4. CASE UNCHANGED <<buffer, unread, ahead>>
  BY <1>1, <1>2, <1>4 DEF KeptAt, Holds, buffer
<1> QED BY <1>3, <1>4, ReadCalm

\* With no other reader inside, the buffer is what is unread unless r is copying.
LEMMA HoldsAt ==
    ASSUME KeptInv, ~disturbed, NEW r \in Readers, \A q \in Readers \ {r} : ~Inside(q), ~Copying(r)
    PROVE  Holds(stdin_buf, stdin_buf_size, unread, 0, 0)
BY DEF KeptInv, Copying, Inside

(***************************************************************************)
(* The readers' steps                                                      *)
(***************************************************************************)
\* What is left of a line ends where the line ends.
LEMMA RestEnds ==
    ASSUME unread \in Seq(Strokes), EndsLine(unread), NEW n \in Nat, n < Len(unread)
    PROVE  EndsLine(Rest(n))
<1>1. PICK l \in Nat : l = Len(unread) /\ n < l /\ n \in 0..l /\ l - n \in 1..(l - n)
  OBVIOUS
<1>2. PICK v : v = Rest(n)
  OBVIOUS
<1>3. n \in Int /\ n \in 0..Len(unread)
  BY <1>1
<1>4. Len(v) = l - n /\ v[l - n] = unread[(l - n) + n]
  BY <1>1, <1>2, <1>3, RestLemma
<1>5. (l - n) + n = l /\ l - n > 0
  BY <1>1
<1> QED BY <1>1, <1>2, <1>4, <1>5 DEF EndsLine

\* The lines of what is left are lines of what was there.
LEMMA RestLines ==
    ASSUME unread \in Seq(Strokes), NEW n \in 0..Len(unread), NEW b,
           \A i \in DOMAIN unread : unread[i] = Enter => b
    PROVE  \A i \in DOMAIN Rest(n) : Rest(n)[i] = Enter => b
<1>1. PICK l \in Nat : l = Len(unread)
  OBVIOUS
<1>2. PICK v \in Seq(Strokes) : v = Rest(n)
  BY RestLemma
<1>3. n \in Int /\ n \in 0..Len(unread)
  OBVIOUS
<1>6. Len(v) = l - n /\ \A i \in 1..(l - n) : v[i] = unread[i + n]
  BY <1>1, <1>2, <1>3, RestLemma
<1>4. \A i \in 1..(l - n) : i + n \in 1..l
  BY <1>1
<1>5. DOMAIN v = 1..(l - n) /\ DOMAIN unread = 1..l
  BY <1>1, <1>2, <1>6
<1> QED BY <1>2, <1>4, <1>5, <1>6

\* A one-character read that takes all of a line takes its end.
LEMMA TakesTheEnd ==
    ASSUME TypeOK, Holds(stdin_buf, stdin_buf_size, unread, 0, 0), EndsLine(unread),
           stdin_buf_size <= 1
    PROVE  {stdin_buf[i - 1] : i \in 1..stdin_buf_size} \subseteq {Newline}
<1>1. Len(unread) \in Nat /\ Len(unread) = stdin_buf_size /\ Len(unread) > 0
  BY DEF TypeOK, Holds, EndsLine
<1>2. Len(unread) = 1 /\ stdin_buf_size = 1
  BY <1>1
<1>3. Char(unread[1]) = Newline
  BY <1>2 DEF EndsLine
<1>4. Char(unread[1]) = stdin_buf[0 + 1 - 1]
  BY <1>2 DEF Holds
<1>5. stdin_buf[0 + 1 - 1] = Newline /\ 0 + 1 - 1 = 0 /\ 1 - 1 = 0
  BY <1>3, <1>4
<1>6. \A i \in 1..stdin_buf_size : i = 1
  BY <1>2
<1> QED BY <1>5, <1>6

\* What a step of reader r must bring about.
HeldAfter == (\A q \in Readers : ~Copying(q)) => Holds(stdin_buf, stdin_buf_size, unread, 0, 0)
EndedAfter ==
    (stdin_buf_state /\ ~ahead /\ \A q \in Readers : pc[q] \notin {"empty", "notready"})
       => EndsLine(unread)
LinesAfter == \A i \in DOMAIN unread : unread[i] = Enter => stdin_buf_state
After(r) == /\ HeldAfter /\ KeptAt(r) /\ ReadyAt(r) /\ EndedAfter
            /\ LinesAfter /\ vanished \subseteq {Newline}

\* A read that found a line ready.
LEMMA ReadAfter ==
    ASSUME Inv, NEW r \in Readers, ~disturbed, NEW n \in ReadSizes, Read(r, n), ~disturbed',
           \A q \in Readers \ {r} : ~Inside(q)
    PROVE  After(r)'
<1>1. n \in Nat /\ n \in Int /\ unread \in Seq(Strokes) /\ stdin_buf_size \in Int /\ TypeOK
  BY ReadSizesAssumption, BoundsAssumption DEF Inv, TypeOK
<1>2. pc' = pc /\ pc[r] = "user" /\ stdin_buf_state
  BY DEF Read
<1>3. Holds(stdin_buf, stdin_buf_size, unread, 0, 0)
  BY <1>2, HoldsAt DEF Inv, Copying
<1>4. unread' = Rest(Copied(n))
  <2>1. PICK u : u = Rest(Copied(n))
    OBVIOUS
  <2>2. Recall(Overlaps(r), u)
    BY <2>1 DEF Read
  <2> QED BY <1>1, <2>1, <2>2, BadType, RecallLemma
<1>5. ~ahead => EndsLine(unread)
  BY <1>2 DEF Inv, ReadyInv, Inside
<1>6. vanished \subseteq {Newline} /\ LinesAfter
  BY DEF Inv, ReadyInv, LineIsReady, LinesAfter
<1>7. KeptAt(r)' /\ ReadyAt(r)'
  BY <1>2 DEF KeptAt, ReadyAt, Inside
<1>8. PICK l \in Nat : l = Len(unread) /\ l = stdin_buf_size
  BY <1>1, <1>3 DEF Holds
<1>9. CASE TakesAll(n)
  <2>1. stdin_buf_size' = 0 /\ stdin_buf_state' = FALSE /\ Copied(n) = stdin_buf_size /\ Result(n) = 0
    BY <1>9 DEF Read, StateAfter, Copied, Result
  <2>2. unread' = << >>
    BY <1>1, <1>3, <1>4, <2>1, AllCopied
  <2>3. HeldAfter' /\ EndedAfter' /\ LinesAfter'
    BY <2>1, <2>2, NothingHeld DEF HeldAfter, EndedAfter, LinesAfter
  <2>4. vanished' \subseteq {Newline}
    <3>1. CASE ~(n = 1 /\ ~ahead)
      BY <1>6, <3>1 DEF Read, Note
    <3>2. CASE n = 1 /\ ~ahead
      <4>1. stdin_buf_size <= 1
        BY <1>1, <1>9, <3>2 DEF TakesAll
      <4>2. vanished' = vanished \cup {stdin_buf[i - 1] : i \in 1..stdin_buf_size}
        BY <2>1, <3>2 DEF Read, Note
      <4> QED BY <1>1, <1>3, <1>5, <1>6, <3>2, <4>1, <4>2, TakesTheEnd
    <3> QED BY <3>1, <3>2
  <2> QED BY <1>7, <2>3, <2>4 DEF After
<1>10. CASE ~TakesAll(n)
  <2>1. /\ stdin_buf_size' = stdin_buf_size - n /\ stdin_buf' = Shifted(n)
        /\ stdin_buf_state' = TRUE /\ Copied(n) = n /\ Result(n) = n /\ (ahead' => ahead) /\ (ahead => ahead')
    BY <1>2, <1>10 DEF Read, StateAfter, Copied, Result
  <2>2. n < l /\ n \in 0..l /\ n \in 0..stdin_buf_size
    BY <1>1, <1>8, <1>10 DEF TakesAll
  <2>3. PICK u \in Seq(Strokes) : u = Rest(n)
    BY <1>1, RestLemma
  <2>4. unread' = u
    BY <1>4, <2>1, <2>3
  <2>5. Holds(stdin_buf, stdin_buf_size, u, n, n)
    BY <1>1, <1>3, <2>2, <2>3, CopyHolds
  <2>6. Holds(Shifted(n), stdin_buf_size, u, 0, n)
    BY <1>1, <2>5, ShiftHolds
  <2>7. Holds(Shifted(n), stdin_buf_size - n, u, 0, 0)
    BY <1>1, <2>6, CutHolds
  <2>8. HeldAfter'
    BY <2>1, <2>4, <2>7 DEF HeldAfter
  <2>9. EndedAfter'
    BY <1>1, <1>5, <1>8, <2>1, <2>2, <2>3, <2>4, RestEnds DEF EndedAfter
  <2>10. LinesAfter'
    BY <2>1 DEF LinesAfter
  <2>11. {stdin_buf[i - 1] : i \in (n + 1)..n} = {}
    BY <1>1
  <2>12. vanished' \subseteq {Newline}
    BY <1>6, <2>1, <2>11 DEF Read, Note
  <2> QED BY <1>7, <2>8, <2>9, <2>10, <2>12 DEF After
<1> QED BY <1>9, <1>10

\* A step of a reader that is not copying and does not begin to.
LEMMA SameAfter ==
    ASSUME Inv, NEW r \in Readers, ~disturbed, UNCHANGED <<buffer, unread, ahead, vanished>>,
           \A q \in Readers \ {r} : pc'[q] = pc[q],
           ~Copying(r), ~Copying(r)', KeptAt(r)', ReadyAt(r)'
    PROVE  After(r)'
<1>1. KeptInv /\ ReadyInv /\ LineIsReady
  BY DEF Inv
<1>2. \A q \in Readers : Copying(q)' = Copying(q)
  BY DEF Copying
<1>3. \A q \in Readers : pc'[q] \notin {"empty", "notready"} => pc[q] \notin {"empty", "notready"}
  BY DEF Copying
<1>4. HeldAfter /\ EndedAfter /\ LinesAfter /\ vanished \subseteq {Newline}
  BY <1>1 DEF HeldAfter, EndedAfter, LinesAfter, KeptInv, ReadyInv, LineIsReady
<1>5. HeldAfter'
  BY <1>2, <1>4 DEF HeldAfter, Holds, buffer
<1>6. EndedAfter'
  BY <1>3, <1>4 DEF EndedAfter, EndsLine, buffer
<1>7. LinesAfter' /\ vanished' \subseteq {Newline}
  BY <1>4 DEF LinesAfter, buffer
<1> QED BY <1>5, <1>6, <1>7 DEF After

\* The statements that change neither the buffer nor what is unread.
LEMMA IdleAfter ==
    ASSUME Inv, NEW r \in Readers, ~disturbed, ~disturbed', ReadStep(r),
           \/ \E n \in ReadSizes : ReadSleeps(r, n)
           \/ ReadTests(r) \/ ReadSleepsAgain(r) \/ ReadCompares(r) \/ ReadFails(r)
    PROVE  After(r)'
<1>1. \A q \in Readers \ {r} : pc'[q] = pc[q]
  BY OthersStay DEF Inv
<1>2. TypeOK /\ asked[r] \in Nat /\ stdin_buf_size \in Int /\ ReadyAt(r) /\ stdin_buf_state \in BOOLEAN
  BY AskedType, BoundsAssumption DEF Inv, TypeOK, ReadyInv
<1>3. ASSUME NEW n \in ReadSizes, ReadSleeps(r, n) PROVE After(r)'
  <2>1. pc[r] = "user" /\ pc'[r] = "asleep" /\ UNCHANGED <<buffer, unread, ahead, vanished>>
    BY <1>2, <1>3 DEF ReadSleeps, history, TypeOK
  <2>2. ~Copying(r) /\ ~Copying(r)' /\ KeptAt(r)' /\ ReadyAt(r)'
    BY <2>1 DEF Copying, KeptAt, ReadyAt, Inside
  <2> QED BY <1>1, <2>1, <2>2, SameAfter
<1>4. CASE ReadTests(r)
  <2>1. pc[r] = "woken" /\ pc'[r] = IF stdin_buf_state THEN "enter" ELSE "sleep"
    BY <1>2, <1>4 DEF ReadTests, Goto, TypeOK
  <2>2. PICK bad \in BOOLEAN : Recall(bad, unread)
    BY <1>2, <1>4, BadType DEF ReadTests
  <2>3. unread' = unread
    BY <1>2, <2>2, RecallLemma
  <2>4. UNCHANGED <<buffer, unread, ahead, vanished>>
    BY <1>4, <2>3 DEF ReadTests
  <2>5. ~Copying(r) /\ ~Copying(r)' /\ KeptAt(r)'
    BY <2>1 DEF Copying, KeptAt
  <2>6. ReadyAt(r)'
    BY <2>1, <2>4 DEF ReadyAt, Inside, buffer
  <2> QED BY <1>1, <2>4, <2>5, <2>6, SameAfter
<1>5. CASE ReadSleepsAgain(r)
  <2>1. pc[r] = "sleep" /\ pc'[r] = "asleep" /\ UNCHANGED <<buffer, unread, ahead, vanished>>
    BY <1>2, <1>5 DEF ReadSleepsAgain, Goto, history, TypeOK
  <2>2. ~Copying(r) /\ ~Copying(r)' /\ KeptAt(r)' /\ ReadyAt(r)'
    BY <2>1 DEF Copying, KeptAt, ReadyAt, Inside
  <2> QED BY <1>1, <2>1, <2>2, SameAfter
<1>6. CASE ReadCompares(r)
  <2>1. /\ pc[r] = "enter" /\ pc'[r] = IF TakesAll(asked[r]) THEN "drain" ELSE "part"
        /\ UNCHANGED <<buffer, unread, ahead, vanished>> /\ asked' = asked
    BY <1>2, <1>6 DEF ReadCompares, Goto, history, TypeOK
  <2>2. stdin_buf_state' /\ stdin_buf_size' = stdin_buf_size
    BY <1>2, <2>1 DEF ReadyAt, Inside, buffer
  <2>3. ~Copying(r) /\ ~Copying(r)'
    BY <2>1 DEF Copying
  <2>4. CASE TakesAll(asked[r])
    <3>1. pc'[r] = "drain" /\ stdin_buf_size' <= asked'[r]
      BY <1>2, <2>1, <2>2, <2>4 DEF TakesAll
    <3>2. KeptAt(r)' /\ ReadyAt(r)'
      BY <2>2, <3>1 DEF KeptAt, ReadyAt
    <3> QED BY <1>1, <2>1, <2>3, <3>2, SameAfter
  <2>5. CASE ~TakesAll(asked[r])
    <3>1. pc'[r] = "part" /\ asked'[r] < stdin_buf_size' /\ asked'[r] <= stdin_buf_size'
      BY <1>2, <2>1, <2>2, <2>5 DEF TakesAll
    <3>2. KeptAt(r)' /\ ReadyAt(r)'
      BY <2>2, <3>1 DEF KeptAt, ReadyAt
    <3> QED BY <1>1, <2>1, <2>3, <3>2, SameAfter
  <2> QED BY <2>4, <2>5
<1>7. CASE ReadFails(r)
  <2>1. pc[r] \in {"drain", "part"} /\ pc'[r] = "user" /\ UNCHANGED <<buffer, unread, ahead, vanished>>
    BY <1>2, <1>7 DEF ReadFails, Returns, Goto, history, TypeOK
  <2>2. ~Copying(r) /\ ~Copying(r)' /\ KeptAt(r)' /\ ReadyAt(r)'
    BY <2>1 DEF Copying, KeptAt, ReadyAt, Inside
  <2> QED BY <1>1, <2>1, <2>2, SameAfter
<1> QED BY <1>3, <1>4, <1>5, <1>6, <1>7

\* The statements of a read that takes everything.
LEMMA DrainAfter ==
    ASSUME Inv, NEW r \in Readers, ~disturbed, ~disturbed',
           \A q \in Readers \ {r} : ~Inside(q) /\ pc'[q] = pc[q],
           ReadCopies(r) \/ ReadEmpties(r) \/ ReadSetsNotReady(r)
    PROVE  After(r)'
<1>1. TypeOK /\ KeptAt(r) /\ ReadyAt(r) /\ vanished \subseteq {Newline} /\ LinesAfter
  BY DEF Inv, KeptInv, ReadyInv, LineIsReady, LinesAfter
<1>2. asked[r] \in Nat /\ stdin_buf_size \in Int /\ unread \in Seq(Strokes)
  BY <1>1, AskedType, BoundsAssumption DEF TypeOK
<1>3. CASE ReadCopies(r)
  <2>1. /\ pc[r] = "drain" /\ pc'[r] = "empty" /\ UNCHANGED <<buffer, ahead>> /\ asked' = asked
        /\ Note(asked[r], stdin_buf_size, 0)
    BY <1>1, <1>3 DEF ReadCopies, Goto, TypeOK
  <2>2. Holds(stdin_buf, stdin_buf_size, unread, 0, 0)
    BY <2>1, HoldsAt DEF Inv, Copying
  <2>3. unread' = << >>
    <3>1. PICK u : u = Rest(stdin_buf_size)
      OBVIOUS
    <3>2. Recall(FALSE, u)
      BY <1>3, <3>1 DEF ReadCopies
    <3>3. unread' = u
      BY <1>1, <3>2, RecallLemma
    <3> QED BY <1>2, <2>2, <3>1, <3>3, AllCopied
  <2>4. HeldAfter' /\ EndedAfter' /\ LinesAfter'
    BY <2>1, <2>3 DEF HeldAfter, EndedAfter, LinesAfter, Copying
  <2>5. KeptAt(r)'
    BY <2>1, <2>3 DEF KeptAt
  <2>6. ReadyAt(r)'
    BY <1>1, <2>1 DEF ReadyAt, Inside, buffer
  <2>7. vanished' \subseteq {Newline}
    <3>1. CASE ~(asked[r] = 1 /\ ~ahead)
      BY <1>1, <2>1, <3>1 DEF Note
    <3>2. CASE asked[r] = 1 /\ ~ahead
      <4>1. stdin_buf_size <= 1 /\ stdin_buf_state
        BY <1>1, <2>1, <3>2 DEF ReadyAt, Inside
      <4>2. vanished' = vanished \cup {stdin_buf[i - 1] : i \in 1..stdin_buf_size}
        BY <2>1, <3>2 DEF Note
      <4>3. \A q \in Readers : pc[q] \notin {"empty", "notready"}
        BY <2>1 DEF Inside
      <4>4. EndsLine(unread)
        BY <3>2, <4>1, <4>3 DEF Inv, ReadyInv
      <4> QED BY <1>1, <2>2, <4>1, <4>2, <4>4, TakesTheEnd
    <3> QED BY <3>1, <3>2
  <2> QED BY <2>4, <2>5, <2>6, <2>7 DEF After
<1>4. CASE ReadEmpties(r)
  <2>1. /\ pc[r] = "empty" /\ pc'[r] = "notready" /\ stdin_buf_size' = 0
        /\ UNCHANGED <<stdin_buf_state, unread, ahead, vanished>>
    BY <1>1, <1>4 DEF ReadEmpties, Goto, TypeOK, history
  <2>2. unread' = << >>
    BY <1>1, <2>1 DEF KeptAt
  <2>3. HeldAfter' /\ EndedAfter' /\ LinesAfter'
    BY <2>1, <2>2 DEF HeldAfter, EndedAfter, LinesAfter, Copying
  <2>4. KeptAt(r)' /\ ReadyAt(r)'
    BY <2>1, <2>2 DEF KeptAt, ReadyAt
  <2> QED BY <1>1, <2>1, <2>3, <2>4 DEF After
<1>5. CASE ReadSetsNotReady(r)
  <2>1. /\ pc[r] = "notready" /\ pc'[r] = "user" /\ stdin_buf_state' = FALSE
        /\ UNCHANGED <<stdin_buf, stdin_buf_size, unread, vanished>>
    BY <1>1, <1>5 DEF ReadSetsNotReady, Returns, Goto, TypeOK
  <2>2. unread' = << >> /\ stdin_buf_size' = 0
    BY <1>1, <2>1 DEF KeptAt
  <2>3. HeldAfter' /\ EndedAfter' /\ LinesAfter'
    BY <2>1, <2>2, NothingHeld DEF HeldAfter, EndedAfter, LinesAfter
  <2>4. KeptAt(r)' /\ ReadyAt(r)'
    BY <2>1 DEF KeptAt, ReadyAt, Inside
  <2> QED BY <1>1, <2>1, <2>3, <2>4 DEF After
<1> QED BY <1>3, <1>4, <1>5

\* The statements of a read that takes a part.
LEMMA PartAfter ==
    ASSUME Inv, NEW r \in Readers, ~disturbed, ~disturbed',
           \A q \in Readers \ {r} : ~Inside(q) /\ pc'[q] = pc[q],
           ReadCopiesPart(r) \/ ReadShifts(r) \/ ReadCuts(r)
    PROVE  After(r)'
<1>1. TypeOK /\ KeptAt(r) /\ ReadyAt(r) /\ vanished \subseteq {Newline} /\ LinesAfter
  BY DEF Inv, KeptInv, ReadyInv, LineIsReady, LinesAfter
<1>2. asked[r] \in Nat /\ stdin_buf_size \in Int /\ unread \in Seq(Strokes)
  BY <1>1, AskedType, BoundsAssumption DEF TypeOK
<1>3. PICK n \in Nat : n = asked[r]
  BY <1>2
<1>4. ASSUME pc[r] \in {"part", "shift", "cut"} PROVE stdin_buf_state /\ (~ahead => EndsLine(unread))
  <2>1. \A q \in Readers : pc[q] \notin {"empty", "notready"}
    BY <1>4 DEF Inside
  <2>2. stdin_buf_state
    BY <1>1, <1>4 DEF ReadyAt, Inside
  <2> QED BY <2>1, <2>2 DEF Inv, ReadyInv
<1>5. CASE ReadCopiesPart(r)
  <2>1. /\ pc[r] = "part" /\ pc'[r] = "shift" /\ UNCHANGED <<buffer, ahead, vanished>> /\ asked' = asked
    BY <1>1, <1>5 DEF ReadCopiesPart, Goto, TypeOK
  <2>2. Holds(stdin_buf, stdin_buf_size, unread, 0, 0)
    BY <2>1, HoldsAt DEF Inv, Copying
  <2>3. PICK u : u = Rest(n)
    OBVIOUS
  <2>4. Recall(FALSE, u)
    BY <1>3, <1>5, <2>3 DEF ReadCopiesPart
  <2>5. unread' = u
    BY <1>1, <2>4, RecallLemma
  <2>6. n \in 0..stdin_buf_size
    BY <1>1, <1>2, <1>3, <2>1 DEF KeptAt
  <2>7. Holds(stdin_buf, stdin_buf_size, u, n, n)
    BY <1>2, <2>2, <2>3, <2>6, CopyHolds
  <2>8. stdin_buf' = stdin_buf /\ stdin_buf_size' = stdin_buf_size /\ stdin_buf_state' = stdin_buf_state
    BY <2>1 DEF buffer
  <2>9. KeptAt(r)'
    BY <1>3, <2>1, <2>5, <2>7, <2>8 DEF KeptAt
  <2>10. ReadyAt(r)'
    BY <1>4, <2>1, <2>8 DEF ReadyAt
  <2>11. HeldAfter'
    BY <2>1 DEF HeldAfter, Copying
  <2>12. Len(unread) = stdin_buf_size
    BY <1>2, <2>2 DEF Holds
  <2>13. EndedAfter'
    <3> SUFFICES ASSUME ~ahead PROVE EndsLine(unread')
      BY <2>1 DEF EndedAfter
    <3>1. n < Len(unread)
      BY <1>1, <1>3, <2>1, <2>12 DEF ReadyAt
    <3> QED BY <1>2, <1>4, <2>1, <2>3, <2>5, <3>1, RestEnds
  <2>14. LinesAfter'
    BY <1>4, <2>1, <2>8 DEF LinesAfter
  <2> QED BY <1>1, <2>1, <2>9, <2>10, <2>11, <2>13, <2>14 DEF After
<1>6. CASE ReadShifts(r)
  <2>1. /\ pc[r] = "shift" /\ pc'[r] = "cut" /\ stdin_buf' = Shifted(n) /\ asked' = asked
        /\ UNCHANGED <<stdin_buf_size, stdin_buf_state, unread, ahead, vanished>>
    BY <1>1, <1>3, <1>6 DEF ReadShifts, Goto, TypeOK, history
  <2>2. Holds(stdin_buf, stdin_buf_size, unread, n, n)
    BY <1>1, <1>3, <2>1 DEF KeptAt
  <2>3. Holds(Shifted(n), stdin_buf_size, unread, 0, n)
    BY <1>1, <1>2, <2>2, ShiftHolds
  <2>4. KeptAt(r)'
    BY <1>3, <2>1, <2>3 DEF KeptAt
  <2>5. ReadyAt(r)' /\ LinesAfter'
    BY <1>4, <2>1 DEF ReadyAt, LinesAfter
  <2>6. HeldAfter'
    BY <2>1 DEF HeldAfter, Copying
  <2>7. EndedAfter'
    BY <1>4, <2>1 DEF EndedAfter
  <2> QED BY <1>1, <2>1, <2>4, <2>5, <2>6, <2>7 DEF After
<1>7. CASE ReadCuts(r)
  <2>1. /\ pc[r] = "cut" /\ pc'[r] = "user" /\ stdin_buf_size' = stdin_buf_size - n
        /\ UNCHANGED <<stdin_buf, stdin_buf_state, unread, ahead, vanished>>
    BY <1>1, <1>3, <1>7 DEF ReadCuts, Returns, Goto, TypeOK, history
  <2>2. Holds(stdin_buf, stdin_buf_size, unread, 0, n)
    BY <1>1, <1>3, <2>1 DEF KeptAt
  <2>3. Holds(stdin_buf, stdin_buf_size - n, unread, 0, 0)
    BY <1>2, <2>2, CutHolds
  <2>4. HeldAfter'
    BY <2>1, <2>3 DEF HeldAfter
  <2>5. KeptAt(r)' /\ ReadyAt(r)'
    BY <2>1 DEF KeptAt, ReadyAt, Inside
  <2>6. EndedAfter' /\ LinesAfter'
    BY <1>4, <2>1 DEF EndedAfter, LinesAfter
  <2> QED BY <1>1, <2>1, <2>4, <2>5, <2>6 DEF After
<1> QED BY <1>5, <1>6, <1>7

\* Every step of a reader.
LEMMA ReadStepInv ==
    ASSUME Inv, NEW r \in Readers, ReadStep(r) PROVE KeptInv' /\ ReadyInv' /\ LineIsReady'
<1> SUFFICES ASSUME ~disturbed' PROVE KeptInv' /\ ReadyInv' /\ LineIsReady'
  BY DEF KeptInv, ReadyInv, LineIsReady
<1>1. TypeOK /\ AloneInv /\ KeptInv /\ ReadyInv
  BY DEF Inv
<1>2. /\ ~disturbed
      /\ \/ \A q \in Readers \ {r} : ~Inside(q)
         \/ UNCHANGED <<buffer, unread, ahead>> /\ ~Inside(r)'
  BY <1>1, ReadCalm
<1>3. \A q \in Readers \ {r} : pc'[q] = pc[q] /\ asked'[q] = asked[q]
  BY <1>1, OthersStay
<1>4. After(r)'
  <2>1. ASSUME NEW n \in ReadSizes, Read(r, n) PROVE After(r)'
    <3>1. \A q \in Readers \ {r} : ~Inside(q)
      <4>1. PICK u : Recall(Overlaps(r), u)
        BY <2>1 DEF Read
      <4>2. ~Overlaps(r)
        BY <1>1, <4>1, BadType, RecallLemma
      <4> QED BY <4>2 DEF Overlaps
    <3> QED BY <1>2, <2>1, <3>1, ReadAfter
  <2>2. ASSUME Inside(r) PROVE \A q \in Readers \ {r} : ~Inside(q) /\ pc'[q] = pc[q]
    BY <1>1, <1>2, <1>3, <2>2 DEF AloneInv
  <2>3. CASE ReadCopies(r) \/ ReadEmpties(r) \/ ReadSetsNotReady(r)
    <3>1. Inside(r)
      BY <2>3 DEF ReadCopies, ReadEmpties, ReadSetsNotReady, Returns, Goto, Inside
    <3> QED BY <1>2, <2>2, <2>3, <3>1, DrainAfter
  <2>4. CASE ReadCopiesPart(r) \/ ReadShifts(r) \/ ReadCuts(r)
    <3>1. Inside(r)
      BY <2>4 DEF ReadCopiesPart, ReadShifts, ReadCuts, Returns, Goto, Inside
    <3> QED BY <1>2, <2>2, <2>4, <3>1, PartAfter
  <2> QED BY <1>2, <2>1, <2>3, <2>4, IdleAfter DEF ReadStep, Resumed
<1>5. ASSUME NEW q \in Readers \ {r} PROVE KeptAt(q)' /\ ReadyAt(q)'
  <2>1. KeptAt(q)'
    BY <1>1, OthersKept
  <2>2. CASE ~Inside(q)
    BY <1>3, <2>1, <2>2 DEF ReadyAt, Inside
  <2>3. CASE UNCHANGED <<buffer, unread, ahead>>
    <3>1. ReadyAt(q)
      BY <1>1, <1>2 DEF ReadyInv
    <3> QED BY <1>3, <2>1, <2>3, <3>1 DEF ReadyAt, Inside, buffer
  <2> QED BY <1>2, <2>2, <2>3
<1>6. \A q \in Readers : KeptAt(q)' /\ ReadyAt(q)'
  BY <1>4, <1>5 DEF After
<1>7. KeptInv'
  BY <1>4, <1>6 DEF After, HeldAfter, KeptInv
<1>8. ReadyInv'
  BY <1>4, <1>6 DEF After, EndedAfter, ReadyInv
<1>9. LineIsReady'
  BY <1>4 DEF After, LinesAfter, LineIsReady
<1> QED BY <1>7, <1>8, <1>9

(***************************************************************************)
(* The keyboard and the lines                                              *)
(***************************************************************************)
\* A character, or the end of a line, in a buffer that is not disturbed.
LEMMA PutsReady ==
    ASSUME Inv, UNCHANGED <<asked, vanished>>, NEW s \in Strokes, Puts(s), ~disturbed'
    PROVE  ReadyInv' /\ LineIsReady'
<1>1. TypeOK /\ ReadyInv /\ LineIsReady /\ unread \in Seq(Strokes)
  BY DEF Inv, TypeOK
<1>2. PICK u \in Seq(Strokes) : u = Append(unread, s)
  BY <1>1, AppendLemma
<1>3. Recall(TooLate, u)
  BY <1>2 DEF Puts, Put
<1>4. ~disturbed /\ ~TooLate /\ unread' = u
  BY <1>1, <1>3, BadType, RecallLemma
<1>5. PICK l \in Nat : l = Len(unread)
  BY <1>1
<1>6. Len(u) = l + 1 /\ u[l + 1] = s /\ \A i \in 1..l : u[i] = unread[i]
  BY <1>1, <1>2, <1>5, AppendLemma
<1>7. DOMAIN unread = 1..l /\ DOMAIN u = 1..(l + 1)
  BY <1>1, <1>2, <1>5, <1>6
<1>8. Typed
  BY DEF Typed
<1>9. \A r \in Readers : pc'[r] = pc[r] \/ (pc[r] = "asleep" /\ pc'[r] = "woken")
  BY <1>1, <1>8, KeyPlaces
<1>10. (stdin_buf_state => stdin_buf_state') /\ (stdin_buf_state => ahead') /\ (ahead => ahead')
  <2>1. (stdin_buf_state => ahead') /\ (ahead => ahead')
    BY Zenon DEF Puts, Put
  <2>2. stdin_buf_state => stdin_buf_state'
    BY Zenon DEF Puts
  <2> QED BY <2>1, <2>2
<1>11. ~stdin_buf_state /\ stdin_buf_state' => s = Enter
  BY DEF Puts
<1>12. ASSUME NEW r \in Readers PROVE ReadyAt(r)'
  <2>1. ReadyAt(r)
    BY <1>1, <1>4 DEF ReadyInv
  <2>2. Inside(r)' => Inside(r) /\ pc'[r] = pc[r]
    BY <1>9 DEF Inside
  <2>3. ASSUME Inside(r)', pc'[r] # "notready" PROVE stdin_buf_state' /\ ahead'
    BY <1>10, <2>1, <2>2, <2>3 DEF ReadyAt
  <2> QED BY <2>3 DEF ReadyAt, Inside
<1>13. stdin_buf_state' /\ ~ahead' => EndsLine(unread')
  <2> SUFFICES ASSUME stdin_buf_state', ~ahead' PROVE EndsLine(u)
    BY <1>4
  <2>1. s = Enter
    BY <1>10, <1>11
  <2>2. Char(u[Len(u)]) = Newline
    BY <1>6, <2>1 DEF Newline
  <2>3. Len(u) > 0
    BY <1>6
  <2> QED BY <2>2, <2>3 DEF EndsLine
<1>14. vanished' \subseteq {Newline}
  BY <1>1, <1>4 DEF ReadyInv
<1>15. ReadyInv'
  BY <1>12, <1>13, <1>14 DEF ReadyInv
<1>16. ASSUME NEW i \in 1..(l + 1), u[i] = Enter PROVE stdin_buf_state'
  <2>1. CASE i = l + 1
    <3>1. s = Enter
      BY <1>6, <1>16, <2>1
    <3> QED BY <3>1 DEF Puts
  <2>2. CASE i \in 1..l
    <3>1. unread[i] = Enter
      BY <1>6, <1>16, <2>2
    <3>2. stdin_buf_state
      BY <1>1, <1>4, <1>7, <2>2, <3>1 DEF LineIsReady
    <3> QED BY <1>10, <3>2
  <2> QED BY <2>1, <2>2
<1>17. LineIsReady'
  BY <1>4, <1>7, <1>16 DEF LineIsReady
<1> QED BY <1>15, <1>17

\* A Backspace.
LEMMA EraseReady ==
    ASSUME Inv, UNCHANGED <<asked, vanished>>, Erase, ~disturbed'
    PROVE  ReadyInv' /\ LineIsReady'
<1>1. TypeOK /\ ReadyInv /\ LineIsReady /\ unread \in Seq(Strokes)
  BY DEF Inv, TypeOK
<1>2. PICK l \in Nat : l = Len(unread)
  BY <1>1
<1>3. PICK u : u = SubSeq(unread, 1, l - 1)
  OBVIOUS
<1>4. Recall(TakesTooMuch, u)
  BY <1>2, <1>3 DEF Erase
<1>5. ~disturbed /\ unread' = u
  BY <1>1, <1>4, BadType, RecallLemma
<1>6. pc' = pc /\ stdin_buf_state' = stdin_buf_state /\ (stdin_buf_state => ahead') /\ (ahead => ahead')
  BY DEF Erase
<1>7. ASSUME NEW r \in Readers PROVE ReadyAt(r)'
  <2>1. ReadyAt(r)
    BY <1>1, <1>5 DEF ReadyInv
  <2>2. Inside(r)' => Inside(r)
    BY <1>6 DEF Inside
  <2>3. ASSUME Inside(r)', pc'[r] # "notready" PROVE stdin_buf_state' /\ ahead'
    BY <1>6, <2>1, <2>2, <2>3 DEF ReadyAt
  <2> QED BY <2>3 DEF ReadyAt, Inside
<1>8. vanished' \subseteq {Newline}
  BY <1>1, <1>5 DEF ReadyInv
<1>9. ReadyInv'
  BY <1>6, <1>7, <1>8 DEF ReadyInv
<1>10. 1 \in Nat \ {0} /\ l - 1 \in Int /\ l - 1 <= Len(unread)
  BY <1>2
<1>11. /\ u \in Seq(Strokes)
       /\ Len(u) = IF 1 <= l - 1 THEN l - 1 - 1 + 1 ELSE 0
       /\ \A i \in 1..(l - 1 - 1 + 1) : u[i] = unread[1 + i - 1]
  BY <1>1, <1>3, <1>10, PartLemma
<1>12. ASSUME NEW i \in DOMAIN u PROVE i \in 1..l /\ u[i] = unread[i]
  <2>1. i \in 1..Len(u) /\ Len(u) \in Nat
    BY <1>11
  <2> QED BY <1>2, <1>11, <2>1
<1>13. DOMAIN unread = 1..l
  BY <1>1, <1>2
<1>14. LineIsReady'
  BY <1>1, <1>5, <1>6, <1>12, <1>13 DEF LineIsReady
<1> QED BY <1>9, <1>14

\* Every scan code.
LEMMA KeyStepReady == ASSUME Inv, KeyStep PROVE ReadyInv' /\ LineIsReady'
<1>1. UNCHANGED <<asked, vanished>> /\ Typed
  BY DEF KeyStep
<1>2. ASSUME disturbed' PROVE ReadyInv' /\ LineIsReady'
  BY <1>2 DEF ReadyInv, LineIsReady
<1>3. ASSUME Silent PROVE ReadyInv' /\ LineIsReady'
  <2>1. ReadyInv /\ LineIsReady
    BY DEF Inv
  <2>2. UNCHANGED <<stdin_buf_size, stdin_buf_state, pc, asked, unread, disturbed, ahead, vanished>>
    BY <1>1, <1>3 DEF Silent, buffer
  <2>3. ReadyInv'
    BY <2>1, <2>2 DEF ReadyInv, ReadyAt, Inside, EndsLine
  <2>4. LineIsReady'
    BY <2>1, <2>2 DEF LineIsReady
  <2> QED BY <2>3, <2>4
<1> QED BY <1>1, <1>2, <1>3, PutsReady, EraseReady DEF Typed

(***************************************************************************)
(* The theorems                                                            *)
(***************************************************************************)
\* Nothing is typed and nobody reads when the machine starts.
LEMMA InitInv == Init => Inv
<1> SUFFICES ASSUME Init PROVE Inv
  OBVIOUS
<1>1. TypeOK
  BY InitType
<1>2. \A r \in Readers : pc[r] = "user"
  BY DEF Init
<1>3. /\ stdin_buf_size = 0 /\ unread = << >> /\ stdin_buf_state = FALSE /\ vanished = {}
  BY DEF Init
<1>4. NoGhostKeys
  BY DEF Init, NoGhostKeys
<1>5. Holds(stdin_buf, stdin_buf_size, unread, 0, 0)
  BY <1>3, NothingHeld
<1>6. \A r \in Readers : KeptAt(r) /\ ReadyAt(r) /\ ~Inside(r)
  BY <1>2 DEF KeptAt, ReadyAt, Inside
<1>7. AskedInv /\ AloneInv /\ KeptInv
  BY <1>2, <1>5, <1>6 DEF AskedInv, AloneInv, KeptInv
<1>8. ReadyInv /\ LineIsReady
  BY <1>3, <1>6 DEF ReadyInv, LineIsReady
<1> QED BY <1>1, <1>4, <1>7, <1>8 DEF Inv

\* Every step keeps the invariant.
LEMMA NextInv == Inv /\ [Next]_vars => Inv'
<1> SUFFICES ASSUME Inv, [Next]_vars PROVE Inv'
  OBVIOUS
<1>1. TypeOK /\ NoGhostKeys /\ AskedInv /\ AloneInv /\ KeptInv
  BY DEF Inv
<1>2. CASE KeyStep
  BY <1>1, <1>2, KeyStepType, GhostStep, AskedStep, AloneStep, KeyStepKept, KeyStepReady DEF Inv
<1>3. ASSUME NEW r \in Readers, ReadStep(r), UNCHANGED keys PROVE Inv'
  BY <1>1, <1>3, ReadStepType, GhostStep, AskedStep, AloneStep, ReadStepInv DEF Inv
<1>4. CASE UNCHANGED vars
  <2>0. /\ UNCHANGED <<held, normal_key_pressed, special_key_pressed, in_service>>
        /\ UNCHANGED <<stdin_buf, stdin_buf_size, stdin_buf_state, pc, asked>>
        /\ UNCHANGED <<unread, disturbed, ahead, vanished>>
    BY <1>4 DEF vars, keys, buffer, history
  <2>1. TypeOK'
    BY <1>1, <2>0 DEF TypeOK
  <2>2. NoGhostKeys' /\ AskedInv' /\ AloneInv'
    BY <1>1, <2>0 DEF NoGhostKeys, AskedInv, AloneInv, Inside
  <2>3. KeptInv'
    BY <1>1, <2>0 DEF KeptInv, KeptAt, Holds, Copying
  <2>4. ReadyInv' /\ LineIsReady'
    BY <2>0 DEF Inv, ReadyInv, ReadyAt, Inside, EndsLine, LineIsReady
  <2> QED BY <2>1, <2>2, <2>3, <2>4 DEF Inv
<1> QED BY <1>1, <1>2, <1>3, <1>4, StepsSplit

\* The inductive invariant of the keyboard and its readers, with keys between
\* any two statements of a read that has slept: one reader is inside
\* read_stdin, and at each of its statements the buffer and what is unread
\* differ by exactly what that statement has still to put right.  The parts on
\* the buffer hold until a key or a reader comes at one of the bad moments.
THEOREM Invariance == Spec => []Inv
<1> QED BY InitInv, NextInv, PTL DEF Spec

\* kbd.c, read_stdin: stdin_buf_size stays inside the bounds that the model
\* names, and every position of a reader is one of read_stdin.
THEOREM TypeCorrect == Spec => []TypeOK
<1>1. Inv => TypeOK
  BY DEF Inv
<1> QED BY <1>1, Invariance, PTL

\* kbdintr: for every keyboard and every overlapping order of presses and
\* releases the decoder remembers only keys that are down.
THEOREM OnlyHeldKeysCount == Spec => []NoGhostKeys
<1>1. Inv => NoGhostKeys
  BY DEF Inv
<1> QED BY <1>1, Invariance, PTL

\* What the first stdin_buf_size characters are, as a sequence.
LEMMA HoldsIsBuffer ==
    ASSUME TypeOK, Holds(stdin_buf, stdin_buf_size, unread, 0, 0)
    PROVE  Buffer = [i \in DOMAIN unread |-> Char(unread[i])]
<1>1. PICK l \in Nat : l = Len(unread) /\ l = stdin_buf_size
  BY DEF TypeOK, Holds
<1>2. DOMAIN unread = 1..l
  <2>1. unread \in Seq(Strokes)
    BY DEF TypeOK
  <2>2. DOMAIN unread = 1..Len(unread)
    BY <2>1
  <2> QED BY <1>1, <2>2
<1>3. ASSUME NEW i \in 1..l PROVE stdin_buf[i - 1] = Char(unread[i])
  <2>1. Char(unread[i]) = stdin_buf[0 + i - 1] /\ 0 + i - 1 = i - 1
    BY <1>1 DEF Holds
  <2> QED BY <2>1
<1> QED BY <1>1, <1>2, <1>3 DEF Buffer

\* read_stdin and kbdintr: for every number of readers, reads of every size and
\* keys at every moment, the buffer is what was typed and not copied, until a
\* key or a reader comes at one of the bad moments; and of a line that nobody
\* has typed behind, one-character reads report everything but its end.
THEOREM TypedCharactersAreKept == Spec => []TypedIsKept
<1>1. Inv => TypedIsKept
  <2> SUFFICES ASSUME Inv, ~disturbed
               PROVE  /\ (\A r \in Readers : ~Inside(r)) => Buffer = [i \in DOMAIN unread |-> Char(unread[i])]
                      /\ vanished \subseteq {Newline}
    BY DEF TypedIsKept
  <2>1. vanished \subseteq {Newline}
    BY DEF Inv, ReadyInv
  <2>2. ASSUME \A r \in Readers : ~Inside(r) PROVE Buffer = [i \in DOMAIN unread |-> Char(unread[i])]
    <3>1. \A r \in Readers : ~Copying(r)
      BY <2>2 DEF Copying, Inside
    <3>2. Holds(stdin_buf, stdin_buf_size, unread, 0, 0)
      BY <3>1 DEF Inv, KeptInv
    <3> QED BY <3>2, HoldsIsBuffer DEF Inv
  <2> QED BY <2>1, <2>2
<1> QED BY <1>1, Invariance, PTL

\* read_stdin, kbdintr: a line that was ended with Enter stays ready until it is
\* copied, also when reads take it in parts and keys come in between, until a
\* key or a reader comes at one of the bad moments.
THEOREM LinesStayReady == Spec => []LineIsReady
<1>1. Inv => LineIsReady
  BY DEF Inv
<1> QED BY <1>1, Invariance, PTL

=============================================================================
