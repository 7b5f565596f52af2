------------------------------ MODULE Terminal ------------------------------
(***************************************************************************)
(* The terminal of PLUM_OS: kbdintr turns scan codes into characters of    *)
(* stdin_buf (kbd.c), and read_stdin hands them to programs (syscall.c).   *)
(* A character is emitted when a key is RELEASED, and it is the one of the *)
(* last key pressed.                                                       *)
(*                                                                         *)
(* kbdintr runs with interrupts off: one scan code is one step.  A read    *)
(* that finds a line ready is one step too, but a read that has slept      *)
(* resumes with interrupts on and is cut into the statements of            *)
(* read_stdin, with keys in between.  Who is asleep on which list is the   *)
(* business of Process.                                                    *)
(***************************************************************************)
EXTENDS Integers, Sequences, FiniteSets

CONSTANTS
    Letters,      \* the normal keys besides Enter and Backspace
    Specials,     \* of Shift, Alt and Ctrl, the ones on this keyboard
    Readers,      \* programs that read stdin
    ReadSizes,    \* how much they ask for
    MaxBuf,       \* bound: characters in the buffer; the code has none
    MaxUnder,     \* bound: how far Backspace and late reads take it below zero
    MaxHeld       \* bound: keys that are down at the same time

ASSUME SpecialsAssumption == Specials \subseteq {"Shift", "Alt", "Ctrl"}
ASSUME ReadSizesAssumption == ReadSizes \subseteq Nat \ {0}
ASSUME BoundsAssumption ==
    MaxBuf \in Nat /\ MaxUnder \in Nat /\ MaxHeld \in Nat
ASSUME LettersAssumption == Letters \cap {"Enter", "Backspace", "no key"} = {}

NormalKeys == Letters \cup {"Enter", "Backspace"}
NO    == "no key"                        \* scan code 0
Maps  == {"normalmap", "shiftmap"}
\* A stroke is the key that was pressed last and the map it is looked up in.
Strokes == (NormalKeys \cup {NO}) \X Maps
\* The character of a stroke.  normalmap and shiftmap agree on Enter,
\* Backspace and scan code 0.
Char(s) == IF s[1] \in Letters THEN s ELSE <<s[1], "normalmap">>
Enter   == <<"Enter", "normalmap">>
Newline == Char(Enter)
NUL     == <<NO, "normalmap">>
Slots == (-MaxUnder)..(MaxBuf - 1)

VARIABLES
    held,                                \* the keys that are really down
    normal_key_pressed, special_key_pressed,
    in_service,                          \* an interrupt that got no EOI
    stdin_buf, stdin_buf_size, stdin_buf_state,
    pc,                                  \* where each reader stands
    asked,                               \* the size it asked for
    \* what happened, for the properties; the code depends on none of it:
    unread,                              \* strokes typed and not copied to a program
    disturbed,                           \* a key or a reader came at a bad moment
    ahead,                               \* keys since the line became ready
    vanished                             \* characters a read took and reported as 0

keys    == <<held, normal_key_pressed, special_key_pressed, in_service>>
buffer  == <<stdin_buf, stdin_buf_size, stdin_buf_state>>
history == <<unread, disturbed, ahead, vanished>>
vars    == <<keys, buffer, pc, asked, history>>

Init ==
    /\ held = {}
    /\ normal_key_pressed = NO
    /\ special_key_pressed = NO
    /\ in_service = FALSE
    /\ stdin_buf = [i \in Slots |-> NUL]
    /\ stdin_buf_size = 0
    /\ stdin_buf_state = FALSE
    /\ pc = [r \in Readers |-> "user"]
    /\ asked = [r \in Readers |-> 0]
    /\ unread = << >>
    /\ disturbed = FALSE
    /\ ahead = FALSE
    /\ vanished = {}

(***************************************************************************)
(* What is remembered                                                      *)
(***************************************************************************)
\* A reader that slept is between two statements of read_stdin.
Inside(r) ==
    pc[r] \in {"enter", "drain", "empty", "notready", "part", "shift", "cut"}

\* From the first bad moment on nothing is known of what is unread.
Recall(bad, u) ==
    /\ disturbed' = (disturbed \/ bad)
    /\ unread' = IF disturbed \/ bad THEN << >> ELSE u

\* A character comes too late: a read that has copied the buffer is about to
\* set size or state without looking again.
TooLate == \E r \in Readers : pc[r] \in {"empty", "notready", "cut"}

\* A Backspace has nothing to take, or takes what a read is about to copy.
TakesTooMuch ==
    \/ unread = << >>
    \/ \E r \in Readers : pc[r] = "part" /\ asked[r] >= stdin_buf_size

\* Reader r comes while another is between the statements of read_stdin.
Overlaps(r) == \E q \in Readers \ {r} : Inside(q)

\* A read of n copies the first "copied" characters and returns "result".
\* Noted for the reads the programs make, of one character (shlib.c:339).
Note(n, copied, result) ==
    vanished' = IF n = 1 /\ ~ahead
                THEN vanished \cup {stdin_buf[i - 1] : i \in (result + 1)..copied}
                ELSE vanished

(***************************************************************************)
(* kbdintr                                                                 *)
(***************************************************************************)
\* stdin_buf[stdin_buf_size++] = normalmap[...] or shiftmap[...]
Put(s) ==
    /\ stdin_buf_size \in Slots
    /\ stdin_buf' = [stdin_buf EXCEPT ![stdin_buf_size] = Char(s)]
    /\ stdin_buf_size' = stdin_buf_size + 1
    /\ Recall(TooLate, Append(unread, s))
    /\ ahead' = (ahead \/ stdin_buf_state)

\* A Backspace takes back the last character, whether there is one or not.
Erase ==
    /\ stdin_buf_size > -MaxUnder
    /\ stdin_buf_size' = stdin_buf_size - 1
    /\ Recall(TakesTooMuch, SubSeq(unread, 1, Len(unread) - 1))
    /\ ahead' = (ahead \/ stdin_buf_state)
    /\ UNCHANGED <<stdin_buf, stdin_buf_state, pc>>

\* Enter: everybody who waits for stdin is woken.
Woken == [r \in Readers |-> IF pc[r] = "asleep" THEN "woken" ELSE pc[r]]

\* What the pressed key does when it, or any other key, is released.
EmitNormal ==
    CASE normal_key_pressed = "Backspace" -> Erase
      [] normal_key_pressed = "Enter" ->
            Put(Enter) /\ stdin_buf_state' = TRUE /\ pc' = Woken
      [] OTHER -> Put(<<normal_key_pressed, "normalmap">>) /\ UNCHANGED <<stdin_buf_state, pc>>

Silent == UNCHANGED <<buffer, pc, unread, disturbed, ahead>>

\* With Shift, Enter and Backspace are characters like any other: no line
\* becomes ready.  With Alt and Ctrl nothing goes to the buffer (Ctrl-C: see
\* KbdCtrlC of Process).
EmitSpecial ==
    \/ /\ special_key_pressed = "Shift"
       /\ Put(<<normal_key_pressed, "shiftmap">>)
       /\ UNCHANGED <<stdin_buf_state, pc>>
    \/ special_key_pressed # "Shift" /\ Silent

\* is_normal_key_released: not necessarily the key that was pressed last.
NormalReleased ==
    /\ IF special_key_pressed = NO THEN EmitNormal ELSE EmitSpecial
    /\ normal_key_pressed' = NO
    /\ special_key_pressed' = NO

\* The keyboard interrupts.  It cannot while an earlier interrupt is in service.
KeyStrikes == ~in_service /\ UNCHANGED <<asked, vanished>>
Acknowledged == UNCHANGED in_service

\* No data in the controller: kbdintr returns without an EOI, and the PIC
\* delivers no key any more.
KbdNoData ==
    /\ KeyStrikes
    /\ in_service' = TRUE
    /\ Silent
    /\ UNCHANGED <<held, normal_key_pressed, special_key_pressed>>

Down(k) == Cardinality(held \cup {k}) <= MaxHeld /\ held' = held \cup {k}

\* A key that is down repeats its scan code, so k may be in held already.
PressNormal(k) ==
    /\ KeyStrikes /\ Down(k)
    /\ normal_key_pressed' = k
    /\ Silent /\ Acknowledged
    /\ UNCHANGED special_key_pressed

PressSpecial(k) ==
    /\ KeyStrikes /\ Down(k)
    /\ special_key_pressed' = k
    /\ Silent /\ Acknowledged
    /\ UNCHANGED normal_key_pressed

\* A key that is in no map, F1 say: is_normal_key_released looks up
\* normalmap[data - 0x80], before the array, and may find anything there.
PressUnknown ==
    /\ KeyStrikes
    /\ NormalReleased /\ Acknowledged
    /\ UNCHANGED held

Up(k) == k \in held /\ held' = held \ {k}

ReleaseNormal(k) ==
    /\ KeyStrikes /\ Up(k)
    /\ NormalReleased /\ Acknowledged

\* Mutant: the final reset has slipped into the other branch.
ReleaseSpecialKept(k) ==
    /\ KeyStrikes /\ Up(k)
    /\ \/ /\ normal_key_pressed # NO
          /\ EmitSpecial
          /\ UNCHANGED special_key_pressed
       \/ /\ normal_key_pressed = NO
          /\ special_key_pressed' = NO
          /\ Silent
    /\ normal_key_pressed' = NO
    /\ Acknowledged

\* is_special_key_released.  With no special key noted (a normal key's release
\* cleared it) the switch has no case, and the normal key is forgotten.
ReleaseSpecial(k) ==
    /\ KeyStrikes /\ Up(k)
    /\ \/ normal_key_pressed # NO /\ EmitSpecial
       \/ normal_key_pressed = NO /\ Silent
    /\ normal_key_pressed' = NO
    /\ special_key_pressed' = NO
    /\ Acknowledged

(***************************************************************************)
(* read and read_stdin.  A read whose buffer copy_from_kernel refuses      *)
(* returns -1 and changes nothing.                                         *)
(***************************************************************************)
\* Mutant: the comparison is the wrong way round.
TakesAllSwapped(n) == n <= stdin_buf_size

\* size >= stdin_buf_size
TakesAll(n) == n >= stdin_buf_size

\* How many characters go to the program, and how many it is told of:
\* readsz = stdin_buf_size comes after stdin_buf_size = 0.
Copied(n) == IF TakesAll(n) THEN stdin_buf_size ELSE n
Result(n) == IF TakesAll(n) THEN 0 ELSE n

\* The first n characters are in the program's buffer (none if n is negative).
Rest(n) == IF n <= 0 THEN unread ELSE SubSeq(unread, n + 1, Len(unread))

\* Mutant: the loop starts one character too late.
ShiftedLate(n) ==
    [i \in Slots |-> IF i >= 1 /\ i + n < stdin_buf_size THEN stdin_buf[i + n] ELSE stdin_buf[i]]

\* stdin_buf[i-size] = stdin_buf[i], for i from size to the end.
Shifted(n) ==
    [i \in Slots |-> IF i >= 0 /\ i + n < stdin_buf_size THEN stdin_buf[i + n] ELSE stdin_buf[i]]

\* Mutant: every read leaves the buffer not ready.
StateAfterAlways(n) == FALSE

StateAfter(n) == ~TakesAll(n) /\ stdin_buf_state

\* A read that finds a line ready: no interrupt until it returns.
Read(r, n) ==
    /\ pc[r] = "user"
    /\ stdin_buf_state
    /\ stdin_buf' = IF TakesAll(n) THEN stdin_buf ELSE Shifted(n)
    /\ stdin_buf_size' = IF TakesAll(n) THEN 0 ELSE stdin_buf_size - n
    /\ stdin_buf_state' = StateAfter(n)
    /\ Recall(Overlaps(r), Rest(Copied(n)))
    /\ Note(n, Copied(n), Result(n))
    /\ ahead' = (ahead /\ ~TakesAll(n))
    /\ UNCHANGED <<keys, pc, asked>>

ReadSleeps(r, n) ==
    /\ pc[r] = "user"
    /\ ~stdin_buf_state
    /\ pc' = [pc EXCEPT ![r] = "asleep"]
    /\ asked' = [asked EXCEPT ![r] = n]
    /\ UNCHANGED <<keys, buffer, history>>

\* Reader r, with interrupts on, goes from one statement to the next.
Goto(r, from, to) == pc[r] = from /\ pc' = [pc EXCEPT ![r] = to]

\* After a wakeup: the loop tests the state again ...
ReadTests(r) ==
    /\ Goto(r, "woken", IF stdin_buf_state THEN "enter" ELSE "sleep")
    /\ Recall(stdin_buf_state /\ Overlaps(r), unread)
    /\ UNCHANGED <<keys, buffer, asked, ahead, vanished>>

\* ... goes back to sleep ...
ReadSleepsAgain(r) ==
    /\ Goto(r, "sleep", "asleep")
    /\ UNCHANGED <<keys, buffer, asked, history>>

\* ... or calls read_stdin, which compares the sizes ...
ReadCompares(r) ==
    /\ Goto(r, "enter", IF TakesAll(asked[r]) THEN "drain" ELSE "part")
    /\ UNCHANGED <<keys, buffer, asked, history>>

\* ... copy_from_kernel(buf, stdin_buf, stdin_buf_size): all there is by now ...
ReadCopies(r) ==
    /\ Goto(r, "drain", "empty")
    /\ Recall(FALSE, Rest(stdin_buf_size))
    /\ Note(asked[r], stdin_buf_size, 0)
    /\ UNCHANGED <<keys, buffer, asked, ahead>>

\* ... stdin_buf_size = 0 ...
ReadEmpties(r) ==
    /\ Goto(r, "empty", "notready")
    /\ stdin_buf_size' = 0
    /\ UNCHANGED <<keys, stdin_buf, stdin_buf_state, asked, history>>

Returns(r, from) == Goto(r, from, "user") /\ asked' = [asked EXCEPT ![r] = 0]

\* ... stdin_buf_state = BUF_NOT_READY.
ReadSetsNotReady(r) ==
    /\ Returns(r, "notready")
    /\ stdin_buf_state' = FALSE
    /\ ahead' = FALSE
    /\ UNCHANGED <<keys, stdin_buf, stdin_buf_size, unread, disturbed, vanished>>

\* Or copy_from_kernel(buf, stdin_buf, size) ...
ReadCopiesPart(r) ==
    /\ Goto(r, "part", "shift")
    /\ Recall(FALSE, Rest(asked[r]))
    /\ UNCHANGED <<keys, buffer, asked, ahead, vanished>>

\* ... the rest moves down; the loop compares with stdin_buf_size each time ...
ReadShifts(r) ==
    /\ Goto(r, "shift", "cut")
    /\ stdin_buf' = Shifted(asked[r])
    /\ UNCHANGED <<keys, stdin_buf_size, stdin_buf_state, asked, history>>

\* ... stdin_buf_size -= size.
ReadCuts(r) ==
    /\ Returns(r, "cut")
    /\ stdin_buf_size - asked[r] >= -MaxUnder
    /\ stdin_buf_size' = stdin_buf_size - asked[r]
    /\ UNCHANGED <<keys, stdin_buf, stdin_buf_state, history>>

\* copy_from_kernel finds no area for the program's buffer: read returns -1.
ReadFails(r) ==
    /\ Returns(r, "drain") \/ Returns(r, "part")
    /\ UNCHANGED <<keys, buffer, history>>

Resumed(r) ==
    \/ ReadTests(r) \/ ReadSleepsAgain(r) \/ ReadCompares(r)
    \/ ReadCopies(r) \/ ReadEmpties(r) \/ ReadSetsNotReady(r)
    \/ ReadCopiesPart(r) \/ ReadShifts(r) \/ ReadCuts(r)
    \/ ReadFails(r)

Next ==
    \/ KbdNoData
    \/ \E k \in NormalKeys : PressNormal(k) \/ ReleaseNormal(k)
    \/ \E k \in Specials : PressSpecial(k) \/ ReleaseSpecial(k)
    \/ PressUnknown
    \/ \E r \in Readers :
          \/ \E n \in ReadSizes : Read(r, n) \/ ReadSleeps(r, n)
          \/ Resumed(r)

Spec == Init /\ [][Next]_vars

(***************************************************************************)
(* Correctness                                                             *)
(***************************************************************************)
Places == {"user", "asleep", "woken", "sleep", "enter", "drain", "empty", "notready",
           "part", "shift", "cut"}

TypeOK ==
    /\ held \subseteq NormalKeys \cup Specials
    /\ normal_key_pressed \in NormalKeys \cup {NO}
    /\ special_key_pressed \in Specials \cup {NO}
    /\ in_service \in BOOLEAN
    /\ stdin_buf \in [Slots -> Strokes]
    /\ stdin_buf_size \in (-MaxUnder)..MaxBuf
    /\ stdin_buf_state \in BOOLEAN
    /\ pc \in [Readers -> Places]
    /\ asked \in [Readers -> ReadSizes \cup {0}]
    /\ unread \in Seq(Strokes)
    /\ disturbed \in BOOLEAN
    /\ ahead \in BOOLEAN

\* kbdintr: however keys are pressed and released in overlapping order, the
\* decoder never remembers a key that is no longer down, so no later character
\* is shifted, or killed with Ctrl, by a key that was let go.
NoGhostKeys ==
    /\ normal_key_pressed \in held \cup {NO}
    /\ special_key_pressed \in held \cup {NO}

Buffer == [i \in 1..stdin_buf_size |-> stdin_buf[i - 1]]

\* read_stdin and kbdintr, with keys at every moment: the buffer holds what was
\* typed and not yet copied to a program, in order.  This is lost at three kinds
\* of moments and no others: a character after a read's last look at the size
\* (TooLate), a Backspace that takes too much (TakesTooMuch), two reads at a
\* time (Overlaps).  And what a one-character read takes and reports as 0, so
\* that myfgets ignores it, is the end of the line; unless something was typed
\* behind the line (ahead), for then it is the last character typed.
TypedIsKept ==
    ~disturbed =>
        /\ (\A r \in Readers : ~Inside(r))
              => Buffer = [i \in DOMAIN unread |-> Char(unread[i])]
        /\ vanished \subseteq {Newline}

\* read_stdin, kbdintr, with keys at every moment: while nothing of that kind
\* has happened, a line that was ended with Enter is ready until it is copied,
\* so a reader that comes for it does not sleep.  (Shift+Enter puts the same
\* newline into the buffer and makes no line ready.)
LineIsReady ==
    ~disturbed => \A i \in DOMAIN unread : unread[i] = Enter => stdin_buf_state
=============================================================================
