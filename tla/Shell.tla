------------------------------- MODULE Shell -------------------------------
(***************************************************************************)
(* sbush, the shell of PLUM_OS (bin/sbush/sbush.c, libc/shlib.c): reading  *)
(* and splitting a line, shell variables, cd and ls, looking a program up, *)
(* fork, exec and waitpid.                                                 *)
(*                                                                         *)
(* A line is a sequence of symbols: the space "sp", the quote "q", "#" and *)
(* "nl", and pieces of words, of which the shell tells apart command names,*)
(* pieces that end in the first '=' of a word (Names), "/" and "~".  A     *)
(* path is the sequence of its components.  Children are numbered; what    *)
(* happens to them in the kernel is the matter of module Process.          *)
(***************************************************************************)
EXTENDS Naturals, Sequences, FiniteSets, SequencesExt

CONSTANTS
    Lines,           \* what may be typed
    Scripts,         \* script files: sequences of lines
    Names,           \* pieces of words that end in '=', the bare "=" included
    Dirs,            \* directories of the archive
    Programs,        \* files of the archive
    Home,            \* value of HOME
    EnvPath,         \* value of PATH in the environment: entries [dir, slash]
    PathEntry,       \* the entry that a piece of a word denotes
    MAX_ARG_NUM,     \* slots of arg_list (8)
    MAX_SH_VAR_NUM,  \* slots of SH_VAR_LIST (8)
    MAX_VAR_SIZE,    \* longest value of PATH, in pieces (2048 characters)
    FreeFds,         \* slots of file_array that a new process has (17)
    NULL

\* A line is made of symbols, and a script of lines.
ASSUME LinesAssumption == Lines \subseteq Seq(STRING) /\ Scripts \subseteq Seq(Seq(STRING))

\* PATH and PS1 fit in SH_VAR_LIST, and a script, opened twice at most, in file_array.
ASSUME SizesAssumption ==
    /\ MAX_ARG_NUM \in Nat
    /\ MAX_SH_VAR_NUM \in Nat /\ MAX_SH_VAR_NUM >= 2
    /\ FreeFds \in Nat /\ FreeFds >= 2

\* The root is a directory.
ASSUME RootAssumption == << >> \in Dirs

\* NULL is none of the strings that it is compared with.
ASSUME NullAssumption ==
    NULL \notin [format : Seq(STRING), cwd : Dirs] \cup Seq(STRING) \cup Seq(Seq(STRING))

VARIABLES
    pc,         \* prompt, execute, waitpid, wait, dead; halted: the kernel has stopped
    script,     \* lines of the script that are left; Interactive for none
    line,       \* the line read last, until it is executed
    arg_list,   \* what parse_cmds made of it
    var_list,   \* SH_VAR_LIST: [name, value], in order
    env_path,   \* the environment has PATH
    prompt,     \* what parse_PS1 made: the format, and the cwd it shows
    cwd,
    fds,        \* slots of file_array in use
    forked,     \* number of children made
    alive,      \* the children that run
    fg,         \* the child the shell is to wait for, 0 for none
    background, \* the children whose line ends in "&"
    assigned    \* the last value the shell has accepted for each name

vars == <<pc, script, line, arg_list, var_list, env_path, prompt, cwd, fds, forked, alive, fg, background, assigned>>

PATH == <<"PATH=">>
PS1 == <<"PS1=">>
Interactive == NULL

-----------------------------------------------------------------------------
(* parse_cmds *)

\* Mutant: a '#' after a quote does not end the line.
EndOfLineUnquoted(s, p) == p > Len(s) \/ s[p] = "nl" \/ (s[p] = "#" /\ ~\E i \in 1 .. p : s[i] = "q")

EndOfLine(s, p) == p > Len(s) \/ s[p] \in {"#", "nl"}

\* while (*p == ' ') p++
SkipSpaces(s, p) == Min({q \in p .. Len(s) + 1 : q > Len(s) \/ s[q] # "sp"})

\* quote_flag at q, in the argument that starts at p: the second quote ends
\* the argument, so there is one at most before q.
QuoteFlag(s, p, q) == \E i \in p .. q - 1 : s[i] = "q"

\* The inner loop leaves the argument that starts at p when it is at q.
Leaves(s, p, q) ==
    \/ EndOfLine(s, q)
    \/ s[q] = "sp" /\ ~QuoteFlag(s, p, q)
    \/ s[q] = "q" /\ QuoteFlag(s, p, q)

\* One argument from p on: the position after it, the word, and whether a
\* closing quote is followed by anything but the end or a space.
TakeWord(s, p) ==
    LET q == Min({r \in p .. Len(s) + 1 : Leaves(s, p, r)})
        closed == ~EndOfLine(s, q) /\ s[q] = "q"
        at == IF closed THEN q + 1 ELSE q
    IN  [at |-> at, word |-> SubSeq(s, p, at - 1),
         ugly |-> closed /\ q < Len(s) /\ s[q + 1] \notin {"sp", "nl"}]

\* One turn of the loop of parse_cmds, which leaves the state alone once the
\* loop is over; no arguments after an ugly one.
TakeArg(s, st) ==
    LET w == TakeWord(s, SkipSpaces(s, st.at))
    IN  IF st.args = NULL \/ EndOfLine(s, st.at) \/ w.word = << >> THEN st
        ELSE IF w.ugly THEN [at |-> st.at, args |-> NULL]
        ELSE [at |-> w.at, args |-> Append(st.args, w.word)]

\* The state of the loop after n turns.
ParseLoop(s) ==
    LET after[n \in 0 .. MAX_ARG_NUM] ==
            IF n = 0 THEN [at |-> 1, args |-> << >>] ELSE TakeArg(s, after[n - 1])
    IN  after

\* The arguments, or NULL.
ParseCmds(s) ==
    LET args == ParseLoop(s)[MAX_ARG_NUM].args
    IN  IF args # NULL /\ Len(args) >= MAX_ARG_NUM THEN NULL ELSE args

-----------------------------------------------------------------------------
(* Shell variables *)

\* get_var: the value of the first entry with the name, or NULL.  A list
\* without a free slot has no end: the search for a name that is not there
\* runs past it, into what may be a NULL or a wild pointer.
HasVar(name) == \E i \in DOMAIN var_list : var_list[i].name = name
GetVar(name) ==
    IF HasVar(name)
    THEN var_list[CHOOSE i \in DOMAIN var_list :
                      /\ var_list[i].name = name
                      /\ \A j \in 1 .. i - 1 : var_list[j].name # name].value
    ELSE NULL
RunsPast(name) == ~HasVar(name) /\ Len(var_list) = MAX_SH_VAR_NUM

\* Mutant: the last slot is not the last.
SetVarPastEnd(list, name, value) ==
    IF \A i \in DOMAIN list : list[i].name # name
    THEN (IF Len(list) <= MAX_SH_VAR_NUM THEN Append(list, [name |-> name, value |-> value]) ELSE list)
    ELSE list

\* Mutant: set_var always takes a new slot.
SetVarNew(list, name, value) ==
    IF Len(list) < MAX_SH_VAR_NUM THEN Append(list, [name |-> name, value |-> value]) ELSE list

\* set_var: the slot of the name, or the first free one, or nothing.
SetVar(list, name, value) ==
    LET old == {i \in DOMAIN list : list[i].name = name}
        entry == [name |-> name, value |-> value]
    IN  IF old # {} THEN [i \in DOMAIN list |-> IF i \in old THEN entry ELSE list[i]]
        ELSE IF Len(list) < MAX_SH_VAR_NUM THEN Append(list, entry)
        ELSE list

\* set_path: $PATH stands for the old value; any other $ is an error.
ExpandPath(value) ==
    FoldLeft(LAMBDA acc, piece :
                 IF piece = "$PATH" THEN (IF HasVar(PATH) THEN acc \o GetVar(PATH) ELSE acc)
                 ELSE Append(acc, PathEntry[piece]),
             << >>, value)
PathAccepted(value) ==
    /\ \A i \in DOMAIN value : value[i] # "$"
    /\ Len(value) < MAX_VAR_SIZE /\ Len(ExpandPath(value)) < MAX_VAR_SIZE

\* parse_PS1 knows \h, \u, \w and \$; set_PS1 refuses what it does not know.
PS1Accepted(value) == \A i \in DOMAIN value : value[i] # "\\x"

\* parse_PS1(get_var(sh_var_list, PS1), envp)
PromptOf(list, dir) ==
    LET ps1 == list[CHOOSE i \in DOMAIN list : list[i].name = PS1].value
    IN  IF PS1Accepted(ps1) THEN [format |-> ps1, cwd |-> dir] ELSE NULL

DefaultPS1 == <<"\\u@\\h:\\w\\$ ">>

\* The prompt is a string, like the lines.
ASSUME PromptAssumption == DefaultPS1 \in Seq(STRING)

-----------------------------------------------------------------------------
(* main *)

InitVars(withPath) ==
    SetVar(IF withPath THEN SetVar(<< >>, PATH, EnvPath) ELSE << >>, PS1, DefaultPS1)

Init ==
    /\ pc = "prompt"
    /\ script \in {Interactive} \cup Scripts
    /\ line = << >> /\ arg_list = << >>
    /\ env_path \in BOOLEAN
    /\ var_list = InitVars(env_path)
    /\ cwd = << >>
    /\ prompt = [format |-> DefaultPS1, cwd |-> << >>]
    /\ fds \in IF script = Interactive THEN {0} ELSE {1, 2}   \* 2: it was looked up first
    /\ forked = 0
    /\ alive = {}
    /\ fg = 0
    /\ background = {}
    /\ assigned = [n \in {var_list[i].name : i \in DOMAIN var_list} |->
                      IF n = PATH THEN EnvPath ELSE DefaultPS1]

\* myfgets
ReadLine(s) ==
    /\ pc = "prompt" /\ script = Interactive
    /\ line' = s /\ arg_list' = ParseCmds(s)
    /\ pc' = "execute"
    /\ UNCHANGED <<script, var_list, env_path, prompt, cwd, fds, forked, alive, fg, background, assigned>>

\* The next line of the script.
ScriptLine ==
    /\ pc = "prompt" /\ script # Interactive /\ script # << >>
    /\ line' = Head(script) /\ arg_list' = ParseCmds(line')
    /\ script' = Tail(script)
    /\ pc' = "execute"
    /\ UNCHANGED <<var_list, env_path, prompt, cwd, fds, forked, alive, fg, background, assigned>>

\* The process ends: a return of main, exit(0), or exit_st in the kernel.
Dies ==
    /\ pc' = "dead" /\ line' = << >> /\ arg_list' = << >>
    /\ UNCHANGED <<script, var_list, env_path, prompt, cwd, fds, forked, alive, fg, background, assigned>>

ScriptEnds == pc = "prompt" /\ script = << >> /\ Dies

\* Back to the loop of main, with or without a new prompt.
Done == pc' = "prompt" /\ line' = << >> /\ arg_list' = << >>

\* Mutant: the prompt is made only once.
DoneWithOldPrompt(list, dir) == Done /\ UNCHANGED prompt

DoneWithPrompt(list, dir) == Done /\ prompt' = PromptOf(list, dir)

\* A line that parse_cmds refuses: the loop goes on, but in a script the NULL
\* is dereferenced.
Refused ==
    /\ pc = "execute" /\ arg_list = NULL
    /\ IF script = Interactive
       THEN /\ Done
            /\ UNCHANGED <<script, var_list, env_path, prompt, cwd, fds, forked, alive, fg, background, assigned>>
       ELSE Dies

-----------------------------------------------------------------------------
(* execute *)

\* The arguments of a line that is about to be executed.
Executes(args) == pc = "execute" /\ args = arg_list /\ args # NULL

IsAssignment(word) == \E i \in DOMAIN word : word[i] \in Names

NoCommand(args) ==
    /\ Executes(args) /\ args = << >>
    /\ Done
    /\ UNCHANGED <<script, var_list, env_path, prompt, cwd, fds, forked, alive, fg, background, assigned>>

\* get_fullpath
FullPath(word) ==
    CASE word[1] = "/" -> Tail(word)
      [] word[1] = "~" -> Home \o Tail(word)
      [] OTHER -> cwd \o word

\* What chdir makes of a path: "cd .." but not "cd ../..".
Resolved(path) ==
    IF path # << >> /\ Last(path) = ".."
    THEN (IF Len(path) > 1 THEN SubSeq(path, 1, Len(path) - 2) ELSE << >>)
    ELSE path

\* chdir opens the directory, and its close leaves the slot taken; without a
\* free slot the process is ended.  cd without argument asks for the value of "HOME", which
\* starts with a '=', and does not look at the result.
Cd(args) ==
    /\ Executes(args) /\ args # << >> /\ args[1] = <<"cd">>
    /\ LET to == IF Len(args) = 2 THEN Resolved(FullPath(args[2])) ELSE <<"=">>
           ok == Len(args) = 2 /\ to \in Dirs
       IN  \/ /\ ok /\ fds < FreeFds
              /\ cwd' = to
              /\ fds' = fds + 1
              /\ DoneWithPrompt(var_list, to)
              /\ UNCHANGED <<script, var_list, env_path, forked, alive, fg, background, assigned>>
           \/ ok /\ fds = FreeFds /\ Dies
           \/ /\ ~ok /\ Len(args) = 2
              /\ Done
              /\ UNCHANGED <<script, var_list, env_path, prompt, cwd, fds, forked, alive, fg, background, assigned>>
           \/ /\ ~ok /\ Len(args) # 2
              /\ DoneWithPrompt(var_list, cwd)
              /\ UNCHANGED <<script, var_list, env_path, cwd, fds, forked, alive, fg, background, assigned>>

\* open takes a directory, with or without the '/' at the end of its name in
\* the archive, as well as a file.
Archive == Dirs \cup Programs

\* What ls is to list.
Listed(args) == IF Len(args) = 1 THEN cwd ELSE FullPath(args[2])

\* The file is open, and the assertion of getdents stops the kernel for good.
Halts ==
    /\ pc' = "halted" /\ line' = << >> /\ arg_list' = << >>
    /\ fds' = fds + 1
    /\ UNCHANGED <<script, var_list, env_path, prompt, cwd, forked, alive, fg, background, assigned>>

\* list_file opens the directory and does not close it.  A file opens as well.
Ls(args) ==
    /\ Executes(args) /\ args # << >> /\ args[1] = <<"ls">>
    /\ LET opens == Len(args) <= 2 /\ Listed(args) \in Archive
       IN  \/ opens /\ fds = FreeFds /\ Dies
           \/ opens /\ fds < FreeFds /\ Listed(args) \notin Dirs /\ Halts
           \/ /\ opens => fds < FreeFds /\ Listed(args) \in Dirs
              /\ fds' = IF opens THEN fds + 1 ELSE fds
              /\ UNCHANGED <<var_list, cwd>>
              /\ DoneWithPrompt(var_list, cwd)
              /\ UNCHANGED <<script, env_path, forked, alive, fg, background, assigned>>

\* The name of an assignment, and its value, which is NULL when only one of
\* its ends is a quote.
NameOf(word) == SubSeq(word, 1, CHOOSE i \in DOMAIN word :
                                    word[i] \in Names /\ \A j \in 1 .. i - 1 : word[j] \notin Names)
ValueOf(word) ==
    LET v == SubSeq(word, Len(NameOf(word)) + 1, Len(word))
    IN  IF Len(v) >= 2 /\ v[1] = "q" /\ Last(v) = "q" THEN SubSeq(v, 2, Len(v) - 1)
        ELSE IF v # << >> /\ (v[1] = "q" \/ Last(v) = "q") THEN NULL
        ELSE v

Assign(args) ==
    /\ Executes(args) /\ args # << >>
    /\ args[1] \notin {<<"cd">>, <<"ls">>} /\ IsAssignment(args[1])
    /\ LET name == NameOf(args[1])
           value == ValueOf(args[1])
           good == Len(args) = 1 /\ name # <<"=">> /\ value # NULL
           accepted == CASE name = PATH -> PathAccepted(value)
                         [] name = PS1  -> PS1Accepted(value)
                         [] OTHER         -> TRUE
           stored == IF name = PATH THEN ExpandPath(value) ELSE value
           wild == name = PATH /\ RunsPast(name)
       IN  \/ /\ ~good
              /\ Done
              /\ UNCHANGED <<script, var_list, env_path, prompt, cwd, fds, forked, alive, fg, background, assigned>>
           \/ good /\ wild /\ Dies
           \/ /\ good
              /\ var_list' = IF accepted THEN SetVar(var_list, name, stored) ELSE var_list
              /\ assigned' = IF accepted /\ (HasVar(name) \/ Len(var_list) < MAX_SH_VAR_NUM)
                             THEN [n \in DOMAIN assigned \cup {name} |->
                                      IF n = name THEN stored ELSE assigned[n]]
                             ELSE assigned
              /\ UNCHANGED cwd
              /\ DoneWithPrompt(var_list', cwd)
              /\ UNCHANGED <<script, env_path, fds, forked, alive, fg, background>>

Exit(args) == Executes(args) /\ args = <<<<"exit">>>> /\ Dies

\* What is left: a program.
IsProgram(args) ==
    /\ Executes(args) /\ args # << >>
    /\ args[1] \notin {<<"cd">>, <<"ls">>} /\ ~IsAssignment(args[1]) /\ args # <<<<"exit">>>>

\* locate_executable_file: the name as it is, then in the entries of PATH.  A
\* slash is put between all but the last entry and the name only where it is
\* missing; after the last one always, and no file has a name with two.
Candidates(word) ==
    LET path == IF HasVar(PATH) THEN GetVar(PATH) ELSE << >>
    IN  {SelectSeq(word, LAMBDA c : c # "/")}
            \cup {path[i].dir \o word : i \in {i \in DOMAIN path : i < Len(path) \/ ~path[i].slash}}
\* does_file_exist is open: a directory is found as well, and run.
Located(word) == Candidates(word) \cap Archive # {}

NotFound(args) ==
    /\ IsProgram(args) /\ ~Located(args[1])
    /\ Done
    /\ UNCHANGED <<script, var_list, env_path, prompt, cwd, fds, forked, alive, fg, background, assigned>>

\* get_var reads past a full SH_VAR_LIST, and faults there.
LookupRunsPast(args) == IsProgram(args) /\ RunsPast(PATH) /\ Dies

\* Mutant: the result of strcmp is taken the wrong way round.
InBackgroundInverted(args) == Last(args) # <<"&">>

InBackground(args) == Last(args) = <<"&">>

\* does_file_exist leaves its file open; then fork, and in the child execve,
\* which ends it at once if the path is a directory: its entry is no address.
Run(args) ==
    /\ IsProgram(args) /\ Located(args[1])
    /\ \/ fds = FreeFds /\ Dies
       \/ /\ fds < FreeFds
          /\ fds' = fds + 1
          /\ forked' = forked + 1
          /\ alive' = alive \cup {forked'}
          /\ background' = IF Last(args) = <<"&">> THEN background \cup {forked'} ELSE background
          /\ IF InBackground(args)
             THEN Done /\ UNCHANGED fg
             ELSE pc' = "waitpid" /\ line' = << >> /\ arg_list' = << >> /\ fg' = forked'
          /\ UNCHANGED <<script, var_list, env_path, prompt, cwd, assigned>>

\* waitpid sleeps unless the child is gone already.
Waitpid ==
    /\ pc = "waitpid" /\ fg \in alive
    /\ pc' = "wait"
    /\ UNCHANGED <<script, line, arg_list, var_list, env_path, prompt, cwd, fds, forked, alive, fg, background, assigned>>

\* Mutant: waitpid for a child that is gone sleeps, too.
WaitpidReturnsWoken ==
    /\ pc = "wait" /\ fg \notin alive
    /\ Done
    /\ fg' = 0
    /\ UNCHANGED <<script, var_list, env_path, prompt, cwd, fds, forked, alive, background, assigned>>

WaitpidReturns ==
    /\ pc \in {"waitpid", "wait"} /\ fg \notin alive
    /\ Done
    /\ fg' = 0
    /\ UNCHANGED <<script, var_list, env_path, prompt, cwd, fds, forked, alive, background, assigned>>

\* A child ends, unless the kernel has stopped.
ChildExits(c) ==
    /\ pc # "halted" /\ c \in alive
    /\ alive' = alive \ {c}
    /\ UNCHANGED <<pc, script, line, arg_list, var_list, env_path, prompt, cwd, fds, forked, fg, background, assigned>>

Execute ==
    \/ Refused
    \/ \E args \in {arg_list} :
        \/ NoCommand(args) \/ Cd(args) \/ Ls(args) \/ Assign(args) \/ Exit(args)
        \/ NotFound(args) \/ LookupRunsPast(args) \/ Run(args)
    \/ Waitpid \/ WaitpidReturns

Next ==
    \/ \E s \in Lines : ReadLine(s)
    \/ ScriptLine \/ ScriptEnds
    \/ Execute
    \/ \E c \in 1 .. FreeFds : ChildExits(c)

\* The shell is scheduled, and the programs it runs end.
Fairness ==
    /\ WF_vars(Execute) /\ WF_vars(ScriptLine) /\ WF_vars(ScriptEnds)
    /\ \A c \in 1 .. FreeFds : WF_vars(ChildExits(c))

Spec == Init /\ [][Next]_vars /\ Fairness

-----------------------------------------------------------------------------
(* Properties *)

\* Every variable has its type; SH_VAR_LIST does not outgrow its slots.
TypeOK ==
    /\ pc \in {"prompt", "execute", "waitpid", "wait", "dead", "halted"}
    /\ Len(var_list) <= MAX_SH_VAR_NUM
    /\ env_path \in BOOLEAN
    /\ prompt # NULL
    /\ cwd \in Dirs
    /\ fds \in 0 .. FreeFds /\ forked \in 0 .. FreeFds
    /\ alive \subseteq 1 .. forked /\ fg \in 0 .. forked

\* The reference for parse_cmds, without its loops: the part of the line
\* before '#' or its end, the quotes before a position, and the words as the
\* longest stretches without a space outside quotes.
Cut(s) == {p \in DOMAIN s : \A i \in 1 .. p : s[i] \notin {"#", "nl"}}
QuotesBefore(s, p) == Cardinality({i \in 1 .. p - 1 : s[i] = "q"})
Blank(s, p) == p \notin Cut(s) \/ (s[p] = "sp" /\ QuotesBefore(s, p) % 2 = 0)
WordSpans(s) ==
    {w \in Cut(s) \X Cut(s) :
        /\ w[1] <= w[2]
        /\ \A p \in w[1] .. w[2] : ~Blank(s, p)
        /\ Blank(s, w[1] - 1) /\ Blank(s, w[2] + 1)}
Ugly(s) ==
    \E p \in Cut(s) :
        /\ s[p] = "q" /\ QuotesBefore(s, p) % 2 = 1
        /\ p < Len(s) /\ s[p + 1] \notin {"sp", "nl"}

\* A sequence of words from left to right.
InOrder(spans) == \A i, j \in DOMAIN spans : i < j => spans[i][1] < spans[j][1]

\* args are the words of s, from left to right, or NULL for a line to refuse.
IsSplit(s, args) ==
    LET words == WordSpans(s)
        n == Cardinality(words)
    IN  IF Ugly(s) \/ n >= MAX_ARG_NUM THEN args = NULL
        ELSE \E spans \in [1 .. n -> words] :
                /\ InOrder(spans)
                /\ args = [i \in 1 .. n |-> SubSeq(s, spans[i][1], spans[i][2])]

\* parse_cmds splits a line at the spaces outside quotes, up to '#' or the end
\* of the line, and refuses text right after a closing quote and lines with
\* too many arguments, whatever the order of spaces, quotes and '#'.
ParseIsSplit == pc = "execute" => IsSplit(line, arg_list)

\* SH_VAR_LIST is a map: get_var gives the last value that was accepted for a
\* name, through reassignment, $PATH, refused values and a full list.
VarsAreAMap ==
    /\ DOMAIN assigned = {var_list[i].name : i \in DOMAIN var_list}
    /\ \A n \in DOMAIN assigned : GetVar(n) = assigned[n]

\* The prompt shows the format in PS1 and the directory the shell is in,
\* although most commands return without making it anew.
PromptIsCurrent == pc = "prompt" => prompt = PromptOf(var_list, cwd)

\* The shell comes back to the prompt only when the programs whose line does
\* not end in "&" are over, whether one ends before or after waitpid looks for
\* it, and while others run in the background.
ForegroundBeforePrompt == pc \in {"prompt", "execute"} => alive \subseteq background

\* The line asks ls for a path that opens and names a file.
ListsAFile ==
    /\ arg_list # NULL /\ Len(arg_list) = 2 /\ arg_list[1] = <<"ls">>
    /\ Listed(arg_list) \in Programs \ Dirs
    /\ fds < FreeFds

\* A line that is read is dealt with: the shell returns to the prompt, or its
\* process ends.  The one line that stops the machine is an ls of a file.
PromptComesBack == pc = "execute" /\ ~ListsAFile ~> pc \in {"prompt", "dead"}
=============================================================================
