------------------------------ MODULE MCFiles ------------------------------
(***************************************************************************)
(* Files for TLC: every archive with a directory, a directory in it, files *)
(* of sizes on both sides of the padding, a script, and the entries in any *)
(* order that puts a directory before its content.                         *)
(***************************************************************************)
EXTENDS Files

Entries ==
    { [path |-> <<"bin">>, dir |-> TRUE, size |-> 0, interp |-> NoName],
      [path |-> <<"bin", "ls">>, dir |-> FALSE, size |-> 3, interp |-> NoName],
      [path |-> <<"bin", "sub">>, dir |-> TRUE, size |-> 0, interp |-> NoName],
      [path |-> <<"bin", "sub", "sh">>, dir |-> FALSE, size |-> 1, interp |-> NoName],
      [path |-> <<"rc">>, dir |-> FALSE, size |-> 2, interp |-> <<"bin", "ls">>] }

MCArchives ==
    { s \in SetToSeqs(Entries) :
        \A i \in 1..5 : Len(s[i].path) > 1 => \E j \in 1..(i - 1) : s[j].path = Front(s[i].path) }

\* The most tangled of them: a file of the root between the entries of bin, and
\* a nested file before bin/ls.
OneArchive == { CHOOSE s \in MCArchives :
                   s[3].path = <<"rc">> /\ s[2].path = <<"bin", "sub">> /\ s[5].path = <<"bin", "ls">> }

\* The directories, a file, a script whose interpreter is bin/ls, and a missing
\* path.
MCPaths == { <<>>, <<"bin">>, <<"bin", "ls">>, <<"bin", "sub">>, <<"rc">>, <<"no">> }

\* What is explored: one process that reads nothing, for every archive and every
\* path; and for the tangled one reads and a fork, with bin and the script open.
OneProcess ==
    /\ Cardinality(alive) <= 1
    /\ \A p \in Procs : p \notin alive => file_array[p] = [fd \in Fds |-> FreeSlot]
    /\ \A p \in alive, fd \in Fds : file_array[p][fd].type = "FT_FILE" => file_array[p][fd].pos = 0

TwoProcesses ==
    /\ tar \in OneArchive
    /\ kpages <= 1
    /\ \A p \in Procs : cwd[p] \in {<<"bin">>, Root}
    /\ \A p \in Procs, fd \in Fds :
          /\ held[p][fd].path \in {<<"bin">>, <<"rc">>, Root}
          /\ file_array[p][fd].start \in {0} \cup { Opened(q).start : q \in {<<"bin">>, <<"rc">>} }

Explored == OneProcess \/ TwoProcesses

\* syscall.c:734, fork: "copy father opened file to child".  A file is then
\* still a file for the child, which can read it.
ClaimChildHasFiles ==
    \A p \in Procs, fd \in Fds :
        held[p][fd].open => file_array[p][fd].type = Opened(held[p][fd].path).type
=============================================================================
