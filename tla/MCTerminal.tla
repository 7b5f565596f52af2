----------------------------- MODULE MCTerminal -----------------------------
(***************************************************************************)
(* Terminal for TLC.                                                       *)
(***************************************************************************)
EXTENDS Terminal, TLC

\* The readers behave alike.
Symmetry == Permutations(Readers)

Reading == {r \in Readers : pc[r] # "user"}

\* After a bad moment the properties say nothing, so nothing is explored; and
\* two programs read at a time only as long as two characters are enough.
Explored ==
    /\ ~disturbed
    /\ (stdin_buf_size > 2 \/ stdin_buf[2] # NUL) => Cardinality(Reading) <= 1
=============================================================================
