--------------------------- MODULE MCBootMemory ---------------------------
(* Small memory maps: the loader's block, the hole, and the rest.            *)
EXTENDS BootMemory, TLC

Block(b, l) == [base |-> b, length |-> l]

\* Memory ends inside and at the end of the range of get_free_page; the last
\* map has a second hole.
SmallMaps ==
    {<<Block(0, 2), Block(3, n)>> : n \in {12, 15}}
        \cup {<<Block(0, 2), Block(3, 11), Block(15, 3)>>}

\* The processes are alike.
Symmetry == Permutations(Tasks)
=============================================================================
