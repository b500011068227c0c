----------------------------- MODULE MCPageTable -----------------------------
(* Eight addresses: a range over two tables of the bottom level, and one   *)
(* page in a table beside them, below another table of the middle level.   *)
EXTENDS PageTable

MCRanges == {[start |-> 1, nr |-> 2], [start |-> 0, nr |-> 1], [start |-> 6, nr |-> 1]}
=============================================================================
