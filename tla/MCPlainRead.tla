------------------------------ MODULE MCPlainRead ------------------------------
(* One source whose address is used for a second backing stream, two archives,  *)
(* and a table in which the source finds a slot or does not.                  *)
EXTENDS PlainRead, TLC
CONSTANTS x, y, t1, t2
Symmetric == Permutations({t1, t2}) \cup Permutations({x, y})
=============================================================================
