--------------------------- MODULE MCSharedStore ---------------------------
(* SharedStore on small instances.                                         *)
EXTENDS SharedStore

MCKeys == {1, 2}
=============================================================================
