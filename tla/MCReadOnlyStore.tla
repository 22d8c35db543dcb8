-------------------------- MODULE MCReadOnlyStore --------------------------
(* ReadOnlyStore on small instances.                                       *)
EXTENDS ReadOnlyStore

MCKeys == {1, 2}
=============================================================================
