-------------------------- MODULE MCDurableStore --------------------------
(* DurableStore on small instances.                                        *)
EXTENDS DurableStore

MCKeys == {1, 2}

\* A host that turns its log on, and one that turns it off.
MCUp == {<<"Off", "Group">>}
MCDown == {<<"Full", "Off">>}
=============================================================================
