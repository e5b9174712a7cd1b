---------------------------- MODULE MCRemoteState ----------------------------
(* Small instances of RemoteState.                                          *)
EXTENDS RemoteState

Absent      == {None}
Present     == {[lin |-> 1, ser |-> 3, st |-> {0}]}
Anything    == Present \cup Absent
NoMigration == {}
Incoming    == {[lin |-> 2, ser |-> n, st |-> s] : n \in {2, 3}, s \in {{0}, {}}}

=============================================================================
