---------------------------- MODULE MCLocalState ----------------------------
(* Small instances of LocalState.                                          *)
EXTENDS LocalState

CONSTANTS ra, rb

Empty    == {Nil}
Stored   == {[lin |-> 1, ser |-> 3, st |-> {ra}]}
Mixed    == Stored \cup {Nil, [lin |-> 1, ser |-> 3, st |-> {}]}
NoPush   == {}
Pushable == {[lin |-> 1, ser |-> n, st |-> {rb}] : n \in 2 .. 4}
              \cup {[lin |-> 2, ser |-> 3, st |-> {rb}], [lin |-> 0, ser |-> 0, st |-> {rb}]}
=============================================================================
