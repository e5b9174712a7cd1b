------------------------------ MODULE MCWalker ------------------------------
(* Small instances of Walker: graphs of at most four vertices.             *)
EXTENDS WalkerRefinement

CONSTANTS va, vb, vc, vd

Pair    == [V |-> {va, vb},     E |-> {<<vb, va>>}]
NoA     == [V |-> {vb, vc},     E |-> {<<vc, vb>>}]
Chain   == [V |-> {va, vb, vc}, E |-> {<<vb, va>>, <<vc, vb>>}]
Join    == [V |-> {va, vb, vc}, E |-> {<<vc, va>>, <<vc, vb>>}]
Diamond == [V |-> {va, vb, vc, vd}, E |-> {<<vb, va>>, <<vc, va>>, <<vd, vb>>, <<vd, vc>>}]

StaticGraphs    == {Diamond, Chain, Join}
ChangingGraphs  == {Chain, NoA, Pair}
=============================================================================
