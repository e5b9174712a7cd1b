--------------------------- MODULE MCResourceApply ---------------------------
(* Small instances of ResourceApply. *)
EXTENDS ResourceApply, TLC

CONSTANTS a, b, c

OnlyA == {a}
ThreeResources == {a, b, c}

Entry(deps, cbd) == [deps |-> deps, cbd |-> cbd]

\* Three resources: c refers to b, b to a; and what the user may make of
\* it: b or c leaves, a reference turns round.
ChainConfigs ==
  LET One(x, f)        == x :> Entry({}, f)
      Two(x, y, fx, fy) == (x :> Entry({}, fx)) @@ (y :> Entry({x}, fy))
      Chain(f)         == Two(a, b, FALSE, FALSE) @@ (c :> Entry({b}, f))
  IN  {<<>>, One(a, FALSE), Two(b, a, FALSE, FALSE), Two(a, c, FALSE, TRUE)}
      \cup {Two(a, b, FALSE, FALSE), Two(a, b, FALSE, TRUE), Two(a, b, TRUE, FALSE)}
      \cup {Chain(f) : f \in BOOLEAN}
==============================================================================
