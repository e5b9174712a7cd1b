------------------------------ MODULE MCPlanWalk ------------------------------
(* Small instances of PlanWalk. *)
EXTENDS PlanWalk, TLC

R(mod, name, mode, checked) ==
  [mod |-> mod, name |-> name, mode |-> mode, checked |-> checked]
C(mod, name, data) == [mod |-> mod, name |-> name, data |-> data]

M == <<"m">>
N == <<"m", "n">>

\* Conditioned resources in a module that is there twice, one of them
\* without instances.
Repeated ==
  LET x == R(M, "x", "managed", TRUE)
      z == R(M, "z", "managed", TRUE)
  IN  [module |-> {M}, check |-> {}, resource |-> {x, z}, refs |-> {},
       keys |-> ("m" :> {1, 2}) @@ ("x" :> {1}) @@ ("z" :> {})]

\* A check with nested data in a module, and managed resources beside it.
Nesting ==
  LET x == R(<<>>, "x", "managed", FALSE)
      y == R(<<>>, "y", "managed", FALSE)
  IN  [module |-> {M}, check |-> {C(M, "c", "d")},
       resource |-> {x, y, R(M, "d", "data", FALSE)},
       refs |-> {<<Resource(y), Resource(x)>>},
       keys |-> ("m" :> {1}) @@ ("d" :> {1}) @@ ("x" :> {1}) @@ ("y" :> {1})]

\* The module there twice, and a resource with two instances.
NestedTwice ==
  [module |-> {M}, check |-> {C(M, "c", "d")},
   resource |-> {R(<<>>, "x", "managed", FALSE), R(M, "d", "data", FALSE)}, refs |-> {},
   keys |-> ("m" :> {1, 2}) @@ ("d" :> {1}) @@ ("x" :> {1})]

\* A module inside a module, and one that depends on both while a check
\* inside them refers to it.
Crossed ==
  LET a == <<"a">>
      c == C(N, "c", "none")
  IN  [module |-> {M, N, a}, check |-> {c},
       resource |-> {R(a, "x", "managed", FALSE), R(N, "y", "managed", FALSE)},
       refs |-> {<<Expander(a), Closer(M)>>, <<CheckOf(c), Closer(a)>>},
       keys |-> ("m" :> {1, 2}) @@ ("n" :> {1, 2}) @@ ("a" :> {1})
                @@ ("x" :> {1}) @@ ("y" :> {1})]

\* A data resource with conditions that refers to a managed resource.
ReadData ==
  LET x == R(<<>>, "x", "managed", TRUE)
      d == R(<<>>, "d", "data", TRUE)
  IN  [module |-> {}, check |-> {}, resource |-> {x, d},
       refs |-> {<<Resource(d), Resource(x)>>}, keys |-> ("x" :> {1}) @@ ("d" :> {1})]

DataConfigs == {ReadData}
MCConfigs == {Repeated, Nesting, NestedTwice, Crossed}
==============================================================================
