----------------------------- MODULE MCRunControl -----------------------------
(* A small instance of RunControl: two resources with a provider each, so   *)
(* that a call can be in flight while the other provider is configured.     *)
EXTENDS RunControl, TLC

CONSTANTS res1, res2, prov1, prov2

TwoResources == {res1, res2}
TwoProviders == {prov1, prov2}
EachItsOwn   == (res1 :> prov1) @@ (res2 :> prov2)

===============================================================================
