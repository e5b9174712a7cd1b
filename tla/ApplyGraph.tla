----------------------------- MODULE ApplyGraph ------------------------------
(***************************************************************************)
(* The graph of an apply: which vertices a plan's changes become and in    *)
(* which order they may run.  Operators only; ResourceApply walks the      *)
(* graph.  In the order of ApplyGraphBuilder.Steps                         *)
(* (internal/tofu/graph_builder_apply.go): DiffTransformer makes the       *)
(* vertices, ReferenceTransformer the edges of the configuration,          *)
(* ForcedCBDTransformer spreads create_before_destroy to what a            *)
(* replacement refers to, DestroyEdgeTransformer orders the destroyers by  *)
(* the dependencies stored in the state, and CBDEdgeTransformer turns the  *)
(* edges of a create-before-destroy destroyer around.                      *)
(*                                                                         *)
(* One instance per resource, one provider.  An edge <<v, w>> says that v  *)
(* waits for w.  The vertices of whole resources do nothing but pass their *)
(* references on, so that an instance here refers to the closure.          *)
(***************************************************************************)
EXTENDS Naturals, FiniteSets, Graphs

CONSTANTS Resource,
          Key,         \* the deposed keys; 0 is NotDeposed
          Conditioned  \* the resources with pre- or postconditions

ASSUME ConditionedAssumption == Conditioned \subseteq Resource
ASSUME KeyAssumption == Key \subseteq Nat \ {0}

None == [obj |-> 0]  \* no object in the state

Replaces == {"CreateThenDelete", "DeleteThenCreate"}

-----------------------------------------------------------------------------
(* A configuration maps the resources it declares to what they refer to    *)
(* and to their create_before_destroy.                                     *)

\* S holds what its members refer to.
Closed(c, S) == \A a \in S : c[a].deps \subseteq S

\* The dependencies of r by the configuration, transitively: what every
\* closed set with the references of r holds.
Dependencies(c, r) ==
  IF r \in DOMAIN c
  THEN {b \in DOMAIN c \ {r} : \A S \in SUBSET DOMAIN c :
                                 c[r].deps \subseteq S /\ Closed(c, S) => b \in S}
  ELSE {}

\* ForcedCBDTransformer in the plan's graph, where every resource of the
\* configuration has a vertex.
PlannedCBD(c, r) ==
  c[r].cbd \/ \E a \in DOMAIN c : r \in Dependencies(c, a) /\ c[a].cbd

-----------------------------------------------------------------------------
(* A plan is [config, action, key]: the action for each resource and the   *)
(* deposed key allocated for each replacement.                             *)

Creator(r)    == [kind |-> "create",  res |-> r, key |-> 0]
Destroyer(r)  == [kind |-> "destroy", res |-> r, key |-> 0]
Deposed(r, k) == [kind |-> "destroy", res |-> r, key |-> k]

IsDestroyer(v) == v.kind = "destroy"

\* A new key is random in the code.
UnusedKey(dep) == CHOOSE k \in Key : dep[k] = None

HasCreator(p, r) == \/ p.action[r] \in {"Create", "Update"} \cup Replaces
                    \/ p.action[r] = "NoOp" /\ r \in Conditioned

\* DiffTransformer.
Vertices(s, p) ==
  {Creator(r) : r \in {r \in Resource : HasCreator(p, r)}}
  \cup {Destroyer(r) : r \in {r \in Resource :
                                p.action[r] \in {"Delete", "DeleteThenCreate"}}}
  \cup {Deposed(r, p.key[r]) : r \in {r \in Resource :
                                        p.action[r] = "CreateThenDelete"}}
  \cup {Deposed(x[1], x[2]) : x \in {x \in Resource \X Key :
                                       s[x[1]].dep[x[2]] # None}}

\* NodeApplyableResourceInstance.CreateBeforeDestroy after DiffTransformer
\* and ForcedCBDTransformer: only what has a vertex is looked at.
CreatorCBD(p, r) ==
  LET Own(a) == p.config[a].cbd \/ p.action[a] = "CreateThenDelete"
  IN  \/ Own(r)
      \/ \E a \in DOMAIN p.config :
           HasCreator(p, a) /\ Own(a) /\ r \in Dependencies(p.config, a)

\* A deposed object is always create_before_destroy; of a current one the
\* state knows.
DestroyerCBD(s, p, v) == v.key # 0 \/ s[v.res].cur.cbd

\* The dependencies an instance's vertex goes by: the stored ones of the
\* current object, also for a deposed object.
StateDependencies(s, p, v) ==
  IF s[v.res].cur # None THEN s[v.res].cur.deps
  ELSE IF IsDestroyer(v) THEN {} ELSE Dependencies(p.config, v.res)

\* ReferenceTransformer; references to destroyers make no edge.
ReferenceEdges(p, V) ==
  {e \in V \X V : /\ ~IsDestroyer(e[1]) /\ ~IsDestroyer(e[2])
                  /\ e[2].res \in Dependencies(p.config, e[1].res)}

\* Mutated: a destroyer does not wait for those of the object's users.
DestroyEdges_NoStored(s, p, V) ==
  {e \in V \X V : /\ IsDestroyer(e[2]) /\ ~IsDestroyer(e[1])
                  /\ e[1].res = e[2].res}

\* DestroyEdgeTransformer: a creator waits for the destroyers of its own
\* address and of what it depended on; the destroyers and creators of a
\* dependency wait for the destroyers of its dependents.
DestroyEdges(s, p, V) ==
  LET Changing(v) == ~IsDestroyer(v) /\ p.action[v.res] # "NoOp"
  IN  {e \in V \X V :
         /\ IsDestroyer(e[2])
         /\ \/ ~IsDestroyer(e[1]) /\ e[1].res = e[2].res
            \/ Changing(e[1]) /\ e[2].res \in StateDependencies(s, p, e[1])
            \/ /\ IsDestroyer(e[1]) \/ Changing(e[1])
               /\ e[1].res \in StateDependencies(s, p, e[2])}

\* Mutated: only the edge of the object's own replacement is inverted.
Inverted_OwnOnly(s, p, E) ==
  LET Turned(e) == /\ IsDestroyer(e[2]) /\ ~IsDestroyer(e[1])
                   /\ DestroyerCBD(s, p, e[2]) /\ e[1].res = e[2].res
  IN  {IF Turned(e) THEN <<e[2], e[1]>> ELSE e : e \in E}

\* CBDEdgeTransformer.
Inverted(s, p, E) ==
  LET Turned(e) == /\ IsDestroyer(e[2]) /\ ~IsDestroyer(e[1])
                   /\ DestroyerCBD(s, p, e[2])
  IN  {IF Turned(e) THEN <<e[2], e[1]>> ELSE e : e \in E}

Build(s, p) ==
  LET V == Vertices(s, p)
  IN  [node |-> V,
       edge |-> ReferenceEdges(p, V) \cup Inverted(s, p, DestroyEdges(s, p, V))]

Acyclic(G) == LET C == ConnectionsIn(G) IN
              \A v, w \in G.node : <<v, w>> \in G.edge => ~C[w, v]
=============================================================================
