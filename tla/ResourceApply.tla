---------------------------- MODULE ResourceApply ----------------------------
(***************************************************************************)
(* Resources through several rounds of plan and apply: the objects that    *)
(* exist, what the state records of them, and the walk of the graph that   *)
(* ApplyGraph builds.  Between two rounds the configuration changes in any *)
(* way; a provider's call succeeds, or fails with or without effect, and a  *)
(* call that failed may leave nothing to record.                           *)
(*                                                                         *)
(* Plan is NodePlannableResourceInstance and its kin with the refresh      *)
(* (internal/tofu/node_resource_plan_instance.go) and the graph's          *)
(* construction, in which nobody else acts.  A creator is                  *)
(* NodeApplyableResourceInstance.managedResourceExecute, in two steps      *)
(* around the provider's call; a destroyer is NodeDestroyResourceInstance  *)
(* or NodeDestroyDeposedResourceInstanceObject.                            *)
(***************************************************************************)
EXTENDS ApplyGraph

CONSTANTS Configs,   \* the configurations a round may have
          MaxRounds, \* bound of the rounds
          MaxLost    \* bound of the objects that are lost

\* A configuration refers to what it declares, and nothing to itself (Validate);
\* in the code a new deposed key can always be found.
ASSUME RoundsAssumption ==
  /\ MaxRounds \in Nat /\ MaxLost \in Nat
  /\ \A c \in Configs : /\ DOMAIN c \subseteq Resource
                        /\ \A r \in DOMAIN c : c[r].deps \subseteq DOMAIN c \ {r}
                                               /\ c[r].cbd \in BOOLEAN
  /\ IsFiniteSet(Key) /\ Cardinality(Key) >= MaxRounds - 1

VARIABLES
  real,    \* id of an object that exists -> ids of those it refers to
  lost,    \* ids of objects that exist as well, and whose record a call dropped
  state,   \* resource -> [cur, dep]: what the state records
  plan,    \* [config, action, key]
  graph,   \* [node, edge]
  status,  \* vertex -> "pending", "running", "done" or "failed"
  phase,   \* "idle", "walk"
  round

vars == <<real, lost, state, plan, graph, status, phase, round>>

Ids == Resource \X (1..MaxRounds)

CurId(s, r) == <<r, s[r].cur.obj>>

Records(s, r) == ({s[r].cur} \cup {s[r].dep[k] : k \in Key}) \ {None}
Tracked(s) == UNION {{<<r, o.obj>> : o \in Records(s, r)} : r \in Resource}

Object(n, tainted, deps, cbd) ==
  [obj |-> n, tainted |-> tainted, deps |-> deps, cbd |-> cbd]

NoPlan == [config |-> <<>>, action |-> [r \in Resource |-> "None"],
           key |-> [r \in Resource |-> 0]]

Init == /\ real = <<>> /\ lost = {}
        /\ state = [r \in Resource |-> [cur |-> None, dep |-> [k \in Key |-> None]]]
        /\ plan = NoPlan
        /\ graph = [node |-> {}, edge |-> {}]
        /\ status = <<>>
        /\ phase = "idle"
        /\ round = 0

-----------------------------------------------------------------------------
(* Planning.                                                               *)

\* What is gone when the provider reads it leaves the state.
Refreshed ==
  LET Seen(r, o) == IF <<r, o.obj>> \in DOMAIN real THEN o ELSE None
  IN  [r \in Resource |-> [cur |-> Seen(r, state[r].cur),
                           dep |-> [k \in Key |-> Seen(r, state[r].dep[k])]]]

\* What an object made of this configuration now would refer to.
Refers(c, s, r) == {CurId(s, b) : b \in {b \in c[r].deps : s[b].cur # None}}

New == {"Create"} \cup Replaces

\* The action for one resource, given those for what it refers to; a
\* reference is to something only known once the object exists.
Fits(c, s, action, r) ==
  LET cur == s[r].cur
      replace == IF PlannedCBD(c, r) THEN "CreateThenDelete" ELSE "DeleteThenCreate"
  IN  IF r \notin DOMAIN c
      THEN action[r] = IF cur = None THEN "None" ELSE "Delete"
      ELSE IF cur = None THEN action[r] = "Create"
      ELSE IF cur.tainted THEN action[r] = replace
      ELSE \/ action[r] \in {"Update", replace}
           \/ /\ action[r] = "NoOp"
              /\ real[CurId(s, r)] = Refers(c, s, r)
              /\ \A b \in c[r].deps : action[b] \notin New

Actions == {"None", "NoOp", "Create", "Update", "Delete"} \cup Replaces

\* Mutated: the dependencies are merged where nothing changes as well.
Planned_Merges(c, s, action) ==
  [r \in Resource |->
     IF r \notin DOMAIN c \/ s[r].cur = None THEN s[r]
     ELSE [s[r] EXCEPT !.cur.cbd = PlannedCBD(c, r),
                       !.cur.deps = Dependencies(c, r) \cup @]]

\* The refreshed state the apply starts from: create_before_destroy as it
\* is now, the dependencies merged, or replaced where nothing changes.
Planned(c, s, action) ==
  [r \in Resource |->
     IF r \notin DOMAIN c \/ s[r].cur = None THEN s[r]
     ELSE [s[r] EXCEPT
             !.cur.cbd = PlannedCBD(c, r),
             !.cur.deps = Dependencies(c, r)
                          \cup IF action[r] = "NoOp" THEN {} ELSE @]]

\* Plan, and build the graph.  A graph with a cycle is an error, and
\* nothing of the apply is done.
PlanAndBuild(c) ==
  LET s == Refreshed
  IN  /\ phase = "idle" /\ round < MaxRounds
      /\ \E action \in [Resource -> Actions] :
           /\ \A r \in Resource : Fits(c, s, action, r)
           /\ LET p == [config |-> c, action |-> action,
                        key |-> [r \in Resource |->
                                   IF action[r] = "CreateThenDelete"
                                   THEN UnusedKey(s[r].dep) ELSE 0]]
                  t == Planned(c, s, action)
                  G == Build(t, p)
              IN  /\ plan' = p /\ graph' = G
                  /\ status' = [v \in G.node |-> "pending"]
                  /\ IF Acyclic(G) THEN phase' = "walk" /\ state' = t
                     ELSE UNCHANGED <<phase, state>>
      /\ round' = round + 1
      /\ UNCHANGED <<real, lost>>

-----------------------------------------------------------------------------
(* The walk: a vertex runs after all it waits for succeeded.               *)

Waits(v) == {w \in graph.node : <<v, w>> \in graph.edge}

Ready(v) == /\ status[v] = "pending"
            /\ \A w \in Waits(v) : status[w] = "done"

Ends(v, outcome) == status' = [status EXCEPT ![v] = outcome]

\* createBeforeDestroyEnabled in managedResourceExecute.
DeposesFirst(r) == \/ plan.action[r] = "CreateThenDelete"
                   \/ plan.action[r] \in Replaces /\ CreatorCBD(plan, r)

\* deposeCurrentObject (internal/states/resource.go).
Depose(s, k) == [s EXCEPT !.dep[k] = s.cur, !.cur = None]

\* A replacement with create_before_destroy deposes the object first.
StartCreator(r) ==
  /\ phase = "walk" /\ Creator(r) \in graph.node /\ Ready(Creator(r))
  /\ Ends(Creator(r), "running")
  /\ IF DeposesFirst(r) /\ state[r].cur # None
     THEN state' = [state EXCEPT ![r] =
            Depose(@, IF plan.key[r] # 0 THEN plan.key[r] ELSE UnusedKey(@.dep))]
     ELSE UNCHANGED state
  /\ UNCHANGED <<real, lost, plan, graph, phase, round>>

StartDestroyer(v) ==
  /\ phase = "walk" /\ IsDestroyer(v) /\ Ready(v)
  /\ Ends(v, "running")
  /\ UNCHANGED <<real, lost, state, plan, graph, phase, round>>

\* The returns before the provider's call: the plan differs now, or the
\* hook of a stop says halt.  A deposed object stays deposed.
FailEarly(v) ==
  /\ status[v] = "running"
  /\ Ends(v, "failed")
  /\ UNCHANGED <<real, lost, state, plan, graph, phase, round>>

Made(r, n, tainted) ==
  Object(n, tainted, Dependencies(plan.config, r), CreatorCBD(plan, r))

\* Mutated: restored whether there is a current object or not.
MaybeRestore_Always(s, k) ==
  IF k # 0 /\ s.dep[k] # None
  THEN [s EXCEPT !.cur = s.dep[k], !.dep[k] = None] ELSE s

\* maybeRestoreResourceInstanceDeposed (internal/states/module.go).
MaybeRestore(s, k) ==
  IF k # 0 /\ s.cur = None /\ s.dep[k] # None
  THEN [s EXCEPT !.cur = s.dep[k], !.dep[k] = None] ELSE s

NewReal(r, n) ==
  [i \in DOMAIN real \cup {<<r, n>>} |->
     IF i = <<r, n>> THEN Refers(plan.config, state, r) ELSE real[i]]

\* What can fail when all is done: a postcondition, or the hook after it.
EndsAfter(v) == Ends(v, "done") \/ Ends(v, "failed")

Without(id) == [i \in DOMAIN real \ {id} |-> real[i]]

\* apply returned no value, or one that does not fit the schema: a nil state is
\* written over the record, and the object is still there, or there already.
Lose(id) == Cardinality(lost) < MaxLost /\ lost' = lost \cup {id}

\* A create, or the create of a replacement. An object is numbered by the
\* round that made it: in a round a resource has one creator at most.
Created(r) ==
  LET n == round
  IN  \/ /\ real' = NewReal(r, n)
         /\ state' = [state EXCEPT ![r].cur = Made(r, n, FALSE)]
         /\ EndsAfter(Creator(r)) /\ UNCHANGED lost
      \/ /\ real' = NewReal(r, n)
         /\ state' = [state EXCEPT ![r] =
              IF DeposesFirst(r)
              THEN MaybeRestore([@ EXCEPT !.cur = Made(r, n, TRUE)], plan.key[r])
              ELSE [@ EXCEPT !.cur = Made(r, n, TRUE)]]
         /\ Ends(Creator(r), "failed") /\ UNCHANGED lost
      \/ /\ real' = real /\ (UNCHANGED lost \/ Lose(<<r, n>>))
         /\ state' = [state EXCEPT ![r] =
              IF DeposesFirst(r) THEN MaybeRestore([@ EXCEPT !.cur = None], plan.key[r])
              ELSE [@ EXCEPT !.cur = None]]
         /\ Ends(Creator(r), "failed")

\* Without a new value from the provider the prior object is kept, with the
\* new dependencies; but where apply gives up, the record goes.
Updated(r) ==
  LET cur == state[r].cur
      after == Made(r, cur.obj, FALSE)
      changed == [real EXCEPT ![CurId(state, r)] = Refers(plan.config, state, r)]
  IN  \/ /\ real' = changed
         /\ state' = [state EXCEPT ![r].cur = after]
         /\ EndsAfter(Creator(r)) /\ UNCHANGED lost
      \/ /\ real' \in {real, changed}
         /\ \E o \in {after, [cur EXCEPT !.deps = after.deps]} :
              state' = [state EXCEPT ![r].cur = o]
         /\ Ends(Creator(r), "failed") /\ UNCHANGED lost
      \/ /\ real' = Without(CurId(state, r)) /\ Lose(CurId(state, r))
         /\ state' = [state EXCEPT ![r].cur = None]
         /\ Ends(Creator(r), "failed")

FinishCreator(r) ==
  /\ phase = "walk" /\ Creator(r) \in graph.node /\ status[Creator(r)] = "running"
  /\ CASE plan.action[r] = "NoOp" -> Ends(Creator(r), "done") /\ UNCHANGED <<real, lost, state>>
       [] plan.action[r] = "Update" -> Updated(r)
       [] OTHER -> Created(r)
  /\ UNCHANGED <<plan, graph, phase, round>>

Slot(s, v) == IF v.key = 0 THEN s[v.res].cur ELSE s[v.res].dep[v.key]

Put(s, v, o) == IF v.key = 0 THEN [s EXCEPT ![v.res].cur = o]
                ELSE [s EXCEPT ![v.res].dep[v.key] = o]

\* The object is written back; a value from the provider comes without the
\* create_before_destroy of the object.
DestroyFailed(v, o) ==
  \E flag \in {o.cbd, FALSE} : state' = Put(state, v, [o EXCEPT !.cbd = flag])

FinishDestroyer(v) ==
  LET o == Slot(state, v)
      id == <<v.res, o.obj>>
  IN  /\ phase = "walk" /\ IsDestroyer(v) /\ status[v] = "running"
      /\ \/ /\ o = None
            /\ Ends(v, IF v.key = 0 THEN "done" ELSE "failed")
            /\ UNCHANGED <<real, lost, state>>
         \/ /\ o # None
            /\ real' = Without(id) /\ state' = Put(state, v, None)
            /\ \/ EndsAfter(v) /\ UNCHANGED lost
               \/ Ends(v, "failed") /\ Lose(id)
         \/ /\ o # None
            /\ real' \in {real, Without(id)} /\ DestroyFailed(v, o)
            /\ Ends(v, "failed") /\ UNCHANGED lost
      /\ UNCHANGED <<plan, graph, phase, round>>

WalkEnds ==
  /\ phase = "walk"
  /\ \A v \in graph.node : status[v] # "running" /\ ~Ready(v)
  /\ phase' = "idle"
  /\ plan' = NoPlan /\ graph' = [node |-> {}, edge |-> {}] /\ status' = <<>>
  /\ UNCHANGED <<real, lost, state, round>>

\* The user is done.
Rest == phase = "idle" /\ round = MaxRounds /\ UNCHANGED vars

Next == \/ \E c \in Configs : PlanAndBuild(c)
        \/ \E r \in Resource : StartCreator(r) \/ FinishCreator(r)
        \/ \E v \in graph.node : StartDestroyer(v) \/ FailEarly(v) \/ FinishDestroyer(v)
        \/ WalkEnds
        \/ Rest

Spec == Init /\ [][Next]_vars

-----------------------------------------------------------------------------
(* Properties.                                                             *)

Slots == [obj : 0..MaxRounds, tainted : BOOLEAN, deps : SUBSET Resource, cbd : BOOLEAN]

\* The record of an object names a declared resource, and the walk's
\* vertices are those of the graph.
TypeOK ==
  /\ lost \subseteq Ids /\ DOMAIN real \subseteq Ids /\ \A i \in DOMAIN real : real[i] \subseteq Ids
  /\ state \in [Resource -> [cur : Slots \cup {None}, dep : [Key -> Slots \cup {None}]]]
  /\ plan.action \in [Resource -> Actions] /\ plan.key \in [Resource -> Key \cup {0}]
  /\ graph.edge \subseteq graph.node \X graph.node
  /\ status \in [graph.node -> {"pending", "running", "done", "failed"}]
  /\ phase \in {"idle", "walk"} /\ round \in 0..MaxRounds

\* Every object that exists is recorded under its resource, once: no failure
\* between deposing, creating, restoring and destroying loses an object or
\* has two records of one.  Those whose own call dropped the record are
\* excepted; nothing else is lost with them, in that walk or a later one.
EveryObjectRecorded ==
  /\ DOMAIN real \subseteq Tracked(state)
  /\ \A r \in Resource : \A k, j \in Key :
       LET d == state[r].dep
       IN  d[k] # None => /\ d[k].obj # state[r].cur.obj
                          /\ k # j => d[k].obj # d[j].obj

\* What a call left, is there for the user to retry: "we'll at least keep
\* track of the object" (internal/tofu/node_resource_abstract_instance.go:2942).
\* It is not where apply returns a nil state.
NothingLost == lost = {}

\* After a walk without an error the state is what was planned: one object
\* for each resource of the configuration, made from the objects that are
\* there, and nothing else, deposed or not.
ConvergesWithoutErrors ==
  phase = "walk" /\ (\A v \in graph.node : status[v] = "done") =>
    \A r \in Resource :
      /\ \A k \in Key : state[r].dep[k] = None
      /\ IF r \in DOMAIN plan.config
         THEN LET cur == state[r].cur
              IN  /\ cur # None /\ ~cur.tainted
                  /\ cur.deps = Dependencies(plan.config, r)
                  /\ real[<<r, cur.obj>>] = Refers(plan.config, state, r)
         ELSE state[r].cur = None

\* The graph of a plan has no cycle.
GraphAcyclic == Acyclic(graph)

\* A cycle has one of two causes: of two resources one of which depended on
\* the other, one is destroyed create_before_destroy and the other is not;
\* or the dependencies the refresh merged contradict each other.
CycleOnlyFromConflict ==
  (phase = "idle" /\ ~Acyclic(graph)) =>
    LET t == Planned(plan.config, Refreshed, plan.action)
        D == {v \in graph.node : IsDestroyer(v)}
        DependsOn(v, w) == t[v.res].cur # None /\ w.res \in t[v.res].cur.deps
    IN  \E v, w \in D : /\ DependsOn(v, w)
                        /\ \/ DestroyerCBD(t, plan, v) # DestroyerCBD(t, plan, w)
                           \/ DependsOn(w, v)

Destroyed(id) == id \in DOMAIN real /\ id \notin DOMAIN real' \cup lost'

\* The record of the object that was current when the walk was planned.
Record(id) == LET r == id[1] IN
              IF plan.key[r] # 0 /\ state[r].dep[plan.key[r]].obj = id[2]
              THEN state[r].dep[plan.key[r]]
              ELSE IF state[r].cur.obj = id[2] THEN state[r].cur ELSE None

\* An object is destroyed while another refers to it, and is recorded to,
\* only if the other is about to be updated and the destroyed one is not
\* create_before_destroy.
UsersGoFirst ==
  [][\A id \in DOMAIN real : Destroyed(id) =>
       \A user \in DOMAIN real' :
         (id \in real[user] /\ Record(user) # None /\ id[1] \in Record(user).deps) =>
           /\ plan.action[user[1]] = "Update"
           /\ status[Creator(user[1])] = "pending"
           /\ state[id[1]].cur.obj = id[2] /\ ~state[id[1]].cur.cbd]_vars
=============================================================================
