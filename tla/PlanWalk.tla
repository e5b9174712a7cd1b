------------------------------ MODULE PlanWalk -------------------------------
(***************************************************************************)
(* The walk of a plan's graph, and of the apply's graph that follows, over *)
(* a configuration with modules, repetition and checks: what a vertex does *)
(* when it is visited (Graph.walk, internal/tofu/graph.go), the semaphore  *)
(* it holds while it executes (graph_walk_context.go), the graph some      *)
(* vertices make of themselves and walk inside their own visit, and the    *)
(* edges that the transformers of modules and checks put between them.     *)
(*                                                                         *)
(* A configuration is a record: module, the paths of its modules;          *)
(* resource, records [mod, name, mode, checked], "checked" with a pre- and *)
(* a postcondition; check, records [mod, name, data], data the resource    *)
(* nested in it or "none"; keys, the repetition of each call and resource; *)
(* refs, pairs of vertices of the configuration.                           *)
(***************************************************************************)
EXTENDS WalkRegisters

CONSTANT Parallelism  \* slots of Context.parallelSem

ASSUME ParallelismAssumption == Parallelism \in Nat \ {0}

\* A module m is called from one there is.
Called(m, c) == /\ m \in Seq(STRING) \ {<<>>}
                /\ Len(m) > 1 => Front(m) \in c.module
                /\ \A j \in DOMAIN m : c.keys[m[j]] \subseteq Key

\* What the loader of configurations accepts: checks of a module have
\* different names, and a data resource nested in a check is there once in
\* each instance of its module.
WellFormed(c) ==
  /\ \A m \in c.module : Called(m, c)
  /\ \A x \in c.resource \cup c.check : x.mod \in c.module \cup {<<>>}
  /\ \A x, y \in c.check : x.mod = y.mod /\ x.name = y.name => x = y
  /\ \A x \in c.check : x.data # "none" =>
       /\ \E r \in c.resource : r.mod = x.mod /\ r.name = x.data /\ r.mode = "data"
       /\ \E k \in Key : c.keys[x.data] = {k}
  /\ LET V == {Resource(r) : r \in c.resource} \cup {CheckOf(x) : x \in c.check}
              \cup {Expander(m) : m \in c.module} \cup {Closer(m) : m \in c.module}
     IN  c.refs \subseteq V \X V

ASSUME ConfigsAssumption == \A c \in Configs : WellFormed(c)

VARIABLES op,      \* "plan", "apply" or "over"
          edges,   \* of the graph: <<v, w>>: v waits for w
          status,  \* vertex -> how far its visit is
          noop     \* instances planned without a change: NoOp, or read already

registers == <<calls, expansion, objects, result>>
vars == <<config, registers, panicked, op, edges, status, noop>>

-----------------------------------------------------------------------------
(* The graphs.                                                             *)

IsCheck(v) == v.kind \in {"expandCheck", "reportCheck", "assert"}
IsNested(v) == v.kind \in {"resource", "instance"} /\ Owner(v) \in Nested
Managed(v) == v.kind = "instance" /\ Owner(v) \notin Data

ConfigVertices ==
  Resources \cup CheckVertices
  \cup {Expander(m) : m \in config.module} \cup {Closer(m) : m \in config.module}

\* Mutated: checks count towards the end of their module.
ClosesAfter_Checks(v) == v.kind # "closeModule"

\* What the closer of a module waits for: not its checks, which nothing
\* outside can depend on.
ClosesAfter(v) == v.kind # "closeModule" /\ ~IsCheck(v) /\ ~IsNested(v)

\* Mutated: only what has instances waits for the module's expansion.
ModuleEdges_Resources(V) ==
  {<<v, Expander(v.mod)>> : v \in {v \in V : v.mod # <<>> /\ v.kind = "resource"}}
  \cup {<<Closer(v.mod), v>> : v \in {v \in V : v.mod # <<>> /\ ClosesAfter(v)}}

ModuleEdges(V) ==
  LET inside == {v \in V : v.mod # <<>>}
      nested == {m \in config.module : Len(m) > 1}
  IN  {<<v, Expander(v.mod)>> : v \in {v \in inside : v # Expander(v.mod)}}
      \cup {<<Expander(m), Expander(Front(m))>> : m \in nested}
      \cup {<<Closer(v.mod), v>> : v \in {v \in inside : ClosesAfter(v)}}
      \cup UNION {{<<Closer(SubSeq(m, 1, i)), Closer(m)>> : i \in 1..(Len(m) - 1)} :
                    m \in nested}

\* Mutated: a nested data resource does not wait for the report.
ReportEdges_CheckOnly == {<<CheckOf(c), Report(c)>> : c \in config.check}

\* checkTransformer: the objects of a check are reported first.
ReportEdges ==
  {<<CheckOf(c), Report(c)>> : c \in config.check}
  \cup {<<d, Report([mod |-> d.mod, name |-> CheckAround(d).name])>> : d \in Nested}

\* References name resources and modules; those to a resource reach its
\* instances too, where the graph has them.
ReferenceEdges(V) ==
  LET Of(x) == {x} \cup {v \in V : v.kind = "instance" /\ Owner(v) = x}
      refs  == config.refs \cup {<<CheckAround(d), d>> : d \in Nested}
  IN  UNION {Of(r[1]) \X Of(r[2]) : r \in refs}

Start == Static("checkStart", <<>>, "")

Leaves(V, E) == {v \in V : Managed(v) /\ ~\E w \in V : Managed(w) /\ <<w, v>> \in E}

\* checkStartTransformer: nested data after every managed resource.
StartEdges(V, E) == ({v \in V : v.kind = "instance" /\ IsNested(v)} \X {Start})
                    \cup ({Start} \X Leaves(V, E))

PlanGraph ==
  LET V == ConfigVertices \cup {Report(c) : c \in config.check}
  IN  [node |-> V, edge |-> ModuleEdges(V) \cup ReportEdges \cup ReferenceEdges(V)]

\* Mutated: an instance without a change is left out, conditions or not.
HasVertex_Changes(v) == v \notin noop
\* DiffTransformer.hasConfigConditions: a NoOp has a vertex so that its
\* checks are made; data that the plan could read has no change at all.
HasVertex(v) == v \notin noop \/ (Managed(v) /\ Owner(v) \in Checked)

ApplyGraph ==
  LET I == {v \in DOMAIN status : v.kind = "instance" /\ HasVertex(v)}
      V == ConfigVertices \cup I
      E == ModuleEdges(V) \cup ReferenceEdges(V) \cup {<<v, Owner(v)>> : v \in I}
  IN  IF \E v \in I : IsNested(v)
      THEN [node |-> V \cup {Start}, edge |-> E \cup StartEdges(V, E)]
      ELSE [node |-> V, edge |-> E]

-----------------------------------------------------------------------------
(* A vertex's visit.                                                       *)

Ended == {"done", "failed", "skipped"}

Waits(v) == {e[2] : e \in {e \in edges : e[1] = v}}

\* DynamicExpand makes a graph of it; the others have an Execute.
Expands(v) == \/ v.kind = "expandCheck"
              \/ v.kind = "resource" /\ op = "plan"

\* The vertices of the graph that v made of itself.
Sub(v) == {w \in DOMAIN status : /\ \/ w.kind = "assert"
                                    \/ w.kind = "instance" /\ op = "plan"
                                 /\ Owner(w) = v}

\* Mutated: a vertex keeps its slot while its subgraph is walked.
Holds_Walking(v) == status[v] \in {"executing", "walking"}
\* ContextGraphWalker.Execute: the semaphore is held for Execute alone.
Holds(v) == status[v] = "executing"

End(v, how) == status' = [status EXCEPT ![v] = how]

Ready(v) == /\ status[v] = "pending"
            /\ \A w \in Waits(v) : status[w] = "done"

\* A vertex with an Execute takes a slot first.
Acquire(v) ==
  /\ Ready(v) /\ ~Expands(v)
  /\ Cardinality({w \in DOMAIN status : Holds(w)}) < Parallelism
  /\ End(v, "executing")
  /\ UNCHANGED <<config, registers, panicked, op, edges, noop>>

Skip(v) ==
  /\ status[v] = "pending"
  /\ \A w \in Waits(v) : status[w] \in Ended
  /\ \E w \in Waits(v) : status[w] # "done"
  /\ End(v, "skipped")
  /\ UNCHANGED <<config, registers, panicked, op, edges, noop>>

\* Its subgraph S is walked by a walker of its own.
Walk(v, S) ==
  status' = Merge([w \in S |-> "pending"], [status EXCEPT ![v] = "walking"])

\* nodeExpandPlannableResource.DynamicExpand: the resource is registered
\* in each instance of its module but those whose count or for_each is
\* an error; its objects are reported when there was none.
ExpandResource(v) ==
  LET modules == ExpandModule(v.mod) IN
  /\ Ready(v) /\ v.kind = "resource" /\ Expands(v)
  /\ panicked' = (Unexpanded(v.mod) \/ Registered(expansion, modules, v.name))
  /\ \E M \in SUBSET modules :
       /\ expansion' = Expand(expansion, M, v.name)
       /\ IF M = modules
          THEN /\ Walk(v, InstancesOf(v))
               /\ IF v \in Checked THEN ReportObjects(v, InstancesOf(v))
                  ELSE UNCHANGED <<objects, result>>
          ELSE End(v, "failed") /\ UNCHANGED <<objects, result>>
  /\ UNCHANGED <<config, calls, op, edges, noop>>

\* nodeExpandCheck.DynamicExpand
ExpandCheck(v) ==
  /\ Ready(v) /\ v.kind = "expandCheck"
  /\ panicked' = Unexpanded(v.mod)
  /\ Walk(v, AssertsOf(v))
  /\ UNCHANGED <<config, registers, op, edges, noop>>

\* Mutated: the visit is over once the subgraph is made.
Walked_AtOnce(v) == TRUE
Walked(v) == \A w \in Sub(v) : status[w] \in Ended

EndWalk(v) ==
  /\ status[v] = "walking" /\ Walked(v)
  /\ End(v, IF \A w \in Sub(v) : status[w] # "failed" THEN "done" ELSE "failed")
  /\ UNCHANGED <<config, registers, panicked, op, edges, noop>>

-----------------------------------------------------------------------------
(* What the vertices execute.                                              *)

\* nodeExpandModule: the call is registered in each instance of the
\* parent, up to one whose count or for_each is an error.
ExecuteExpander(v) ==
  LET name == Last(v.mod)  parents == ExpandModule(Front(v.mod)) IN
  /\ v.kind = "expandModule"
  /\ \E M \in SUBSET parents :
       /\ calls' = Expand(calls, M, name)
       /\ End(v, IF M = parents THEN "done" ELSE "failed")
       /\ panicked' = (Unexpanded(Front(v.mod)) \/ Registered(calls, M, name))
  /\ UNCHANGED <<expansion, objects, result, noop>>

\* nodeExpandApplyableResource
ExecuteResource(v) ==
  LET modules == ExpandModule(v.mod) IN
  /\ v.kind = "resource"
  /\ panicked' = (Unexpanded(v.mod) \/ Registered(expansion, modules, v.name))
  /\ \E M \in SUBSET modules :
       /\ expansion' = Expand(expansion, M, v.name)
       /\ End(v, IF M = modules THEN "done" ELSE "failed")
  /\ UNCHANGED <<calls, objects, result, noop>>

\* nodeReportCheck
ExecuteReport(v) ==
  LET c == Static("expandCheck", v.mod, v.name) IN
  /\ v.kind = "reportCheck"
  /\ panicked' = Unexpanded(v.mod)
  /\ ReportObjects(c, AssertsOf(c))
  /\ End(v, "done")
  /\ UNCHANGED <<calls, expansion, noop>>

\* nodeCloseModule of a module below the root, nodeCheckStart
ExecuteNothing(v) ==
  /\ v.kind \in {"closeModule", "checkStart"}
  /\ End(v, "done")
  /\ UNCHANGED <<registers, panicked, noop>>

\* The statuses that f gives to types of checks of object o.
Reports(o, f) ==
  /\ result' = Merge([x \in {o} \X DOMAIN f |-> f[x[2]]], result)
  /\ panicked' = \E t \in DOMAIN f : BadReport(o, t)
  /\ UNCHANGED <<calls, expansion, objects>>

\* Status s for one type of checks.
Only(t, s) == [x \in {t} |-> s]

\* What is unknown when planning is known once it is applied.
Outcomes == {"Pass", "Fail"} \cup {s \in {"Unknown"} : op = "plan"}

\* What an instance reports, and how it ends: early, after preconditions
\* that fail or before a provider that does, or after its postconditions.
\* An invalid condition fails it just so.
InstanceOutcomes(v) ==
  IF Owner(v) \notin Checked
  THEN {<< <<>>, "done">>, << <<>>, "failed">>}
  ELSE {<< <<>>, "failed">>}
       \cup {<<Only("pre", s), "failed">> : s \in Outcomes}
       \cup {<<Merge(Only("pre", s), Only("post", t)), IF t = "Fail" THEN "failed" ELSE "done">> :
               s \in Outcomes \ {"Fail"}, t \in Outcomes}

\* NodePlannableResourceInstance, NodeApplyableResourceInstance
ExecuteInstance(v) ==
  /\ v.kind = "instance" /\ ~IsNested(v)
  /\ \E x \in InstanceOutcomes(v) :
       /\ Reports(v, x[1]) /\ End(v, x[2])
       /\ \/ UNCHANGED noop
          \/ op = "plan" /\ x[2] = "done" /\ noop' = noop \cup {v}

\* Nested data: failing to read it fails the check and nothing else; the
\* plan passes it only if the check has no result yet.
ExecuteNested(v) ==
  LET o == CheckAssert(CheckAround(Owner(v)), v.inst)
      settled == op = "plan" /\ ~BadReport(o, "data") /\ ObjectStatus(o) # "Unknown"
  IN  /\ v.kind = "instance" /\ IsNested(v)
      /\ \/ Reports(o, <<>>) /\ End(v, "failed")
         \/ /\ Reports(o, IF settled THEN <<>> ELSE Only("data", "Pass"))
            /\ End(v, "done")
         \/ Reports(o, Only("data", "Fail")) /\ End(v, "done")
      /\ UNCHANGED noop

\* nodeCheckAssert: not when the check fails already.  A condition that
\* does not hold is a warning, one that cannot be evaluated an error.
ExecuteAssert(v) ==
  /\ v.kind = "assert"
  /\ IF BadReport(v, "assert")
     THEN Reports(v, Only("assert", "Error")) /\ End(v, "failed")
     ELSE IF ObjectStatus(v) \in {"Fail", "Error"}
     THEN Reports(v, <<>>) /\ End(v, "done")
     ELSE \E s \in Outcomes \cup {"Error"} :
            /\ Reports(v, Only("assert", s))
            /\ End(v, IF s = "Error" THEN "failed" ELSE "done")
  /\ UNCHANGED noop

Execute(v) ==
  /\ status[v] = "executing"
  /\ \/ ExecuteExpander(v)
     \/ ExecuteResource(v)
     \/ ExecuteReport(v)
     \/ ExecuteNothing(v)
     \/ ExecuteInstance(v)
     \/ ExecuteNested(v)
     \/ ExecuteAssert(v)
  /\ UNCHANGED <<config, op, edges>>

-----------------------------------------------------------------------------
(* A plan, and its apply.                                                  *)

Begin(G) == /\ edges' = G.edge
            /\ status' = [v \in G.node |-> "pending"]
            /\ calls' = <<>> /\ expansion' = <<>>

Init == /\ config \in Configs
        /\ calls = <<>> /\ expansion = <<>> /\ objects = <<>> /\ result = <<>>
        /\ panicked = FALSE /\ op = "plan" /\ noop = {}
        /\ edges = PlanGraph.edge
        /\ status = [v \in PlanGraph.node |-> "pending"]

\* Context.Apply: another expander; the objects are those of the plan,
\* their checks to be made again.
BeginApply ==
  /\ op = "plan" /\ \A v \in DOMAIN status : status[v] = "done"
  /\ op' = "apply"
  /\ Begin(ApplyGraph)
  /\ result' = [x \in DOMAIN result |-> "Unknown"]
  /\ UNCHANGED <<config, objects, panicked, noop>>

Finish ==
  /\ op # "over" /\ \A v \in DOMAIN status : status[v] \in Ended
  /\ op = "apply" \/ \E v \in DOMAIN status : status[v] # "done"
  /\ op' = "over"
  /\ UNCHANGED <<config, registers, panicked, edges, status, noop>>

Step(v) == \/ Acquire(v) \/ Skip(v) \/ Execute(v)
           \/ ExpandResource(v) \/ ExpandCheck(v) \/ EndWalk(v)

\* A panic ends the process, as the end of the walk does.
Next == /\ ~panicked
        /\ \/ \E v \in DOMAIN status : Step(v)
           \/ BeginApply
           \/ Finish

Spec == Init /\ [][Next]_vars /\ WF_vars(Next)

-----------------------------------------------------------------------------
(* Properties.                                                             *)

CheckableVertices == Checked \cup CheckVertices

\* Every register holds what its type says, and each object of a check is
\* listed under what declares it.
TypeOK ==
  /\ config \in Configs /\ op \in {"plan", "apply", "over"}
  /\ status \in [DOMAIN status -> {"pending", "executing", "walking"} \cup Ended]
  /\ \A p \in DOMAIN calls \cup DOMAIN expansion : p[1] \in Known
  /\ DOMAIN objects \subseteq CheckableVertices
  /\ \A v \in DOMAIN objects : \A o \in objects[v] : Owner(o) = v
  /\ DOMAIN result = UNION {Rules(v, objects[v]) : v \in DOMAIN objects}
  /\ \A x \in DOMAIN result : result[x] \in Status

\* In whatever order the vertices run and whichever fail: nothing is
\* expanded before all modules around it are registered, nothing is
\* registered twice, no result comes before the object was reported, and
\* none twice (the panics of expander.go, state.go and state_report.go).
NoPanic == ~panicked

\* The instances that the configuration gives module m.
ModuleInstances(m) ==
  {[j \in DOMAIN m |-> <<m[j], f[j]>>] :
     f \in {f \in [DOMAIN m -> Key] : \A j \in DOMAIN m : f[j] \in config.keys[m[j]]}}

Expected(v) ==
  IF v.kind = "expandCheck" THEN {CheckAssert(v, i) : i \in ModuleInstances(v.mod)}
  ELSE {Instance(v, p[1], p[2]) : p \in ModuleInstances(v.mod) \X config.keys[v.name]}

\* Checks are summed up as passed only once every object the configuration
\* declares was visited, also when part of its module or of its instances
\* could not be expanded or the walk was cut short (AggregateCheckStatus).
PassIsProven ==
  \A v \in {v \in CheckableVertices : Aggregate(v) = "Pass"} :
    /\ objects[v] = Expected(v)
    /\ \A o \in objects[v] : o \in DOMAIN status /\ status[o] \in {"done", "failed"}

Visited == {v \in DOMAIN status : status[v] \notin {"pending", "skipped"}}

\* What refers to a module runs after all that the module and the modules
\* inside it hold, each instance included, came to be (nodeCloseModule).
ModuleClosedLast ==
  \A v \in Visited : \A c \in {c \in Waits(v) : c.kind = "closeModule" /\ v.kind # "closeModule"} :
    \A w \in DOMAIN status :
      (IsPrefix(c.mod, w.mod) /\ ~IsCheck(w) /\ ~IsNested(w)) => status[w] = "done"

Applied == op = "apply" /\ \A v \in DOMAIN status : status[v] = "done"

\* Once an apply is done without an error, no check is left unknown,
\* those of managed objects without a change included (hasConfigConditions).
AppliedChecksAnswered ==
  Applied => \A v \in CheckableVertices \ Data : Aggregate(v) # "Unknown"

\* "We'll re-report all of the same objects we determined during the plan
\* phase so that we can repeat the checks during the apply phase to
\* finalize them" (context_walk.go): also those of data resources.
ChecksFinalized ==
  Applied => \A v \in CheckableVertices : Aggregate(v) # "Unknown"

\* A plan and its apply end: no visit waits for a slot that is held by one
\* that waits for it, and no module for what waits for the module.
WalkEnds == <>(op = "over")
==============================================================================
