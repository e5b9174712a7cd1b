---------------------------- MODULE WalkRegisters ----------------------------
(***************************************************************************)
(* The addresses of a configuration with modules, and the two registers    *)
(* that the vertices of a walk share: the expander, which knows the        *)
(* instances (internal/instances/expander.go), and the results of the      *)
(* checks (internal/checks/state.go, state_report.go).  Both panic when    *)
(* they are used in another order than the graph was built to enforce.     *)
(***************************************************************************)
EXTENDS Naturals, Sequences, FiniteSets, SequencesExt

CONSTANTS Key,     \* instance keys
          Configs  \* [module, resource, check, keys, refs], see PlanWalk

VARIABLES config,
          calls,      \* <<module instance, call>> -> keys: modules expanded
          expansion,  \* <<module instance, resource>> -> keys
          objects,    \* checkable vertex -> its objects, once reported
          result,     \* <<object, type>> -> status
          panicked

\* A vertex of the configuration, and one of an instance.
Static(kind, mod, name) ==
  [kind |-> kind, mod |-> mod, name |-> name, inst |-> <<>>, key |-> 0]
Expander(m)   == Static("expandModule", m, "")
Closer(m)     == Static("closeModule", m, "")
Resource(r)   == Static("resource", r.mod, r.name)
CheckOf(c)    == Static("expandCheck", c.mod, c.name)
Report(c)     == Static("reportCheck", c.mod, c.name)

Instance(v, i, k) ==
  [kind |-> "instance", mod |-> v.mod, name |-> v.name, inst |-> i, key |-> k]
CheckAssert(v, i) ==
  [kind |-> "assert", mod |-> v.mod, name |-> v.name, inst |-> i, key |-> 0]

\* The resource or the check that an instance belongs to.
Owner(v) == Static(IF v.kind = "assert" THEN "expandCheck" ELSE "resource", v.mod, v.name)

Resources == {Resource(r) : r \in config.resource}
CheckVertices == {CheckOf(c) : c \in config.check}
Checked == {Resource(r) : r \in {r \in config.resource : r.checked}}
Data    == {Resource(r) : r \in {r \in config.resource : r.mode = "data"}}
\* Data resources within a check, and the check of one.
Nested   == {Static("resource", c.mod, c.data) :
               c \in {c \in config.check : c.data # "none"}}
CheckAround(d) == CHOOSE v \in CheckVertices :
  \E c \in config.check : v = CheckOf(c) /\ d = Static("resource", c.mod, c.data)

\* The function f, and g where f is not defined.
Merge(f, g) == [x \in DOMAIN f \cup DOMAIN g |-> IF x \in DOMAIN f THEN f[x] ELSE g[x]]

-----------------------------------------------------------------------------
(* The expander.                                                           *)

Names(i) == [j \in DOMAIN i |-> i[j][1]]

Known == {<<>>} \cup UNION {{Append(p[1], <<p[2], k>>) : k \in calls[p]} :
                              p \in DOMAIN calls}

ExpandModule(m) == {i \in Known : Names(i) = m}

\* ExpandModule panics: a call on the way is not registered.
Unexpanded(m) ==
  \E i \in Known : /\ Len(i) < Len(m) /\ Names(i) = SubSeq(m, 1, Len(i))
                   /\ <<i, m[Len(i) + 1]>> \notin DOMAIN calls

Expand(register, instances, name) ==
  Merge([p \in instances \X {name} |-> config.keys[name]], register)

Registered(register, instances, name) ==
  \E i \in instances : <<i, name>> \in DOMAIN register

InstancesOf(v) == {Instance(v, p[1], p[2]) :
                     p \in ExpandModule(v.mod) \X config.keys[v.name]}
AssertsOf(v) == {CheckAssert(v, i) : i \in ExpandModule(v.mod)}

-----------------------------------------------------------------------------
(* The results of the checks.                                              *)

Status == {"Unknown", "Pass", "Fail", "Error"}

\* One check rule of each type stands for all of them.
Types(v) == IF v.kind = "resource" THEN {"pre", "post"}
            ELSE {"assert"} \cup {"data" : d \in {d \in Nested : CheckAround(d) = v}}

Rules(v, objs) == objs \X Types(v)

\* Mutated: a check not yet heard of passes.
Pending_Passes(v, objs) == [x \in Rules(v, objs) |-> "Pass"]
Pending(v, objs) == [x \in Rules(v, objs) |-> "Unknown"]

\* The first report of the objects wins.
ReportObjects(v, objs) ==
  IF v \in DOMAIN objects THEN UNCHANGED <<objects, result>>
  ELSE /\ objects' = Merge([x \in {v} |-> objs], objects)
       /\ result' = Merge(Pending(v, objs), result)

\* ReportCheckResult panics: an object nobody reported, or a second result.
BadReport(o, type) ==
  \/ Owner(o) \notin DOMAIN objects
  \/ <<o, type>> \notin DOMAIN result
  \/ result[<<o, type>>] # "Unknown"

Summarize(S) == IF "Error" \in S THEN "Error" ELSE IF "Fail" \in S THEN "Fail"
                ELSE IF "Unknown" \in S THEN "Unknown" ELSE "Pass"

ObjectStatus(o) == Summarize({result[<<o, t>>] : t \in Types(Owner(o))})

Aggregate(v) ==
  IF v \notin DOMAIN objects THEN "Unknown"
  ELSE Summarize({result[x] : x \in Rules(v, objects[v])})
==============================================================================
