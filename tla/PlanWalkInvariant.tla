--------------------------- MODULE PlanWalkInvariant ---------------------------
(***************************************************************************)
(* Why PlanWalk has its properties: the inductive invariant, in parts.  It *)
(* speaks of a walk that is not over; what is left of it then, is said by  *)
(* the properties themselves.                                              *)
(***************************************************************************)
EXTENDS PlanWalk

-----------------------------------------------------------------------------
(* The graph that is walked.                                               *)

ReportVertices == {Report(c) : c \in config.check}

\* The vertices that are neither an instance nor an assertion.
Fixed == ConfigVertices \cup ReportVertices \cup {Start}

Expandable == Resources \cup CheckVertices

\* What belongs to a graph that a vertex made of itself.
Made(w) == w.kind = "assert" \/ (w.kind = "instance" /\ op = "plan")

\* The vertices of the configuration are there, and of the others only
\* those of its instances; an apply has those it needs.
VerticesFit ==
  /\ ConfigVertices \subseteq DOMAIN status
  /\ op = "plan" => ReportVertices \subseteq DOMAIN status
  /\ \A w \in DOMAIN status :
       w \in Fixed \/ (Owner(w) \in Expandable /\ w \in Expected(Owner(w)))
  /\ op = "apply" => \A v \in Resources :
       v \in (Checked \ Data) \cup Nested => Expected(v) \subseteq DOMAIN status

\* What waits for what.
EdgesFit ==
  /\ \A v \in DOMAIN status \cap Fixed :
       v.mod # <<>> /\ v # Expander(v.mod) => Expander(v.mod) \in Waits(v)
  /\ \A m \in config.module :
       Len(m) > 1 => Expander(Front(m)) \in Waits(Expander(m))
  /\ \A v \in DOMAIN status :
       v.mod # <<>> /\ ClosesAfter(v) /\ ~Made(v) => v \in Waits(Closer(v.mod))
  /\ \A m \in config.module : \A j \in 1..(Len(m) - 1) :
       Closer(m) \in Waits(Closer(SubSeq(m, 1, j)))
  /\ op = "plan" => ReportEdges \subseteq edges
  /\ \A e \in edges : ~Made(e[1]) /\ e[2] \in DOMAIN status

-----------------------------------------------------------------------------
(* How far the visits are.                                                 *)

StatusIsMap == status = [v \in DOMAIN status |-> status[v]]

StatusFits ==
  \A v \in DOMAIN status :
    /\ status[v] \in {"pending", "executing", "walking"} \cup Ended
    /\ status[v] = "executing" => ~Expands(v)
    /\ status[v] = "walking" => Expands(v)

\* A visit begins after all it waits for.
WalkOrder == \A v \in Visited : \A w \in Waits(v) : status[w] = "done"

\* A vertex that makes a graph of itself makes it whole, and is done when
\* all of it is.
SubsFit ==
  /\ \A w \in DOMAIN status : Made(w) =>
       /\ status[w] # "skipped"
       /\ status[Owner(w)] \in {"walking", "done", "failed"}
       /\ status[Owner(w)] = "done" => status[w] = "done"
  /\ \A v \in Expandable :
       Expands(v) /\ status[v] \in {"walking", "done"} => Expected(v) \subseteq DOMAIN status

\* Behind a module's closer all is done: what is in the module and in
\* those inside it.
ClosersFit ==
  \A m \in config.module : Closer(m) \in Visited =>
    \A w \in DOMAIN status :
      IsPrefix(m, w.mod) /\ w # Closer(m) /\ ~IsCheck(w) /\ ~IsNested(w) => status[w] = "done"

\* The expanders of the modules around one that is expanded are done.
AncestorsExpanded ==
  \A m \in config.module : Expander(m) \in Visited =>
    \A j \in 1..(Len(m) - 1) :
      /\ SubSeq(m, 1, j) \in config.module
      /\ status[Expander(SubSeq(m, 1, j))] = "done"

-----------------------------------------------------------------------------
(* The expander.                                                           *)

Tried(v) == v \in DOMAIN status /\ status[v] \in {"done", "failed"}

\* Calls and module instances are there when the vertex of the module has
\* registered them, and have the instances of the configuration.
CallsFit ==
  /\ \A p \in DOMAIN calls :
       /\ p = <<p[1], p[2]>> /\ p[1] \in Known
       /\ Append(Names(p[1]), p[2]) \in config.module
       /\ Tried(Expander(Append(Names(p[1]), p[2])))
       /\ calls[p] = config.keys[p[2]]
  /\ \A i \in Known :
       /\ i \in ModuleInstances(Names(i))
       /\ Names(i) = <<>> \/ (Names(i) \in config.module /\ Tried(Expander(Names(i))))

\* An expander that is done has registered its call in every instance of
\* the module around it.
ExpandersFit ==
  \A m \in config.module : status[Expander(m)] = "done" =>
    \A i \in ModuleInstances(Front(m)) : i \in Known /\ <<i, Last(m)>> \in DOMAIN calls

\* A resource is registered by its own vertex.
ExpansionFits ==
  \A p \in DOMAIN expansion :
    LET v == Static("resource", Names(p[1]), p[2])
    IN  /\ p = <<p[1], p[2]>> /\ p[1] \in Known
        /\ v \in DOMAIN status /\ status[v] \in {"walking", "done", "failed"}

-----------------------------------------------------------------------------
(* The results of the checks.                                              *)

\* The objects are those of the configuration, and each has its results.
ObjectsFit ==
  /\ DOMAIN objects \subseteq CheckableVertices
  /\ \A v \in DOMAIN objects : objects[v] = Expected(v)
  /\ DOMAIN result = UNION {Rules(v, objects[v]) : v \in DOMAIN objects}
  /\ \A x \in DOMAIN result : result[x] \in Status

\* Who may report a result finds its object reported.
ObjectsReported ==
  /\ op = "apply" => CheckableVertices \subseteq DOMAIN objects
  /\ \A c \in config.check :
       Report(c) \in DOMAIN status /\ status[Report(c)] = "done" => CheckOf(c) \in DOMAIN objects
  /\ \A v \in Checked : status[v] \in {"walking", "done"} => v \in DOMAIN objects
  /\ \A w \in DOMAIN status :
       w.kind = "instance" /\ Owner(w) \in Checked => Owner(w) \in DOMAIN objects

\* The check's object that an instance nested in a check reports to.
ObjectOf(w) == CheckAssert(CheckAround(Owner(w)), w.inst)

\* A result comes from the visit of its object, or of the data nested in it.
ResultsFit ==
  \A x \in DOMAIN result : result[x] # "Unknown" =>
    \/ x[2] # "data" /\ Tried(x[1])
    \/ x[2] = "data" /\ \E w \in DOMAIN status :
         w.kind = "instance" /\ IsNested(w) /\ ObjectOf(w) = x[1] /\ Tried(w)

\* Data nested in a check is never left out of an apply.
NoopFits == \A w \in noop : w.kind = "instance" /\ ~IsNested(w)

\* The results that w has to report.
Settled(w) ==
  /\ w.kind = "instance" /\ Owner(w) \in Checked \ Data =>
       \A t \in {"pre", "post"} : result[<<w, t>>] # "Unknown"
  /\ w.kind = "instance" /\ IsNested(w) => result[<<ObjectOf(w), "data">>] # "Unknown"
  /\ w.kind = "assert" =>
       \/ result[<<w, "assert">>] # "Unknown"
       \/ \E t \in Types(Owner(w)) : result[<<w, t>>] \in {"Fail", "Error"}

\* In an apply, a visit that is done leaves no result open, except that
\* of a check that fails already.
Answered == op = "apply" => \A w \in DOMAIN status : status[w] = "done" => Settled(w)

-----------------------------------------------------------------------------
GraphFits == VerticesFit /\ EdgesFit
VisitsFit == StatusIsMap /\ StatusFits /\ WalkOrder /\ SubsFit /\ ClosersFit /\ AncestorsExpanded
ExpanderFits == CallsFit /\ ExpandersFit /\ ExpansionFits
ChecksFit == ObjectsFit /\ ObjectsReported /\ ResultsFit /\ NoopFits /\ Answered

Under == GraphFits /\ VisitsFit /\ ExpanderFits /\ ChecksFit

PlanWalkInv ==
  /\ config \in Configs /\ ~panicked
  /\ \/ op \in {"plan", "apply"} /\ Under
     \/ /\ op = "over" /\ \A v \in DOMAIN status : status[v] \in Ended
        /\ TypeOK /\ PassIsProven /\ ModuleClosedLast
==============================================================================
