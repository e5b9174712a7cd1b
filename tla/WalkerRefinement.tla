-------------------------- MODULE WalkerRefinement ---------------------------
(***************************************************************************)
(* A Walker that is given one graph (AcyclicGraph.Walk calls Update once,  *)
(* then Wait) implements GraphWalk.                                        *)
(***************************************************************************)
EXTENDS WalkerInvariant

\* The state of a vertex as its walkVertex goroutine stands.
VertexState(v) ==
  LET i == <<v, 1>>
  IN  IF outcome[i] # "none" THEN outcome[i]
      ELSE IF pc[i] = "callback" THEN "running" ELSE "pending"

DependsOn(E) == {<<Waits(e), Dep(e)>> : e \in E}

Abstract == INSTANCE GraphWalk WITH
  Graphs   <- {[V |-> g.V, E |-> DependsOn(g.E)] : g \in Graphs},
  graph    <- [V |-> vertices, E |-> DependsOn(edges)],
  state    <- [v \in Vertex |-> VertexState(v)],
  returned <- waited,
  errors   <- reported

\* Every behaviour of the walker on one graph is one of the abstract walk:
\* order, one visit per vertex, skips, the result of Wait, and the end.
ImplementsGraphWalk == Abstract!Spec

\* Its part without the fairness: each step of the walker is a step of the
\* abstract walk, or none.
ImplementsGraphWalkSteps == Abstract!Init /\ [][Abstract!Next]_Abstract!vars

\* The one Update of such a walk takes the graph as it is: it removes nothing,
\* and the deps of a walkerVertex are the edges of its vertex.
OneGraph ==
  /\ cancelCh = {} /\ toCancel = {}
  /\ nUpdates = 0 => vertices = {} /\ edges = {}
  /\ nUpdates > 0 => vertices # {}
  /\ \A v \in Vertex : current[v] # 0 => v \in vertices
  /\ \A v \in vertices : \A d \in deps[v] :
       \E e \in edges : Waits(e) = v /\ d = Current(Dep(e))
=============================================================================
