----------------------------- MODULE GraphWalk ------------------------------
(***************************************************************************)
(* What a walk of one graph promises to the code that runs it              *)
(* (AcyclicGraph.Walk, internal/dag/dag.go): every vertex is visited once, *)
(* after all the vertices it depends on; a vertex with a dependency that   *)
(* failed or was skipped is skipped; the walk returns the errors of the    *)
(* vertices that failed.                                                   *)
(***************************************************************************)
CONSTANTS Vertex,  \* the vertices any graph may hold
          Graphs   \* records [V, E]; <<v, w>> \in E: v depends on w

VARIABLES graph, state, returned, errors

vars == <<graph, state, returned, errors>>

Deps(v) == {w \in graph.V : <<v, w>> \in graph.E}
Finished == {"ok", "error", "skipped"}

Init == /\ graph = [V |-> {}, E |-> {}]
        /\ state = [v \in Vertex |-> "pending"]
        /\ returned = FALSE /\ errors = {}

Begin(g) == /\ graph = [V |-> {}, E |-> {}] /\ ~returned
            /\ graph' = g
            /\ UNCHANGED <<state, returned, errors>>

Start(v) == /\ v \in graph.V /\ state[v] = "pending"
            /\ \A w \in Deps(v) : state[w] = "ok"
            /\ state' = [state EXCEPT ![v] = "running"]
            /\ UNCHANGED <<graph, returned, errors>>

Finish(v) == /\ state[v] = "running"
             /\ \E s \in {"ok", "error"} : state' = [state EXCEPT ![v] = s]
             /\ UNCHANGED <<graph, returned, errors>>

\* A skip waits for the other dependencies too.
Skip(v) == /\ v \in graph.V /\ state[v] = "pending"
           /\ \A w \in Deps(v) : state[w] \in Finished
           /\ \E w \in Deps(v) : state[w] # "ok"
           /\ state' = [state EXCEPT ![v] = "skipped"]
           /\ UNCHANGED <<graph, returned, errors>>

Return == /\ graph # [V |-> {}, E |-> {}] /\ ~returned
          /\ \A v \in graph.V : state[v] \in Finished
          /\ returned' = TRUE
          /\ errors' = {v \in graph.V : state[v] = "error"}
          /\ UNCHANGED <<graph, state>>

Visit(v) == Start(v) \/ Finish(v) \/ Skip(v)

Next == \/ \E g \in Graphs : Begin(g)
        \/ \E v \in Vertex : Visit(v)
        \/ Return

Spec == /\ Init /\ [][Next]_vars
        /\ \A v \in Vertex : WF_vars(Visit(v))
        /\ WF_vars(Return)
=============================================================================
