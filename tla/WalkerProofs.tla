---------------------------- MODULE WalkerProofs -----------------------------
(***************************************************************************)
(* Theorems about Walker, for every set of vertices and graphs and any     *)
(* number of Updates.                                                      *)
(***************************************************************************)
EXTENDS WalkerRefinement, TLAPS

\* Where channel numbers and walkerVertices live.
LEMMA Numbers == /\ Nil \in Chan
                 /\ \A k \in Updates : k \in Chan /\ k \in Int /\ k # Nil
                 /\ \A k \in Chan : k # Nil => k \in Updates
                 /\ \A v \in Vertex, k \in Updates : <<v, k>> \in Inst
                 /\ \A i \in Inst : i[1] \in Vertex /\ i[2] \in Updates /\ i = <<i[1], i[2]>>
  BY WalkerAssumption DEF Nil, Chan, Updates, Inst

\* The ends of an edge are vertices, and of a graph's edge vertices of it.
LEMMA EdgeEnds ==
  /\ \A e \in Vertex \X Vertex : Waits(e) \in Vertex /\ Dep(e) \in Vertex
  /\ \A g \in Graphs : /\ g.V \subseteq Vertex /\ g.E \subseteq Vertex \X Vertex
                       /\ \A e \in g.E : Waits(e) \in g.V /\ Dep(e) \in g.V
  BY WalkerAssumption DEF IsGraph, Waits, Dep

\* A vertex of the graph has a walkerVertex in vertexMap; the rest of an Update
\* is about vertices of the graph.
VerticesMapped ==
  /\ \A v \in vertices : current[v] \in Updates
  /\ \A v \in Vertex : current[v] \in 0..nUpdates
  /\ vertices # {} => nUpdates \in Updates
  /\ toNotify \cup swapped \cup toStart \subseteq vertices

Typed == TypeOK /\ VerticesMapped

\* The walker's goroutines and Wait change nothing of Update's.
LEMMA GoroutinesLeaveUpdate ==
  ASSUME \/ \E i \in Inst : Walk(i)
         \/ \E i \in Inst, k \in Updates : Waiter(i, k)
         \/ Wait
  PROVE  UNCHANGED updateVars
<1>1. ASSUME NEW i \in Inst, Walk(i) PROVE UNCHANGED updateVars
  BY <1>1 DEF Walk, WalkCancel, WalkFirst, WalkReceive, WalkUpdated, WalkReload, WalkCheck,
              WalkRecord, WalkDefer, WalkCallbackReturns
<1>2. ASSUME NEW i \in Inst, NEW k \in Updates, Waiter(i, k) PROVE UNCHANGED updateVars
  BY <1>2 DEF Waiter, WaiterSatisfied, WaiterCancelled, WaiterVerdict
<1>3. QED
  BY <1>1, <1>2 DEF Wait

\* Typed is inductive.
LEMMA TypedInvariant == Spec => []Typed
<1>1. Init => Typed
  <2> SUFFICES ASSUME Init PROVE Typed
    OBVIOUS
  <2> USE Numbers, WalkerAssumption DEF Init
  <2>1. /\ nUpdates \in 0..MaxUpdates /\ current \in [Vertex -> Chan]
        /\ \A v \in Vertex : current[v] \in 0..nUpdates
    BY DEF Chan, Nil
  <2>2. QED
    BY <2>1 DEF Typed, TypeOK, VerticesMapped
<1>2. Typed /\ [Next]_vars => TypeOK'
  <2> SUFFICES ASSUME TypeOK, VerticesMapped, [Next]_vars PROVE TypeOK'
    BY DEF Typed
  <2> USE Numbers DEF TypeOK
  <2>1. ASSUME NEW g \in Graphs, UpdateBegin(g) PROVE TypeOK'
    <3> DEFINE n == nUpdates + 1
    <3>1. g.V \subseteq Vertex /\ g.E \subseteq Vertex \X Vertex
      BY EdgeEnds
    <3>2. n \in 0..MaxUpdates /\ n \in Updates
      BY <2>1, WalkerAssumption DEF UpdateBegin, Updates
    <3>3. current' \in [Vertex -> Chan]
      BY <2>1, <3>2 DEF UpdateBegin
    <3>4. edges' \subseteq Vertex \X Vertex
      BY <2>1, <3>1 DEF UpdateBegin, AddedEdges
    <3>5. \A e \in AddedEdges(g) \cup RemovedEdges(g) :
             Waits(e) \in Vertex /\ Dep(e) \in Vertex
      BY <3>1, EdgeEnds DEF AddedEdges, RemovedEdges
    <3>6. toNotify' \subseteq Vertex
      BY <2>1, <3>5 DEF UpdateBegin
    <3>7. toCancel' \subseteq Inst
      BY <2>1 DEF UpdateBegin, VerticesMapped
    <3>8. deps' \in [Vertex -> SUBSET Inst]
      <4>1. \A w \in g.V : <<w, current'[w]>> \in Inst
        BY <2>1, <3>1, <3>2 DEF UpdateBegin, VerticesMapped
      <4>2. \A e \in AddedEdges(g) : Dep(e) \in g.V
        BY EdgeEnds DEF AddedEdges
      <4>3. ASSUME NEW v \in Vertex PROVE UpdatedDeps(g, v, current') \subseteq Inst
        <5> DEFINE add == {Dep(e) : e \in {x \in AddedEdges(g) : Waits(x) = v}}
        <5>1. add \subseteq g.V
          BY <4>2
        <5> HIDE DEF add
        <5>2. \A w \in add : <<w, current'[w]>> \in Inst
          BY <4>1, <5>1
        <5>3. (IF v \in vertices THEN deps[v] ELSE {}) \subseteq Inst
          OBVIOUS
        <5>4. QED
          BY <5>2, <5>3 DEF UpdatedDeps, add
      <4>4. deps' = [v \in Vertex |-> IF v \in g.V THEN UpdatedDeps(g, v, current') ELSE {}]
        BY <2>1 DEF UpdateBegin
      <4>5. QED
        BY <4>3, <4>4
    <3>9. pc' \in [Inst -> {"none", "added", "begin", "select", "reload", "check", "callback",
                      "record", "exit", "closed", "gone"}]
      BY <2>1 DEF UpdateBegin
    <3>10. QED
      BY <2>1, <3>1, <3>2, <3>3, <3>4, <3>6, <3>7, <3>8, <3>9
      DEF UpdateBegin, vertexVars, waiterVars, resultVars
  <2>2. ASSUME NEW i \in Inst, UpdateCancel(i) PROVE TypeOK'
    BY <2>2 DEF UpdateCancel, walkVars, waiterVars, resultVars
  <2>3. ASSUME NEW v \in Vertex, UpdateSwap(v) PROVE TypeOK'
    <3>1. <<v, current[v]>> \in Inst /\ nUpdates \in Chan
      BY <2>3 DEF UpdateSwap, VerticesMapped
    <3>2. QED
      BY <2>3, <3>1 DEF UpdateSwap, walkVars, waiterVars, resultVars
  <2>4. ASSUME NEW v \in Vertex, UpdateWaiter(v) PROVE TypeOK'
    <3>1. <<v, current[v]>> \in Inst /\ nUpdates \in Updates
      BY <2>4 DEF UpdateWaiter, VerticesMapped
    <3>2. QED
      BY <2>4, <3>1 DEF UpdateWaiter, walkVars, resultVars
  <2>5. ASSUME NEW v \in Vertex, UpdateStart(v) PROVE TypeOK'
    BY <2>5 DEF UpdateStart, vertexVars, waiterVars, resultVars
  <2>6. ASSUME NEW i \in Inst, Walk(i) PROVE TypeOK'
    <3> USE DEF updateVars, vertexVars, waiterVars, resultVars, GoTo
    <3>1. CASE WalkCancel(i) BY <3>1 DEF WalkCancel
    <3>2. CASE WalkFirst(i) BY <3>2 DEF WalkFirst
    <3>3. CASE WalkReceive(i) BY <3>3 DEF WalkReceive
    <3>4. CASE WalkUpdated(i) BY <3>4 DEF WalkUpdated
    <3>5. CASE WalkReload(i) BY <3>5 DEF WalkReload
    <3>6. CASE WalkCheck(i) BY <3>6 DEF WalkCheck
    <3>7. CASE WalkRecord(i) BY <3>7 DEF WalkRecord
    <3>8. CASE WalkDefer(i) BY <3>8 DEF WalkDefer
    <3>9. ASSUME NEW result \in {"ok", "error"}, WalkCallbackReturns(i, result)
          PROVE TypeOK'
      BY <3>9 DEF WalkCallbackReturns
    <3>10. QED
      BY <2>6, <3>1, <3>2, <3>3, <3>4, <3>5, <3>6, <3>7, <3>8, <3>9 DEF Walk
  <2>7. ASSUME NEW i \in Inst, NEW k \in Updates, Waiter(i, k) PROVE TypeOK'
    <3> USE DEF updateVars, vertexVars, walkVars, resultVars
    <3>1. CASE WaiterSatisfied(i, k) BY <3>1 DEF WaiterSatisfied
    <3>2. CASE WaiterCancelled(i, k) BY <3>2 DEF WaiterCancelled
    <3>3. CASE WaiterVerdict(i, k) BY <3>3 DEF WaiterVerdict
    <3>4. QED
      BY <2>7, <3>1, <3>2, <3>3 DEF Waiter
  <2>8. CASE Wait
    BY <2>8 DEF Wait, updateVars, vertexVars, walkVars, waiterVars
  <2>9. CASE UNCHANGED vars
    BY <2>9 DEF vars, updateVars, vertexVars, walkVars, waiterVars, resultVars
  <2>10. QED
    BY <2>1, <2>2, <2>3, <2>4, <2>5, <2>6, <2>7, <2>8, <2>9 DEF Next, UpdateStep
<1>3. Typed /\ [Next]_vars => VerticesMapped'
  <2> SUFFICES ASSUME Typed, [Next]_vars PROVE VerticesMapped'
    OBVIOUS
  <2>1. ASSUME NEW g \in Graphs, UpdateBegin(g) PROVE VerticesMapped'
    <3>1. nUpdates + 1 \in Updates /\ g.V \subseteq Vertex
      BY <2>1, EdgeEnds, WalkerAssumption DEF UpdateBegin, Updates, Typed, TypeOK
    <3>2. \A v \in g.V : current'[v] \in Updates
      BY <2>1, <3>1 DEF UpdateBegin, VerticesMapped, Typed, TypeOK
    <3>3. toNotify' \subseteq g.V
      BY <2>1, EdgeEnds DEF UpdateBegin, AddedEdges, RemovedEdges
    <3>4. toNotify = {} /\ swapped = {} /\ vertices' = g.V /\ nUpdates' \in Updates
          /\ toStart' \subseteq g.V /\ swapped' = swapped
      BY <2>1, <3>1 DEF UpdateBegin, UpdateIdle
    <3>5. \A v \in Vertex : current'[v] \in 0..nUpdates'
      <4>1. nUpdates \in Int /\ nUpdates' = nUpdates + 1 /\ nUpdates >= 0
            /\ current' = [v \in Vertex |-> IF v \in g.V \ vertices THEN nUpdates + 1 ELSE current[v]]
        BY <2>1, WalkerAssumption DEF UpdateBegin, Typed, TypeOK
      <4>2. QED
        BY <4>1 DEF Typed, VerticesMapped
    <3>6. QED
      BY <3>2, <3>3, <3>4, <3>5 DEF VerticesMapped
  <2>2. CASE UpdateStep
    BY <2>2 DEF UpdateStep, UpdateCancel, UpdateSwap, UpdateWaiter, UpdateStart, VerticesMapped,
                Typed
  <2>3. CASE UNCHANGED updateVars
    BY <2>3 DEF VerticesMapped, Typed, updateVars
  <2>4. QED
    BY <2>1, <2>2, <2>3, GoroutinesLeaveUpdate DEF Next, vars
<1>4. QED
  BY <1>1, <1>2, <1>3, PTL DEF Spec, Typed

\* Every variable keeps its type, whatever graphs Update is given.
THEOREM TypeCorrect == Spec => []TypeOK
  BY TypedInvariant, PTL DEF Typed

-----------------------------------------------------------------------------
(* The order of the walk, when no vertex is brought back. *)

LEMMA OrderInit == Init => OrderInv
  BY DEF Init, OrderInv, OneInstance, FreshInstances, UpdatePhases, OutcomeRecorded,
         WaitersHonest, VerdictObeyed, Ran, Nil

\* Update keeps the order.
LEMMA OrderBegin ==
  ASSUME AllowReadd = FALSE, Typed, OrderInv, NEW g \in Graphs, UpdateBegin(g)
  PROVE  OrderInv'
<1> USE Numbers DEF UpdateBegin, OrderInv, vertexVars, waiterVars, resultVars, Typed, TypeOK
<1> DEFINE n == nUpdates + 1
<1>1. n \in Updates /\ \A k \in Updates : k <= nUpdates => k # n
  BY WalkerAssumption DEF Updates
<1>2. OneInstance'
  <2>1. \A i \in Inst : pc'[i] # "none" => i = Current(i[1])'
    BY <1>1 DEF OneInstance, Current, Nil
  <2>2. \A v \in g.V : pc'[Current(v)'] # "none"
    BY <1>1, EdgeEnds DEF OneInstance, Current, VerticesMapped
  <2>3. QED
    BY <2>1, <2>2 DEF OneInstance
<1>3. FreshInstances'
  <2>1. \A i \in Inst : pc'[i] = pc[i] \/ (pc[i] = "none" /\ pc'[i] = "added")
    BY <1>1 DEF OneInstance, Current, Nil
  <2>2. QED
    BY <2>1 DEF FreshInstances
<1>4. UpdatePhases'
  <2>1. \A i \in Inst, k \in Updates : waiter'[i][k] # "none" => k <= nUpdates'
    <3>1. nUpdates \in Int /\ nUpdates' = nUpdates + 1 /\ waiter' = waiter
      BY WalkerAssumption
    <3>2. \A m, k \in Int : k <= m => k <= m + 1
      OBVIOUS
    <3> HIDE DEF UpdateBegin, TypeOK
    <3>3. QED
      BY <3>1, <3>2 DEF UpdatePhases, Updates
  <2>2. \A v \in toNotify' \cup swapped' : v \in Vertex /\ current'[v] \in Updates
    <3>1. toNotify' \cup swapped' \subseteq g.V
      BY EdgeEnds DEF UpdateIdle, AddedEdges, RemovedEdges
    <3>2. \A v \in g.V : v \in Vertex /\ current'[v] \in Updates
      BY <1>1, EdgeEnds DEF VerticesMapped
    <3>3. QED
      BY <3>1, <3>2
  <2>3. \A v \in toNotify' \cup swapped' : waiter'[Current(v)'][nUpdates'] = "none"
    <3>1. \A i \in Inst : waiter[i][n] = "none"
      BY <1>1 DEF UpdatePhases
    <3>2. \A v \in toNotify' \cup swapped' : Current(v)' \in Inst
      BY <2>2 DEF Current
    <3>3. waiter' = waiter /\ nUpdates' = n
      OBVIOUS
    <3>4. QED
      BY <3>1, <3>2, <3>3
  <2>4. \A v \in toStart' : current'[v] = nUpdates' /\ pc'[Current(v)'] = "added"
    BY <1>1, EdgeEnds DEF Current
  <2>5. QED
    BY <2>1, <2>3, <2>4 DEF UpdatePhases, UpdateIdle
<1>5. \A i \in Inst : pc'[i] = pc[i] \/ (pc[i] = "none" /\ pc'[i] = "added")
  BY <1>1 DEF OneInstance, Current, Nil
<1>6. OutcomeRecorded'
  BY <1>5 DEF OutcomeRecorded
<1>7. WaitersHonest'
  <2>1. \A i \in Inst : DoneChClosed(i) => DoneChClosed(i)'
    BY <1>5 DEF DoneChClosed
  <2>2. QED
    BY <2>1 DEF WaitersHonest
<1>8. VerdictObeyed'
  BY <1>5 DEF VerdictObeyed, Ran
<1>9. QED
  BY <1>2, <1>3, <1>4, <1>6, <1>7, <1>8

\* The steps of Update that goroutines see.
LEMMA OrderUpdateStep ==
  ASSUME Typed, OrderInv, UpdateStep
  PROVE  OrderInv'
<1> USE Numbers DEF OrderInv, Typed, TypeOK
<1>1. ASSUME NEW i \in Inst, UpdateCancel(i) PROVE OrderInv'
  BY <1>1 DEF UpdateCancel, walkVars, waiterVars, resultVars, OneInstance, FreshInstances,
              UpdatePhases, OutcomeRecorded, WaitersHonest, VerdictObeyed, Ran, DoneChClosed,
              Current
<1>2. ASSUME NEW v \in Vertex, UpdateSwap(v) PROVE OrderInv'
  <2>1. OneInstance' /\ OutcomeRecorded' /\ WaitersHonest' /\ VerdictObeyed'
    BY <1>2 DEF UpdateSwap, walkVars, waiterVars, resultVars, OneInstance,
                OutcomeRecorded, WaitersHonest, VerdictObeyed, Ran, DoneChClosed, Current
  <2>2. UpdatePhases'
    BY <1>2 DEF UpdateSwap, walkVars, waiterVars, UpdatePhases, Current
  <2>3. FreshInstances'
    <3>1. pc[Current(v)] # "none" /\ Current(v) \in Inst
      BY <1>2 DEF UpdateSwap, OneInstance, VerticesMapped, Current
    <3>2. QED
      BY <1>2, <3>1 DEF UpdateSwap, walkVars, FreshInstances, Current
  <2>4. QED
    BY <2>1, <2>2, <2>3
<1>3. ASSUME NEW v \in Vertex, UpdateWaiter(v) PROVE OrderInv'
  <2>1. OneInstance' /\ OutcomeRecorded' /\ FreshInstances'
    BY <1>3 DEF UpdateWaiter, walkVars, resultVars, OneInstance, FreshInstances,
                OutcomeRecorded, Current
  <2>2. /\ Current(v) \in Inst /\ nUpdates \in Updates /\ nUpdates <= nUpdates
        /\ waiter[Current(v)][nUpdates] = "none"
    BY <1>3 DEF UpdateWaiter, VerticesMapped, UpdatePhases, Current
  <2>3. \A i \in Inst, k \in Updates :
          \/ waiter'[i][k] = waiter[i][k] /\ snapshot'[i][k] = snapshot[i][k]
          \/ i = Current(v) /\ k = nUpdates /\ waiter'[i][k] = "waiting"
    BY <1>3, <2>2 DEF UpdateWaiter, Current
  <2>4. UpdatePhases'
    <3>1. /\ toNotify' = toNotify /\ swapped' = {} /\ toStart' = toStart /\ v \notin toNotify
          /\ nUpdates' = nUpdates /\ current' = current /\ pc' = pc
      BY <1>3 DEF UpdateWaiter, walkVars, UpdatePhases
    <3>2. \A w \in toNotify : w \in Vertex /\ Current(w) \in Inst /\ Current(w) # Current(v)
      BY <3>1 DEF VerticesMapped, Current
    <3>3. \A w \in toNotify : waiter'[Current(w)][nUpdates] = "none"
      BY <2>2, <2>3, <3>2 DEF UpdatePhases
    <3>4. QED
      <4> HIDE DEF TypeOK
      <4>1. \A j \in Inst, k \in Updates : waiter'[j][k] # "none" => k <= nUpdates
        BY <2>2, <2>3 DEF UpdatePhases
      <4>2. QED
        BY <3>1, <3>3, <4>1 DEF UpdatePhases, Current
  <2>5. WaitersHonest'
    BY <1>3, <2>2, <2>3 DEF UpdateWaiter, walkVars, WaitersHonest, DoneChClosed
  <2>6. VerdictObeyed'
    <3>1. ASSUME NEW j \in Inst, verdictFrom[j] # Nil
          PROVE  waiter'[j][verdictFrom[j]] = waiter[j][verdictFrom[j]]
      <4>1. verdictFrom[j] \in Updates /\ waiter[j][verdictFrom[j]] # "none"
        BY <3>1 DEF VerdictObeyed
      <4>2. QED
        BY <4>1, <2>2, <2>3
    <3>2. UNCHANGED <<pc, verdictFrom, depsSuccess, outcome>>
      BY <1>3 DEF UpdateWaiter, walkVars
    <3>3. QED
      BY <3>1, <3>2 DEF VerdictObeyed, Ran
  <2>7. QED
    BY <2>1, <2>4, <2>5, <2>6
<1>4. ASSUME NEW v \in Vertex, UpdateStart(v) PROVE OrderInv'
  BY <1>4 DEF UpdateStart, vertexVars, waiterVars, resultVars, OneInstance, FreshInstances,
              UpdatePhases, OutcomeRecorded, WaitersHonest, VerdictObeyed, Ran, DoneChClosed,
              Current
<1>5. QED
  BY <1>1, <1>2, <1>3, <1>4 DEF UpdateStep

\* The steps of the walkVertex goroutines.
LEMMA OrderWalk ==
  ASSUME Typed, OrderInv, NEW i \in Inst, Walk(i)
  PROVE  OrderInv'
<1> USE Numbers DEF Typed, TypeOK, OrderInv, updateVars, vertexVars, waiterVars, resultVars, GoTo
<1>0. /\ \A v \in vertices : Current(v) \in Inst
      /\ toStart \subseteq vertices
  BY DEF VerticesMapped, Current
<1>1. CASE WalkCancel(i)
  BY <1>1 DEF WalkCancel, OneInstance, FreshInstances, UpdatePhases, OutcomeRecorded,
              WaitersHonest, VerdictObeyed, Ran, DoneChClosed, Current
<1>2. CASE WalkFirst(i)
  <2>1. OneInstance' /\ FreshInstances'
    BY <1>0, <1>2 DEF WalkFirst, OneInstance, FreshInstances, Current
  <2>2. UpdatePhases'
    BY <1>0, <1>2 DEF WalkFirst, OneInstance, FreshInstances, UpdatePhases, Current
  <2>3. OutcomeRecorded'
    BY <1>2 DEF WalkFirst, OneInstance, OutcomeRecorded, Current
  <2>4. WaitersHonest'
    BY <1>2 DEF WalkFirst, OutcomeRecorded, WaitersHonest, DoneChClosed
  <2>5. VerdictObeyed'
    BY <1>2 DEF WalkFirst, FreshInstances, OutcomeRecorded, VerdictObeyed, Ran
  <2>6. QED
    BY <2>1, <2>2, <2>3, <2>4, <2>5
<1>3. CASE WalkReceive(i)
  <2>1. OneInstance' /\ FreshInstances'
    BY <1>0, <1>3 DEF WalkReceive, OneInstance, FreshInstances, Current
  <2>2. UpdatePhases'
    BY <1>0, <1>3 DEF WalkReceive, OneInstance, FreshInstances, UpdatePhases, Current
  <2>3. OutcomeRecorded'
    BY <1>3 DEF WalkReceive, OneInstance, OutcomeRecorded, Current
  <2>4. WaitersHonest'
    BY <1>3 DEF WalkReceive, OutcomeRecorded, WaitersHonest, DoneChClosed
  <2>5. VerdictObeyed'
    <3>1. ASSUME NEW j \in Inst, j # i
          PROVE  /\ verdictFrom'[j] = verdictFrom[j] /\ depsSuccess'[j] = depsSuccess[j]
                 /\ Ran(j)' <=> Ran(j)
      BY <1>3, <3>1 DEF WalkReceive, Ran
    <3>2. ~Ran(i)'
      BY <1>3 DEF WalkReceive, OutcomeRecorded, Ran
    <3>3. waiter[i][verdictFrom'[i]] = IF depsSuccess'[i] THEN "sentTrue" ELSE "sentFalse"
      <4>1. CASE waiter[i][localDepsCh[i]] = "sentTrue"
        BY <1>3, <4>1 DEF WalkReceive
      <4>2. CASE waiter[i][localDepsCh[i]] = "sentFalse"
        BY <1>3, <4>2 DEF WalkReceive
      <4>3. QED
        BY <1>3, <4>1, <4>2 DEF WalkReceive
    <3>4. waiter' = waiter
      BY <1>3 DEF WalkReceive
    <3>5. QED
      BY <3>1, <3>2, <3>3, <3>4 DEF VerdictObeyed
  <2>6. QED
    BY <2>1, <2>2, <2>3, <2>4, <2>5
<1>4. CASE WalkUpdated(i)
  BY <1>4 DEF WalkUpdated, OneInstance, FreshInstances, UpdatePhases, OutcomeRecorded,
              WaitersHonest, VerdictObeyed, Ran, DoneChClosed, Current
<1>5. CASE WalkReload(i)
  BY <1>5 DEF WalkReload, OneInstance, FreshInstances, UpdatePhases, OutcomeRecorded,
              WaitersHonest, VerdictObeyed, Ran, DoneChClosed, Current
<1>6. CASE WalkCheck(i)
  <2>1. OneInstance' /\ FreshInstances'
    BY <1>0, <1>6 DEF WalkCheck, OneInstance, FreshInstances, Current
  <2>2. UpdatePhases'
    BY <1>0, <1>6 DEF WalkCheck, OneInstance, FreshInstances, UpdatePhases, Current
  <2>3. OutcomeRecorded'
    BY <1>6 DEF WalkCheck, OneInstance, OutcomeRecorded, Current
  <2>4. WaitersHonest'
    BY <1>6 DEF WalkCheck, OutcomeRecorded, WaitersHonest, DoneChClosed
  <2>5. VerdictObeyed'
    BY <1>6 DEF WalkCheck, FreshInstances, OutcomeRecorded, VerdictObeyed, Ran
  <2>6. QED
    BY <2>1, <2>2, <2>3, <2>4, <2>5
<1>7. CASE WalkRecord(i)
  <2>1. OneInstance' /\ FreshInstances'
    BY <1>0, <1>7 DEF WalkRecord, OneInstance, FreshInstances, Current
  <2>2. UpdatePhases'
    BY <1>0, <1>7 DEF WalkRecord, OneInstance, FreshInstances, UpdatePhases, Current
  <2>3. OutcomeRecorded'
    <3>1. \A j \in Inst : pc[j] # "none" /\ j[1] = i[1] => j = i
      BY <1>7 DEF WalkRecord, OneInstance
    <3>2. QED
      BY <1>7, <3>1 DEF WalkRecord, OutcomeRecorded
  <2>4. WaitersHonest'
    BY <1>7 DEF WalkRecord, OutcomeRecorded, WaitersHonest, DoneChClosed
  <2>5. VerdictObeyed'
    BY <1>7 DEF WalkRecord, FreshInstances, OutcomeRecorded, VerdictObeyed, Ran
  <2>6. QED
    BY <2>1, <2>2, <2>3, <2>4, <2>5
<1>8. CASE WalkDefer(i)
  <2>1. OneInstance' /\ FreshInstances'
    BY <1>0, <1>8 DEF WalkDefer, OneInstance, FreshInstances, Current
  <2>2. UpdatePhases'
    BY <1>0, <1>8 DEF WalkDefer, OneInstance, FreshInstances, UpdatePhases, Current
  <2>3. OutcomeRecorded'
    BY <1>8 DEF WalkDefer, OneInstance, OutcomeRecorded, Current
  <2>4. WaitersHonest'
    <3>1. \A d \in Inst : DoneChClosed(d) => DoneChClosed(d)'
      BY <1>8 DEF WalkDefer, DoneChClosed
    <3>2. QED
      BY <1>8, <3>1 DEF WalkDefer, WaitersHonest
  <2>5. VerdictObeyed'
    BY <1>8 DEF WalkDefer, FreshInstances, OutcomeRecorded, VerdictObeyed, Ran
  <2>6. QED
    BY <2>1, <2>2, <2>3, <2>4, <2>5
<1>9. ASSUME NEW result \in {"ok", "error"}, WalkCallbackReturns(i, result)
      PROVE OrderInv'
  BY <1>9 DEF WalkCallbackReturns, OneInstance, FreshInstances, UpdatePhases, OutcomeRecorded,
              WaitersHonest, VerdictObeyed, Ran, DoneChClosed, Current
<1>10. QED
  BY <1>1, <1>2, <1>3, <1>4, <1>5, <1>6, <1>7, <1>8, <1>9 DEF Walk

\* The steps of the waitDeps goroutines.
LEMMA OrderWaiter ==
  ASSUME Typed, OrderInv, NEW i \in Inst, NEW k \in Updates, Waiter(i, k)
  PROVE  OrderInv'
<1> USE Numbers DEF Typed, TypeOK, OrderInv, updateVars, vertexVars, walkVars, resultVars
<1>1. CASE WaiterSatisfied(i, k)
  BY <1>1 DEF WaiterSatisfied, OneInstance, FreshInstances, UpdatePhases, OutcomeRecorded,
              WaitersHonest, VerdictObeyed, Ran, DoneChClosed, Current
<1>2. CASE WaiterCancelled(i, k)
  BY <1>2 DEF WaiterCancelled, OneInstance, FreshInstances, UpdatePhases, OutcomeRecorded,
              WaitersHonest, VerdictObeyed, Ran, DoneChClosed, Current
<1>3. CASE WaiterVerdict(i, k)
  BY <1>3 DEF WaiterVerdict, OneInstance, FreshInstances, UpdatePhases, OutcomeRecorded,
              WaitersHonest, VerdictObeyed, Ran, DoneChClosed, Current
<1>4. QED
  BY <1>1, <1>2, <1>3 DEF Waiter

\* OrderInv is inductive.
LEMMA OrderInvariant ==
  ASSUME AllowReadd = FALSE
  PROVE  Spec => []OrderInv
<1>1. Typed /\ OrderInv /\ [Next]_vars => OrderInv'
  <2> SUFFICES ASSUME Typed, OrderInv, [Next]_vars PROVE OrderInv'
    OBVIOUS
  <2>1. CASE Wait
    BY <2>1 DEF Wait, updateVars, vertexVars, walkVars, waiterVars, OrderInv, OneInstance,
                FreshInstances, UpdatePhases, OutcomeRecorded, WaitersHonest, VerdictObeyed,
                Ran, DoneChClosed, Current
  <2>2. CASE UNCHANGED vars
    BY <2>2 DEF vars, updateVars, vertexVars, walkVars, waiterVars, resultVars, OrderInv,
                OneInstance, FreshInstances, UpdatePhases, OutcomeRecorded, WaitersHonest,
                VerdictObeyed, Ran, DoneChClosed, Current
  <2>3. QED
    BY <2>1, <2>2, OrderBegin, OrderUpdateStep, OrderWalk, OrderWaiter DEF Next
<1>2. QED
  BY <1>1, OrderInit, TypedInvariant, PTL DEF Spec

\* A callback runs only after every dependency it waited for is done, and none
\* of them failed, for every graph and any number of Updates.
THEOREM DependenciesComeFirst ==
  ASSUME AllowReadd = FALSE
  PROVE  Spec => []DependenciesFirst
<1>1. Typed /\ OrderInv => DependenciesFirst
  <2> SUFFICES ASSUME Typed, OrderInv, NEW i \in Inst, Ran(i), NEW d \in ActedOn(i)
               PROVE  DoneChClosed(d) /\ (outcome[d] = "ok" \/ (outcome[d] = "none" /\ d \in cancelCh))
    BY DEF DependenciesFirst
  <2>1. verdictFrom[i] \in Updates /\ d \in snapshot[i][verdictFrom[i]]
    BY Numbers DEF ActedOn, Typed, TypeOK
  <2>2. waiter[i][verdictFrom[i]] = "sentTrue"
    BY <2>1, Numbers DEF OrderInv, VerdictObeyed
  <2>3. QED
    BY <2>1, <2>2 DEF OrderInv, WaitersHonest
<1>2. QED
  BY <1>1, OrderInvariant, TypedInvariant, PTL

-----------------------------------------------------------------------------
(* A vertex added by the last Update listens to the waiter of that Update. *)

LEMMA ListenInit == Init => ListenInv
  BY DEF Init, ListenInv, NewEdgesInDeps, SnapshotIsDeps, NewVerticesListen, CancelledRemoved

LEMMA ListenBegin ==
  ASSUME AllowReadd = FALSE, Typed, OrderInv, ListenInv, NEW g \in Graphs, UpdateBegin(g)
  PROVE  ListenInv'
<1> DEFINE n == nUpdates + 1
           newV == g.V \ vertices
<1>1. /\ n \in Updates /\ n # 0 /\ \A k \in Updates : k <= nUpdates => k # n
      /\ g.V \subseteq Vertex
      /\ \A v \in Vertex : current[v] # n
  <2>1. nUpdates \in Nat /\ nUpdates < MaxUpdates
    BY WalkerAssumption DEF UpdateBegin, Typed, TypeOK
  <2>2. n \in Updates /\ n # 0 /\ \A k \in Updates : k <= nUpdates => k # n
    BY <2>1, WalkerAssumption DEF Updates
  <2>3. \A v \in Vertex : current[v] # n
    BY <2>1 DEF Typed, VerticesMapped
  <2>4. QED
    BY <2>2, <2>3, EdgeEnds
<1>2. /\ nUpdates' = n /\ vertices' = g.V /\ toStart' = newV /\ swapped = {} /\ swapped' = {}
      /\ toNotify' = {Waits(e) : e \in AddedEdges(g) \cup RemovedEdges(g)}
      /\ edges' = (edges \cup AddedEdges(g)) \ RemovedEdges(g)
      /\ current' = [v \in Vertex |-> IF v \in newV THEN n ELSE current[v]]
      /\ \A v \in newV : current[v] = 0
      /\ \A v \in g.V : deps'[v] = UpdatedDeps(g, v, current')
      /\ UNCHANGED <<cancelCh, DepsCh, localDepsCh, waiter, snapshot>>
  BY <1>1 DEF UpdateBegin, UpdateIdle, vertexVars, waiterVars
<1>3. ASSUME NEW e \in edges', (NewEdge(e))'
      PROVE  /\ e \in AddedEdges(g) /\ Waits(e) \in newV /\ Dep(e) \in g.V
             /\ Current(Waits(e))' = <<Waits(e), n>>
  <2>1. Waits(e) \in newV
    BY <1>1, <1>2, <1>3, EdgeEnds DEF NewEdge, Typed, TypeOK, AddedEdges
  <2>2. e \notin edges
    BY <1>2, <2>1 DEF ListenInv, NewEdgesInDeps
  <2>3. e \in AddedEdges(g)
    BY <1>2, <2>2
  <2>4. QED
    BY <1>1, <1>2, <2>1, <2>3, EdgeEnds DEF AddedEdges, Current
<1>4. NewEdgesInDeps'
  <2>1. ASSUME NEW e \in edges' PROVE current'[Waits(e)] # 0
    BY <1>1, <1>2, EdgeEnds DEF ListenInv, NewEdgesInDeps, Typed, TypeOK, VerticesMapped, AddedEdges, Updates
  <2>2. ASSUME NEW e \in edges', (NewEdge(e))'
        PROVE  Current(Dep(e))' \in deps'[Waits(e)]
    <3> DEFINE v == Waits(e)
               add == {Dep(x) : x \in {y \in AddedEdges(g) : Waits(y) = v}}
    <3>1. e \in AddedEdges(g) /\ v \in g.V
      BY <1>3, <2>2
    <3>2. Dep(e) \in add
      BY <3>1
    <3>3. <<Dep(e), current'[Dep(e)]>> \in UpdatedDeps(g, v, current')
      BY <3>2 DEF UpdatedDeps
    <3>4. QED
      BY <1>2, <3>1, <3>3 DEF Current
  <2>3. QED
    BY <1>2, <1>3, <2>1, <2>2 DEF NewEdgesInDeps
<1>5. SnapshotIsDeps'
  <2>1. ASSUME NEW v \in g.V PROVE Current(v)' \in Inst
    BY <1>1, <1>2, <2>1, Numbers DEF Current, Typed, TypeOK, VerticesMapped
  <2>2. \A i \in Inst : waiter[i][n] = "none"
    BY <1>1 DEF OrderInv, UpdatePhases
  <2>3. QED
    BY <1>2, <2>1, <2>2 DEF SnapshotIsDeps
<1>6. NewVerticesListen'
  <2>1. ASSUME NEW e \in edges', (NewEdge(e))'
        PROVE  /\ Waits(e) \in toNotify' /\ Waits(e) \notin swapped'
               /\ LET i == Current(Waits(e))'
                  IN  pc'[i] = "added" /\ DepsCh'[i] = Nil /\ localDepsCh'[i] = Nil
    <3>1. <<Waits(e), n>> \in Inst
      BY <1>1, <1>3, <2>1, Numbers
    <3>2. pc[<<Waits(e), n>>] = "none"
      BY <1>1, <1>3, <2>1, <3>1 DEF OrderInv, OneInstance, Current, Inst
    <3>3. pc'[<<Waits(e), n>>] = "added"
      BY <1>3, <2>1, <3>1 DEF UpdateBegin
    <3>4. QED
      BY <1>2, <1>3, <2>1, <3>1, <3>2, <3>3 DEF OrderInv, FreshInstances
  <2>2. QED
    BY <2>1 DEF NewVerticesListen
<1>7. CancelledRemoved'
  <2>1. toCancel' = {<<v, current[v]>> : v \in vertices \ g.V}
    BY DEF UpdateBegin
  <2>2. \A i \in cancelCh : i[1] \notin g.V /\ current'[i[1]] # 0
    BY <1>1, <1>2, Numbers DEF ListenInv, CancelledRemoved, Typed, TypeOK
  <2>3. \A v \in vertices \ g.V : v \notin g.V /\ current'[v] # 0
    BY <1>1, <1>2 DEF Typed, TypeOK, VerticesMapped, Updates
  <2>4. QED
    BY <1>2, <2>1, <2>2, <2>3 DEF CancelledRemoved
<1>8. QED
  BY <1>4, <1>5, <1>6, <1>7 DEF ListenInv

\* The ends of a new edge, seen from the waiter's side.
LEMMA NewEdgeWaits ==
  ASSUME Typed, ListenInv, NEW e \in edges, NewEdge(e)
  PROVE  /\ Waits(e) \in Vertex /\ Waits(e) \in vertices
         /\ Current(Waits(e)) = <<Waits(e), nUpdates>>
         /\ Current(Waits(e)) \in Inst /\ nUpdates \in Updates
BY Numbers, EdgeEnds DEF Typed, TypeOK, VerticesMapped, ListenInv, NewEdgesInDeps, NewEdge, Current

LEMMA ListenUpdateStep ==
  ASSUME Typed, OrderInv, ListenInv, UpdateStep
  PROVE  ListenInv'
<1>1. /\ UNCHANGED <<nUpdates, vertices, current, edges, deps>>
      /\ \A e : NewEdge(e)' <=> NewEdge(e)
      /\ \A v : Current(v)' = Current(v)
      /\ cancelCh' \cup toCancel' \subseteq cancelCh \cup toCancel
  BY DEF UpdateStep, UpdateCancel, UpdateSwap, UpdateWaiter, UpdateStart, vertexVars, NewEdge,
         Current
<1>2. NewEdgesInDeps' /\ CancelledRemoved'
  BY <1>1 DEF ListenInv, NewEdgesInDeps, CancelledRemoved
<1>3. SnapshotIsDeps' /\ NewVerticesListen'
  <2>1. ASSUME NEW i \in Inst, UpdateCancel(i) PROVE SnapshotIsDeps' /\ NewVerticesListen'
    BY <1>1, <2>1 DEF UpdateCancel, walkVars, waiterVars, ListenInv, SnapshotIsDeps,
                      NewVerticesListen, Listens, Ran
  <2>2. ASSUME NEW v \in Vertex, UpdateSwap(v) PROVE SnapshotIsDeps' /\ NewVerticesListen'
    <3>1. SnapshotIsDeps'
      BY <1>1, <2>2 DEF UpdateSwap, waiterVars, ListenInv, SnapshotIsDeps
    <3>2. ASSUME NEW e \in edges, NewEdge(e),
                 NEW w, w = Waits(e), NEW i \in Inst, i = Current(w), NEW n \in Updates, n = nUpdates
          PROVE  /\ w \in toNotify' => pc[i] = "added" /\ DepsCh'[i] = Nil /\ localDepsCh[i] = Nil
                 /\ w \in swapped' => pc[i] = "added" /\ DepsCh'[i] = n /\ localDepsCh[i] = Nil
                 /\ w \notin toNotify' \cup swapped' =>
                      waiter[i][n] # "none" /\ Listens(i, n) /\ DepsCh'[i] = DepsCh[i]
      BY <2>2, <3>2 DEF UpdateSwap, ListenInv, NewVerticesListen, Current, Typed, TypeOK
    <3>3. NewVerticesListen'
      BY <1>1, <2>2, <3>2, NewEdgeWaits
      DEF UpdateSwap, walkVars, waiterVars, NewVerticesListen, Listens, Ran
    <3>4. QED
      BY <3>1, <3>3
  <2>3. ASSUME NEW v \in Vertex, UpdateWaiter(v) PROVE SnapshotIsDeps' /\ NewVerticesListen'
    <3>1. /\ Current(v) \in Inst /\ nUpdates \in Updates
          /\ v \notin toNotify /\ swapped' = {} /\ toNotify' = toNotify
          /\ \A i \in Inst, k \in Updates :
               IF i = Current(v) /\ k = nUpdates
                 THEN waiter'[i][k] = "waiting" /\ snapshot'[i][k] = deps[v]
                 ELSE waiter'[i][k] = waiter[i][k] /\ snapshot'[i][k] = snapshot[i][k]
      <4>1. /\ v \in swapped /\ v \notin toNotify /\ swapped' = {} /\ toNotify' = toNotify
            /\ Current(v) = <<v, current[v]>>
        BY <2>3 DEF UpdateWaiter, Current, OrderInv, UpdatePhases
      <4>2. Current(v) \in Inst /\ nUpdates \in Updates
        BY <4>1, Numbers DEF Typed, VerticesMapped
      <4>3. /\ waiter' = [waiter EXCEPT ![Current(v)][nUpdates] = "waiting"]
            /\ snapshot' = [snapshot EXCEPT ![Current(v)][nUpdates] = deps[v]]
        BY <2>3, <4>1 DEF UpdateWaiter
      <4>4. QED
        BY <4>1, <4>2, <4>3 DEF Typed, TypeOK
    <3>2. \A w \in vertices : Current(w) \in Inst /\ (Current(w) = Current(v) => w = v)
      BY Numbers DEF Typed, TypeOK, VerticesMapped, Current
    <3>3. SnapshotIsDeps'
      BY <1>1, <3>1, <3>2 DEF ListenInv, SnapshotIsDeps
    <3>4. ASSUME NEW e \in edges, NewEdge(e),
                 NEW w, w = Waits(e), NEW i \in Inst, i = Current(w), NEW n \in Updates, n = nUpdates
          PROVE  /\ w \in toNotify => pc[i] = "added" /\ DepsCh[i] = Nil /\ localDepsCh[i] = Nil
                 /\ w \notin toNotify => waiter'[i][n] # "none" /\ Listens(i, n)
      <4>1. CASE w = v
        <5>1. pc[i] = "added" /\ DepsCh[i] = n /\ localDepsCh[i] = Nil /\ outcome[i] = "none"
          <6>1. v \in swapped
            BY <2>3 DEF UpdateWaiter
          <6>2. pc[i] = "added" /\ DepsCh[i] = n /\ localDepsCh[i] = Nil
            BY <3>4, <4>1, <6>1 DEF ListenInv, NewVerticesListen
          <6>3. QED
            BY <6>2 DEF OrderInv, OutcomeRecorded
        <5>2. QED
          BY <3>1, <3>4, <4>1, <5>1 DEF Listens, Ran
      <4>2. CASE w # v
        <5>1. w \notin swapped
          BY <2>3, <4>2 DEF UpdateWaiter, OrderInv, UpdatePhases
        <5>2. QED
          BY <3>1, <3>4, <4>2, <5>1, NewEdgeWaits DEF ListenInv, NewVerticesListen, Current
      <4>3. QED
        BY <4>1, <4>2
    <3>5. NewVerticesListen'
      BY <1>1, <2>3, <3>1, <3>4, NewEdgeWaits
      DEF UpdateWaiter, walkVars, NewVerticesListen, Listens, Ran
    <3>6. QED
      BY <3>3, <3>5
  <2>4. ASSUME NEW v \in Vertex, UpdateStart(v) PROVE SnapshotIsDeps' /\ NewVerticesListen'
    <3>1. SnapshotIsDeps'
      BY <1>1, <2>4 DEF UpdateStart, waiterVars, ListenInv, SnapshotIsDeps
    <3>2. \A i \in Inst : pc'[i] = pc[i] \/ (pc[i] = "added" /\ pc'[i] = "begin")
      BY <2>4 DEF UpdateStart, OrderInv, UpdatePhases, Current, Typed, TypeOK
    <3>3. \A i \in Inst, n \in Updates : Listens(i, n) => Listens(i, n)'
      BY <2>4, <3>2 DEF UpdateStart, vertexVars, Listens, Ran
    <3>4. NewVerticesListen'
      BY <1>1, <2>4, <3>3, NewEdgeWaits
      DEF UpdateStart, waiterVars, ListenInv, NewVerticesListen
    <3>5. QED
      BY <3>1, <3>4
  <2>5. QED
    BY <2>1, <2>2, <2>3, <2>4 DEF UpdateStep
<1>4. QED
  BY <1>2, <1>3 DEF ListenInv

LEMMA ListenWalk ==
  ASSUME Typed, OrderInv, ListenInv, NEW i \in Inst, Walk(i)
  PROVE  ListenInv'
<1>1. UNCHANGED <<updateVars, cancelCh, waiterVars>>
  BY DEF Walk, WalkCancel, WalkFirst, WalkReceive, WalkUpdated, WalkReload, WalkCheck,
         WalkRecord, WalkDefer, WalkCallbackReturns, vertexVars
<1>2. NewEdgesInDeps' /\ SnapshotIsDeps' /\ CancelledRemoved'
  BY <1>1 DEF updateVars, waiterVars, ListenInv, NewEdgesInDeps, NewEdge, SnapshotIsDeps,
              CancelledRemoved, Current
<1>3. pc[i] # "added" /\ pc[i] # "none"
  BY DEF Walk, WalkCancel, WalkFirst, WalkReceive, WalkUpdated, WalkReload, WalkCheck,
         WalkRecord, WalkDefer, WalkCallbackReturns
<1>4. ASSUME NEW j \in Inst, j # i
      PROVE  /\ pc'[j] = pc[j] /\ DepsCh'[j] = DepsCh[j] /\ localDepsCh'[j] = localDepsCh[j]
             /\ verdictFrom'[j] = verdictFrom[j] /\ outcome'[j] = outcome[j]
  BY <1>4 DEF Walk, WalkCancel, WalkFirst, WalkReceive, WalkUpdated, WalkReload, WalkCheck,
              WalkRecord, WalkDefer, WalkCallbackReturns, vertexVars, GoTo, Typed, TypeOK
<1>5. ASSUME NEW n \in Updates, Listens(i, n) PROVE Listens(i, n)'
  <2> USE Numbers DEF Listens, Ran, vertexVars, GoTo, Typed, TypeOK
  <2>1. CASE WalkCancel(i) BY <1>5, <2>1 DEF WalkCancel, OrderInv, OutcomeRecorded
  <2>2. CASE WalkFirst(i) BY <1>5, <2>2 DEF WalkFirst, OrderInv, OutcomeRecorded
  <2>3. CASE WalkReceive(i) BY <1>5, <2>3 DEF WalkReceive, OrderInv, OutcomeRecorded
  <2>4. CASE WalkUpdated(i) BY <1>5, <2>4 DEF WalkUpdated, OrderInv, OutcomeRecorded
  <2>5. CASE WalkReload(i) BY <1>5, <2>5 DEF WalkReload, OrderInv, OutcomeRecorded
  <2>6. CASE WalkCheck(i) BY <1>5, <2>6 DEF WalkCheck, OrderInv, OutcomeRecorded
  <2>7. CASE WalkRecord(i) BY <1>5, <2>7 DEF WalkRecord, OrderInv, OutcomeRecorded
  <2>8. CASE WalkDefer(i) BY <1>5, <2>8 DEF WalkDefer, OrderInv, OutcomeRecorded
  <2>9. ASSUME NEW result \in {"ok", "error"}, WalkCallbackReturns(i, result)
        PROVE  Listens(i, n)'
    BY <1>5, <2>9 DEF WalkCallbackReturns
  <2>10. QED
    BY <2>1, <2>2, <2>3, <2>4, <2>5, <2>6, <2>7, <2>8, <2>9 DEF Walk
<1>6. NewVerticesListen'
  <2>1. ASSUME NEW e \in edges, NewEdge(e),
               NEW v, v = Waits(e), NEW j \in Inst, j = Current(v), NEW n \in Updates, n = nUpdates
        PROVE  /\ v \in toNotify => pc'[j] = "added" /\ DepsCh'[j] = Nil /\ localDepsCh'[j] = Nil
               /\ v \in swapped => pc'[j] = "added" /\ DepsCh'[j] = n /\ localDepsCh'[j] = Nil
               /\ v \notin toNotify \cup swapped => waiter[j][n] # "none" /\ Listens(j, n)'
    <3>1. /\ v \in toNotify => pc[j] = "added" /\ DepsCh[j] = Nil /\ localDepsCh[j] = Nil
          /\ v \in swapped => pc[j] = "added" /\ DepsCh[j] = n /\ localDepsCh[j] = Nil
          /\ v \notin toNotify \cup swapped => waiter[j][n] # "none" /\ Listens(j, n)
      BY <2>1 DEF ListenInv, NewVerticesListen
    <3>2. CASE j = i
      BY <1>3, <1>5, <3>1, <3>2
    <3>3. CASE j # i
      BY <1>4, <3>1, <3>3 DEF Listens, Ran
    <3>4. QED
      BY <3>2, <3>3
  <2>2. /\ UNCHANGED <<edges, nUpdates, current, toNotify, swapped, waiter>>
        /\ \A e : NewEdge(e)' <=> NewEdge(e)
        /\ \A v : Current(v)' = Current(v)
    BY <1>1 DEF updateVars, waiterVars, NewEdge, Current
  <2>3. \A e \in edges : NewEdge(e) => Current(Waits(e)) \in Inst /\ nUpdates \in Updates
    BY NewEdgeWaits
  <2>4. QED
    BY <2>1, <2>2, <2>3 DEF NewVerticesListen, Listens
<1>7. QED
  BY <1>2, <1>6 DEF ListenInv

LEMMA ListenWaiter ==
  ASSUME Typed, ListenInv, NEW i \in Inst, NEW k \in Updates, Waiter(i, k)
  PROVE  ListenInv'
<1>1. /\ UNCHANGED <<updateVars, vertexVars, walkVars, snapshot>>
      /\ \A j \in Inst, n \in Updates : waiter'[j][n] = "none" <=> waiter[j][n] = "none"
  <2>1. waiter[i][k] # "none"
    BY DEF Waiter, WaiterSatisfied, WaiterCancelled, WaiterVerdict
  <2>2. /\ UNCHANGED <<updateVars, vertexVars, walkVars, snapshot>>
        /\ \E s \in {"checking", "sentTrue", "sentFalse"} : waiter' = [waiter EXCEPT ![i][k] = s]
    BY DEF Waiter, WaiterSatisfied, WaiterCancelled, WaiterVerdict
  <2>3. QED
    BY <2>1, <2>2 DEF Typed, TypeOK
<1>2. NewEdgesInDeps' /\ CancelledRemoved'
  BY <1>1 DEF ListenInv, NewEdgesInDeps, NewEdge, CancelledRemoved, Current, updateVars, vertexVars
<1>3. SnapshotIsDeps'
  BY <1>1, Numbers DEF ListenInv, SnapshotIsDeps, Current, updateVars, Typed, TypeOK, VerticesMapped
<1>4. NewVerticesListen'
  BY <1>1, NewEdgeWaits DEF ListenInv, NewVerticesListen, NewEdge, Current, Listens, Ran,
                            updateVars, vertexVars, walkVars
<1>5. QED
  BY <1>2, <1>3, <1>4 DEF ListenInv

\* ListenInv is inductive, given OrderInv.
LEMMA ListenInvariant ==
  ASSUME AllowReadd = FALSE
  PROVE  Spec => []ListenInv
<1>1. Typed /\ OrderInv /\ ListenInv /\ [Next]_vars => ListenInv'
  <2> SUFFICES ASSUME Typed, OrderInv, ListenInv, [Next]_vars PROVE ListenInv'
    OBVIOUS
  <2>1. ASSUME Wait \/ UNCHANGED vars PROVE ListenInv'
    BY <2>1 DEF Wait, vars, updateVars, vertexVars, walkVars, waiterVars, ListenInv,
                NewEdgesInDeps, NewEdge, SnapshotIsDeps, NewVerticesListen, Listens, Ran,
                CancelledRemoved, Current
  <2>2. QED
    BY <2>1, ListenBegin, ListenUpdateStep, ListenWalk, ListenWaiter DEF Next
<1>2. QED
  BY <1>1, ListenInit, TypedInvariant, OrderInvariant, PTL DEF Spec

\* A vertex added by the last Update is executed only after all the vertices it
\* depends on in that graph were executed without error. A walk of the program
\* has one Update, so this is the order of the whole walk.
THEOREM AddedVerticesWait ==
  ASSUME AllowReadd = FALSE
  PROVE  Spec => []AddedAfterDependencies
<1>1. Typed /\ OrderInv /\ ListenInv /\ DependenciesFirst => AddedAfterDependencies
  <2> SUFFICES ASSUME Typed, OrderInv, ListenInv, DependenciesFirst,
                      NEW e \in edges, NewEdge(e), Ran(<<Waits(e), nUpdates>>)
               PROVE  DoneChClosed(Current(Dep(e))) /\ outcome[Current(Dep(e))] = "ok"
    BY DEF AddedAfterDependencies, NewEdge, Current
  <2> DEFINE v == Waits(e)
             i == Current(v)
             d == Current(Dep(e))
  <2>1. v \in vertices /\ i = <<v, nUpdates>> /\ i \in Inst /\ nUpdates \in Updates
    BY NewEdgeWaits
  <2>2. pc[i] # "added"
    BY <2>1 DEF OrderInv, OutcomeRecorded, Ran
  <2>3. verdictFrom[i] = nUpdates /\ waiter[i][nUpdates] # "none"
    BY <2>1, <2>2 DEF ListenInv, NewVerticesListen, Listens
  <2>4. ActedOn(i) = deps[v]
    BY <2>1, <2>3, Numbers DEF ActedOn, ListenInv, SnapshotIsDeps
  <2>5. d \in deps[v] /\ Dep(e) \in vertices
    BY DEF ListenInv, NewEdgesInDeps
  <2>6. d \notin cancelCh
    BY <2>5 DEF ListenInv, CancelledRemoved, Current
  <2>7. QED
    BY <2>1, <2>4, <2>5, <2>6 DEF DependenciesFirst
<1>2. QED
  BY <1>1, TypedInvariant, OrderInvariant, ListenInvariant, DependenciesComeFirst, PTL

-----------------------------------------------------------------------------
(* Skips have their reason, and Wait tells what happened. *)

\* Behind every step: a closed DoneCh stays closed, an outcome is final, and a
\* waiter keeps its copy of deps and the answer it sent.
LEMMA Settled ==
  ASSUME Typed, OrderInv, [Next]_vars
  PROVE  /\ \A d \in Inst : DoneChClosed(d) => DoneChClosed(d)'
         /\ \A d \in Inst : outcome[d] # "none" => outcome'[d] = outcome[d]
         /\ \A i \in Inst, k \in Updates : waiter[i][k] # "none" =>
              waiter'[i][k] # "none" /\ snapshot'[i][k] = snapshot[i][k]
         /\ \A i \in Inst, k \in Updates : waiter[i][k] \in {"sentTrue", "sentFalse"} =>
              waiter'[i][k] = waiter[i][k]
<1> DEFINE Done == \A d \in Inst : DoneChClosed(d) => DoneChClosed(d)'
           Final == \A d \in Inst : outcome[d] # "none" => outcome'[d] = outcome[d]
           Kept == \A i \in Inst, k \in Updates :
                     /\ waiter[i][k] # "none" =>
                          waiter'[i][k] # "none" /\ snapshot'[i][k] = snapshot[i][k]
                     /\ waiter[i][k] \in {"sentTrue", "sentFalse"} => waiter'[i][k] = waiter[i][k]
<1>1. Done
  <2> USE DEF Typed, TypeOK, DoneChClosed
  <2>1. ASSUME NEW g \in Graphs, UpdateBegin(g) PROVE Done
    <3>1. \A i \in Inst : pc[i] # "none" => i[2] # nUpdates + 1
      <4>1. \A i \in Inst : pc[i] # "none" => i[2] \in 0..nUpdates
        <5>1. \A i \in Inst : pc[i] # "none" => i[2] = current[i[1]]
          BY Numbers DEF OrderInv, OneInstance, Current
        <5>2. QED
          BY <5>1, Numbers DEF VerticesMapped
      <4>2. QED
        BY <4>1, WalkerAssumption
    <3>2. QED
      BY <2>1, <3>1 DEF UpdateBegin
  <2>2. CASE UpdateStep
    BY ZenonT(60), <2>2 DEF UpdateStep, UpdateCancel, UpdateSwap, UpdateWaiter, UpdateStart, walkVars,
                OrderInv, UpdatePhases, Current
  <2>3. ASSUME NEW i \in Inst, Walk(i) PROVE Done
    BY <2>3 DEF Walk, WalkCancel, WalkFirst, WalkReceive, WalkUpdated, WalkReload, WalkCheck,
                WalkRecord, WalkDefer, WalkCallbackReturns, GoTo
  <2>4. ASSUME NEW i \in Inst, NEW k \in Updates, Waiter(i, k) PROVE Done
    BY <2>4 DEF Waiter, WaiterSatisfied, WaiterCancelled, WaiterVerdict, walkVars
  <2>5. QED
    BY <2>1, <2>2, <2>3, <2>4 DEF Next, Wait, vars, walkVars
<1>2. Final
  <2> USE DEF Typed, TypeOK
  <2>1. ASSUME NEW i \in Inst, Walk(i) PROVE Final
    <3>1. pc[i] \in {"check", "callback"} => outcome[i] = "none"
      BY DEF OrderInv, OutcomeRecorded
    <3>2. QED
      BY <2>1, <3>1
      DEF Walk, WalkCancel, WalkFirst, WalkReceive, WalkUpdated, WalkReload, WalkCheck,
          WalkRecord, WalkDefer, WalkCallbackReturns, GoTo
  <2>2. (~ \E i \in Inst : Walk(i)) => outcome' = outcome
    BY DEF Next, UpdateBegin, UpdateStep, UpdateCancel, UpdateSwap, UpdateWaiter, UpdateStart,
           Waiter, WaiterSatisfied, WaiterCancelled, WaiterVerdict, Wait, vars, walkVars
  <2>3. QED
    BY <2>1, <2>2
<1>3. Kept
  <2>1. ASSUME NEW i \in Inst, NEW k \in Updates, Waiter(i, k) PROVE Kept
    <3>1. /\ waiter[i][k] \in {"waiting", "checking"} /\ snapshot' = snapshot
          /\ \E s \in {"checking", "sentTrue", "sentFalse"} : waiter' = [waiter EXCEPT ![i][k] = s]
      BY <2>1 DEF Waiter, WaiterSatisfied, WaiterCancelled, WaiterVerdict
    <3>2. QED
      BY <3>1 DEF Typed, TypeOK
  <2>2. ASSUME NEW v \in Vertex, UpdateWaiter(v) PROVE Kept
    <3>1. /\ Current(v) \in Inst /\ nUpdates \in Updates
          /\ waiter[Current(v)][nUpdates] = "none"
      BY <2>2, Numbers DEF UpdateWaiter, Typed, TypeOK, VerticesMapped, OrderInv, UpdatePhases, Current
    <3>2. /\ waiter' = [waiter EXCEPT ![Current(v)][nUpdates] = "waiting"]
          /\ snapshot' = [snapshot EXCEPT ![Current(v)][nUpdates] = deps[v]]
      BY <2>2 DEF UpdateWaiter, Current
    <3>3. QED
      BY <3>1, <3>2 DEF Typed, TypeOK
  <2>3. \/ UNCHANGED <<waiter, snapshot>>
        \/ \E i \in Inst, k \in Updates : Waiter(i, k)
        \/ \E v \in Vertex : UpdateWaiter(v)
    BY DEF Next, UpdateBegin, UpdateStep, UpdateCancel, UpdateSwap, UpdateStart, Walk,
           WalkCancel, WalkFirst, WalkReceive, WalkUpdated, WalkReload, WalkCheck, WalkRecord,
           WalkDefer, WalkCallbackReturns, Wait, vars, waiterVars
  <2>4. QED
    BY <2>1, <2>2, <2>3
<1>4. QED
  BY <1>1, <1>2, <1>3

\* A verdict on dependencies stays justified.
LEMMA JustifiedStays ==
  ASSUME Typed, OrderInv, [Next]_vars, NEW i \in Inst, NEW k \in Updates,
         waiter[i][k] # "none", Justified(i, k)
  PROVE  Justified(i, k)'
<1>1. snapshot'[i][k] = snapshot[i][k] /\ snapshot[i][k] \subseteq Inst
  BY Settled DEF Typed, TypeOK
<1>2. QED
  BY <1>1, Settled DEF Justified

\* A vertex has no other walkerVertex that did anything.
LEMMA OnlyInstance ==
  ASSUME Typed, OrderInv, NEW i \in Inst, pc[i] # "none" \/ outcome[i] # "none"
  PROVE  i = Current(i[1]) /\ current[i[1]] # 0 /\ current[i[1]] = i[2]
<1>1. pc[i] # "none"
  BY DEF OrderInv, OutcomeRecorded, Typed, TypeOK
<1>2. QED
  BY <1>1, Numbers DEF OrderInv, OneInstance, Current, Nil

LEMMA VerdictInit == Init => VerdictInv /\ ResultInv
  BY DEF Init, VerdictInv, ResultInv, FalseHasReason, CancelledReplaced, FalseIsReplaced,
         ResultsRecorded, WaitedInv, Nil

\* A waiter says false when told to give up, or because of a recorded error.
LEMMA FalseKeepsReason ==
  ASSUME Typed, OrderInv, FalseHasReason, ResultsRecorded, [Next]_vars
  PROVE  FalseHasReason'
<1>1. waiterCancel \subseteq waiterCancel'
  BY DEF Next, UpdateBegin, UpdateStep, UpdateCancel, UpdateSwap, UpdateWaiter, UpdateStart,
         Walk, WalkCancel, WalkFirst, WalkReceive, WalkUpdated, WalkReload, WalkCheck,
         WalkRecord, WalkDefer, WalkCallbackReturns, Waiter, WaiterSatisfied, WaiterCancelled,
         WaiterVerdict, Wait, vars, waiterVars
<1>2. ASSUME NEW i \in Inst, NEW k \in Updates, waiter[i][k] = "sentFalse"
      PROVE  Justified(i, k)' \/ <<i, k>> \in waiterCancel'
  BY <1>1, <1>2, JustifiedStays DEF FalseHasReason
<1>3. ASSUME NEW i \in Inst, NEW k \in Updates, waiter'[i][k] = "sentFalse",
             waiter[i][k] # "sentFalse"
      PROVE  Justified(i, k)' \/ <<i, k>> \in waiterCancel'
  <2>1. Waiter(i, k)
    <3>1. \A v \in Vertex : ~UpdateWaiter(v)
      <4>1. ASSUME NEW v \in Vertex, UpdateWaiter(v) PROVE FALSE
        <5>1. waiter' = [waiter EXCEPT ![Current(v)][nUpdates] = "waiting"]
          BY <4>1 DEF UpdateWaiter, Current
        <5>2. QED
          BY <1>3, <5>1 DEF Typed, TypeOK
      <4>2. QED
        BY <4>1
    <3>2. waiter' # waiter
      BY <1>3
    <3>3. \E j \in Inst, m \in Updates : Waiter(j, m)
      BY <3>1, <3>2
      DEF Next, UpdateBegin, UpdateStep, UpdateCancel, UpdateSwap, UpdateStart, Walk,
          WalkCancel, WalkFirst, WalkReceive, WalkUpdated, WalkReload, WalkCheck, WalkRecord,
          WalkDefer, WalkCallbackReturns, Wait, vars, waiterVars
    <3>4. PICK j \in Inst, m \in Updates : Waiter(j, m)
      BY <3>3
    <3>5. \E s \in {"checking", "sentTrue", "sentFalse"} : waiter' = [waiter EXCEPT ![j][m] = s]
      BY <3>4 DEF Waiter, WaiterSatisfied, WaiterCancelled, WaiterVerdict
    <3>6. i = j /\ k = m
      BY <1>3, <3>5 DEF Typed, TypeOK
    <3>7. QED
      BY <3>4, <3>6
  <2>2. waiter \in [Inst -> [Updates -> {"none", "waiting", "checking", "sentTrue", "sentFalse"}]]
    BY DEF Typed, TypeOK
  <2>3. CASE WaiterCancelled(i, k)
    BY <2>3 DEF WaiterCancelled
  <2>4. CASE WaiterVerdict(i, k)
    <3>1. waiter[i][k] = "checking" /\ UNCHANGED <<pc, outcome, snapshot>>
      BY <2>4 DEF WaiterVerdict, walkVars
    <3>2. \E d \in snapshot[i][k] : diagsMap[d[1]] = "error"
      BY <1>3, <2>2, <2>4 DEF WaiterVerdict
    <3>3. PICK d \in snapshot[i][k] : diagsMap[d[1]] = "error"
      BY <3>2
    <3>4. d \in Inst /\ d[1] \in Vertex /\ \A e \in snapshot[i][k] : DoneChClosed(e)
      BY <3>1, Numbers DEF OrderInv, WaitersHonest, Typed, TypeOK
    <3>5. d = Current(d[1])
      BY <3>4, OnlyInstance DEF DoneChClosed
    <3>6. outcome[d] \in {"error", "skipped"}
      BY <3>3, <3>4, <3>5 DEF ResultsRecorded
    <3>7. QED
      BY <3>1, <3>4, <3>6 DEF Justified, DoneChClosed
  <2>5. CASE WaiterSatisfied(i, k)
    BY <1>3, <2>2, <2>5 DEF WaiterSatisfied
  <2>6. QED
    BY <2>1, <2>3, <2>4, <2>5 DEF Waiter
<1>4. QED
  BY <1>2, <1>3 DEF FalseHasReason

\* A waiter is cancelled only once its goroutine finds the next channel.
LEMMA CancelledStaysReplaced ==
  ASSUME AllowReadd = FALSE, Typed, OrderInv, CancelledReplaced, [Next]_vars
  PROVE  CancelledReplaced'
<1>1. ASSUME NEW g \in Graphs, UpdateBegin(g) PROVE CancelledReplaced'
  BY <1>1 DEF UpdateBegin, UpdateIdle, vertexVars, waiterVars, CancelledReplaced
<1>2. ASSUME NEW i \in Inst, UpdateCancel(i) PROVE CancelledReplaced'
  BY <1>2 DEF UpdateCancel, walkVars, waiterVars, CancelledReplaced, Current
<1>3. ASSUME NEW v \in Vertex, UpdateSwap(v) PROVE CancelledReplaced'
  <2>1. /\ Current(v) \in Inst /\ nUpdates \in Updates /\ nUpdates # Nil
        /\ waiter[Current(v)][nUpdates] = "none"
    BY <1>3, Numbers DEF UpdateSwap, Typed, TypeOK, VerticesMapped, OrderInv, UpdatePhases, Current
  <2>2. /\ DepsCh' = [DepsCh EXCEPT ![Current(v)] = nUpdates] /\ swapped' = {v}
        /\ UNCHANGED <<nUpdates, current, depsCancelCh, localDepsCh, waiter, waiterCancel>>
    BY <1>3 DEF UpdateSwap, walkVars, waiterVars, Current
  <2>3. \A i \in Inst : DepsCh'[i] = IF i = Current(v) THEN nUpdates ELSE DepsCh[i]
    BY <2>1, <2>2 DEF Typed, TypeOK
  <2>4. QED
    BY <2>1, <2>2, <2>3 DEF CancelledReplaced, Current
<1>4. ASSUME NEW v \in Vertex, UpdateWaiter(v) PROVE CancelledReplaced'
  <2> DEFINE c == Current(v)
  <2>1. /\ c \in Inst /\ nUpdates \in Updates /\ nUpdates # Nil
        /\ waiter[c][nUpdates] = "none" /\ v \in swapped
    BY <1>4, Numbers DEF UpdateWaiter, Typed, TypeOK, VerticesMapped, OrderInv, UpdatePhases, Current
  <2>2. /\ swapped' = {}
        /\ waiterCancel' = IF depsCancelCh[c] = Nil THEN waiterCancel
                           ELSE waiterCancel \cup {<<c, depsCancelCh[c]>>}
        /\ depsCancelCh' = [depsCancelCh EXCEPT ![c] = nUpdates]
        /\ waiter' = [waiter EXCEPT ![c][nUpdates] = "waiting"]
        /\ UNCHANGED <<DepsCh, localDepsCh>>
    BY <1>4 DEF UpdateWaiter, walkVars, Current
  <2>3. \A i \in Inst, k \in Updates :
          waiter'[i][k] # "none" <=> waiter[i][k] # "none" \/ (i = c /\ k = nUpdates)
    BY <2>1, <2>2 DEF Typed, TypeOK
  <2>4. \A i \in Inst : depsCancelCh'[i] = IF i = c THEN nUpdates ELSE depsCancelCh[i]
    BY <2>1, <2>2 DEF Typed, TypeOK
  <2>5. \A i \in Inst : depsCancelCh[i] # Nil => depsCancelCh[i] \in Updates
    BY Numbers DEF Typed, TypeOK
  <2>6. ASSUME depsCancelCh[c] # Nil
        PROVE  LET k == depsCancelCh[c]
               IN  /\ waiter[c][k] # "none" /\ k # nUpdates /\ k \in Updates
                   /\ DepsCh[c] # k
                   /\ localDepsCh[c] = k => DepsCh[c] # Nil
    BY <2>1, <2>5, <2>6 DEF CancelledReplaced
  <2>7. ASSUME NEW i \in Inst, NEW k \in Updates, <<i, k>> \in waiterCancel'
        PROVE  waiter'[i][k] # "none" /\ DepsCh'[i] # k /\ (localDepsCh'[i] = k => DepsCh'[i] # Nil)
    <3>1. CASE <<i, k>> \in waiterCancel
      BY <2>2, <2>3, <3>1 DEF CancelledReplaced
    <3>2. CASE <<i, k>> \notin waiterCancel
      <4>1. depsCancelCh[c] # Nil /\ i = c /\ k = depsCancelCh[c]
        BY <2>2, <2>7, <3>2
      <4>2. QED
        BY <2>2, <2>3, <2>6, <4>1
    <3>3. QED
      BY <3>1, <3>2
  <2>8. \A i \in Inst : depsCancelCh'[i] # Nil => waiter'[i][depsCancelCh'[i]] # "none"
    BY <2>1, <2>3, <2>4, <2>5 DEF CancelledReplaced
  <2>9. QED
    BY <2>2, <2>7, <2>8 DEF CancelledReplaced
<1>5. ASSUME NEW v \in Vertex, UpdateStart(v) PROVE CancelledReplaced'
  BY <1>5 DEF UpdateStart, vertexVars, waiterVars, CancelledReplaced, Current
<1>6. ASSUME NEW i \in Inst, WalkReceive(i) PROVE CancelledReplaced'
  <2>1. /\ \A j \in Inst : localDepsCh'[j] = IF j = i THEN Nil ELSE localDepsCh[j]
        /\ waiter[i][localDepsCh[i]] # "none"
        /\ UNCHANGED <<nUpdates, current, swapped, DepsCh, depsCancelCh, waiter, waiterCancel>>
    BY <1>6 DEF WalkReceive, updateVars, vertexVars, waiterVars, Typed, TypeOK
  <2>2. \A v \in swapped : Current(v) \in Inst /\ waiter[Current(v)][nUpdates] = "none"
    BY Numbers DEF Typed, TypeOK, VerticesMapped, OrderInv, UpdatePhases, Current
  <2>3. QED
    BY <2>1, <2>2, Numbers DEF CancelledReplaced, Current
<1>7. ASSUME NEW i \in Inst, WalkReload(i) PROVE CancelledReplaced'
  <2>1. /\ \A j \in Inst : j # i => localDepsCh'[j] = localDepsCh[j] /\ DepsCh'[j] = DepsCh[j]
        /\ localDepsCh'[i] = IF DepsCh[i] # Nil THEN DepsCh[i] ELSE localDepsCh[i]
        /\ DepsCh'[i] = Nil
        /\ UNCHANGED <<nUpdates, current, swapped, depsCancelCh, waiter, waiterCancel>>
    BY <1>7 DEF WalkReload, updateVars, waiterVars, Typed, TypeOK
  <2>2. \A v \in swapped : Current(v) \in Inst /\ nUpdates # Nil
    BY Numbers DEF Typed, TypeOK, VerticesMapped, Current
  <2>3. QED
    BY <2>1, <2>2, Numbers DEF CancelledReplaced, Current
<1>8. ASSUME NEW i \in Inst, Walk(i), ~WalkReceive(i), ~WalkReload(i) PROVE CancelledReplaced'
  BY <1>8 DEF Walk, WalkCancel, WalkFirst, WalkUpdated, WalkCheck, WalkRecord, WalkDefer,
              WalkCallbackReturns, updateVars, vertexVars, waiterVars, CancelledReplaced, Current
<1>9. ASSUME NEW i \in Inst, NEW k \in Updates, Waiter(i, k) PROVE CancelledReplaced'
  <2>1. UNCHANGED <<updateVars, vertexVars, walkVars, waiterCancel>>
    BY <1>9 DEF Waiter, WaiterSatisfied, WaiterCancelled, WaiterVerdict
  <2>2. \A j \in Inst, m \in Updates : waiter[j][m] # "none" => waiter'[j][m] # "none"
    BY Settled
  <2>3. \A j \in Inst : depsCancelCh[j] # Nil => depsCancelCh[j] \in Updates
    BY Numbers DEF Typed, TypeOK
  <2>4. QED
    BY <2>1, <2>2, <2>3 DEF updateVars, vertexVars, walkVars, CancelledReplaced, Current
<1>10. CASE Wait
  BY <1>10 DEF Wait, updateVars, vertexVars, walkVars, waiterVars, CancelledReplaced, Current
<1>11. CASE UNCHANGED vars
  BY <1>11 DEF vars, updateVars, vertexVars, walkVars, waiterVars, CancelledReplaced, Current
<1>12. QED
  BY <1>1, <1>2, <1>3, <1>4, <1>5, <1>6, <1>7, <1>8, <1>9, <1>10, <1>11 DEF Next, UpdateStep

\* What one goroutine holds, seen from a step that is not its own.
LEMMA FalseSeenFromAfar ==
  ASSUME Typed, OrderInv, FalseIsReplaced, [Next]_vars, NEW i \in Inst,
         pc'[i] = pc[i] \/ pc'[i] \in {"none", "added", "begin", "callback", "record", "exit",
                                       "closed", "gone"},
         depsSuccess'[i] = depsSuccess[i], verdictFrom'[i] = verdictFrom[i],
         localDepsCh'[i] = localDepsCh[i], outcome'[i] = outcome[i],
         DepsCh[i] # Nil => DepsCh'[i] # Nil
  PROVE  /\ pc'[i] \in {"reload", "select", "check"} /\ verdictFrom'[i] = Nil => depsSuccess'[i]
         /\ pc'[i] \in {"reload", "select"} /\ verdictFrom'[i] # Nil /\ ~depsSuccess'[i] =>
              Justified(i, verdictFrom[i])' \/ DepsCh'[i] # Nil \/ localDepsCh'[i] # Nil
         /\ (pc'[i] = "check" /\ ~depsSuccess'[i]) \/ outcome'[i] = "skipped" =>
              verdictFrom'[i] # Nil /\ Justified(i, verdictFrom[i])'
<1>1. verdictFrom[i] # Nil => verdictFrom[i] \in Updates /\ waiter[i][verdictFrom[i]] # "none"
  BY Numbers DEF Typed, TypeOK, OrderInv, VerdictObeyed
<1>2. ASSUME verdictFrom[i] # Nil, Justified(i, verdictFrom[i])
      PROVE  Justified(i, verdictFrom[i])'
  <2>1. PICK k \in Updates : k = verdictFrom[i]
    BY <1>1, <1>2
  <2>2. waiter[i][k] # "none" /\ Justified(i, k)
    BY <1>1, <1>2, <2>1
  <2>3. Justified(i, k)'
    BY <2>2, JustifiedStays
  <2>4. QED
    BY <2>1, <2>3
<1>3. QED
  BY <1>2 DEF FalseIsReplaced

\* A goroutine leaves its loop with a false only when the false has its reason.
LEMMA FalseStaysReplaced ==
  ASSUME AllowReadd = FALSE, Typed, OrderInv, VerdictInv, [Next]_vars
  PROVE  FalseIsReplaced'
<1> DEFINE Replaced(i) ==
      /\ pc[i] \in {"reload", "select", "check"} /\ verdictFrom[i] = Nil => depsSuccess[i]
      /\ pc[i] \in {"reload", "select"} /\ verdictFrom[i] # Nil /\ ~depsSuccess[i] =>
           Justified(i, verdictFrom[i]) \/ DepsCh[i] # Nil \/ localDepsCh[i] # Nil
      /\ (pc[i] = "check" /\ ~depsSuccess[i]) \/ outcome[i] = "skipped" =>
           verdictFrom[i] # Nil /\ Justified(i, verdictFrom[i])
<1>0. \A i \in Inst : Replaced(i)
  BY DEF VerdictInv, FalseIsReplaced
<1>1. ASSUME NEW i \in Inst,
             pc'[i] = pc[i] \/ pc'[i] \in {"none", "added", "begin", "callback", "record", "exit",
                                           "closed", "gone"},
             depsSuccess'[i] = depsSuccess[i], verdictFrom'[i] = verdictFrom[i],
             localDepsCh'[i] = localDepsCh[i], outcome'[i] = outcome[i],
             DepsCh[i] # Nil => DepsCh'[i] # Nil
      PROVE  Replaced(i)'
  BY <1>1, FalseSeenFromAfar DEF VerdictInv
<1>2. ASSUME ~ \E i \in Inst : Walk(i) PROVE \A i \in Inst : Replaced(i)'
  <2>1. \A i \in Inst : DepsCh[i] # Nil => DepsCh'[i] # Nil
    <3>1. ASSUME NEW v \in Vertex, UpdateSwap(v)
          PROVE  \A i \in Inst : DepsCh[i] # Nil => DepsCh'[i] # Nil
      BY <3>1, Numbers DEF UpdateSwap, Typed, TypeOK, VerticesMapped, Current
    <3>2. (\E v \in Vertex : UpdateSwap(v)) \/ DepsCh' = DepsCh
      BY <1>2 DEF Next, UpdateBegin, UpdateStep, UpdateCancel, UpdateWaiter, UpdateStart, Waiter,
                  WaiterSatisfied, WaiterCancelled, WaiterVerdict, Wait, vars, vertexVars
    <3>3. QED
      BY <3>1, <3>2
  <2>2. \A i \in Inst : pc'[i] = pc[i] \/ pc'[i] \in {"added", "begin"}
    BY ZenonT(60), <1>2 DEF Next, UpdateBegin, UpdateStep, UpdateCancel, UpdateSwap, UpdateWaiter,
                UpdateStart, Waiter, WaiterSatisfied, WaiterCancelled, WaiterVerdict, Wait, vars,
                walkVars, Typed, TypeOK
  <2>3. UNCHANGED <<localDepsCh, depsSuccess, verdictFrom, outcome>>
    BY <1>2 DEF Next, UpdateBegin, UpdateStep, UpdateCancel, UpdateSwap, UpdateWaiter,
                UpdateStart, Waiter, WaiterSatisfied, WaiterCancelled, WaiterVerdict, Wait, vars,
                walkVars
  <2> HIDE DEF Replaced
  <2>4. QED
    BY <1>1, <2>1, <2>2, <2>3
<1>3. ASSUME NEW i \in Inst, Walk(i) PROVE \A j \in Inst : Replaced(j)'
  <2>1. ASSUME NEW j \in Inst, j # i PROVE Replaced(j)'
    <3>1. /\ pc'[j] = pc[j] /\ DepsCh'[j] = DepsCh[j] /\ localDepsCh'[j] = localDepsCh[j]
          /\ depsSuccess'[j] = depsSuccess[j] /\ verdictFrom'[j] = verdictFrom[j]
          /\ outcome'[j] = outcome[j]
      BY <1>3, <2>1
      DEF Walk, WalkCancel, WalkFirst, WalkReceive, WalkUpdated, WalkReload, WalkCheck,
          WalkRecord, WalkDefer, WalkCallbackReturns, vertexVars, GoTo, Typed, TypeOK
    <3> HIDE DEF Replaced
    <3>2. QED
      BY <1>1, <3>1
  <2>2. Replaced(i)'
    <3>0. /\ verdictFrom[i] \in Chan /\ localDepsCh[i] \in Chan /\ DepsCh[i] \in Chan
          /\ pc \in [Inst -> {"none", "added", "begin", "select", "reload", "check", "callback",
                              "record", "exit", "closed", "gone"}]
          /\ depsSuccess \in [Inst -> BOOLEAN] /\ verdictFrom \in [Inst -> Chan]
          /\ localDepsCh \in [Inst -> Chan] /\ DepsCh \in [Inst -> Chan]
          /\ outcome \in [Inst -> {"none", "ok", "error", "skipped"}]
      BY DEF Typed, TypeOK
    <3>1. Replaced(i)
      BY <1>0
    <3>2. \A k \in Updates : waiter[i][k] # "none" /\ Justified(i, k) => Justified(i, k)'
      BY JustifiedStays
    <3>3. ASSUME NEW k \in Updates, k = verdictFrom[i], k = verdictFrom'[i], Justified(i, k)
          PROVE  Justified(i, verdictFrom[i])'
      <4>1. waiter[i][k] # "none"
        BY <3>3, Numbers DEF OrderInv, VerdictObeyed
      <4>2. Justified(i, k)'
        BY <3>2, <3>3, <4>1
      <4>3. QED
        BY <3>3, <4>2
    <3>4. verdictFrom[i] # Nil => verdictFrom[i] \in Updates
      BY <3>0, Numbers
    <3>5. /\ pc[i] \in {"none", "added", "begin"} => verdictFrom[i] = Nil
          /\ pc[i] \in {"none", "added", "begin", "select", "reload", "check", "callback"}
               => outcome[i] = "none"
      BY DEF OrderInv, FreshInstances, OutcomeRecorded
    <3>6. CASE WalkFirst(i)
      BY <3>0, <3>5, <3>6 DEF WalkFirst, GoTo
    <3>7. CASE WalkReceive(i)
      <4> DEFINE k == localDepsCh[i]
      <4>1. /\ k \in Updates /\ k # Nil /\ waiter[i][k] \in {"sentTrue", "sentFalse"}
            /\ depsSuccess'[i] = (waiter[i][k] = "sentTrue") /\ verdictFrom'[i] = k
            /\ pc'[i] = "reload" /\ DepsCh' = DepsCh /\ outcome'[i] = "none"
        BY <3>0, <3>5, <3>7, Numbers DEF WalkReceive, GoTo, vertexVars
      <4>2. ASSUME ~depsSuccess'[i] PROVE Justified(i, verdictFrom[i])' \/ DepsCh'[i] # Nil
        <5>1. waiter[i][k] = "sentFalse"
          BY <4>1, <4>2
        <5>2. CASE Justified(i, k)
          <6>1. PICK m \in Updates : m = k
            BY <4>1
          <6>2. Justified(i, m)
            BY <5>2, <6>1
          <6>3. Justified(i, m)'
            BY <3>2, <4>1, <6>1, <6>2
          <6>4. QED
            BY <4>1, <6>1, <6>3
        <5>3. CASE <<i, k>> \in waiterCancel
          BY <4>1, <5>3 DEF VerdictInv, CancelledReplaced
        <5>4. QED
          BY <4>1, <5>1, <5>2, <5>3 DEF VerdictInv, FalseHasReason
      <4>3. QED
        BY <4>1, <4>2
    <3>8. CASE WalkReload(i)
      <4>1. /\ pc[i] = "reload" /\ pc'[i] \in {"check", "select"}
            /\ pc'[i] = "select" => localDepsCh'[i] # Nil
            /\ pc'[i] = "check" => DepsCh[i] = Nil /\ localDepsCh[i] = Nil
            /\ UNCHANGED <<depsSuccess, verdictFrom, outcome>>
        BY <3>0, <3>8 DEF WalkReload, GoTo
      <4>2. QED
        BY <3>1, <3>3, <3>4, <3>5, <4>1
    <3>9. CASE WalkUpdated(i)
      <4>1. /\ pc[i] = "select" /\ pc'[i] = "reload"
            /\ UNCHANGED <<depsSuccess, verdictFrom, outcome, DepsCh, localDepsCh>>
        BY <3>0, <3>9 DEF WalkUpdated, GoTo, vertexVars
      <4>2. QED
        BY <3>1, <3>3, <3>4, <3>5, <4>1
    <3>10. CASE WalkCheck(i)
      <4>1. /\ pc[i] = "check" /\ pc'[i] \in {"exit", "callback", "record"}
            /\ outcome'[i] = "skipped" => ~depsSuccess[i]
            /\ UNCHANGED <<depsSuccess, verdictFrom, DepsCh, localDepsCh>>
        BY <3>0, <3>5, <3>10 DEF WalkCheck, GoTo, vertexVars
      <4>2. QED
        BY <3>1, <3>3, <3>4, <3>5, <4>1
    <3>11. CASE WalkCancel(i) \/ WalkRecord(i) \/ WalkDefer(i)
      <4>1. /\ pc'[i] \in {"exit", "closed", "gone"}
            /\ UNCHANGED <<depsSuccess, verdictFrom, outcome, DepsCh, localDepsCh>>
        BY <3>0, <3>11 DEF WalkCancel, WalkRecord, WalkDefer, GoTo, vertexVars
      <4>2. QED
        BY <3>1, <3>3, <3>4, <3>5, <4>1
    <3>12. ASSUME NEW result \in {"ok", "error"}, WalkCallbackReturns(i, result)
           PROVE  Replaced(i)'
      <4>1. pc'[i] = "record" /\ outcome'[i] = result
        BY <3>0, <3>12 DEF WalkCallbackReturns, GoTo
      <4>2. QED
        BY <4>1
    <3>13. QED
      BY <1>3, <3>6, <3>7, <3>8, <3>9, <3>10, <3>11, <3>12 DEF Walk
  <2>3. QED
    BY <2>1, <2>2
<1>4. QED
  BY <1>2, <1>3 DEF FalseIsReplaced

\* The diagnostics under a vertex are those of its goroutine, and a failure is
\* recorded before anything can be skipped because of it.
LEMMA ResultsStayRecorded ==
  ASSUME AllowReadd = FALSE, Typed, OrderInv, VerdictInv, ResultsRecorded, [Next]_vars
  PROVE  ResultsRecorded'
<1>1. \A v \in Vertex : current[v] # 0 => current'[v] = current[v] /\ Current(v) \in Inst
  <2>1. \A g \in Graphs : UpdateBegin(g) =>
          \A v \in Vertex : current[v] # 0 => current'[v] = current[v]
    BY DEF UpdateBegin, Typed, TypeOK
  <2>2. (\A g \in Graphs : ~UpdateBegin(g)) => current' = current
    BY GoroutinesLeaveUpdate
    DEF Next, UpdateStep, UpdateCancel, UpdateSwap, UpdateWaiter, UpdateStart, updateVars, vars
  <2>3. QED
    BY <2>1, <2>2, Numbers DEF Typed, TypeOK, Current, Nil
<1>2. \A i \in Inst : outcome[i] # "none" => outcome'[i] = outcome[i]
  BY Settled
<1>3. ASSUME NEW i \in Inst, WalkRecord(i) PROVE ResultsRecorded'
  <2>1. /\ i = Current(i[1]) /\ current[i[1]] # 0 /\ i[1] \in Vertex
        /\ outcome[i] \in {"ok", "error", "skipped"}
    BY <1>3, OnlyInstance, Numbers DEF WalkRecord, OrderInv, OutcomeRecorded, Typed, TypeOK
  <2>2. /\ UNCHANGED <<outcome, current>>
        /\ pc' = [pc EXCEPT ![i] = "exit"]
        /\ \A v \in Vertex : diagsMap'[v] = IF v = i[1] THEN IF outcome[i] = "ok" THEN "ok" ELSE "error"
                                            ELSE diagsMap[v]
        /\ upstreamFailed' = IF outcome[i] = "skipped" THEN upstreamFailed \cup {i[1]}
                             ELSE upstreamFailed
    BY <1>3, <2>1 DEF WalkRecord, GoTo, updateVars, Typed, TypeOK
  <2>3. \A v \in Vertex : diagsMap'[v] = "error" =>
          current[v] # 0 /\ outcome[Current(v)] \in {"error", "skipped"}
    BY <2>1, <2>2 DEF ResultsRecorded
  <2>4. \A v \in upstreamFailed' : current[v] # 0 /\ outcome[Current(v)] = "skipped"
    BY <2>1, <2>2 DEF ResultsRecorded
  <2>5. \A j \in Inst : pc'[j] \in {"exit", "closed", "gone"} /\ outcome[j] = "skipped"
                          => j[1] \in upstreamFailed'
    BY <2>2 DEF ResultsRecorded, Typed, TypeOK
  <2>6. QED
    BY <2>2, <2>3, <2>4, <2>5 DEF ResultsRecorded, Current
<1>4. ASSUME UNCHANGED <<diagsMap, upstreamFailed>>,
             \A i \in Inst : pc'[i] \in {"exit", "closed", "gone"} /\ outcome'[i] = "skipped" =>
                               pc[i] \in {"exit", "closed", "gone"} /\ outcome[i] = "skipped",
             (\E i \in Inst : outcome'[i] = "skipped") => \E i \in Inst : outcome'[i] = "error"
      PROVE  ResultsRecorded'
  <2>1. \A v \in Vertex : current[v] # 0 /\ outcome[Current(v)] # "none" =>
          current'[v] # 0 /\ outcome'[Current(v)'] = outcome[Current(v)]
    BY <1>1, <1>2 DEF Current
  <2>2. \A v \in Vertex : diagsMap'[v] = "error" =>
          current'[v] # 0 /\ outcome'[Current(v)'] \in {"error", "skipped"}
    BY <1>4, <2>1 DEF ResultsRecorded
  <2>3. \A v \in upstreamFailed' : current'[v] # 0 /\ outcome'[Current(v)'] = "skipped"
    BY <1>4, <2>1 DEF ResultsRecorded, Typed, TypeOK
  <2>4. QED
    BY <1>4, <2>2, <2>3 DEF ResultsRecorded
<1>5. ASSUME NEW i \in Inst, Walk(i), ~WalkRecord(i) PROVE ResultsRecorded'
  <2>1. UNCHANGED <<diagsMap, upstreamFailed>>
    BY <1>5 DEF Walk, WalkCancel, WalkFirst, WalkReceive, WalkUpdated, WalkReload, WalkCheck,
                WalkDefer, WalkCallbackReturns, resultVars
  <2>2. \A j \in Inst : pc'[j] \in {"exit", "closed", "gone"} /\ outcome'[j] = "skipped" =>
                          pc[j] \in {"exit", "closed", "gone"} /\ outcome[j] = "skipped"
    <3>1. pc[i] \in {"begin", "select", "reload", "check", "callback"} => outcome[i] = "none"
      BY DEF OrderInv, OutcomeRecorded
    <3>2. QED
      BY <1>5, <3>1
      DEF Walk, WalkCancel, WalkFirst, WalkReceive, WalkUpdated, WalkReload, WalkCheck,
          WalkDefer, WalkCallbackReturns, GoTo, Typed, TypeOK
  <2>3. (\E j \in Inst : outcome'[j] = "skipped") => \E j \in Inst : outcome'[j] = "error"
    <3>1. ASSUME NEW j \in Inst, outcome'[j] = "skipped" PROVE \E d \in Inst : outcome'[d] = "error"
      <4>1. CASE outcome[j] = "skipped"
        <5>1. PICK d \in Inst : outcome[d] = "error"
          BY <4>1 DEF ResultsRecorded
        <5>2. QED
          BY <1>2, <5>1
      <4>2. CASE outcome[j] # "skipped"
        <5>1. j = i /\ pc[i] = "check" /\ ~depsSuccess[i]
          BY <1>5, <3>1, <4>2
          DEF Walk, WalkCancel, WalkFirst, WalkReceive, WalkUpdated, WalkReload, WalkCheck,
              WalkDefer, WalkCallbackReturns, GoTo, Typed, TypeOK
        <5>2. verdictFrom[i] # Nil /\ Justified(i, verdictFrom[i])
          BY <5>1 DEF VerdictInv, FalseIsReplaced
        <5>3. PICK d \in snapshot[i][verdictFrom[i]] : outcome[d] \in {"error", "skipped"}
          BY <5>2 DEF Justified
        <5>4. d \in Inst
          BY <5>2, Numbers DEF Typed, TypeOK
        <5>5. \E e \in Inst : outcome[e] = "error"
          BY <5>3, <5>4 DEF ResultsRecorded
        <5>6. QED
          BY <1>2, <5>5
      <4>3. QED
        BY <4>1, <4>2
    <3>2. QED
      BY <3>1
  <2>4. QED
    BY <1>4, <2>1, <2>2, <2>3
<1>6. ASSUME ~ \E i \in Inst : Walk(i) PROVE ResultsRecorded'
  <2>1. UNCHANGED <<diagsMap, upstreamFailed, outcome>>
    BY <1>6 DEF Next, UpdateBegin, UpdateStep, UpdateCancel, UpdateSwap, UpdateWaiter,
                UpdateStart, Waiter, WaiterSatisfied, WaiterCancelled, WaiterVerdict, Wait, vars,
                resultVars, walkVars
  <2>2. \A i \in Inst : pc'[i] = pc[i] \/ pc'[i] \in {"added", "begin"}
    BY ZenonT(60), <1>6 DEF Next, UpdateBegin, UpdateStep, UpdateCancel, UpdateSwap, UpdateWaiter,
                UpdateStart, Waiter, WaiterSatisfied, WaiterCancelled, WaiterVerdict, Wait, vars,
                walkVars, Typed, TypeOK
  <2>3. (\E i \in Inst : outcome[i] = "skipped") => \E i \in Inst : outcome[i] = "error"
    BY DEF ResultsRecorded
  <2>4. QED
    BY <1>4, <2>1, <2>2, <2>3
<1>7. QED
  BY <1>3, <1>5, <1>6 DEF Walk

\* What Wait returns when every goroutine is gone: the failures.
LEMMA WaitReturnsFailures ==
  ASSUME Typed, OrderInv, ResultsRecorded, Wait
  PROVE  reported' = {i[1] : i \in {j \in Inst : outcome[j] = "error"}}
<1>1. /\ reported' = {v \in Vertex : diagsMap[v] = "error"} \ upstreamFailed
      /\ \A i \in Inst : pc[i] \in {"none", "gone"}
  BY DEF Wait
<1>2. ASSUME NEW v \in Vertex, diagsMap[v] = "error", v \notin upstreamFailed
      PROVE  \E i \in Inst : outcome[i] = "error" /\ i[1] = v
  <2>1. current[v] # 0 /\ outcome[Current(v)] \in {"error", "skipped"}
    BY <1>2 DEF ResultsRecorded
  <2>2. Current(v) \in Inst /\ Current(v)[1] = v
    BY <2>1, Numbers DEF Typed, TypeOK, Current, Nil
  <2>3. pc[Current(v)] = "gone"
    BY <1>1, <2>1, <2>2 DEF OrderInv, OutcomeRecorded
  <2>4. outcome[Current(v)] # "skipped"
    BY <1>2, <2>2, <2>3 DEF ResultsRecorded
  <2>5. QED
    BY <2>1, <2>2, <2>4
<1>3. ASSUME NEW i \in Inst, outcome[i] = "error"
      PROVE  i[1] \in Vertex /\ diagsMap[i[1]] = "error" /\ i[1] \notin upstreamFailed
  <2>1. i = Current(i[1]) /\ i[1] \in Vertex
    BY <1>3, OnlyInstance, Numbers
  <2>2. pc[i] = "gone"
    BY <1>1, <1>3 DEF OrderInv, OutcomeRecorded
  <2>3. diagsMap[i[1]] = "error"
    BY <1>3, <2>2 DEF OrderInv, OutcomeRecorded
  <2>4. i[1] \notin upstreamFailed
    BY <1>3, <2>1 DEF ResultsRecorded
  <2>5. QED
    BY <2>1, <2>3, <2>4
<1>4. QED
  BY <1>1, <1>2, <1>3

\* After Wait nothing moves but waiters that nobody listens to.
LEMMA WaitedStays ==
  ASSUME Typed, OrderInv, ResultInv, [Next]_vars
  PROVE  WaitedInv'
<1>1. CASE Wait
  <2>1. reported' = {i[1] : i \in {j \in Inst : outcome[j] = "error"}}
    BY <1>1, WaitReturnsFailures DEF ResultInv
  <2>2. QED
    BY <1>1, <2>1 DEF Wait, WaitedInv, UpdateIdle, updateVars, walkVars
<1>2. CASE ~waited /\ ~Wait
  BY <1>2 DEF Next, UpdateBegin, UpdateStep, UpdateCancel, UpdateSwap, UpdateWaiter,
              UpdateStart, Walk, WalkCancel, WalkFirst, WalkReceive, WalkUpdated, WalkReload,
              WalkCheck, WalkRecord, WalkDefer, WalkCallbackReturns, Waiter, WaiterSatisfied,
              WaiterCancelled, WaiterVerdict, vars, resultVars, WaitedInv
<1>3. CASE waited
  <2>1. /\ toCancel = {} /\ toNotify = {} /\ swapped = {} /\ toStart = {}
        /\ \A i \in Inst : pc[i] \in {"none", "gone"}
        /\ reported = {i[1] : i \in {j \in Inst : outcome[j] = "error"}}
    BY <1>3 DEF ResultInv, WaitedInv, UpdateIdle
  <2>2. ~UpdateStep /\ ~Wait /\ \A g \in Graphs : ~UpdateBegin(g)
    BY <1>3, <2>1 DEF UpdateStep, UpdateCancel, UpdateSwap, UpdateWaiter, UpdateStart, Wait,
                      UpdateBegin
  <2>3. \A i \in Inst : ~Walk(i)
    BY <2>1 DEF Walk, WalkCancel, WalkFirst, WalkReceive, WalkUpdated, WalkReload, WalkCheck,
                WalkRecord, WalkDefer, WalkCallbackReturns
  <2>4. UNCHANGED <<toCancel, toNotify, swapped, toStart, pc, outcome, reported>>
    BY <2>2, <2>3 DEF Next, Waiter, WaiterSatisfied, WaiterCancelled, WaiterVerdict, vars,
                      updateVars, walkVars, resultVars
  <2>5. QED
    BY <2>1, <2>4 DEF WaitedInv, UpdateIdle
<1>4. QED
  BY <1>1, <1>2, <1>3

\* VerdictInv and ResultInv are inductive together, given OrderInv.
LEMMA VerdictInvariant ==
  ASSUME AllowReadd = FALSE
  PROVE  Spec => [](VerdictInv /\ ResultInv)
<1>1. Typed /\ OrderInv /\ VerdictInv /\ ResultInv /\ [Next]_vars => (VerdictInv /\ ResultInv)'
  BY FalseKeepsReason, CancelledStaysReplaced, FalseStaysReplaced, ResultsStayRecorded, WaitedStays
  DEF VerdictInv, ResultInv
<1>2. QED
  BY <1>1, VerdictInit, TypedInvariant, OrderInvariant, PTL DEF Spec

\* A vertex is skipped only when a dependency it waited for failed or was
\* skipped, whatever Updates replaced its waiters: walkVertex never acts on the
\* false of a waiter that was cancelled.
THEOREM SkipsAreJustified ==
  ASSUME AllowReadd = FALSE
  PROVE  Spec => []SkipIsJustified
<1>1. VerdictInv => SkipIsJustified
  BY DEF VerdictInv, FalseIsReplaced, Justified, SkipIsJustified, ActedOn
<1>2. QED
  BY <1>1, VerdictInvariant, PTL

\* Wait returns exactly the errors of the callbacks that failed, and at least
\* one of them when a vertex was skipped.
THEOREM WaitReturnsErrors ==
  ASSUME AllowReadd = FALSE
  PROVE  Spec => []WaitResult
<1>1. ResultInv => WaitResult
  BY DEF ResultInv, ResultsRecorded, WaitedInv, WaitResult
<1>2. QED
  BY <1>1, VerdictInvariant, PTL

\* When Wait returns, every vertex the graph kept was executed or skipped.
THEOREM EveryVertexVisited ==
  ASSUME AllowReadd = FALSE
  PROVE  Spec => []NoVertexMissed
<1>1. OrderInv /\ ResultInv => NoVertexMissed
  BY DEF OrderInv, OutcomeRecorded, ResultInv, WaitedInv, NoVertexMissed
<1>2. QED
  BY <1>1, OrderInvariant, VerdictInvariant, PTL

-----------------------------------------------------------------------------
(* A walk of one graph implements GraphWalk. *)

\* The one Update, and the steps of the walk that leave the graph as it is.
LEMMA OneGraphInvariant ==
  ASSUME MaxUpdates = 1, \A g \in Graphs : g.V # {}
  PROVE  Spec => []OneGraph
<1>1. Init => OneGraph
  BY DEF Init, OneGraph
<1>2. Typed /\ OneGraph /\ [Next]_vars => OneGraph'
  <2> SUFFICES ASSUME Typed, OneGraph, [Next]_vars PROVE OneGraph'
    OBVIOUS
  <2>1. ASSUME NEW g \in Graphs, UpdateBegin(g) PROVE OneGraph'
    <3>1. nUpdates = 0 /\ nUpdates' = 1 /\ vertices = {} /\ edges = {}
      BY <2>1 DEF UpdateBegin, Typed, TypeOK, OneGraph
    <3>2. /\ vertices' = g.V /\ edges' = (edges \cup AddedEdges(g)) \ RemovedEdges(g)
          /\ toCancel' = {} /\ cancelCh' = {}
          /\ deps' = [v \in Vertex |-> IF v \in g.V THEN UpdatedDeps(g, v, current') ELSE {}]
          /\ current' = [v \in Vertex |-> IF v \in g.V THEN 1 ELSE current[v]]
      BY <2>1, <3>1 DEF UpdateBegin, OneGraph, vertexVars
    <3>3. edges' = g.E /\ AddedEdges(g) = g.E /\ g.V \subseteq Vertex
      BY <3>1, <3>2, EdgeEnds DEF AddedEdges, RemovedEdges
    <3>4. \A v \in g.V : \A d \in deps'[v] :
            \E e \in g.E : Waits(e) = v /\ d = <<Dep(e), current'[Dep(e)]>>
      BY <3>1, <3>2, <3>3 DEF UpdatedDeps
    <3>5. \A v \in Vertex : current'[v] # 0 => v \in g.V
      BY <3>1, <3>2 DEF OneGraph
    <3>6. QED
      BY <3>1, <3>2, <3>3, <3>4, <3>5 DEF OneGraph, Current
  <2>2. ASSUME UNCHANGED <<nUpdates, vertices, current, edges, deps, toCancel, cancelCh>>
        PROVE  OneGraph'
    BY <2>2 DEF OneGraph, Current
  <2>3. UpdateStep => UNCHANGED <<nUpdates, vertices, current, edges, deps, toCancel, cancelCh>>
    BY DEF UpdateStep, UpdateCancel, UpdateSwap, UpdateWaiter, UpdateStart, OneGraph, vertexVars
  <2>4. (\A g \in Graphs : ~UpdateBegin(g)) /\ ~UpdateStep =>
          UNCHANGED <<nUpdates, vertices, current, edges, deps, toCancel, cancelCh>>
    BY ZenonT(90) DEF updateVars, Next, Walk, WalkCancel, WalkFirst, WalkReceive, WalkUpdated, WalkReload, WalkCheck,
           WalkRecord, WalkDefer, WalkCallbackReturns, Waiter, WaiterSatisfied, WaiterCancelled,
           WaiterVerdict, Wait, vars, vertexVars
  <2>5. QED
    BY <2>1, <2>2, <2>3, <2>4
<1>3. QED
  BY <1>1, <1>2, TypedInvariant, PTL DEF Spec

\* What a walk of one graph keeps true.
OneWalk == Typed /\ WalkInv /\ VerdictInv /\ ResultInv /\ OneGraph /\ AddedAfterDependencies

\* The goroutine of a vertex, and the dependencies its one waiter was given.
LEMMA OneWalkerVertex ==
  ASSUME MaxUpdates = 1, OneWalk
  PROVE  /\ Updates = {1} /\ \A v \in Vertex : <<v, 1>> \in Inst
         /\ \A i \in Inst : i = <<i[1], 1>> /\ i[1] \in Vertex
         /\ \A i \in Inst : pc[i] # "none" \/ outcome[i] # "none"
                              => i = Current(i[1]) /\ i[1] \in vertices
         /\ \A v \in vertices : Current(v) = <<v, 1>> /\ pc[Current(v)] # "none"
         /\ \A v \in Vertex, w \in Vertex : <<v, w>> \in DependsOn(edges)
              => <<w, 1>> \in deps[v] /\ v \in vertices /\ w \in vertices
         /\ \A v \in vertices : \A d \in deps[v] : <<v, d[1]>> \in DependsOn(edges) /\ d = <<d[1], 1>>
<1> USE DEF OneWalk
<1>1. Updates = {1} /\ (\A v \in Vertex : <<v, 1>> \in Inst)
      /\ \A i \in Inst : i = <<i[1], 1>> /\ i[1] \in Vertex
  BY DEF Updates, Inst
<1>2. \A i \in Inst : pc[i] # "none" \/ outcome[i] # "none"
                        => i = Current(i[1]) /\ i[1] \in vertices
  BY <1>1, OnlyInstance DEF WalkInv, OneGraph
<1>3. \A v \in vertices : Current(v) = <<v, 1>> /\ pc[Current(v)] # "none" /\ v \in Vertex
  BY <1>1 DEF WalkInv, OrderInv, OneInstance, Typed, TypeOK, VerticesMapped, Current
<1>4. ASSUME NEW e \in edges
      PROVE  /\ Waits(e) \in vertices /\ Dep(e) \in vertices
             /\ <<Dep(e), 1>> \in deps[Waits(e)]
  <2>1. Waits(e) \in Vertex
    BY EdgeEnds DEF Typed, TypeOK
  <2>2. Waits(e) \in vertices
    BY <2>1 DEF WalkInv, ListenInv, NewEdgesInDeps, OneGraph
  <2>3. nUpdates = 1 /\ current[Waits(e)] = 1
    BY <1>1, <2>2 DEF Typed, VerticesMapped
  <2>4. NewEdge(e)
    BY <2>3 DEF NewEdge
  <2>5. QED
    BY <1>3, <2>4 DEF WalkInv, ListenInv, NewEdgesInDeps
<1>5. \A v \in Vertex, w \in Vertex : <<v, w>> \in DependsOn(edges)
        => <<w, 1>> \in deps[v] /\ v \in vertices /\ w \in vertices
  BY <1>4 DEF DependsOn
<1>6. ASSUME NEW v \in vertices, NEW d \in deps[v]
      PROVE  <<v, d[1]>> \in DependsOn(edges) /\ d = <<d[1], 1>>
  <2>1. PICK e \in edges : Waits(e) = v /\ d = Current(Dep(e))
    BY DEF OneGraph
  <2>2. d = <<Dep(e), 1>>
    BY <1>3, <1>4, <2>1
  <2>3. QED
    BY <2>1, <2>2 DEF DependsOn
<1>7. QED
  BY <1>1, <1>2, <1>3, <1>5, <1>6

\* The walker on one graph takes the steps of the abstract walk, for every graph:
\* it starts a vertex when all its dependencies are ok, skips one when they have
\* ended and one is not ok, and returns when all have ended, with the errors.
THEOREM WalkerImplementsGraphWalk ==
  ASSUME MaxUpdates = 1, AllowReadd = FALSE, \A g \in Graphs : g.V # {}
  PROVE  Spec => ImplementsGraphWalkSteps
<1> DEFINE graph == [V |-> vertices, E |-> DependsOn(edges)]
           state == [v \in Vertex |-> VertexState(v)]
           St(v) == IF outcome[<<v, 1>>] # "none" THEN outcome[<<v, 1>>]
                    ELSE IF pc[<<v, 1>>] = "callback" THEN "running" ELSE "pending"
<1>0. \A v : VertexState(v) = St(v)
  BY DEF VertexState
<1>1. Init => Abstract!Init
  <2> SUFFICES ASSUME Init PROVE Abstract!Init
    OBVIOUS
  <2>1. \A v \in Vertex : <<v, 1>> \in Inst
    BY DEF Inst, Updates
  <2>2. \A v \in Vertex : VertexState(v) = "pending"
    BY <2>1 DEF Init, VertexState
  <2>3. DependsOn(edges) = {}
    BY DEF Init, DependsOn
  <2>4. QED
    BY <2>2, <2>3 DEF Init, Abstract!Init
<1>2. OneWalk /\ OneWalk' /\ [Next]_vars => [Abstract!Next]_Abstract!vars
  <2> SUFFICES ASSUME OneWalk, OneWalk', [Next]_vars
               PROVE  [Abstract!Next]_Abstract!vars
    OBVIOUS
  <2>0. /\ Updates = {1} /\ \A v \in Vertex : <<v, 1>> \in Inst
        /\ \A i \in Inst : i = <<i[1], 1>> /\ i[1] \in Vertex
        /\ \A i \in Inst : pc[i] # "none" \/ outcome[i] # "none"
                             => i = Current(i[1]) /\ i[1] \in vertices
        /\ \A v \in vertices : Current(v) = <<v, 1>> /\ pc[Current(v)] # "none"
        /\ \A v \in Vertex, w \in Vertex : <<v, w>> \in DependsOn(edges)
             => <<w, 1>> \in deps[v] /\ v \in vertices /\ w \in vertices
        /\ \A v \in vertices : \A d \in deps[v] : <<v, d[1]>> \in DependsOn(edges) /\ d = <<d[1], 1>>
    BY OneWalkerVertex
  <2>t. /\ pc \in [Inst -> {"none", "added", "begin", "select", "reload", "check", "callback",
                            "record", "exit", "closed", "gone"}]
        /\ outcome \in [Inst -> {"none", "ok", "error", "skipped"}]
        /\ vertices \subseteq Vertex
    BY DEF OneWalk, Typed, TypeOK
  <2>s. ASSUME UNCHANGED <<vertices, edges, waited, reported>>,
               \A i \in Inst : /\ outcome'[i] = outcome[i]
                               /\ (pc'[i] = "callback") <=> (pc[i] = "callback")
        PROVE  UNCHANGED Abstract!vars
    <3>1. \A v \in Vertex : VertexState(v)' = VertexState(v)
      BY <2>0, <2>s DEF VertexState
    <3>2. state' = state
      BY <3>1
    <3>3. QED
      BY <2>s, <3>2 DEF Abstract!vars
  <2>1. ASSUME NEW g \in Graphs, UpdateBegin(g) PROVE Abstract!Next
    <3>1. nUpdates = 0 /\ vertices = {} /\ edges = {} /\ DependsOn(edges) = {} /\ ~waited
      BY <2>1 DEF UpdateBegin, OneWalk, Typed, TypeOK, OneGraph, DependsOn
    <3>2. edges' = g.E /\ vertices' = g.V /\ UNCHANGED <<outcome, waited, reported>>
      BY <2>1, <3>1 DEF UpdateBegin, AddedEdges, RemovedEdges, resultVars
    <3>3. \A i \in Inst : (pc'[i] = "callback") <=> (pc[i] = "callback")
      <4>1. \A i \in Inst : pc[i] = "none"
        BY <2>0, <3>1
      <4>2. QED
        BY <2>1, <2>t, <4>1 DEF UpdateBegin
    <3>4. \A v \in Vertex : VertexState(v)' = VertexState(v)
      BY <2>0, <3>2, <3>3 DEF VertexState
    <3>5. state' = state
      BY <3>4
    <3>6. graph' = [V |-> g.V, E |-> DependsOn(g.E)]
      BY <3>2 DEF DependsOn
    <3>7. graph = [V |-> {}, E |-> {}]
      BY <3>1
    <3>8. Abstract!Begin([V |-> g.V, E |-> DependsOn(g.E)])
      BY <3>1, <3>2, <3>5, <3>6, <3>7 DEF Abstract!Begin
    <3>9. QED
      BY <3>8 DEF Abstract!Next
  <2>2. CASE UpdateStep
    <3>1. UNCHANGED <<vertices, edges, outcome, waited, reported>>
      BY <2>2 DEF UpdateStep, UpdateCancel, UpdateSwap, UpdateWaiter, UpdateStart, walkVars,
                  resultVars
    <3>2. \A i \in Inst : (pc'[i] = "callback") <=> (pc[i] = "callback")
      BY ZenonT(60), <2>2, <2>t DEF UpdateStep, UpdateCancel, UpdateSwap, UpdateWaiter, UpdateStart, walkVars,
                  OneWalk, WalkInv, OrderInv, UpdatePhases, Current
    <3>3. QED
      BY <2>s, <3>1, <3>2
  <2>3. ASSUME NEW i \in Inst, Walk(i) PROVE Abstract!Next \/ UNCHANGED Abstract!vars
    <3> DEFINE v == i[1]
    <3>1. UNCHANGED <<vertices, edges, waited, reported>>
      BY <2>3 DEF Walk, WalkCancel, WalkFirst, WalkReceive, WalkUpdated, WalkReload, WalkCheck,
                  WalkRecord, WalkDefer, WalkCallbackReturns, updateVars, resultVars
    <3>2. graph' = graph
      BY <3>1 DEF DependsOn
    <3>3. pc[i] # "none" /\ i = <<v, 1>> /\ v \in vertices /\ v \in Vertex /\ i = Current(v)
      <4>1. pc[i] # "none"
        BY <2>3 DEF Walk, WalkCancel, WalkFirst, WalkReceive, WalkUpdated, WalkReload, WalkCheck,
                    WalkRecord, WalkDefer, WalkCallbackReturns
      <4>2. QED
        BY <2>0, <4>1
    <3>4. pc[i] \in {"none", "added", "begin", "select", "reload", "check", "callback"}
            => outcome[i] = "none"
      BY DEF OneWalk, WalkInv, OrderInv, OutcomeRecorded
    <3>5. \A w : VertexState(w)' = IF outcome'[<<w, 1>>] # "none" THEN outcome'[<<w, 1>>]
                                   ELSE IF pc'[<<w, 1>>] = "callback" THEN "running" ELSE "pending"
      BY DEF VertexState
    <3>6. ASSUME NEW s, VertexState(v)' = s,
                 \A j \in Inst : j # i => pc'[j] = pc[j] /\ outcome'[j] = outcome[j]
          PROVE  state' = [state EXCEPT ![v] = s]
      <4>1. \A w \in Vertex : w # v => VertexState(w)' = VertexState(w)
        BY <2>0, <3>3, <3>6 DEF VertexState
      <4>2. QED
        BY <3>3, <3>6, <4>1
    <3>7. CASE WalkCheck(i) /\ i \notin cancelCh /\ depsSuccess[i]
      <4>1. /\ pc[i] = "check" /\ pc' = [pc EXCEPT ![i] = "callback"] /\ outcome' = outcome
        BY <3>7 DEF WalkCheck, GoTo
      <4>2. state[v] = "pending" /\ VertexState(v)' = "running"
        BY <2>t, <3>3, <3>4, <3>5, <4>1 DEF VertexState
      <4>3. state' = [state EXCEPT ![v] = "running"]
        BY <2>t, <3>6, <4>1, <4>2
      <4>4. ASSUME NEW w \in vertices, <<v, w>> \in DependsOn(edges) PROVE state[w] = "ok"
        <5>1. PICK e \in edges : Waits(e) = v /\ Dep(e) = w
          BY <4>4 DEF DependsOn
        <5>2. Ran(i)'
          BY <2>t, <4>1 DEF Ran
        <5>3. nUpdates' = nUpdates /\ current' = current /\ edges' = edges
          BY <3>7 DEF WalkCheck, updateVars
        <5>4. current[v] = 1 /\ current[w] = 1 /\ nUpdates = 1
          BY <2>0, <3>3 DEF Current, OneWalk, Typed, VerticesMapped
        <5>5. outcome'[<<w, 1>>] = "ok"
          BY <3>3, <5>1, <5>2, <5>3, <5>4 DEF OneWalk, AddedAfterDependencies
        <5>6. QED
          BY <2>t, <4>1, <5>5 DEF VertexState
      <4>5. Abstract!Start(v)
        BY <3>1, <3>2, <3>3, <4>2, <4>3, <4>4 DEF Abstract!Start, Abstract!Deps
      <4>6. QED
        BY <3>3, <4>5 DEF Abstract!Next, Abstract!Visit
    <3>8. CASE WalkCheck(i) /\ i \notin cancelCh /\ ~depsSuccess[i]
      <4>1. /\ pc[i] = "check" /\ pc' = [pc EXCEPT ![i] = "record"]
            /\ outcome' = [outcome EXCEPT ![i] = "skipped"]
        BY <3>8 DEF WalkCheck, GoTo
      <4>2. state[v] = "pending" /\ VertexState(v)' = "skipped"
        BY <2>t, <3>3, <3>4, <3>5, <4>1 DEF VertexState
      <4>3. state' = [state EXCEPT ![v] = "skipped"]
        BY <2>t, <3>6, <4>1, <4>2
      <4>4. verdictFrom[i] = 1 /\ Justified(i, 1) /\ waiter[i][1] # "none"
        <5>1. verdictFrom[i] # Nil /\ Justified(i, verdictFrom[i])
          BY <3>8, <4>1 DEF OneWalk, VerdictInv, FalseIsReplaced
        <5>2. verdictFrom[i] = 1
          BY <2>0, <5>1, Numbers DEF OneWalk, Typed, TypeOK
        <5>3. QED
          BY <5>1, <5>2 DEF OneWalk, WalkInv, OrderInv, VerdictObeyed
      <4>5. snapshot[i][1] = deps[v] /\ cancelCh = {}
        <5>1. nUpdates = 1
          BY <2>0, <3>3 DEF OneWalk, Typed, VerticesMapped
        <5>2. QED
          BY <3>3, <4>4, <5>1 DEF OneWalk, WalkInv, ListenInv, SnapshotIsDeps, OneGraph
      <4>6. ASSUME NEW w \in vertices, <<v, w>> \in DependsOn(edges)
            PROVE  state[w] \in {"ok", "error", "skipped"}
        <5>1. DoneChClosed(<<w, 1>>) /\ <<w, 1>> \in Inst /\ w \in Vertex
          BY <2>0, <2>t, <3>3, <4>4, <4>5, <4>6 DEF Justified
        <5>2. outcome[<<w, 1>>] # "none"
          BY <4>5, <5>1 DEF DoneChClosed, OneWalk, WalkInv, OrderInv, OutcomeRecorded
        <5>3. QED
          BY <2>t, <5>1, <5>2 DEF VertexState
      <4>7. \E w \in vertices : <<v, w>> \in DependsOn(edges) /\ state[w] # "ok"
        <5>1. PICK d \in deps[v] : outcome[d] \in {"error", "skipped"}
          BY <4>4, <4>5 DEF Justified
        <5>2. d = <<d[1], 1>> /\ <<v, d[1]>> \in DependsOn(edges) /\ d \in Inst
          BY <2>0, <3>3, <5>1 DEF OneWalk, Typed, TypeOK
        <5>3. d[1] \in vertices /\ d[1] \in Vertex
          BY <2>0, <5>1, <5>2
        <5>4. VertexState(d[1]) = outcome[d]
          BY <5>1, <5>2 DEF VertexState
        <5>5. QED
          BY <5>1, <5>2, <5>3, <5>4
      <4>8. Abstract!Skip(v)
        BY <3>1, <3>2, <3>3, <4>2, <4>3, <4>6, <4>7
        DEF Abstract!Skip, Abstract!Deps, Abstract!Finished
      <4>9. QED
        BY <3>3, <4>8 DEF Abstract!Next, Abstract!Visit
    <3>9. ASSUME NEW result \in {"ok", "error"}, WalkCallbackReturns(i, result) PROVE Abstract!Next
      <4>1. /\ pc[i] = "callback" /\ pc' = [pc EXCEPT ![i] = "record"]
            /\ outcome' = [outcome EXCEPT ![i] = result]
        BY <3>9 DEF WalkCallbackReturns, GoTo
      <4>2. state[v] = "running" /\ VertexState(v)' = result
        BY <2>t, <3>3, <3>4, <3>5, <4>1 DEF VertexState
      <4>3. state' = [state EXCEPT ![v] = result]
        BY <2>t, <3>6, <4>1, <4>2
      <4>4. Abstract!Finish(v)
        BY <3>1, <3>2, <4>2, <4>3 DEF Abstract!Finish
      <4>5. QED
        BY <3>3, <4>4 DEF Abstract!Next, Abstract!Visit
    <3>10. ASSUME ~(WalkCheck(i) /\ i \notin cancelCh),
                  ~ \E result \in {"ok", "error"} : WalkCallbackReturns(i, result)
           PROVE  UNCHANGED Abstract!vars
      <4>1. outcome' = outcome /\ \A j \in Inst : (pc'[j] = "callback") <=> (pc[j] = "callback")
        BY <2>3, <2>t, <3>10
        DEF Walk, WalkCancel, WalkFirst, WalkReceive, WalkUpdated, WalkReload, WalkCheck,
            WalkRecord, WalkDefer, GoTo
      <4>2. QED
        BY <2>s, <3>1, <4>1
    <3>11. QED
      BY <3>7, <3>8, <3>9, <3>10
  <2>4. CASE (\E i \in Inst, k \in Updates : Waiter(i, k)) \/ UNCHANGED vars
    <3>1. UNCHANGED <<vertices, edges, pc, outcome, waited, reported>>
      BY <2>4 DEF Waiter, WaiterSatisfied, WaiterCancelled, WaiterVerdict, vars, updateVars,
                  walkVars, resultVars
    <3>2. QED
      BY <2>s, <3>1
  <2>5. CASE Wait
    <3>1. /\ UNCHANGED <<vertices, edges, pc, outcome>> /\ waited' = TRUE /\ ~waited
          /\ \A i \in Inst : pc[i] \in {"none", "gone"}
          /\ vertices # {}
      BY <2>5 DEF Wait, updateVars, walkVars, OneWalk, OneGraph, Typed, TypeOK
    <3>2. graph' = graph /\ graph # [V |-> {}, E |-> {}]
      BY <3>1 DEF DependsOn
    <3>3. state' = state
      BY <3>1 DEF VertexState
    <3>4. \A w \in vertices : state[w] \in {"ok", "error", "skipped"} /\ state[w] = outcome[<<w, 1>>]
      <4>1. \A w \in vertices : w \in Vertex /\ <<w, 1>> \in Inst /\ pc[<<w, 1>>] = "gone"
        BY <2>0, <2>t, <3>1
      <4>2. \A w \in vertices : outcome[<<w, 1>>] # "none"
        BY <4>1 DEF OneWalk, WalkInv, OrderInv, OutcomeRecorded, OneGraph
      <4>3. QED
        BY <2>t, <4>1, <4>2 DEF VertexState
    <3>5. reported' = {i[1] : i \in {j \in Inst : outcome[j] = "error"}}
      BY <2>5, WaitReturnsFailures DEF OneWalk, WalkInv, ResultInv
    <3>6. reported' = {w \in vertices : state[w] = "error"}
      <4>1. \A i \in Inst : outcome[i] = "error" => i[1] \in vertices /\ i = <<i[1], 1>>
        BY <2>0
      <4>2. \A w \in vertices : state[w] = outcome[<<w, 1>>] /\ <<w, 1>> \in Inst
        BY <2>0, <2>t, <3>4
      <4> HIDE DEF state
      <4>3. ASSUME NEW w \in vertices, state[w] = "error" PROVE w \in reported'
        <5>1. outcome[<<w, 1>>] = "error" /\ <<w, 1>> \in Inst /\ <<w, 1>>[1] = w
          BY <4>2, <4>3
        <5>2. QED
          BY <3>5, <5>1
      <4>4. ASSUME NEW w \in reported' PROVE w \in vertices /\ state[w] = "error"
        <5>1. PICK i \in Inst : outcome[i] = "error" /\ w = i[1]
          BY <3>5, <4>4
        <5>2. QED
          BY <4>1, <4>2, <5>1
      <4>5. QED
        BY <4>3, <4>4
    <3>7. Abstract!Return
      BY <3>1, <3>2, <3>3, <3>4, <3>6 DEF Abstract!Return, Abstract!Finished
    <3>8. QED
      BY <3>7 DEF Abstract!Next
  <2>6. QED
    BY <2>1, <2>2, <2>3, <2>4, <2>5 DEF Next
<1>3. Spec => []OneWalk
  BY TypedInvariant, OrderInvariant, ListenInvariant, VerdictInvariant, OneGraphInvariant,
     AddedVerticesWait, PTL DEF OneWalk, WalkInv
<1>4. QED
  BY <1>1, <1>2, <1>3, PTL DEF Spec, ImplementsGraphWalkSteps
=============================================================================
