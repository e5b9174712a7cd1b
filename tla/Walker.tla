------------------------------- MODULE Walker -------------------------------
(***************************************************************************)
(* The concurrent graph walker of internal/dag/walk.go.                    *)
(*                                                                         *)
(* Every graph the program executes (plan, apply, validate, ...) is walked *)
(* by a Walker: one walkVertex goroutine per vertex runs the callback,     *)
(* one waitDeps goroutine per dependency snapshot of a vertex waits for    *)
(* the DoneCh of each dependency, and Update changes the graph under them. *)
(*                                                                         *)
(* Update number n creates at most one walkerVertex per vertex v and at    *)
(* most one waiter per walkerVertex, so a walkerVertex is the pair <<v,n>> *)
(* and its waiters, with their channels, are numbered by the Update that   *)
(* started them.  Channel number 0 is Go's nil channel.                    *)
(***************************************************************************)
EXTENDS Integers, FiniteSets

CONSTANTS
  Vertex,      \* the vertices any graph may hold
  Graphs,      \* the graphs Update may be given: records [V, E]
  Reverse,     \* Walker.Reverse: the source of an edge waits for its target
  AllowReadd,  \* whether a graph may bring back a vertex removed before
  MaxUpdates   \* bound on the number of calls of Update

IsGraph(g) == /\ g.V \subseteq Vertex
              /\ g.E \subseteq g.V \X g.V

ASSUME WalkerAssumption ==
  /\ \A g \in Graphs : IsGraph(g)
  /\ Reverse \in BOOLEAN /\ AllowReadd \in BOOLEAN
  /\ MaxUpdates \in Nat

Updates == 1..MaxUpdates
Nil == 0
Chan == {Nil} \cup Updates
Inst == Vertex \X Updates        \* walkerVertex objects

VARIABLES
  \* Walker fields, changed only by Update (changeLock)
  nUpdates,      \* calls of Update so far
  vertices,      \* w.vertices, the domain of w.vertexMap
  current,       \* w.vertexMap[v]: the Update that created v's walkerVertex
  edges,         \* w.edges
  deps,          \* walkerVertex.deps of each current vertex
  toCancel,      \* rest of Update: removed vertices whose CancelCh is still open
  toNotify,      \* rest of Update: changed waiters whose channels are unchanged
  swapped,       \* the waiter whose channels changed, old waiter not cancelled yet
  toStart,       \* rest of Update: new vertices without a goroutine
  \* walkerVertex fields
  cancelCh,      \* the walkerVertices whose CancelCh is closed
  DepsCh,        \* walkerVertex.DepsCh
  DepsUpdateCh,  \* walkerVertex.DepsUpdateCh; closed once replaced by a newer one
  depsCancelCh,  \* walkerVertex.depsCancelCh
  \* walkVertex goroutines
  pc,
  localDepsCh,   \* local depsCh
  localUpdateCh, \* local depsUpdateCh
  depsSuccess,
  verdictFrom,   \* history: the waiter that sent depsSuccess (0: the closed channel)
  outcome,       \* history: what the goroutine recorded for its vertex
  \* waitDeps goroutines
  waiter,        \* state of the goroutine, or the value it has put in its doneCh
  snapshot,      \* its copy of deps
  waiterCancel,  \* the waiters whose cancelCh is closed
  \* results (diagsLock)
  diagsMap,
  upstreamFailed,
  waited, reported  \* whether Wait returned, and the vertices with an error in its result

updateVars == <<nUpdates, vertices, current, edges, deps, toCancel, toNotify, swapped, toStart>>
vertexVars == <<cancelCh, DepsCh, DepsUpdateCh, depsCancelCh>>
walkVars   == <<pc, localDepsCh, localUpdateCh, depsSuccess, verdictFrom, outcome>>
waiterVars == <<waiter, snapshot, waiterCancel>>
resultVars == <<diagsMap, upstreamFailed, waited, reported>>
vars == <<updateVars, vertexVars, walkVars, waiterVars, resultVars>>

Init ==
  /\ nUpdates = 0 /\ vertices = {} /\ edges = {}
  /\ current = [v \in Vertex |-> 0]
  /\ deps = [v \in Vertex |-> {}]
  /\ toCancel = {} /\ toNotify = {} /\ swapped = {} /\ toStart = {}
  /\ cancelCh = {}
  /\ DepsCh = [i \in Inst |-> Nil]
  /\ DepsUpdateCh = [i \in Inst |-> Nil]
  /\ depsCancelCh = [i \in Inst |-> Nil]
  /\ pc = [i \in Inst |-> "none"]
  /\ localDepsCh = [i \in Inst |-> Nil]
  /\ localUpdateCh = [i \in Inst |-> Nil]
  /\ depsSuccess = [i \in Inst |-> FALSE]
  /\ verdictFrom = [i \in Inst |-> Nil]
  /\ outcome = [i \in Inst |-> "none"]
  /\ waiter = [i \in Inst |-> [k \in Updates |-> "none"]]
  /\ snapshot = [i \in Inst |-> [k \in Updates |-> {}]]
  /\ waiterCancel = {}
  /\ diagsMap = [v \in Vertex |-> "none"]
  /\ upstreamFailed = {}
  /\ waited = FALSE /\ reported = {}

-----------------------------------------------------------------------------
(* Update *)

\* edgeParts: the vertex that waits, and the one it waits for.
Waits(e) == IF Reverse THEN e[1] ELSE e[2]
Dep(e)   == IF Reverse THEN e[2] ELSE e[1]

UpdateIdle == toCancel \cup toNotify \cup swapped \cup toStart = {}

\* The edges an Update adds to w.edges and takes out of it.  An old edge whose
\* waiter is no longer in vertexMap is skipped, and stays in w.edges.
AddedEdges(g)   == g.E \ edges
RemovedEdges(g) == {e \in edges \ g.E : Waits(e) \in g.V}

\* Deps of v's walkerVertex after the two edge loops of Update(g).
UpdatedDeps(g, v, cur) ==
  LET old  == IF v \in vertices THEN deps[v] ELSE {}
      add  == {Dep(e) : e \in {x \in AddedEdges(g) : Waits(x) = v}}
      gone == {Dep(e) : e \in {x \in RemovedEdges(g) : Waits(x) = v}}
  IN  {d \in old : d[1] \notin add \cup gone} \cup {<<d, cur[d]>> : d \in add}

\* Update takes changeLock, diffs the graphs and changes its own fields. Only
\* Update reads them, so they change at once; what the goroutines see (closed
\* channels, new channels, new goroutines) happens in the steps below. Wait
\* must not have returned: the walk is over then.
UpdateBegin(g) ==
  /\ UpdateIdle /\ ~waited /\ nUpdates < MaxUpdates
  /\ LET n    == nUpdates + 1
         newV == g.V \ vertices
         cur  == [v \in Vertex |-> IF v \in newV THEN n ELSE current[v]]
     IN  /\ AllowReadd \/ \A v \in newV : current[v] = 0
         /\ nUpdates' = n
         /\ vertices' = g.V
         /\ current' = cur
         /\ edges' = (edges \cup AddedEdges(g)) \ RemovedEdges(g)
         /\ deps' = [v \in Vertex |-> IF v \in g.V THEN UpdatedDeps(g, v, cur) ELSE {}]
         /\ toCancel' = {<<v, current[v]>> : v \in vertices \ g.V}
         /\ toNotify' = {Waits(e) : e \in AddedEdges(g) \cup RemovedEdges(g)}
         /\ toStart' = newV
         /\ pc' = [i \in Inst |-> IF i[1] \in newV /\ i[2] = n THEN "added" ELSE pc[i]]
  /\ UNCHANGED <<swapped, vertexVars, localDepsCh, localUpdateCh, depsSuccess,
                 verdictFrom, outcome, waiterVars, resultVars>>

\* close(info.CancelCh) for a removed vertex; map order is random.
UpdateCancel(i) ==
  /\ i \in toCancel
  /\ toCancel' = toCancel \ {i}
  /\ cancelCh' = cancelCh \cup {i}
  /\ UNCHANGED <<nUpdates, vertices, current, edges, deps, toNotify, swapped, toStart,
                 DepsCh, DepsUpdateCh, depsCancelCh, walkVars, waiterVars, resultVars>>

\* Under DepsLock: close the old DepsUpdateCh, install the new channels.
UpdateSwap(v) ==
  LET i == <<v, current[v]>>
  IN  /\ toCancel = {} /\ swapped = {}
      /\ v \in toNotify
      /\ toNotify' = toNotify \ {v}
      /\ swapped' = {v}
      /\ DepsCh' = [DepsCh EXCEPT ![i] = nUpdates]
      /\ DepsUpdateCh' = [DepsUpdateCh EXCEPT ![i] = nUpdates]
      /\ UNCHANGED <<nUpdates, vertices, current, edges, deps, toCancel, toStart, cancelCh,
                     depsCancelCh, walkVars, waiterVars, resultVars>>

\* Mutated: no waiter is started for a vertex that has no dependency left.
UpdateWaiter_OnlyWithDeps(v) ==
  LET i == <<v, current[v]>>
  IN  /\ v \in swapped
      /\ swapped' = {}
      /\ waiterCancel' = IF depsCancelCh[i] = Nil THEN waiterCancel
                         ELSE waiterCancel \cup {<<i, depsCancelCh[i]>>}
      /\ depsCancelCh' = [depsCancelCh EXCEPT ![i] = nUpdates]
      /\ waiter' = [waiter EXCEPT ![i][nUpdates] = IF deps[v] = {} THEN @ ELSE "waiting"]
      /\ snapshot' = [snapshot EXCEPT ![i][nUpdates] = deps[v]]
      /\ UNCHANGED <<nUpdates, vertices, current, edges, deps, toCancel, toNotify, toStart,
                     cancelCh, DepsCh, DepsUpdateCh, walkVars, resultVars>>

\* Cancel the older waiter and start the new one on a copy of deps.
UpdateWaiter(v) ==
  LET i == <<v, current[v]>>
  IN  /\ v \in swapped
      /\ swapped' = {}
      /\ waiterCancel' = IF depsCancelCh[i] = Nil THEN waiterCancel
                         ELSE waiterCancel \cup {<<i, depsCancelCh[i]>>}
      /\ depsCancelCh' = [depsCancelCh EXCEPT ![i] = nUpdates]
      /\ waiter' = [waiter EXCEPT ![i][nUpdates] = "waiting"]
      /\ snapshot' = [snapshot EXCEPT ![i][nUpdates] = deps[v]]
      /\ UNCHANGED <<nUpdates, vertices, current, edges, deps, toCancel, toNotify, toStart,
                     cancelCh, DepsCh, DepsUpdateCh, walkVars, resultVars>>

\* go walkVertex, once all the changed waiters are set up.
UpdateStart(v) ==
  /\ toCancel = {} /\ toNotify = {} /\ swapped = {}
  /\ v \in toStart
  /\ toStart' = toStart \ {v}
  /\ pc' = [pc EXCEPT ![<<v, current[v]>>] = "begin"]
  /\ UNCHANGED <<nUpdates, vertices, current, edges, deps, toCancel, toNotify, swapped,
                 vertexVars, localDepsCh, localUpdateCh, depsSuccess, verdictFrom, outcome,
                 waiterVars, resultVars>>

UpdateStep == \/ \E i \in Inst : UpdateCancel(i)
              \/ \E v \in Vertex : UpdateSwap(v) \/ UpdateWaiter(v) \/ UpdateStart(v)

-----------------------------------------------------------------------------
(* walkVertex *)

GoTo(i, l) == pc' = [pc EXCEPT ![i] = l]

DoneChClosed(i) == pc[i] \in {"closed", "gone"}

\* Mutated: the goroutine also gives up when its waiter is cancelled.
WalkCancel_OnWaiter(i) ==
  /\ pc[i] \in {"begin", "select"}
  /\ i \in cancelCh \/ <<i, localDepsCh[i]>> \in waiterCancel
  /\ GoTo(i, "exit")
  /\ UNCHANGED <<updateVars, vertexVars, localDepsCh, localUpdateCh, depsSuccess,
                 verdictFrom, outcome, waiterVars, resultVars>>

\* A select of the loop sees CancelCh closed, in its first or a later round.
WalkCancel(i) ==
  /\ pc[i] \in {"begin", "select"}
  /\ i \in cancelCh
  /\ GoTo(i, "exit")
  /\ UNCHANGED <<updateVars, vertexVars, localDepsCh, localUpdateCh, depsSuccess,
                 verdictFrom, outcome, waiterVars, resultVars>>

\* First round: the local channel is closed with a true in it.
WalkFirst(i) ==
  /\ pc[i] = "begin"
  /\ depsSuccess' = [depsSuccess EXCEPT ![i] = TRUE]
  /\ GoTo(i, "reload")
  /\ UNCHANGED <<updateVars, vertexVars, localDepsCh, localUpdateCh, verdictFrom, outcome,
                 waiterVars, resultVars>>

\* Deps complete: receive the value of depsCh, and set depsCh to nil.
WalkReceive(i) ==
  LET k == localDepsCh[i]
  IN  /\ pc[i] = "select" /\ k # Nil
      /\ waiter[i][k] \in {"sentTrue", "sentFalse"}
      /\ depsSuccess' = [depsSuccess EXCEPT ![i] = (waiter[i][k] = "sentTrue")]
      /\ verdictFrom' = [verdictFrom EXCEPT ![i] = k]
      /\ localDepsCh' = [localDepsCh EXCEPT ![i] = Nil]
      /\ GoTo(i, "reload")
      /\ UNCHANGED <<updateVars, vertexVars, localUpdateCh, outcome, waiterVars, resultVars>>

\* New deps: the local depsUpdateCh has been closed and replaced.
WalkUpdated(i) ==
  /\ pc[i] = "select"
  /\ localUpdateCh[i] # Nil /\ DepsUpdateCh[i] # localUpdateCh[i]
  /\ GoTo(i, "reload")
  /\ UNCHANGED <<updateVars, vertexVars, localDepsCh, localUpdateCh, depsSuccess,
                 verdictFrom, outcome, waiterVars, resultVars>>

\* Mutated: a verdict ends the loop without a look at updated dependencies.
WalkReload_NotAfterVerdict(i) ==
  LET ch == IF DepsCh[i] # Nil /\ verdictFrom[i] = Nil THEN DepsCh[i] ELSE localDepsCh[i]
  IN  /\ pc[i] = "reload"
      /\ localDepsCh' = [localDepsCh EXCEPT ![i] = ch]
      /\ DepsCh' = [DepsCh EXCEPT ![i] = Nil]
      /\ localUpdateCh' = [localUpdateCh EXCEPT
                             ![i] = IF DepsUpdateCh[i] # Nil THEN DepsUpdateCh[i] ELSE @]
      /\ GoTo(i, IF ch = Nil THEN "check" ELSE "select")
      /\ UNCHANGED <<updateVars, cancelCh, DepsUpdateCh, depsCancelCh, depsSuccess,
                     verdictFrom, outcome, waiterVars, resultVars>>

\* Mutated: the new DepsCh is not looked at before the first verdict.
WalkReload_LateDeps(i) ==
  LET ch == IF verdictFrom[i] # Nil THEN DepsCh[i] ELSE localDepsCh[i]
  IN  /\ pc[i] = "reload"
      /\ localDepsCh' = [localDepsCh EXCEPT ![i] = ch]
      /\ DepsCh' = [DepsCh EXCEPT ![i] = Nil]
      /\ localUpdateCh' = [localUpdateCh EXCEPT
                             ![i] = IF DepsUpdateCh[i] # Nil THEN DepsUpdateCh[i] ELSE @]
      /\ GoTo(i, IF ch = Nil THEN "check" ELSE "select")
      /\ UNCHANGED <<updateVars, cancelCh, DepsUpdateCh, depsCancelCh, depsSuccess,
                     verdictFrom, outcome, waiterVars, resultVars>>

\* Under DepsLock: take the new channels; leave the loop without a depsCh.
WalkReload(i) ==
  LET ch == IF DepsCh[i] # Nil THEN DepsCh[i] ELSE localDepsCh[i]
  IN  /\ pc[i] = "reload"
      /\ localDepsCh' = [localDepsCh EXCEPT ![i] = ch]
      /\ DepsCh' = [DepsCh EXCEPT ![i] = Nil]
      /\ localUpdateCh' = [localUpdateCh EXCEPT
                             ![i] = IF DepsUpdateCh[i] # Nil THEN DepsUpdateCh[i] ELSE @]
      /\ GoTo(i, IF ch = Nil THEN "check" ELSE "select")
      /\ UNCHANGED <<updateVars, cancelCh, DepsUpdateCh, depsCancelCh, depsSuccess,
                     verdictFrom, outcome, waiterVars, resultVars>>

\* The last look at CancelCh, then the callback or the upstream failure.
WalkCheck(i) ==
  /\ pc[i] = "check"
  /\ IF i \in cancelCh
       THEN GoTo(i, "exit") /\ UNCHANGED outcome
       ELSE IF depsSuccess[i]
              THEN GoTo(i, "callback") /\ UNCHANGED outcome
              ELSE /\ GoTo(i, "record")
                   /\ outcome' = [outcome EXCEPT ![i] = "skipped"]
  /\ UNCHANGED <<updateVars, vertexVars, localDepsCh, localUpdateCh, depsSuccess,
                 verdictFrom, waiterVars, resultVars>>

\* The callback returns, with error diagnostics or without.
WalkCallbackReturns(i, result) ==
  /\ pc[i] = "callback"
  /\ outcome' = [outcome EXCEPT ![i] = result]
  /\ GoTo(i, "record")
  /\ UNCHANGED <<updateVars, vertexVars, localDepsCh, localUpdateCh, depsSuccess,
                 verdictFrom, waiterVars, resultVars>>

\* Under diagsLock: record the diagnostics, under the vertex.
WalkRecord(i) ==
  /\ pc[i] = "record"
  /\ diagsMap' = [diagsMap EXCEPT ![i[1]] = IF outcome[i] = "ok" THEN "ok" ELSE "error"]
  /\ upstreamFailed' = IF outcome[i] = "skipped" THEN upstreamFailed \cup {i[1]}
                       ELSE upstreamFailed
  /\ GoTo(i, "exit")
  /\ UNCHANGED <<updateVars, vertexVars, localDepsCh, localUpdateCh, depsSuccess,
                 verdictFrom, outcome, waiterVars, waited, reported>>

\* The deferred close(info.DoneCh), then the deferred w.wait.Done().
WalkDefer(i) ==
  /\ \/ pc[i] = "exit" /\ GoTo(i, "closed")
     \/ pc[i] = "closed" /\ GoTo(i, "gone")
  /\ UNCHANGED <<updateVars, vertexVars, localDepsCh, localUpdateCh, depsSuccess,
                 verdictFrom, outcome, waiterVars, resultVars>>

Walk(i) == \/ WalkCancel(i) \/ WalkFirst(i) \/ WalkReceive(i) \/ WalkUpdated(i)
           \/ WalkReload(i) \/ WalkCheck(i) \/ WalkRecord(i) \/ WalkDefer(i)
           \/ \E result \in {"ok", "error"} : WalkCallbackReturns(i, result)

-----------------------------------------------------------------------------
(* waitDeps *)

\* The loop over deps ends once each DoneCh in turn was seen closed.
WaiterSatisfied(i, k) ==
  /\ waiter[i][k] = "waiting"
  /\ \A d \in snapshot[i][k] : DoneChClosed(d)
  /\ waiter' = [waiter EXCEPT ![i][k] = "checking"]
  /\ UNCHANGED <<updateVars, vertexVars, walkVars, snapshot, waiterCancel, resultVars>>

\* While some dependency is left to wait for, a closed cancelCh sends false.
WaiterCancelled(i, k) ==
  /\ waiter[i][k] = "waiting"
  /\ snapshot[i][k] # {} /\ <<i, k>> \in waiterCancel
  /\ waiter' = [waiter EXCEPT ![i][k] = "sentFalse"]
  /\ UNCHANGED <<updateVars, vertexVars, walkVars, snapshot, waiterCancel, resultVars>>

\* Mutated: the dependencies are satisfied whatever they recorded.
WaiterVerdict_NoErrorCheck(i, k) ==
  /\ waiter[i][k] = "checking"
  /\ waiter' = [waiter EXCEPT ![i][k] = "sentTrue"]
  /\ UNCHANGED <<updateVars, vertexVars, walkVars, snapshot, waiterCancel, resultVars>>

\* Under diagsLock: did any of the dependencies record an error?
WaiterVerdict(i, k) ==
  /\ waiter[i][k] = "checking"
  /\ waiter' = [waiter EXCEPT ![i][k] =
                  IF \E d \in snapshot[i][k] : diagsMap[d[1]] = "error"
                    THEN "sentFalse" ELSE "sentTrue"]
  /\ UNCHANGED <<updateVars, vertexVars, walkVars, snapshot, waiterCancel, resultVars>>

Waiter(i, k) == WaiterSatisfied(i, k) \/ WaiterCancelled(i, k) \/ WaiterVerdict(i, k)

-----------------------------------------------------------------------------
\* Mutated: errors of skipped vertices are returned with the others.
Wait_AllErrors ==
  /\ UpdateIdle /\ nUpdates > 0 /\ ~waited
  /\ \A i \in Inst : pc[i] \in {"none", "gone"}
  /\ waited' = TRUE
  /\ reported' = {v \in Vertex : diagsMap[v] = "error"}
  /\ UNCHANGED <<updateVars, vertexVars, walkVars, waiterVars, diagsMap, upstreamFailed>>

\* Wait returns when the wait group is at zero, with the diagnostics of every
\* vertex that is not in upstreamFailed. The walker is populated before.
Wait ==
  /\ UpdateIdle /\ nUpdates > 0 /\ ~waited
  /\ \A i \in Inst : pc[i] \in {"none", "gone"}
  /\ waited' = TRUE
  /\ reported' = {v \in Vertex : diagsMap[v] = "error"} \ upstreamFailed
  /\ UNCHANGED <<updateVars, vertexVars, walkVars, waiterVars, diagsMap, upstreamFailed>>

Next == \/ \E g \in Graphs : UpdateBegin(g)
        \/ UpdateStep
        \/ \E i \in Inst : Walk(i)
        \/ \E i \in Inst, k \in Updates : Waiter(i, k)
        \/ Wait

\* The Go scheduler runs every goroutine that can run; callbacks return.
Fairness == /\ WF_vars(UpdateStep)
            /\ \A i \in Inst : WF_vars(Walk(i))
            /\ \A i \in Inst, k \in Updates : WF_vars(Waiter(i, k))
            /\ WF_vars(Wait)

Spec == Init /\ [][Next]_vars /\ Fairness

(***************************************************************************)
(* Properties                                                              *)
(***************************************************************************)
\* The type of every variable.
TypeOK ==
  /\ nUpdates \in 0..MaxUpdates
  /\ vertices \subseteq Vertex
  /\ current \in [Vertex -> Chan]
  /\ edges \subseteq Vertex \X Vertex
  /\ deps \in [Vertex -> SUBSET Inst]
  /\ toCancel \subseteq Inst
  /\ toNotify \subseteq Vertex /\ swapped \subseteq Vertex /\ toStart \subseteq Vertex
  /\ cancelCh \subseteq Inst
  /\ DepsCh \in [Inst -> Chan]
  /\ DepsUpdateCh \in [Inst -> Chan]
  /\ depsCancelCh \in [Inst -> Chan]
  /\ pc \in [Inst -> {"none", "added", "begin", "select", "reload", "check", "callback",
                      "record", "exit", "closed", "gone"}]
  /\ localDepsCh \in [Inst -> Chan]
  /\ localUpdateCh \in [Inst -> Chan]
  /\ depsSuccess \in [Inst -> BOOLEAN]
  /\ verdictFrom \in [Inst -> Chan]
  /\ outcome \in [Inst -> {"none", "ok", "error", "skipped"}]
  /\ waiter \in [Inst -> [Updates -> {"none", "waiting", "checking", "sentTrue", "sentFalse"}]]
  /\ snapshot \in [Inst -> [Updates -> SUBSET Inst]]
  /\ waiterCancel \subseteq Inst \X Updates
  /\ diagsMap \in [Vertex -> {"none", "ok", "error"}]
  /\ upstreamFailed \subseteq Vertex
  /\ waited \in BOOLEAN
  /\ reported \subseteq Vertex

\* The callback of i was called.
Ran(i) == pc[i] = "callback" \/ outcome[i] \in {"ok", "error"}

\* The dependencies whose verdict i acted on.
ActedOn(i) == IF verdictFrom[i] = Nil THEN {} ELSE snapshot[i][verdictFrom[i]]

\* A callback runs only if every dependency of the snapshot it acted on has
\* closed its DoneCh, and either executed without error or was itself removed
\* from the graph before it executed. (walkVertex acting on waitDeps' answer.)
DependenciesFirst ==
  \A i \in Inst : Ran(i) =>
    \A d \in ActedOn(i) :
      /\ DoneChClosed(d)
      /\ outcome[d] = "ok" \/ (outcome[d] = "none" /\ d \in cancelCh)

\* "A vertex will only be walked when the dependencies of that vertex have been
\* walked": a vertex the last Update added runs only after every vertex it
\* depends on in that graph executed without error. With one Update (every
\* graph walk of the program) this is the order of the whole walk.
AddedAfterDependencies ==
  \A e \in edges :
    LET i == <<Waits(e), nUpdates>>
        d == <<Dep(e), current[Dep(e)]>>
    IN  (nUpdates > 0 /\ current[Waits(e)] = nUpdates /\ Ran(i))
           => DoneChClosed(d) /\ outcome[d] = "ok"

\* A vertex is skipped as upstreamFailed only if a dependency it really waited
\* for failed or was skipped: the false that a cancelled waiter sends to its
\* channel is never what a vertex acts on.
SkipIsJustified ==
  \A i \in Inst : outcome[i] = "skipped" =>
    \E d \in ActedOn(i) : outcome[d] \in {"error", "skipped"}

\* Wait returns the error of every callback that failed, of removed vertices
\* too, and of nothing else; and when a vertex was skipped, Wait does return an
\* error that explains it.
WaitResult ==
  waited => /\ reported = {i[1] : i \in {j \in Inst : outcome[j] = "error"}}
            /\ (\E i \in Inst : outcome[i] = "skipped") => reported # {}

\* When Wait returns, every vertex that was not removed was visited: executed,
\* or skipped. Replacing waiters in the middle of a walk loses no vertex.
NoVertexMissed ==
  waited => \A i \in Inst : pc[i] # "none" /\ i \notin cancelCh => outcome[i] # "none"

\* Once a graph is given, the walk ends: no set of changes leaves a vertex
\* listening to a channel that nobody sends on.
WalkEnds == nUpdates > 0 ~> waited

=============================================================================
