--------------------------- MODULE WalkerInvariant ---------------------------
(***************************************************************************)
(* The inductive invariant behind the ordering properties of Walker, for   *)
(* walks that bring no removed vertex back (AllowReadd = FALSE).           *)
(***************************************************************************)
EXTENDS Walker

Current(v) == <<v, current[v]>>

\* A walkerVertex is the one vertexMap gave its vertex: no vertex has two, and a
\* vertex of the graph has one.
OneInstance == /\ \A i \in Inst : pc[i] # "none" => i = Current(i[1])
               /\ \A v \in vertices : pc[Current(v)] # "none"

\* A goroutine that is not started has received nothing.
FreshInstances ==
  \A i \in Inst :
    /\ pc[i] = "none" => DepsCh[i] = Nil
    /\ pc[i] \in {"none", "added", "begin"} => localDepsCh[i] = Nil /\ verdictFrom[i] = Nil

\* The phases of Update: no waiter of this Update before its own step, no
\* goroutine of a new vertex before the last phase.
UpdatePhases ==
  /\ \A i \in Inst, k \in Updates : waiter[i][k] # "none" => k <= nUpdates
  /\ \A v \in toNotify \cup swapped : waiter[Current(v)][nUpdates] = "none"
  /\ toNotify \cap swapped = {} /\ \A v, w \in swapped : v = w
  /\ \A v \in toStart : current[v] = nUpdates /\ pc[Current(v)] = "added"

\* The outcome is set after the callback, and recorded before DoneCh closes.
OutcomeRecorded ==
  \A i \in Inst :
    /\ pc[i] \in {"none", "added", "begin", "select", "reload", "check", "callback"}
         => outcome[i] = "none"
    /\ pc[i] = "record" => outcome[i] # "none"
    /\ pc[i] \in {"exit", "closed", "gone"} =>
         /\ outcome[i] # "none" \/ i \in cancelCh
         /\ outcome[i] \in {"error", "skipped"} => diagsMap[i[1]] = "error"

\* A waiter that checks or has said true saw every DoneCh closed, and true means
\* no dependency failed.
WaitersHonest ==
  \A i \in Inst, k \in Updates : \A d \in snapshot[i][k] :
    /\ waiter[i][k] \in {"checking", "sentTrue"} => DoneChClosed(d)
    /\ waiter[i][k] = "sentTrue" =>
         outcome[d] = "ok" \/ (outcome[d] = "none" /\ d \in cancelCh)

\* depsSuccess is what the waiter sent, and callbacks run on success alone.
VerdictObeyed ==
  \A i \in Inst :
    /\ verdictFrom[i] # Nil =>
         waiter[i][verdictFrom[i]] = IF depsSuccess[i] THEN "sentTrue" ELSE "sentFalse"
    /\ Ran(i) => depsSuccess[i]

OrderInv == /\ OneInstance /\ FreshInstances /\ UpdatePhases
            /\ OutcomeRecorded /\ WaitersHonest /\ VerdictObeyed

\* Edges whose waiter was added by the last Update.
NewEdge(e) == e \in edges /\ nUpdates > 0 /\ current[Waits(e)] = nUpdates

\* Their dependency is in the waiter's deps, and both ends are in the graph.
NewEdgesInDeps ==
  \A e \in edges :
    /\ current[Waits(e)] # 0
    /\ NewEdge(e) => /\ Waits(e) \in vertices /\ Dep(e) \in vertices
                     /\ Current(Dep(e)) \in deps[Waits(e)]

SnapshotIsDeps ==
  \A v \in vertices : waiter[Current(v)][nUpdates] # "none" =>
                        snapshot[Current(v)][nUpdates] = deps[v]

\* A vertex added by the last Update with a dependency listens to the waiter
\* of that Update, from its first look at DepsCh to its verdict.
Listens(i, n) ==
  /\ DepsCh[i] \in {Nil, n} /\ localDepsCh[i] \in {Nil, n}
  /\ pc[i] \in {"added", "begin"} => DepsCh[i] = n
  /\ pc[i] = "select" => localDepsCh[i] = n
  /\ pc[i] = "reload" => n \in {DepsCh[i], localDepsCh[i], verdictFrom[i]}
  /\ pc[i] = "check" \/ Ran(i) => verdictFrom[i] = n

NewVerticesListen ==
  \A e \in edges : NewEdge(e) =>
    LET v == Waits(e)
        i == Current(v)
    IN  /\ v \in toNotify => pc[i] = "added" /\ DepsCh[i] = Nil /\ localDepsCh[i] = Nil
        /\ v \in swapped => pc[i] = "added" /\ DepsCh[i] = nUpdates /\ localDepsCh[i] = Nil
        /\ v \notin toNotify \cup swapped => waiter[i][nUpdates] # "none" /\ Listens(i, nUpdates)

\* A cancelled walkerVertex belongs to a vertex that is out of the graph.
CancelledRemoved ==
  \A i \in cancelCh \cup toCancel : i[1] \notin vertices /\ current[i[1]] # 0

ListenInv == NewEdgesInDeps /\ SnapshotIsDeps /\ NewVerticesListen /\ CancelledRemoved

WalkInv == OrderInv /\ ListenInv

-----------------------------------------------------------------------------
(* Behind the skips and the result of Wait. *)

\* The dependencies of waiter k of i are all done, and one of them failed or was
\* skipped: the false that waiter sends is a verdict on them.
Justified(i, k) == /\ \A d \in snapshot[i][k] : DoneChClosed(d)
                   /\ \E d \in snapshot[i][k] : outcome[d] \in {"error", "skipped"}

\* A waiter that sent false had a reason, or was told to give up.
FalseHasReason ==
  \A i \in Inst, k \in Updates :
    waiter[i][k] = "sentFalse" => Justified(i, k) \/ <<i, k>> \in waiterCancel

\* A waiter is cancelled after the channel of the next one was installed: its
\* own is not in DepsCh, and a goroutine that still listens to it finds the
\* next one there.
CancelledReplaced ==
  /\ \A i \in Inst : depsCancelCh[i] # Nil => waiter[i][depsCancelCh[i]] # "none"
  /\ \A v \in swapped : LET i == Current(v)
                        IN  \/ DepsCh[i] = nUpdates
                            \/ DepsCh[i] = Nil /\ localDepsCh[i] = nUpdates
  /\ \A i \in Inst, k \in Updates : <<i, k>> \in waiterCancel =>
       /\ waiter[i][k] # "none"
       /\ DepsCh[i] # k
       /\ localDepsCh[i] = k => DepsCh[i] # Nil

\* A goroutine that holds a false without reason has another channel to listen
\* to; past the loop, a false has its reason.
FalseIsReplaced ==
  \A i \in Inst :
    /\ pc[i] \in {"reload", "select", "check"} /\ verdictFrom[i] = Nil => depsSuccess[i]
    /\ pc[i] \in {"reload", "select"} /\ verdictFrom[i] # Nil /\ ~depsSuccess[i] =>
         Justified(i, verdictFrom[i]) \/ DepsCh[i] # Nil \/ localDepsCh[i] # Nil
    /\ (pc[i] = "check" /\ ~depsSuccess[i]) \/ outcome[i] = "skipped" =>
         verdictFrom[i] # Nil /\ Justified(i, verdictFrom[i])

\* The results of a vertex are those of its one walkerVertex; behind skips
\* there is a failure.
ResultsRecorded ==
  /\ \A v \in Vertex : diagsMap[v] = "error" =>
       current[v] # 0 /\ outcome[Current(v)] \in {"error", "skipped"}
  /\ \A v \in upstreamFailed : current[v] # 0 /\ outcome[Current(v)] = "skipped"
  /\ \A i \in Inst : pc[i] \in {"exit", "closed", "gone"} /\ outcome[i] = "skipped"
                       => i[1] \in upstreamFailed
  /\ (\E i \in Inst : outcome[i] = "skipped") => \E i \in Inst : outcome[i] = "error"

\* Wait returns when everything has ended, with the failures.
WaitedInv ==
  waited => /\ UpdateIdle
            /\ \A i \in Inst : pc[i] \in {"none", "gone"}
            /\ reported = {i[1] : i \in {j \in Inst : outcome[j] = "error"}}

VerdictInv == FalseHasReason /\ CancelledReplaced /\ FalseIsReplaced
ResultInv  == ResultsRecorded /\ WaitedInv
=============================================================================
