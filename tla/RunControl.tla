------------------------------ MODULE RunControl ------------------------------
(* How an interrupt stops an operation: the command that waits for signals  *)
(* (Meta.RunOperation), the operation's goroutine (Local.Operation, opPlan, *)
(* opApply and opWait), the run of the tofu.Context it drives (acquireRun,  *)
(* walk, releaseRun), the goroutine of watchStop, and the one that calls    *)
(* Context.Stop; with the provider manager's instances and their lock.      *)
(*                                                                          *)
(* A walk configures its providers and makes one provider call for each     *)
(* resource, after asking the stop hook; a call takes as long as the        *)
(* provider likes. The process ends when the command returns.               *)
EXTENDS Naturals

CONSTANTS
  Resource,   \* resource instances, each visited once in a walk
  Provider,   \* provider instances
  ProviderOf, \* the provider of each resource
  MaxWalks    \* the walks a run of Plan may make

ASSUME ProviderAssumption == ProviderOf \in [Resource -> Provider]
ASSUME WalksAssumption == MaxWalks \in Nat \ {0}

VARIABLES
  cmd,      \* "plan", "apply", or "applyfile": apply of a saved plan
  main,     \* RunOperation: "wait" for a signal, "stopping", "forced", "done"
  op,       \* the operation's goroutine
  stopCtx, cancelCtx,  \* whether stopCtx and cancelCtx are cancelled
  phase,    \* what the context runs: "plan" or "apply"
  core,     \* how far it is
  walks,    \* the walks it has begun
  runCond,  \* whether c.runCond is set: a run is under way
  runContextCancel,    \* whether c.runContextCancel is set
  runDone,  \* whether the latest run's context is cancelled
  hook,     \* the stop hook's flag, c.sh
  watch,    \* the goroutine of watchStop
  walkOver, \* whether the walk closed watchStop's stop channel
  stopper,  \* the goroutine of Context.Stop
  prov,     \* each provider instance
  stopped,  \* the provider instances whose Stop was called
  res       \* each resource in the present walk

operation == <<cmd, main, op, stopCtx, cancelCtx>>
run       == <<runCond, runContextCancel, runDone, hook>>
walkVars  == <<prov, res>>
runVars == <<operation, phase, core, walks, run, watch, walkOver, stopper, stopped, walkVars>>

RunInit ==
  /\ cmd \in {"plan", "apply", "applyfile"}
  /\ main = "wait" /\ op = "start"
  /\ stopCtx = FALSE /\ cancelCtx = FALSE
  /\ phase = "plan" /\ core = "none" /\ walks = 0
  /\ runCond = FALSE /\ runContextCancel = FALSE /\ runDone = FALSE
  /\ hook = FALSE
  /\ watch = "none" /\ walkOver = FALSE
  /\ stopper = "none"
  /\ prov = [p \in Provider |-> "none"] /\ stopped = {}
  /\ res = [r \in Resource |-> "todo"]

(* Context.Stop holds c.l while it notifies the hooks. *)
Locked == stopper = "notify"

-------------------------------------------------------------------------------
(* The command *)

(* The first interrupt: op.Stop. *)
Interrupt ==
  /\ main = "wait"
  /\ main' = "stopping"
  /\ stopCtx' = TRUE
  /\ UNCHANGED <<cmd, op, cancelCtx, phase, core, walks, run, watch, walkOver, stopper, stopped, walkVars>>

(* The second: op.Cancel. *)
InterruptAgain ==
  /\ main = "stopping"
  /\ main' = "forced"
  /\ cancelCtx' = TRUE
  /\ UNCHANGED <<cmd, op, stopCtx, phase, core, walks, run, watch, walkOver, stopper, stopped, walkVars>>

(* The operation is done, and with the command the process ends, whatever   *)
(* its other goroutines are doing.                                          *)
CommandReturns ==
  /\ op = "returned"
  /\ main' = "done"
  /\ UNCHANGED <<cmd, op, stopCtx, cancelCtx, phase, core, walks, run, watch, walkOver, stopper, stopped, walkVars>>

(* After two interrupts, the command waits five seconds for that. *)
TimeUp ==
  /\ main = "forced"
  /\ main' = "done"
  /\ UNCHANGED <<cmd, op, stopCtx, cancelCtx, phase, core, walks, run, watch, walkOver, stopper, stopped, walkVars>>

-------------------------------------------------------------------------------
(* The operation *)

(* The goroutine ends, and with it its contexts. *)
Return == op' = "returned" /\ stopCtx' = TRUE /\ cancelCtx' = TRUE

(* localRun locks the state and loads configuration and plan, or fails.     *)
(* apply without a saved plan calls Plan itself; opPlan calls Plan, and     *)
(* apply of a saved plan Apply, in a goroutine, and waits in opWait.        *)
Begin ==
  /\ op = "start"
  /\ \/ /\ op' = IF cmd = "apply" THEN "planning" ELSE "wait"
        /\ core' = "acquire"
        /\ phase' = IF cmd = "applyfile" THEN "apply" ELSE "plan"
        /\ UNCHANGED <<stopCtx, cancelCtx>>
     \/ Return /\ UNCHANGED <<core, phase>>
  /\ UNCHANGED <<cmd, main, walks, run, watch, walkOver, stopper, stopped, walkVars>>

(* Plan has returned: a failed one, or an interrupt in the meantime, ends   *)
(* the operation; otherwise the user may be asked.                          *)
Planned ==
  /\ op = "planning" /\ core = "returned"
  /\ IF stopCtx \/ \E r \in Resource : res[r] = "failed"
     THEN Return
     ELSE op' = "approve" /\ UNCHANGED <<stopCtx, cancelCtx>>
  /\ UNCHANGED <<cmd, main, phase, core, walks, run, watch, walkOver, stopper, stopped, walkVars>>

(* The answer, or none because it was not asked for; an interrupt ends the  *)
(* question. Apply gets a goroutine of its own.                             *)
Approved ==
  /\ op = "approve"
  /\ op' = "wait"
  /\ core' = "acquire" /\ phase' = "apply"
  /\ UNCHANGED <<cmd, main, stopCtx, cancelCtx, walks, run, watch, walkOver, stopper, stopped, walkVars>>

NotApproved ==
  /\ op = "approve"
  /\ Return
  /\ UNCHANGED <<cmd, main, phase, core, walks, run, watch, walkOver, stopper, stopped, walkVars>>

(* Mutated: opWait waits for Context.Stop to return. *)
RunReturned_AfterStop ==
  /\ op \in {"wait", "graceful"}
  /\ core = "returned" \/ (op = "graceful" /\ stopper = "done")
  /\ op' = "finish"
  /\ UNCHANGED <<cmd, main, stopCtx, cancelCtx, phase, core, walks, run, watch, walkOver, stopper, stopped, walkVars>>

(* opWait: the run has returned, and the operation writes its result. *)
RunReturned ==
  /\ op \in {"wait", "graceful"} /\ core = "returned"
  /\ op' = "finish"
  /\ UNCHANGED <<cmd, main, stopCtx, cancelCtx, phase, core, walks, run, watch, walkOver, stopper, stopped, walkVars>>

Finish ==
  /\ op = "finish"
  /\ Return
  /\ UNCHANGED <<cmd, main, phase, core, walks, run, watch, walkOver, stopper, stopped, walkVars>>

(* opWait: the interrupt. The state is persisted first. *)
StopRequested ==
  /\ op = "wait" /\ stopCtx
  /\ op' = "persist"
  /\ UNCHANGED <<cmd, main, stopCtx, cancelCtx, phase, core, walks, run, watch, walkOver, stopper, stopped, walkVars>>

(* Then Context.Stop gets a goroutine that nobody waits for. *)
StopSpawned ==
  /\ op = "persist"
  /\ op' = "graceful"
  /\ stopper' = "lock"
  /\ UNCHANGED <<cmd, main, stopCtx, cancelCtx, phase, core, walks, run, watch, walkOver, stopped, walkVars>>

(* Mutated: once it waits for a graceful stop, opWait waits for the run. *)
Cancelled_OnlyBefore ==
  /\ op = "wait" /\ cancelCtx
  /\ Return
  /\ UNCHANGED <<cmd, main, phase, core, walks, run, watch, walkOver, stopper, stopped, walkVars>>

(* opWait: the second interrupt. The run is left alone. *)
Cancelled ==
  /\ op \in {"wait", "graceful"} /\ cancelCtx
  /\ Return
  /\ UNCHANGED <<cmd, main, phase, core, walks, run, watch, walkOver, stopper, stopped, walkVars>>

-------------------------------------------------------------------------------
(* The run of the context *)

Acquired ==
  /\ core' = "acquired" /\ walks' = 0
  /\ runCond' = TRUE /\ runContextCancel' = TRUE /\ runDone' = FALSE
  /\ hook' = FALSE

(* Mutated: c.l is not taken. *)
AcquireRun_Unlocked ==
  /\ core = "acquire" /\ ~runCond
  /\ Acquired
  /\ UNCHANGED <<operation, phase, watch, walkOver, stopper, stopped, walkVars>>

(* The run begins, with a context of its own and the hook reset. *)
AcquireRun ==
  /\ core = "acquire" /\ ~runCond /\ ~Locked
  /\ Acquired
  /\ UNCHANGED <<operation, phase, watch, walkOver, stopper, stopped, walkVars>>

(* walk: watchStop's goroutine and the graph walk, with new provider        *)
(* instances; or an error before any walk. A destroy plan walks twice.      *)
BeginWalk ==
  /\ core = "acquired"
  /\ \/ /\ walks < MaxWalks
        /\ walks' = walks + 1
        /\ core' = "walk"
        /\ watch' = "select" /\ walkOver' = FALSE
        /\ prov' = [p \in Provider |-> "none"] /\ stopped' = {}
        /\ res' = [r \in Resource |-> "todo"]
     \/ /\ core' = "release"
        /\ \/ res' = [r \in Resource |-> "failed"]
           \/ walks > 0 /\ res' = res
        /\ UNCHANGED <<walks, watch, walkOver, prov, stopped>>
  /\ UNCHANGED <<operation, phase, run, stopper>>

(* NewConfiguredProvider: the manager's lock is held from before the        *)
(* instance exists until it has been configured.                            *)
InstancesLocked == \E p \in Provider : prov[p] = "configuring"

Configure(p) ==
  /\ core = "walk" /\ prov[p] = "none" /\ ~InstancesLocked
  /\ prov' = [prov EXCEPT ![p] = "configuring"]
  /\ UNCHANGED <<operation, phase, core, walks, run, watch, walkOver, stopper, stopped, res>>

Configured(p) ==
  /\ prov[p] = "configuring"
  /\ \E o \in {"ready", "failed"} : prov' = [prov EXCEPT ![p] = o]
  /\ UNCHANGED <<operation, phase, core, walks, run, watch, walkOver, stopper, stopped, res>>

(* A resource whose provider failed is skipped; another is handled if the   *)
(* stop hook lets it.                                                       *)
Visit(r) ==
  /\ core = "walk" /\ res[r] = "todo"
  /\ prov[ProviderOf[r]] \in {"ready", "failed"}
  /\ res' = [res EXCEPT ![r] =
       IF prov[ProviderOf[r]] = "ready" /\ ~hook THEN "passed" ELSE "failed"]
  /\ UNCHANGED <<operation, phase, core, walks, run, watch, walkOver, stopper, stopped, prov>>

(* The configuration is evaluated, and the provider called: nobody asks the *)
(* hook again. There may be an error, or nothing to ask the provider for.   *)
Call(r) ==
  /\ res[r] = "passed"
  /\ \E o \in {"calling", "done", "failed"} : res' = [res EXCEPT ![r] = o]
  /\ UNCHANGED <<operation, phase, core, walks, run, watch, walkOver, stopper, stopped, prov>>

(* The provider answers; the hook is asked again. *)
CallReturns(r) ==
  /\ res[r] = "calling"
  /\ \E o \in {"done", "failed"} : (hook => o = "failed") /\ res' = [res EXCEPT ![r] = o]
  /\ UNCHANGED <<operation, phase, core, walks, run, watch, walkOver, stopper, stopped, prov>>

WalkComplete ==
  /\ core = "walk"
  /\ \A p \in Provider : prov[p] \in {"ready", "failed"}
  /\ \A r \in Resource : res[r] \in {"done", "failed"}

AllDone == \A r \in Resource : res[r] = "done"

(* Mutated: walk does not wait for watchStop's goroutine. *)
EndWalk_NoWait ==
  /\ WalkComplete
  /\ walkOver' = TRUE
  /\ core' = "release"
  /\ UNCHANGED <<operation, phase, walks, run, watch, stopper, stopped, walkVars>>

(* Mutated: the stop channel is closed when the goroutine has ended. *)
EndWalk_CloseLast ==
  /\ WalkComplete
  /\ core' = "unwatch"
  /\ UNCHANGED <<operation, phase, walks, run, watch, walkOver, stopper, stopped, walkVars>>

(* The walk is over: watchStop's stop channel is closed. *)
EndWalk ==
  /\ WalkComplete
  /\ walkOver' = TRUE
  /\ core' = "unwatch"
  /\ UNCHANGED <<operation, phase, walks, run, watch, stopper, stopped, walkVars>>

(* watchStop's goroutine has ended: another walk or the end of the run. *)
Unwatched ==
  /\ core = "unwatch" /\ watch = "done"
  /\ core' = IF AllDone /\ phase = "plan" THEN "acquired" ELSE "release"
  /\ UNCHANGED <<operation, phase, walks, run, watch, walkOver, stopper, stopped, walkVars>>

(* The run ends; its context is cancelled, though c.runContextCancel stays, *)
(* and the goroutine that waits in Stop is woken.                           *)
ReleaseRun ==
  /\ core = "release" /\ ~Locked
  /\ core' = "returned"
  /\ runDone' = (runDone \/ runContextCancel)
  /\ runCond' = FALSE
  /\ stopper' = IF stopper = "wait" THEN "woken" ELSE stopper
  /\ UNCHANGED <<operation, phase, walks, runContextCancel, hook, watch, walkOver, stopped, walkVars>>

-------------------------------------------------------------------------------
(* watchStop's goroutine *)

(* The run's context is cancelled, or the walk is over; if both, either. *)
WatchSelect ==
  /\ watch = "select"
  /\ \/ runDone /\ watch' = "stopall"
     \/ walkOver /\ watch' = "done"
  /\ UNCHANGED <<operation, phase, core, walks, run, walkOver, stopper, stopped, walkVars>>

(* StopAll stops every instance, with the manager's lock. *)
StopAll ==
  /\ watch = "stopall" /\ ~InstancesLocked
  /\ watch' = "done"
  /\ stopped' = {p \in Provider : prov[p] # "none"}
  /\ UNCHANGED <<operation, phase, core, walks, run, walkOver, stopper, walkVars>>

-------------------------------------------------------------------------------
(* Context.Stop *)

(* Mutated: the run's context is not cancelled. *)
StopRun_HookOnly ==
  /\ stopper = "lock"
  /\ stopper' = "notify"
  /\ hook' = (hook \/ runContextCancel)
  /\ UNCHANGED <<operation, phase, core, walks, runCond, runContextCancel, runDone, watch, walkOver, stopped, walkVars>>

(* With c.l: the hook is set and the run's context cancelled, if there is   *)
(* or was a run.                                                            *)
StopRun ==
  /\ stopper = "lock"
  /\ stopper' = "notify"
  /\ hook' = (hook \/ runContextCancel)
  /\ runDone' = (runDone \/ runContextCancel)
  /\ runContextCancel' = FALSE
  /\ UNCHANGED <<operation, phase, core, walks, runCond, watch, walkOver, stopped, walkVars>>

(* The hooks have been told, and persisted the state; Stop waits for the    *)
(* run, if there is one, which gives c.l up.                                *)
HooksNotified ==
  /\ stopper = "notify"
  /\ stopper' = IF runCond THEN "wait" ELSE "done"
  /\ UNCHANGED <<operation, phase, core, walks, run, watch, walkOver, stopped, walkVars>>

StopReturns ==
  /\ stopper = "woken"
  /\ stopper' = "done"
  /\ UNCHANGED <<operation, phase, core, walks, run, watch, walkOver, stopped, walkVars>>

-------------------------------------------------------------------------------
Operation == Begin \/ Planned \/ RunReturned \/ Finish \/ StopRequested \/ StopSpawned \/ Cancelled
User      == Interrupt \/ InterruptAgain \/ Approved \/ NotApproved
Core      == AcquireRun \/ BeginWalk \/ EndWalk \/ Unwatched \/ ReleaseRun
Walk      == \/ \E p \in Provider : Configure(p) \/ Configured(p)
             \/ \E r \in Resource : Visit(r) \/ Call(r) \/ CallReturns(r)
Watcher   == WatchSelect \/ StopAll
Stop      == StopRun \/ HooksNotified \/ StopReturns

Alive == main # "done"
Ended == main = "done" /\ UNCHANGED runVars

RunNext ==
  \/ Alive /\ (User \/ CommandReturns \/ TimeUp \/ Operation \/ Core \/ Walk \/ Watcher \/ Stop)
  \/ Ended

RunSpec == RunInit /\ [][RunNext]_runVars

(* The goroutines run. Nothing makes a provider or the user answer, and the *)
(* five seconds may be longer than anything else.                           *)
FairSpec ==
  /\ RunSpec
  /\ WF_runVars(Alive /\ CommandReturns) /\ WF_runVars(Alive /\ Operation)
  /\ WF_runVars(Alive /\ Core) /\ WF_runVars(Alive /\ Watcher) /\ WF_runVars(Alive /\ Stop)
  /\ \A p \in Provider : WF_runVars(Alive /\ Configure(p))
  /\ \A r \in Resource : WF_runVars(Alive /\ Visit(r)) /\ WF_runVars(Alive /\ Call(r))

-------------------------------------------------------------------------------
(* The fields keep their types, and a run is under way exactly while        *)
(* c.runCond is set, so that the next run can begin (context.go:224-229).   *)
RunTypeOK ==
  /\ cmd \in {"plan", "apply", "applyfile"}
  /\ main \in {"wait", "stopping", "forced", "done"}
  /\ op \in {"start", "planning", "approve", "wait", "persist", "graceful", "finish", "returned"}
  /\ stopCtx \in BOOLEAN /\ cancelCtx \in BOOLEAN
  /\ phase \in {"plan", "apply"}
  /\ core \in {"none", "acquire", "acquired", "walk", "unwatch", "release", "returned"}
  /\ walks \in 0 .. MaxWalks
  /\ runContextCancel \in BOOLEAN /\ runDone \in BOOLEAN /\ hook \in BOOLEAN
  /\ runCond \in BOOLEAN
  /\ runCond <=> core \in {"acquired", "walk", "unwatch", "release"}
  /\ watch \in {"none", "select", "stopall", "done"} /\ walkOver \in BOOLEAN
  /\ stopper \in {"none", "lock", "notify", "wait", "woken", "done"}
  /\ prov \in [Provider -> {"none", "configuring", "ready", "failed"}]
  /\ stopped \subseteq Provider
  /\ res \in [Resource -> {"todo", "passed", "calling", "done", "failed"}]

(* No provider is stopped in an operation that nobody interrupted, although *)
(* the end of every run cancels the context that watchStop watches          *)
(* (context.go:264-268).                                                    *)
OnlyInterruptsStopProviders == stopped # {} => main # "wait"

(* While Stop waits for a run, that run takes up no further resource: the   *)
(* calls that still begin are for resources that had passed the hook before *)
(* Stop set it, and the hook is not reset by the beginning of the run       *)
(* (context.go:187-214 and 223-235).                                        *)
TakenUp == {r \in Resource : res[r] \in {"passed", "calling"}}
NothingTakenUpDuringStop == [][stopper = "wait" => TakenUp' \subseteq TakenUp]_runVars

(* "OpenTofu will not make any further API calls to the provider after Stop *)
(* is called" (providers/provider.go:68-69).                                *)
NoCallAfterStop ==
  [][\A r \in Resource :
       ProviderOf[r] \in stopped /\ res'[r] = "calling" => res[r] = "calling"]_runVars

(* Unless the user insists, the operation gives the state lock up only when *)
(* no run is under way (backend_apply.go:89-95, backend.go:385-391).        *)
RunEndsBeforeUnlock ==
  op = "returned" /\ main \in {"wait", "stopping"} => core \in {"none", "returned"}

(* Stopping a run stops the provider of every call in flight                *)
(* (context.go:296-305), if providers that are being configured answer: the *)
(* manager's lock keeps StopAll waiting for them (provider.go:159-207).     *)
ConfigurationsEnd == \A p \in Provider : []<>(prov[p] # "configuring")
StopReachesCalls ==
  ConfigurationsEnd =>
    \A r \in Resource :
      res[r] = "calling" /\ hook ~> res[r] # "calling" \/ ProviderOf[r] \in stopped \/ main = "done"

(* The command ends, interrupted or not, if the providers and the user      *)
(* answer: neither the run, nor the goroutine of watchStop that it waits    *)
(* for, nor opWait is left waiting (context_walk.go:54-70,                  *)
(* backend.go:353-401).                                                     *)
CallsEnd == \A r \in Resource : []<>(res[r] # "calling")
CommandEnds == ConfigurationsEnd /\ CallsEnd /\ []<>(op # "approve") => <>(main = "done")

(* A second interrupt in opWait ends the operation, and gives the state     *)
(* lock up, whatever the providers do (backend.go:385-397).                 *)
ForcedStopEnds == op \in {"wait", "graceful"} /\ cancelCtx ~> op = "returned" \/ main = "done"

===============================================================================
