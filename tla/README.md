# A verification project for OpenTofu

TLA+ models of the core of OpenTofu: the graph of an apply and what its
vertices do to the objects and the state, the walks of a plan and its apply,
the walker that executes every graph, the managers that keep the state, the
locks under which they do it, the way an interrupt stops an operation, and the
plugin cache that processes share. TLC checks the models on small instances;
TLAPS checks theorems about every state machine among them for every value of
the constants.

`internal/...` below is `src/internal/...`. Every definition that models code
has an entry in `PROJECT.json` under `map`, with the file and the lines.

- [The system](#the-system): components, state, operations, interactions
- [The models](#the-models): one section per module
- [The runs](#the-runs), [What is proved](#what-is-proved)
- [What the models found](#what-the-models-found)
- [What is not modelled](#what-is-not-modelled), [Plan](#plan)

## The system

A command (`internal/command`) asks a backend (`internal/backend/local`) to run
an operation. The operation locks the state and reads it through a state
manager (`internal/states/statemgr`, `internal/states/remote`), and has a
`tofu.Context` plan or apply. The context builds a graph
(`internal/tofu/transform_*.go`, `graph_builder_*.go`) and walks it
(`internal/dag/walk.go`): each vertex executes in a goroutine of its own once
the vertices it depends on have. Vertices call providers, which are processes
that `internal/plugins` keeps, and report what they did through hooks, one of
which, the local backend's StateHook, changes and persists the state in the
middle of the walk. An interrupt goes from the command to the operation, from
there to the context, and from there to the hooks and the providers.

| Component | State it keeps | Operations | Talks to | What makes it correct |
|---|---|---|---|---|
| Graph walker `dag/walk.go` | vertices, edges, per vertex its channels and result | Update, Wait, walkVertex, waitDeps | callback of the vertex | order of the dependencies, one visit each, errors and skips accounted for, the end |
| Local state lock `statemgr/filesystem.go`, `locker.go`, `internal/flock` | fcntl lock, lock info file, open file | Lock, Unlock, LockWithContext | kernel, other processes | exclusion, honest lock info, no lost update, waiters served |
| Local state manager `statemgr/filesystem.go` | state file, backup, snapshot in memory and as read | Refresh, Write, Mutate, Persist, WriteStateForMigration | file system | backup of the original, lineage and serial, what a nil error means |
| Local backend's apply `backend/local/backend_apply.go`, `hook_state.go`, `backend.go` | working state, persist interval, interrupt | opApply, opWait, StateHook, Stopping | state manager, context | every change reaches a file, whatever is interrupted or fails |
| Remote state manager `states/remote/state.go` | snapshot in memory, as read | Refresh, Mutate, Persist, WriteStateForMigration, Lock | Client.Get/Put | serial and lineage, no lost update, what a nil error means |
| Run control `command/meta.go`, `tofu/context.go` | stop and cancel contexts, runCond, runContextCancel, stop hook | RunOperation, acquireRun, releaseRun, watchStop, Stop | signals, operation, providers | a stop reaches what runs and nothing else; the command ends |
| Provider manager `internal/plugins/provider.go` | instances under a lock | NewConfiguredProvider, StopAll, CloseProvider, Shutdown | provider processes | a stop reaches every instance |
| Applying and destroying `tofu/node_resource_*.go`, `states/sync.go` | current and deposed objects | apply, destroy, depose, restore, taint | provider, state | no object that exists is forgotten; another round completes what one left |
| Graph construction `tofu/transform_*.go`, `graph_builder_*.go` | the graph | vertices of the changes, references, destroy edges, their inversion for create-before-destroy | configuration, state | acyclic; a dependency outlives its dependents |
| Planning an instance `tofu/node_resource_plan*.go` | refreshed state, planned changes | refresh, plan, write the change | provider, state | the plan fits what exists |
| Graph walk contexts `tofu/graph.go`, `graph_walk_context.go` | semaphore of `-parallelism`, subgraphs under way | visit, Execute, DynamicExpand | walker, vertices | no deadlock, whatever walks inside a visit |
| Instance expansion `instances/expander.go` | expansions registered | Set..., Expand... | vertices | registered once and before it is read |
| Checks `internal/checks` | status of each check | ConfigAdded, ReportObjects, Report | vertices | each report once; the aggregate |
| Moves `internal/refactoring` | the state's addresses | validate, apply | planning | chains and nesting in any order |
| Blocking evaluation, new engine `lang/grapheval`, `internal/engine` | promises, workers, execution graph | Once.Do, compile, run | each other | cyclic waits fail, others finish |
| Provider cache `internal/providercache`, `internal/flock` and dependency lock file `internal/depsfile` | packages on disk, file locks, links, recorded hashes | install, link, verify, record | other processes | what is installed is whole, is what was pinned, and stays |
| Consul and other clients `backend/remote-state/*` | sessions, locks, chunks | Get, Put, Lock | services | lock kept or known lost; check-and-set |
| Migration `command/meta_backend*.go` | two backends | lock both, copy, switch | managers | nothing lost when one step fails |
| Encryption `internal/encryption` | keys, methods, fallback | encrypt, decrypt | managers | what was written can be read while a key is rotated |

**What is hard.** Goroutines per vertex and per waiter that communicate by
channels which are replaced under them; a state file that several processes
lock, read, write in place and remove; interrupts that persist, stop and
cancel beside the goroutines doing the work, some of which nobody waits for; a
remote object whose Put may fail and yet be carried out; processes that are
killed between two system calls; a graph whose edges come partly from the
configuration, partly from what earlier configurations left in the state, and
some of which are turned around; registers that panic unless the graph orders
every use of them. `PROJECT.json` lists under `hazards` where in
the code each of these bites and which properties are about it.

## The models

`MC*` modules only give constants their values. `Mutated:` definitions are
changes a bug could make: with one in the place of the definition under it, the
property named beside it in `PROJECT.json` fails, which shows that the property
depends on that code. They play no part otherwise. `TypeOK` of each module
(`RunTypeOK` of RunControl) documents its state; it was model-checked on the same
instances, and is proved for Walker, StateFileLock, LocalState, RunControl,
ResourceApply and PlanWalk (RemoteState's invariant has its types in `Kinds`), but
the `.cfg` files keep to the properties that say something of the code.

### Walker, GraphWalk, WalkerRefinement

`Walker` is `internal/dag/walk.go`, in full: `Update` in its phases (the
fields under the lock; then cancelling removed vertices, replacing channels and
waiters, starting goroutines), `walkVertex` with its two selects, `waitDeps`,
and `Wait`. A `walkerVertex` is the pair of its vertex and of the Update that
created it. A channel is the number of the Update that made it; 0 is Go's nil
channel, from which nothing can be received. `select` with several ready cases
is the choice between actions. The five second timer of waitDeps only logs and
is left out. The callback is one step that may fail; what vertices execute is
the business of other components.

| Code | Model |
|---|---|
| `Walker.Update`, `walk.go:150` | `UpdateBegin`, `UpdateCancel`, `UpdateSwap`, `UpdateWaiter`, `UpdateStart` |
| `walkVertex`, `walk.go:325` | `WalkCancel`, `WalkFirst`, `WalkReceive`, `WalkUpdated`, `WalkReload`, `WalkCheck`, `WalkCallbackReturns`, `WalkRecord`, `WalkDefer` |
| `waitDeps`, `walk.go:425` | `WaiterSatisfied`, `WaiterCancelled`, `WaiterVerdict` |
| `Walker.Wait`, `walk.go:121` | `Wait` |

`GraphWalk` is what code that walks a graph relies on
(`AcyclicGraph.Walk`): visit after the dependencies, once; skip after a
failure; return the errors; end. `WalkerRefinement` maps a Walker that is given
one graph to it: a vertex is pending, running or has its outcome; channels and
waiters disappear.

All callers in the repository call `Update` once. Updates during a walk are a
documented feature of Walker ("This can be called even during a walk, changing
vertices/edges mid-walk", `walk.go:23-24`) with tests of its own, so they are
modelled and checked too, one Update at a time as `changeLock` makes them.
`AllowReadd` says whether an Update may bring back a vertex that an earlier one
removed; see the findings.

### StateFileLock

Several processes and one state file. Each system call is a step: stat, open
with O_CREATE, the fcntl lock, writing the lock info, the read, truncate and
write, removing the info, unlock with close, the size check and the removal of
an empty file. A directory entry names an inode, so that a file can be removed
and created again while a process has the old one locked. Each call may fail
and a process can be killed between any two of them (`Fault`, together at most
`MaxFaults`): the kernel drops the lock of a process that is no more and the
rest stays. What a failure leads to is the code's: when the backup cannot be
read or the lock info cannot be written, Lock returns an error with the kernel's
lock taken, which only the end of the process gives up (`PrepareBackup`,
`WriteInfo`, and then `gaveup`); when the backup, Seek or Truncate fails the
file is as it was (`Truncate`); when the write after it fails, or the process
is killed there, the file is empty or has a part of a state (`CutShort`, the
content `Half`), which no later command can read: each ends with an error.
Failures of fsync, which the code only logs, and of the machine are left out.
`LockWithContext` is `TakeLock`, `ReadInfo`, `Retry`, `Timeout`. The state is
the set of updates (one per run) recorded in the file. How a manager decides
*what* to write is LocalState's part; that it writes what it read and its own
update is all that is used here.

### LocalState

One process, `statemgr.Filesystem` and its users: the apply of the local
backend and `state push`. The manager's methods hold its mutex from beginning
to end, and each is an operator or one step; what can be seen from outside
between truncate and write is what a write that fails, or a killed process,
leaves (`Nil`: empty; `Torn`: does not parse). The steps of several goroutines
interleave: resources change (`Change`), report (`PostStateUpdate`, under the
hook's mutex), the operation is interrupted (`Interrupt` persists without that
mutex), `Stopping` runs late in the goroutine nobody waits for, and after a
second interrupt (`ForceCancel`) the operation unlocks while the apply goes on.
Serial, lineage, `readFile`, `backupFile` and `writtenBackup` are the code's
fields. The 20 s interval of the hook is a choice: any report after the first
may persist. When Apply gives up before its walk it returns no state, and the
command leaves the file alone (`ApplyRefused`). When the last write fails,
`BackupStateForError` writes errored.tfstate through a manager of its own, which
may fail and say nothing, or fail and have the dump on the terminal fail too.
A refresh fails on a file that does not parse; that it cannot be opened or read
is left out, as it ends the same way.

The process lives until `Exit`; what goroutines still write after the unlock
is possible in the model as it is in the code, and the properties say where
they exclude it (`lock # "released"`).

### RemoteState

Processes with a `remote.State` each, and one remote object. `PersistState` is
split at the call of `Put`, since other processes and failures come in between;
`Put` succeeds, fails, or fails after it was carried out. The lock is the
client's: exclusive as long as nobody removes it, and a user removes only the
lock of a dead process. Object, Get, Put and lock are external: any
client in `backend/remote-state` provides them. `saved` is a history variable:
the updates of commands that were told all is written.

### RunControl

The four goroutines of an operation in the local backend: the command
(`Meta.RunOperation`), the operation (`Local.Operation`, `opPlan`, `opApply`,
`opWait`), the context's run (`acquireRun`, `walk`, `releaseRun`), and the two
that a stop brings, watchStop's and `Context.Stop`'s. `c.l` is held by Stop
while it notifies the hooks (`Locked`) and given up in its wait. The graph walk
is reduced to what a stop can meet: providers being configured under the
provider manager's lock, and resources, which ask the stop hook (`Visit`), are
then evaluated and call the provider (`Call`), and ask the hook again when the
call has returned. A stop may come between asking and calling, so a call can
begin when Stop waits, or even after its provider was stopped;
`NothingTakenUpDuringStop` says that no further resource passes the hook. Resources are visited in any order, every order that Walker allows
among them.

Two points where the model keeps the code's detail on purpose: releaseRun
cancels the run's context and leaves `c.runContextCancel` set, so that a Stop
between two runs takes the old run for the present one; and `watchStop` chooses
freely when both its channels are ready.

### ApplyGraph, ResourceApply

`ApplyGraph` has operators only: the graph of an apply from a plan and a state,
in the order of `ApplyGraphBuilder.Steps`. A resource has one instance; an edge
says who waits. What is stored with an object (its dependencies and its
create_before_destroy) and what the configuration says now are kept apart, as
in the code: `StateDependencies` and `DestroyerCBD` go by the state, `CreatorCBD`
and `ReferenceEdges` by the plan.

`ResourceApply` plans, builds that graph and walks it, for several rounds
between which the configuration may become any other.

| Code | Model |
|---|---|
| refresh, `node_resource_plan_instance.go`, `node_resource_plan_orphan.go` | `PlanAndBuild` with `Refreshed`, `Fits`, `Planned` |
| `managedResourceExecute`, `node_resource_apply_instance.go` | `StartCreator` (deposing), `FailEarly` (its early returns), `FinishCreator` (`Created`, `Updated`, tainting, `MaybeRestore`) |
| `NodeDestroyResourceInstance`, `NodeDestroyDeposedResourceInstanceObject` | `StartDestroyer`, `FinishDestroyer` |
| the walk | `Ready` (the dependencies are done: what GraphWalk promises), `WalkEnds` |

An object is numbered by the round that made it, since in one round a resource
has at most one creator; a deposed key, random in the code, is any unused one,
and `RoundsAssumption` gives as many keys as can be needed. What a resource
depends on by the configuration (`Dependencies`) is the least set that holds its
references and those of its members.

A provider's call succeeds, fails without effect, or fails having made, changed
or half made the object. `real` is what exists, and which objects each object
refers to; every property compares it with `state`. A call may also drop the
record of its own object, which then moves from `real` to `lost` (`Lose`): `apply`
returns a nil state with its errors when it gives up before the provider
(`node_resource_abstract_instance.go:2834-2883`) or gets a value that does not fit
the schema (`2988`), and `managedResourceExecute` writes that nil over the record;
and a create that took effect, and returned no value, leaves nothing but the
prior, which is null (`2946-2958`). At most `MaxLost` objects go that way.
Failures to encode or write the record (`writeResourceInstanceState`) are left out.

`EveryObjectRecorded`: no object that exists, but for those in `lost`, is missing
from the state, at any moment but inside the call that makes it: whatever a
call drops is its own object, and nothing else goes with it in that walk or a
later one. That a call may drop it at all is a finding below.
`ConvergesWithoutErrors`: an apply in which nothing failed leaves exactly what
the configuration asks for. `UsersGoFirst`: nothing is
destroyed while an object refers to it and is recorded to, unless that object
is about to be updated and the destroyed one is not create-before-destroy.
`CycleOnlyFromConflict`: the graph has a cycle only when two dependent
resources are destroyed one create-before-destroy and the other not, as in the
finding below, or when the stored dependencies are circular.

### WalkRegisters, PlanWalk

`WalkRegisters` is the expander and the results of the checks, two registers
that panic when used in another order than the graph is built to enforce: a
module read before it is expanded, something expanded twice, objects reported
twice or not before their results. `PlanWalk` walks a plan's graph and then its
apply's, over a configuration with modules, repetition and checks. A visit is
`Graph.walk` with the semaphore of `-parallelism`: `Acquire`, `Execute…`, and
for vertices that make a graph of themselves (`Expands`) a walk of that graph
inside the visit, without the slot. Edges are those of the transformers of
modules, checks and references. A condition passes, fails, or, in a plan, is
unknown; a resource whose plan has no change has a vertex in the apply's graph
only if it has conditions.

Abstracted: the instances of a module repeat alike; a check has one rule of each
type; a condition that is invalid fails with its vertex; a data resource with no
change is one that was read in the plan.

`ConfigsAssumption` says what a configuration is, as far as the walks rely on
it, and is what `internal/configs` sees to: a module is called from one there is
(`buildChildModules`); checks have different names within a module, and the data
resource nested in one has a name of its own among them (`module.go:595-621`);
it takes neither count nor for_each nor enabled (`resource.go:438-482`); and
what is declared and referred to is declared in a module there is.

### ProviderCache

Several `tofu init`, each in its directory, install one version of one provider
through the shared plugin cache. Each look at the directory, each system call
that changes it and each step under the file lock is an action: `CheckTarget`,
`CheckCache` (without the lock), `GetMeta`, `Acquire` or `StopWaiting`, `Recheck`
under the lock, `Fetch` and `Fill` (an archive is unpacked file by file, a mirror
is removed and linked), `Release`, and then, without the lock again, `Detect`,
`Hash`, `Unlink`, `Link`, `Verify`, `Save`. A package is known by what its
directory holds; "started" is one that is unpacked in part and has its
executable already, the state that a check for the executable takes for whole.
A process may be cancelled, fail, or be killed anywhere. At the end any run may
have been one with `-lockfile=readonly` (`Save`): it fails when the lock file has
nothing of the provider, and otherwise ends with the result "unrecorded", having
linked a package whose hash the lock file may lack; a file with nothing but the
archive's hash then still matches no directory. `StaysInstalled` demands of it
that the package stays as it was found, and of the others that the lock file has
its hash.

### ConsulState

Operations on one state in Consul, each with a client and the goroutine
(`monitor`) that takes a lost lock again. The server's part is the key of the
lock with the session that has it, the key of the state with its modify index,
and the keys of its parts. The client's mutex is a variable; steps made while
it is held that touch nothing another actor sees are merged, so that `Lock`
with putLockInfo is one action and so is the monitor's `Relock`. The content of
the lock info is left out. Sessions expire, locks are lost, calls fail and
processes die. A state is the set of the updates in it, stored in one key or in
two parts and a key that names them (`Store`, `PutParts`, `Clean`).

## The runs

| Run | Instance | Shows |
|---|---|---|
| `walker_static` | diamond, chain or join, 3 or 4 vertices, one Update | the walker implements `GraphWalk`, with its liveness |
| `walker_update` | chain, pair, chain without its first vertex; two Updates | order, skips, result of Wait, nothing missed, and the end, when vertices and edges come and go in the middle |
| `lock_shared` | 2 processes, 4 runs, 2 failing calls or kills, existing file | exclusion, lock info, no lost update but by a write cut short, waiters served |
| `lock_cleanup` | 1 process, 4 runs, 2 failing calls or kills, no file | empty files are cleaned up, written ones never |
| `state_commands` | 2 resources, 2 commands, 2 changes, 2 faults each; absent, empty or stored snapshot; six kinds of pushed snapshots | backup, reported changes, final state after one failure, serial and lineage, unforced pushes |
| `remote_shared` | 2 processes, 3 runs, 3 changes, 2 faults; migration of four snapshots | lost updates, meaning of nil, serial, lineage |
| `run_control` | 2 resources with a provider each, 2 walks per plan | what a stop reaches, what it leaves alone, that the command ends |
| `apply_graph` | a chain of 3 resources and what a user may make of it, 3 rounds, 2 deposed keys, conditions on one, 1 lost record | every object recorded, convergence, the order of destruction, when the graph has a cycle |
| `plan_walk` | 4 configurations: conditioned resources in repeated modules, a check with nested data in a module that is there once or twice, nested modules whose checks refer across them; 2 slots | no panic, what the results of checks mean, modules closed last, the end |
| `provider_cache` | 2 directories with 2 inits each, 1 kill; cache absent or changed; archives and a mirror; lock files without hashes, with the archive's, with another package's | what is installed is what was pinned, stays, and every init ends |
| `consul_locks` | 2 clients with one put each, 1 lost session or lock, 1 failing call or kill; state absent or in parts | what a reader of the state finds, no update overwritten, operations end but for the findings |
| `consul_foreign` | the same | **violation**, see the findings |

`HistoryKept` of `remote_shared` joins serial and lineage, `OnlyLaterReplaces` of
`state_commands` serial, lineage and unforced pushes, `CleansUpOnlyEmptyFile` of
`lock_cleanup` both sides of the clean-up: they are one question each. The
largest instance, that of `apply_graph`, has 1.1 million distinct states and takes
about three minutes with two workers; the others take less.

**Why these bounds.** A walker needs a vertex with two dependencies for the
join of results, a chain of three for a skip that is passed on, and a second
Update that removes a dependency, adds one, and leaves one alone at different
moments; a third Update does what the second did, to newer channels (the proofs
cover any number). The lock needs a holder, a waiter, and a run more than there
are processes, so that a process comes back; the violation needs three runs and
two processes. Local and remote managers keep nothing from command to command
but the files, so two commands show what one leaves to the next; two faults
let a second failure hit the handling of the first; two changes let one be
undone. Stopping needs one call in flight beside one configuration, hence two
resources with two providers, and two walks for the end of the first to
coincide with the stop. Replacing needs three resources for one that is
replaced between one that forces it and one it is forced on, and three rounds
to make objects, to fail half way through replacing them, and to clean up;
two deposed keys for a replacement beside what a failed one left; one lost
record, as each is of another object and what it leaves behind, no current object
and users that refer to what is not recorded, is what further rounds meet. A walk
inside a visit can only block the semaphore if all slots are such visits, so
two slots and two expanding vertices at once suffice; modules that are there
twice show which results belong to which instance. In the cache two processes
race, and a second run of each meets what a killed run left. In Consul one lost
session and one failure already meet in every order.

**Deadlock.** Walkers, processes and commands stop when they are done or their
bounds are reached, so most runs check no deadlock; that they do not stop
before is the business of `WalkEnds`, `ImplementsGraphWalk`,
`WaiterServed`, `InitEnds` and `EndsUnlessStuck`. `RunControl` and `ResourceApply`
have an explicit last step (`Ended`, `Rest`), and their runs check deadlock: a
walk over a graph with a cycle is refused before it begins, as the code does.

**Fairness.** In Walker every goroutine that can take a step takes one, and
callbacks return (the timeouts of providers are theirs); Update, once begun,
completes; nobody has to call Update. In StateFileLock running processes run;
nothing makes a command start, a lock time out, a call fail or a process die, but
`WaiterServed` needs the retry timer. In RunControl the goroutines run; nothing
makes a provider or the user answer, or the five seconds pass. Where a property
needs an answer it says so as its premise (`ConfigurationsEnd`, `CallsEnd`,
`[]<>(op # "approve")`), and `ForcedStopEnds` needs none: that is its point.
In PlanWalk some vertex that can go on does: goroutines run and providers return.
In ProviderCache a process that is not killed goes on and a lock that stays free
is granted to one that waits for it, which the kernel does. In ConsulState an
operation gets its turn at the client's mutex though the monitor takes it again
and again (strong fairness: Go hands a mutex over to a waiter that has starved
for a millisecond), the monitor goes on, a session that nobody renews expires,
and a process whose operation is done ends; nothing obliges a call to fail, a
lock to get lost or a process to be killed (`Kill` is an action of its own, and
under no fairness). LocalState, RemoteState and ResourceApply have no liveness property and
no fairness.

## What is proved

`tlapm` checks the eight proof modules down to the last leaf: `WalkerProofs`,
`StateFileLockProofs`, `LocalStateProofs`, `OperationProofs` (RunControl and
RemoteState: an operation, and the remote state it is about),
`ResourceApplyProofs`, `PlanWalkProofs`, `ProviderCacheProofs` and
`ConsulProofs`. Each proof has the same shape: an inductive invariant, which TLC
checked first on the instance of a run, one lemma per action that preserves it,
and the theorems it implies.

**Walker** (`TypeCorrect`, `DependenciesComeFirst`, `AddedVerticesWait`): for any
vertices, any set of graphs and any number of Updates; the last two for
`AllowReadd = FALSE`, without which they do not hold. `WalkInv`
(`WalkerInvariant`) is the inductive invariant. Order needs that a vertex acts
only on what its waiter said (`VerdictObeyed`), that the waiter said true only
when every DoneCh was closed and nothing had failed (`WaitersHonest`), and that
a result is recorded before DoneCh closes (`OutcomeRecorded`). That the waiter
waited for *all* dependencies in the graph is about Update:
`NewVerticesListen` says at which point of an Update a new vertex has which
channel in hand, which is inductive only beside the phases of Update
(`UpdatePhases`) and the fact that a vertex has at most one walkerVertex
(`OneInstance`).

*Skips and results* (`SkipsAreJustified`, `WaitReturnsErrors`,
`EveryVertexVisited`, also for `AllowReadd = FALSE`): a waiter that an Update
cancels sends false as well, and nothing in the message tells that false from a
verdict. `VerdictInv` says why it is never acted on: a waiter is cancelled only
after the next one's channel was installed (`CancelledReplaced`), so a goroutine
with such a false in hand has another channel to listen to (`FalseIsReplaced`),
and a false without that has its reason (`FalseHasReason`). `ResultInv` follows
results from the callback to Wait: what is recorded is of the one walkerVertex
of a vertex, and behind every skip there is a failure.

*Refinement* (`WalkerImplementsGraphWalk`): with one Update the initial state of
the walker is one of `GraphWalk`, and every step of Update, of a goroutine, of a
waiter or of Wait is a step of `GraphWalk` or a stutter, for every set of graphs
that have a vertex (a graph in the program has a root). This is the safety half
of `ImplementsGraphWalk`, stated as `ImplementsGraphWalkSteps`: fairness is
TLC's. It uses nearly all of the above: that a walk starts a vertex after its
dependencies is order, that it skips one for a reason is `VerdictInv`, that it
returns the errors is `ResultInv`.

**StateFileLock** (`LockExcludes`, `LockInfoIsHonest`, `UpdatesAreKept`,
`LockTypesCorrect`, `EmptyFilesAreCleanedUp`): the first four for any number of
processes, runs, failing calls and kills, if the state file exists at the beginning (`FileExists`). Without it exclusion is violated
(`StateFileLock_removed.cfg`), so the assumption cannot go. `LockInv` has the
parts: there is only the one inode, as nobody created it and so nobody removes
it (`OneFile`); a process between Lock and Unlock has the kernel's lock, and
otherwise only one whose Lock failed half way (`KernelAgrees`), which survives
kills because the kernel drops the lock with the process; and, for updates,
what the process that will write has read contains all that was recorded
(`NothingForgotten`). "Recorded" begins anew when a write is cut short after the
truncation: the code replaces the file in place (its TODO at
`filesystem.go:195-197` asks for a file that is renamed), so what was in it is
then gone, with the process alive or not, and `UpdatesAreKept` says that this is
the only way to lose an update, and that what is recorded afterwards is kept.

The clean-up (`EmptyFilesAreCleanedUp`) is the opposite case: no file at first,
and one process at a time (`Alone`), for any number of runs and kills. With two
processes the clean-up removes a file that another has locked and is about to
write to, which is the finding, so that assumption cannot go either. `CleanInv`: each run creates at most
one inode, so they do not run out (`InodesCounted`); only the process at work has
a lock (`NobodyLocks`); and unless a process was killed, an unwritten file is
there only while the process that created it has not looked at its size yet or
has found it empty (`CreatorIsThere`), for which a command must have decided that
it creates the file before it opens it.

**LocalState** (`OriginalIsBackedUp`, `ReportsArePersisted`, `ApplyIsKept`,
`WritesOnlyReplaceOlder`, `LocalTypesCorrect`): for any resources, initial files,
pushed snapshots, and numbers of commands, changes and faults. The unrestricted
forms of the second and third are violated (`LocalState_lostreport.cfg`,
`LocalState_swallowed.cfg`, `LocalState_rescue.cfg`, in the findings), so their
restrictions, to a command that found a snapshot, and to one failing call in a
command under the lock that nobody stopped, are what the code does promise. `LocalInv` says where the original is at each moment, in
the file, in memory, in the backup (`Backups`, which survives persists that fail
or tear the file); that what an apply would write next succeeds what is in the
file (`LaterInApply`), even when a goroutine that nobody waits for writes it; that
a push compares with what is in the file (`ReadsForPush`); that a command which
found a snapshot never reads a second one (`ReadOnce`); and that the working
state, the hook's reports and the manager's snapshot agree as far as reports got
(`Reports`, `Told`). `ApplyIsKept` goes by `Failed`: under the lock only a call that
failed makes the last write fail, so a rescue that fails is the second.

**RemoteState** (`SavedStaysSaved`, `ReportedIsWritten`, `RemoteHistory`): for any
number of processes, runs, updates, faults and migrated snapshots, whatever Put
does. `RemoteInv` has exclusion by the client's lock (`Exclusive`) and, for the
process at work, how its manager is related to the remote object: what it read
is there or was followed by its own Put (`Descends`), with a serial that is
greater than the remote one until the Put that is being made has been carried
out; a manager that read nothing puts a new lineage over nothing (`PutsFirst`);
PersistState's test whether there is anything to write cannot answer no while
there is (`Current`); and the state to be written has all that was saved
(`Carries`). `Current` is the part that a failed Put puts at risk: the manager
keeps the incremented serial and what it read, so a second PersistState writes
again. `ReportedIsWritten` is for commands that found a snapshot; without one it
is violated (`RemoteState_lostput.cfg`).

**RunControl** (`ProvidersAreLeftAlone`, `RunsEndFirst`, `StopHalts`,
`RunTypesCorrect`): for any resources, providers, assignment of one to the
other (`ProviderAssumption`) and number of walks (`WalksAssumption`). `RunInv`
says when Stop has been called (`OneStop`), that only signals cancel the
operation's contexts until it returns (`Signals`), where the run can be as seen
from the operation and from watchStop (`Runs`), that without an interrupt no
run is cancelled before its end (`Quiet`), and that a Stop which found a run
under way has set the hook and nothing resets it (`Halting`): what still begins
had passed the hook before.

**ApplyGraph, ResourceApply** (`ObjectsAreRecorded`, `AppliesConverge`,
`DependentsGoFirst`, `ApplyTypesCorrect`): for any resources and configurations, any number of
rounds, and every failure. The assumptions are `RoundsAssumption`, that
configurations refer to what they declare and nothing to itself, which the
code validates, and that there are as many deposed keys as rounds less one
(the lemma `KeyIsFound` shows by counting that this suffices), and
`KeyAssumption`, that no key is NotDeposed. `RecordInv` is why nothing is lost:
each instance records different objects, none from a later round
(`Recorded`); the graph has the edges between the vertices of one address and
those of references (`GraphFits`, from `BuildFits` about `Build`); a vertex that
is not pending has all it waits for done (`WalkOrder`); hence a creator finds no
current object to overwrite and an unused key to depose under
(`CreatorFinds`), since destroy-first waits for its destroyer and no destroyer of
a deposed object runs before its creator. What a call drops is never recorded
again, so it stays apart from all that (`lost`, any number of objects). `ConvergeInv` is why a walk without
errors ends as planned: every deposed object has a destroyer that is not done
(`Destroying`), and where a creator succeeded or had nothing to do, the object
is as configured, what it refers to is settled and will not be replaced in this
walk (`Converging`); only an update that fails may still drop the record of what
an earlier vertex refers to (`UpdateFailed`), and then the walk has not succeeded.
The edges of reference are needed for this one only, and
acyclicity for neither: a walk in which some vertices never run has not
succeeded.

`OrderInv` is why an object outlives what refers to it (`DependentsGoFirst`, which
states `UsersGoFirst`). What is recorded as a dependency of r, of its current
object or of the one being replaced, is in `After(r)`, the resources whose
destroyers wait for those of r, and for r's creator unless that creator waits for
them (`Ordered`). The lemma `BuildOrders` gets this from the two transformers at
plan time, where the edges go by the stored dependencies and the plan has merged
those of the configuration into them; and it stays so in the walk because a
creator records only the configuration's dependencies, which are merged already.
When a destroyer runs, then, the destroyers of r and, but for the one case, its
creator are done: by `Destroying` the old object of r is gone, and by
`Converging` its current one refers only to what stays. The one case is a
creator that waits for the destroyer: a Create or a replacement has no object
left by then, so it is an update, and by `Straight`, as CBDEdgeTransformer turns
the other edges, the object that is destroyed is not create_before_destroy.

**WalkRegisters, PlanWalk** (`NeverPanics`, `PassesAreProven`, `ModulesCloseLast`,
`ApplyAnswersChecks`, `TypeCorrect`): for any configurations that
`ConfigsAssumption` admits, with modules in any depth, any repetition, any
references, and any number of slots; and whichever vertices fail. The graph may
even have cycles: what is then not visited has promised nothing. `PlanWalkInv`
(`PlanWalkInvariant`) has four parts.

- *The graph* (`GraphFits`). The vertices of the configuration are there, and
  beside them only instances and assertions of theirs (`VerticesFit`); the
  edges that the registers rely on are there (`EdgesFit`): to the module's
  expander, from an expander to that around it, from a closer to what is inside
  and to the closers inside it, from what is nested in a check to the report of
  its objects. `PlanGraph` and `ApplyGraph` are each shown to have them, and a
  graph that a vertex makes of itself to take none away.
- *The visits* (`VisitsFit`). A vertex begins after all it waits for
  (`WalkOrder`); one that makes a graph makes it whole and is done only when all of
  it is (`SubsFit`). Hence what a closer says of its module: all in it is done,
  and in the modules inside it (`ClosersFit`). That needs the edges in both
  places, since an instance made during the walk has no edge to the closer; its
  resource has. And of an expander: those around it are done
  (`AncestorsExpanded`), which each expander takes over from the one around it
  when it is visited.
- *The expander* (`ExpanderFits`). A module's instances are known only if
  its expander has run (`CallsFit`), and all of them once it is done
  (`ExpandersFit`); with the expanders of the modules around it, that gives every
  read its registration. A resource or call
  is registered by one vertex, which is visited once, so never twice
  (`ExpansionFits`).
- *The checks* (`ChecksFit`). Objects are those of the configuration and have
  all their results (`ObjectsFit`); who reports a result finds its object
  (`ObjectsReported`), in a plan because of the report vertex, in an apply
  because `BeginApply` keeps those of the whole plan; a result that is not Unknown comes
  from one visit (`ResultsFit`), hence none is given twice, although assertions
  and nested data report to the same object; and in an apply a vertex that is
  done leaves none of its results open (`Answered`).

An apply repeats the conditions of managed resources because its graph has every
instance of a resource with conditions, changed or not: that conjunct of
`VerticesFit` is the one `ApplyAnswersChecks` hangs on, and that data resources
read in the plan lack, as the finding below says.

**ProviderCache** (`InstalledIsPinned`, `InstallationStays`): for any number of
working directories, runs and kills, any initial content of the cache and of
the lock files, and both kinds of sources; unless
`plugin_cache_may_break_dependency_lock_file` is set (`MayBreak`), about which
`InstalledAsPinned` says nothing and with which a package unpacked in part and
left by a kill is accepted. `CacheInv` has the parts: the processes between
lock and unlock are one at most, and it is the kernel's owner (`Exclusive`);
unpacking never starts over a package (`FillsUp`); what the lock is given up
over is what was installed or asked for, and of a mirror it may be gone again
(`Vouched`), which is why hashing without the lock is harmless; what is about
to be linked and recorded is in the cache (`Backed`), and so is, ever after,
what a run has found that ended well, with its hash in the lock file if it was
recorded (`Recorded`).

**ConsulState** (`StateIsReadable`, `WritesAreKept`): for any number of
clients, puts, lost sessions, failing calls and kills. The lock plays no part
in either proof: it may be lost at any time, so both rest on check-and-set and
on the names of the parts. `ConsulInv` says that an update about to be written
is nowhere else (`Counted`, `Fresh`), so that no state is ever written twice;
hence the parts a client removes (`Cleaning`) are neither those of the present
state nor those another client has written for the next one (`Linking`). A
client whose index is that of the key has seen what it holds (`Seen`).

**Only model-checked,** every other property of a passing run being proved: liveness (`WalkEnds`, `WaiterServed`,
`StopReachesCalls`, `CommandEnds`, `ForcedStopEnds`, `InitEnds`,
`EndsUnlessStuck`) and with it the fairness of `ImplementsGraphWalk`, since
fairness and ENABLED are beyond the prover. `CycleOnlyFromConflict`: whether there
is a path is a recursive function in the community module Graphs, and a proof
about it needs induction over data, which the prover cannot do.

## What the models found

Each has an instance that violates it. `consul_foreign` is a run of the
project; for the others the `.cfg` file named reproduces the counterexample.

1. **`consul_foreign`** (`ConsulState_foreign.cfg`, `UnlocksOwnLock`): when the
   monitor has lost the lock and cannot make a session, it leaves `consulLock`
   nil. Unlock takes that for a force-unlock (`consul/client.go:574`) and deletes
   the lock's key, which another operation has locked by then.
2. **`StateFileLock_removed.cfg`** (`MutualExclusion`): Unlock gives the lock
   up and then removes an empty file it created, by path
   (`filesystem.go:442-444`). A process that has just locked that file then
   holds a lock on an unlinked inode, and the next one creates and locks
   another file of that name: two holders.
3. **`LocalState_lostreport.cfg`** (`ReportedIsPersisted`): on a fresh state,
   `readFile` stays nil, so each `MutateState` reads the disk again
   (`filesystem.go:147`): of two resources created before the first persist, an
   interrupt persists only the second. The final write has the whole state; a
   kill before it loses the first.
4. **`LocalState_swallowed.cfg`** (`AppliedStateKept`): with `-lock=false`, a
   state file that cannot be opened makes PersistState return nil
   (`filesystem.go:199`), and the apply leaves no `errored.tfstate`.
   **`LocalState_rescue.cfg`** (`LockedApplyKept`): with the lock, the same happens
   to the rescue: the last write fails, the manager for `errored.tfstate` cannot
   open that file and returns nil (`backend_apply.go:349`), nothing is dumped on
   the terminal, and the user is told that the state "has been written to the
   file errored.tfstate" (`backend_apply.go:387`).
5. **`LocalState_sameserial.cfg`** (`SerialsDistinguishStates`): the serial is
   compared with `readFile`, which is never updated (`filesystem.go:263`): a
   change that is undone within one command gives two different snapshots the
   same lineage and serial.
6. **`RemoteState_lostput.cfg`** (`PersistedIsWritten`): with nothing read so
   far, PersistState refreshes, and that replaces the state to be persisted if
   there is an object by now (`remote/state.go:229`), for example from a Put
   that failed and yet was carried out.
7. **`RunControl_stopped.cfg`** (`NoCallAfterStop`): a resource has passed the stop
   hook (`node_resource_apply_instance.go:361`) and evaluates its configuration
   while Stop sets the hook and watchStop stops the providers; then it calls its
   provider (`node_resource_abstract_instance.go:2916`), whereas
   `providers/provider.go:68-69` says that no further calls are made after Stop.
8. **`ResourceApply_cycle.cfg`** (`GraphAcyclic`): b is create_before_destroy
   and depends on a, which that forces. One change removes b and replaces a:
   the plan goes by the configuration, in which nothing forces a any more, but
   b's destroyer by the state (`transform_destroy_cbd.go:119`), so one edge is
   turned around and the other is not: the apply fails with a cycle.
   `docs/destroying.md:325` says that such cycles are resolved by treating what
   precedes alike, and the test of a cycle (`context_apply2_test.go:1084`)
   holds them to be impossible in normal use.
9. **`ResourceApply_lost.cfg`** (`NothingLost`): an object whose update or create
   ends in one of the returns without a state is there and no longer recorded
   (`node_resource_abstract_instance.go:2834-2883`, `2946-2958`, `2988`), and so is
   one that such a return keeps from being destroyed; the same function says of
   a provider that returns nothing "we'll at least keep track of the object for
   the user to retry" (`node_resource_abstract_instance.go:2942-2943`), which for a
   create it does not.
10. **`PlanWalk_data.cfg`** (`ChecksFinalized`): a data resource that the plan
   could read has no vertex in the apply (`transform_diff.go:33` never sees a
   change), so its conditions, passed in the plan, are Unknown in the state
   after a successful apply; `context_walk.go:136` says that apply repeats
   them.
11. **`ProviderCache_mirror.cfg`** (`NeverDeleted`): installing from a
   filesystem mirror removes the cache's entry before it links it
   (`package_location_local_dir.go:99`), and a kill in between leaves other
   directories without the provider;
   `website/docs/cli/config/config-file.mdx:437` says that OpenTofu will never
   itself delete a plugin from the cache. Another init that looks in the gap
   fails with "still not detected", or panics in LinkFromOtherCache, which is
   given nil.

Also seen while modelling:

- A vertex that Updates remove and bring back is walked twice, its edges still
  count as known so that it waits for nothing (`walk.go:253` drops only edges
  into vertices that are left), and the second result overwrites the first. With
  `AllowReadd = TRUE` the model violates `AddedAfterDependencies`. No caller in
  the repository updates a walk.
- A lock attempt is retried only if the error has lock info
  (`locker.go:251-260`). The holder writes that file after it has the lock and
  removes it before it gives the lock up, so an attempt in one of these gaps
  fails at once, whatever `-lock-timeout` says. `WaiterServed` counts it as an
  answer.
- A state file is replaced in place. A command that does not lock can read it
  empty between truncate and write (`filesystem.go:253`), whereas
  `persistent.go:53-55` speaks of the latest snapshot; and a state that did not
  change is written without a backup (`filesystem.go:219`). A write that fails
  after the truncation leaves the file empty or cut short, and the process then
  unlocks as ever: the next one reads an empty file as no state.
- Stopping (`backend.go:383`) and, after a second interrupt, the whole apply
  may write the state after the operation has given up its lock.
- A Stop that comes before acquireRun is lost: `releaseRun` leaves
  `runContextCancel` set, Stop cancels the old run, and acquireRun resets the
  hook (`context.go:191`, `235`). The run then goes on as if nobody had asked;
  a second interrupt ends it.
- An apply without a saved plan calls Plan outside opWait
  (`backend_apply.go:151`): an interrupt does not stop it, and neither does a
  second, which ends the process after five seconds with the state lock held.
- StopAll waits for the lock under which providers are configured
  (`plugins/provider.go:159`, `207`): one that hangs in ConfigureProvider keeps
  the stop from all others. `StopReachesCalls` fails without its premise.
- A migration to an empty remote loses the lineage it brings, since the refresh
  in PersistState resets it (`remote/state.go:183`), while `migrate.go:14-16`
  promises associated metadata unchanged. `HistoryKept` is about
  migrations over a snapshot.

- Filesystem.Lock returns the id and an error when only the lock info could not
  be written (`filesystem.go:397`): its caller takes the lock for not held, and
  nobody unlocks until the process ends (`WriteInfo`, `gaveup`).
- `isShutdown` is set without the instances' lock (`plugins/provider.go:235`).
- Of two resources that are both removed, one may be destroyed before what
  refers to it: a failed update overwrites the stored dependencies, and those
  stored with a deposed object count only if there is no current one
  (`StateDependencies`), whereas `docs/destroying.md` speaks of exactly the
  inverse order. `UsersGoFirst` is stated for the dependencies as stored.
- A delete that fails and returns a value stores create_before_destroy = false
  with the object, and so does an update of a resource that only an unchanged
  dependent forces to be create_before_destroy, since that has no vertex in the
  apply.
- The deposed object's vertex drops the diagnostics of its own last write
  (`node_resource_deposed.go`).
- Consul: putLockInfo failing in a client that locks for the first time calls a
  nil `monitorCancel` (`consul/client.go:597`); failing in the monitor's
  relock, it makes unlock wait for the monitor itself (`client.go:629`); a
  monitor that has not reached its select when Unlock released may see the lock
  lost and wait for the mutex that Unlock holds while it waits for the monitor.
  `Stuck` names the last two. An Unlock that finds the lock lost leaves a
  monitor that may lock again until the process exits. A put in a client that
  found no state does no check-and-set and overwrites what another client may
  have created (`NothingOverwritten` excepts it).
- Provider cache: a package that a killed init left unpacked in part makes every
  later init fail until somebody removes it; ending a blocked wait for the lock
  relies on EINTR from a signal whose handlers Go installs with SA_RESTART.

## What is not modelled

- *Computation without much state*: the configuration language and its
  evaluation, the other graph transformers, diffs, views. They produce what the
  models take as given (a graph, a changed resource, an error).
- *I/O*: plugin protocols, downloads, signatures, and cryptography.
- *Remote services*: the clients of S3, HTTP, PostgreSQL, GCS, Kubernetes and the
  cloud backend rest on promises that are not in the repository; to the
  managers each is the client in RemoteState. Consul's has logic of its own,
  which is ConsulState.
- *Parts of modelled components*: of applying, forgetting and skip_destroy,
  count, for_each and modules, provisioners, imports, changes outside OpenTofu
  other than objects that vanish, a process killed in the middle of a walk, and
  the edges between several providers that are taken back when they close a
  cycle (tryInterProviderDestroyEdge); of the walks, the checks of outputs and
  variables, the root module's closer, targeting, refresh-only, ephemeral
  resources and orphans; of the provider cache, the choice of versions,
  downloads and signatures, several providers, installing without a cache, deep
  copies, `providers lock` and `providers mirror`; of Consul, compression,
  Delete, the user's force-unlock, workspaces, and a client that locks twice;
  CloseProvider and Shutdown of the provider manager; Windows' file lock.
- *Most of the lines*: of the 269 thousand lines a large part is generated
  (plugin protocols, plan files, mocks), legacy schema code, the command line and
  its views, or evaluation of the language, none of which has state that several
  actors or several steps share. What the models cover is the code where the
  order of steps matters.
- *Components that come later*, see the plan.

## Plan

Done so far, in the order of what a user can lose by: graph walker, state lock,
local and remote state, run control; instance lifecycle and destroy edges
(`ResourceApply` over `ApplyGraph`), nested walks, expansion and checks
(`PlanWalk` over `WalkRegisters`), the provider cache, Consul. Next:

1. *Blocking evaluation*: `Once` (`lang/grapheval/once.go:77`) with workers and
   promises: cyclic waits fail and others end; then the execution graph over it.
2. *Moves* as a pure algorithm against a reference over all small sets of
   statements.
3. *Migration* of a backend with failures between its steps; *encryption* with
   fallback methods during a key rotation.
4. *Provider manager*: CloseProvider and Shutdown beside NewConfiguredProvider.
5. Several providers and instances in `ApplyGraph`.

Proofs still to come: those of the models above. Constants are parameters with named
assumptions and no module that is proved about uses a RECURSIVE operator.
