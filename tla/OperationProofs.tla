--------------------------- MODULE OperationProofs ----------------------------
(***************************************************************************)
(* What an operation of the local backend may rely on, whatever the        *)
(* configuration and however its processes and signals interleave: that an *)
(* interrupt stops its run and nothing else (RunControl), and that what    *)
(* its remote state manager reports as written is written (RemoteState).   *)
(***************************************************************************)
EXTENDS RunControl, RemoteState, TLAPS

-----------------------------------------------------------------------------
(* Run control: who may stop a provider, when a run is over, and what a    *)
(* Stop that waits has achieved.                                           *)

(* Context.Stop is called once, after an interrupt. *)
OneStop ==
  /\ op \in {"start", "planning", "approve", "wait", "persist"} => stopper = "none"
  /\ stopper # "none" => main # "wait"

(* Until the operation returns, its contexts are cancelled only by signals. *)
Signals ==
  op # "returned" => /\ stopCtx => main # "wait"
                     /\ cancelCtx => main \in {"forced", "done"}

(* Where the run may be, seen from the operation and from watchStop. *)
Runs ==
  /\ op = "start" => core = "none"
  /\ op \in {"approve", "finish"} => core = "returned"
  /\ op = "persist" => stopCtx
  /\ watch = "select" => core \in {"walk", "unwatch"}

(* Without an interrupt, no run is cancelled before its end. *)
Quiet ==
  main = "wait" => /\ stopped = {} /\ watch # "stopall"
                   /\ runCond => ~runDone

(* A run can be cancelled until it is, and a Stop that found it has set the *)
(* hook, which stays set until the run is over.                             *)
Halting ==
  /\ stopper \in {"none", "lock"} /\ runCond => runContextCancel
  /\ stopper = "notify" /\ runCond => hook
  /\ stopper = "wait" => runCond /\ hook

(* RunTypeOK in three parts. *)
CommandTyped ==
  /\ cmd \in {"plan", "apply", "applyfile"}
  /\ main \in {"wait", "stopping", "forced", "done"}
  /\ op \in {"start", "planning", "approve", "wait", "persist", "graceful", "finish", "returned"}
  /\ stopCtx \in BOOLEAN /\ cancelCtx \in BOOLEAN

RunTyped ==
  /\ phase \in {"plan", "apply"}
  /\ core \in {"none", "acquire", "acquired", "walk", "unwatch", "release", "returned"}
  /\ runContextCancel \in BOOLEAN /\ runDone \in BOOLEAN /\ hook \in BOOLEAN
  /\ runCond \in BOOLEAN
  /\ runCond <=> core \in {"acquired", "walk", "unwatch", "release"}

WalkTyped ==
  /\ walks \in 0 .. MaxWalks
  /\ watch \in {"none", "select", "stopall", "done"} /\ walkOver \in BOOLEAN
  /\ stopper \in {"none", "lock", "notify", "wait", "woken", "done"}
  /\ prov \in [Provider -> {"none", "configuring", "ready", "failed"}]
  /\ stopped \subseteq Provider
  /\ res \in [Resource -> {"todo", "passed", "calling", "done", "failed"}]

RunInv == RunTypeOK /\ OneStop /\ Signals /\ RunEndsBeforeUnlock /\ Runs /\ Quiet /\ Halting

(* Nothing has begun yet. *)
LEMMA InitRun == RunInit => RunInv
<1> SUFFICES ASSUME RunInit PROVE RunInv
  OBVIOUS
<1> USE WalksAssumption DEF RunInit
<1>1. RunTypeOK
  <2>1. CommandTyped
    BY DEF CommandTyped
  <2>2. RunTyped
    BY DEF RunTyped
  <2>3. WalkTyped
    <3>1. walks \in 0 .. MaxWalks
      OBVIOUS
    <3>2. prov \in [Provider -> {"none", "configuring", "ready", "failed"}]
      OBVIOUS
    <3>3. res \in [Resource -> {"todo", "passed", "calling", "done", "failed"}]
      OBVIOUS
    <3> QED BY <3>1, <3>2, <3>3 DEF WalkTyped
  <2> QED BY <2>1, <2>2, <2>3 DEF RunTypeOK, CommandTyped, RunTyped, WalkTyped
<1>2. OneStop
  BY DEF OneStop
<1>3. Signals
  BY DEF Signals
<1>4. RunEndsBeforeUnlock
  BY DEF RunEndsBeforeUnlock
<1>5. Runs
  BY DEF Runs
<1>6. Quiet
  BY DEF Quiet
<1>7. Halting
  BY DEF Halting
<1> QED BY <1>1, <1>2, <1>3, <1>4, <1>5, <1>6, <1>7 DEF RunInv

(* Only a signal cancels stopCtx,                                           *)
LEMMA InterruptKeeps == ASSUME RunInv, Interrupt PROVE RunInv'
<1> USE DEF RunInv, Interrupt, Return, Acquired, Locked, operation, run, walkVars
<1>1. RunTypeOK'
  BY WalksAssumption DEF RunTypeOK, Runs
<1>2. OneStop'
  BY WalksAssumption DEF OneStop
<1>3. Signals'
  BY WalksAssumption DEF RunTypeOK, Signals
<1>4. RunEndsBeforeUnlock'
  BY WalksAssumption DEF RunEndsBeforeUnlock, Signals, Runs, RunTypeOK
<1>5. Runs'
  BY WalksAssumption DEF Runs, RunTypeOK
<1>6. Quiet'
  BY WalksAssumption DEF Quiet, Signals, Runs, OneStop, RunTypeOK
<1>7. Halting'
  BY WalksAssumption DEF Halting, OneStop, RunTypeOK
<1> QED BY <1>1, <1>2, <1>3, <1>4, <1>5, <1>6, <1>7

(* and only a second one cancelCtx.                                         *)
LEMMA InterruptAgainKeeps == ASSUME RunInv, InterruptAgain PROVE RunInv'
<1> USE DEF RunInv, InterruptAgain, Return, Acquired, Locked, operation, run, walkVars
<1>1. RunTypeOK'
  BY WalksAssumption DEF RunTypeOK, Runs
<1>2. OneStop'
  BY WalksAssumption DEF OneStop
<1>3. Signals'
  BY WalksAssumption DEF RunTypeOK, Signals
<1>4. RunEndsBeforeUnlock'
  BY WalksAssumption DEF RunEndsBeforeUnlock, Signals, Runs, RunTypeOK
<1>5. Runs'
  BY WalksAssumption DEF Runs, RunTypeOK
<1>6. Quiet'
  BY WalksAssumption DEF Quiet, Signals, Runs, OneStop, RunTypeOK
<1>7. Halting'
  BY WalksAssumption DEF Halting, OneStop, RunTypeOK
<1> QED BY <1>1, <1>2, <1>3, <1>4, <1>5, <1>6, <1>7

(* The command ends.                                                        *)
LEMMA CommandReturnsKeeps == ASSUME RunInv, CommandReturns PROVE RunInv'
<1> USE DEF RunInv, CommandReturns, Return, Acquired, Locked, operation, run, walkVars
<1>1. RunTypeOK'
  BY WalksAssumption DEF RunTypeOK, Runs
<1>2. OneStop'
  BY WalksAssumption DEF OneStop
<1>3. Signals'
  BY WalksAssumption DEF RunTypeOK, Signals
<1>4. RunEndsBeforeUnlock'
  BY WalksAssumption DEF RunEndsBeforeUnlock, Signals, Runs, RunTypeOK
<1>5. Runs'
  BY WalksAssumption DEF Runs, RunTypeOK
<1>6. Quiet'
  BY WalksAssumption DEF Quiet, Signals, Runs, OneStop, RunTypeOK
<1>7. Halting'
  BY WalksAssumption DEF Halting, OneStop, RunTypeOK
<1> QED BY <1>1, <1>2, <1>3, <1>4, <1>5, <1>6, <1>7

(* It ends with the run still under way, too.                               *)
LEMMA TimeUpKeeps == ASSUME RunInv, TimeUp PROVE RunInv'
<1> USE DEF RunInv, TimeUp, Return, Acquired, Locked, operation, run, walkVars
<1>1. RunTypeOK'
  BY WalksAssumption DEF RunTypeOK, Runs
<1>2. OneStop'
  BY WalksAssumption DEF OneStop
<1>3. Signals'
  BY WalksAssumption DEF RunTypeOK, Signals
<1>4. RunEndsBeforeUnlock'
  BY WalksAssumption DEF RunEndsBeforeUnlock, Signals, Runs, RunTypeOK
<1>5. Runs'
  BY WalksAssumption DEF Runs, RunTypeOK
<1>6. Quiet'
  BY WalksAssumption DEF Quiet, Signals, Runs, OneStop, RunTypeOK
<1>7. Halting'
  BY WalksAssumption DEF Halting, OneStop, RunTypeOK
<1> QED BY <1>1, <1>2, <1>3, <1>4, <1>5, <1>6, <1>7

(* The operation begins a run, or ends before there is one.                 *)
LEMMA BeginKeeps == ASSUME RunInv, Begin PROVE RunInv'
<1> USE DEF RunInv, Begin, Return, Acquired, Locked, operation, run, walkVars
<1>1. RunTypeOK'
  <2>1. CommandTyped'
    BY DEF CommandTyped, RunTypeOK
  <2>2. RunTyped'
    BY DEF RunTyped, RunTypeOK, Runs
  <2>3. WalkTyped'
    BY WalksAssumption DEF WalkTyped, RunTypeOK
  <2> QED BY <2>1, <2>2, <2>3 DEF RunTypeOK, CommandTyped, RunTyped, WalkTyped
<1>2. OneStop'
  BY WalksAssumption DEF OneStop
<1>3. Signals'
  BY WalksAssumption DEF RunTypeOK, Signals
<1>4. RunEndsBeforeUnlock'
  BY WalksAssumption DEF RunEndsBeforeUnlock, Signals, Runs, RunTypeOK
<1>5. Runs'
  BY WalksAssumption DEF Runs, RunTypeOK
<1>6. Quiet'
  BY WalksAssumption DEF Quiet, Signals, Runs, OneStop, RunTypeOK
<1>7. Halting'
  BY WalksAssumption DEF Halting, OneStop, RunTypeOK
<1> QED BY <1>1, <1>2, <1>3, <1>4, <1>5, <1>6, <1>7

(* Plan has returned when the operation ends after it.                      *)
LEMMA PlannedKeeps == ASSUME RunInv, Planned PROVE RunInv'
<1> USE DEF RunInv, Planned, Return, Acquired, Locked, operation, run, walkVars
<1>1. RunTypeOK'
  <2>1. CommandTyped'
    BY DEF CommandTyped, RunTypeOK
  <2>2. RunTyped'
    BY DEF RunTyped, RunTypeOK, Runs
  <2>3. WalkTyped'
    BY WalksAssumption DEF WalkTyped, RunTypeOK
  <2> QED BY <2>1, <2>2, <2>3 DEF RunTypeOK, CommandTyped, RunTyped, WalkTyped
<1>2. OneStop'
  BY WalksAssumption DEF OneStop
<1>3. Signals'
  BY WalksAssumption DEF RunTypeOK, Signals
<1>4. RunEndsBeforeUnlock'
  BY WalksAssumption DEF RunEndsBeforeUnlock, Signals, Runs, RunTypeOK
<1>5. Runs'
  BY WalksAssumption DEF Runs, RunTypeOK
<1>6. Quiet'
  BY WalksAssumption DEF Quiet, Signals, Runs, OneStop, RunTypeOK
<1>7. Halting'
  BY WalksAssumption DEF Halting, OneStop, RunTypeOK
<1> QED BY <1>1, <1>2, <1>3, <1>4, <1>5, <1>6, <1>7

(* A second run begins when the first is over,                              *)
LEMMA ApprovedKeeps == ASSUME RunInv, Approved PROVE RunInv'
<1> USE DEF RunInv, Approved, Return, Acquired, Locked, operation, run, walkVars
<1>1. RunTypeOK'
  BY WalksAssumption DEF RunTypeOK, Runs
<1>2. OneStop'
  BY WalksAssumption DEF OneStop
<1>3. Signals'
  BY WalksAssumption DEF RunTypeOK, Signals
<1>4. RunEndsBeforeUnlock'
  BY WalksAssumption DEF RunEndsBeforeUnlock, Signals, Runs, RunTypeOK
<1>5. Runs'
  BY WalksAssumption DEF Runs, RunTypeOK
<1>6. Quiet'
  BY WalksAssumption DEF Quiet, Signals, Runs, OneStop, RunTypeOK
<1>7. Halting'
  BY WalksAssumption DEF Halting, OneStop, RunTypeOK
<1> QED BY <1>1, <1>2, <1>3, <1>4, <1>5, <1>6, <1>7

(* or the operation ends then.                                              *)
LEMMA NotApprovedKeeps == ASSUME RunInv, NotApproved PROVE RunInv'
<1> USE DEF RunInv, NotApproved, Return, Acquired, Locked, operation, run, walkVars
<1>1. RunTypeOK'
  BY WalksAssumption DEF RunTypeOK, Runs
<1>2. OneStop'
  BY WalksAssumption DEF OneStop
<1>3. Signals'
  BY WalksAssumption DEF RunTypeOK, Signals
<1>4. RunEndsBeforeUnlock'
  BY WalksAssumption DEF RunEndsBeforeUnlock, Signals, Runs, RunTypeOK
<1>5. Runs'
  BY WalksAssumption DEF Runs, RunTypeOK
<1>6. Quiet'
  BY WalksAssumption DEF Quiet, Signals, Runs, OneStop, RunTypeOK
<1>7. Halting'
  BY WalksAssumption DEF Halting, OneStop, RunTypeOK
<1> QED BY <1>1, <1>2, <1>3, <1>4, <1>5, <1>6, <1>7

(* opWait goes on to the final write when the run is over.                  *)
LEMMA RunReturnedKeeps == ASSUME RunInv, RunReturned PROVE RunInv'
<1> USE DEF RunInv, RunReturned, Return, Acquired, Locked, operation, run, walkVars
<1>1. RunTypeOK'
  BY WalksAssumption DEF RunTypeOK, Runs
<1>2. OneStop'
  BY WalksAssumption DEF OneStop
<1>3. Signals'
  BY WalksAssumption DEF RunTypeOK, Signals
<1>4. RunEndsBeforeUnlock'
  BY WalksAssumption DEF RunEndsBeforeUnlock, Signals, Runs, RunTypeOK
<1>5. Runs'
  BY WalksAssumption DEF Runs, RunTypeOK
<1>6. Quiet'
  BY WalksAssumption DEF Quiet, Signals, Runs, OneStop, RunTypeOK
<1>7. Halting'
  BY WalksAssumption DEF Halting, OneStop, RunTypeOK
<1> QED BY <1>1, <1>2, <1>3, <1>4, <1>5, <1>6, <1>7

(* The operation ends with no run under way.                                *)
LEMMA FinishKeeps == ASSUME RunInv, Finish PROVE RunInv'
<1> USE DEF RunInv, Finish, Return, Acquired, Locked, operation, run, walkVars
<1>1. RunTypeOK'
  BY WalksAssumption DEF RunTypeOK, Runs
<1>2. OneStop'
  BY WalksAssumption DEF OneStop
<1>3. Signals'
  BY WalksAssumption DEF RunTypeOK, Signals
<1>4. RunEndsBeforeUnlock'
  BY WalksAssumption DEF RunEndsBeforeUnlock, Signals, Runs, RunTypeOK
<1>5. Runs'
  BY WalksAssumption DEF Runs, RunTypeOK
<1>6. Quiet'
  BY WalksAssumption DEF Quiet, Signals, Runs, OneStop, RunTypeOK
<1>7. Halting'
  BY WalksAssumption DEF Halting, OneStop, RunTypeOK
<1> QED BY <1>1, <1>2, <1>3, <1>4, <1>5, <1>6, <1>7

(* opWait acts on an interrupt,                                             *)
LEMMA StopRequestedKeeps == ASSUME RunInv, StopRequested PROVE RunInv'
<1> USE DEF RunInv, StopRequested, Return, Acquired, Locked, operation, run, walkVars
<1>1. RunTypeOK'
  BY WalksAssumption DEF RunTypeOK, Runs
<1>2. OneStop'
  BY WalksAssumption DEF OneStop
<1>3. Signals'
  BY WalksAssumption DEF RunTypeOK, Signals
<1>4. RunEndsBeforeUnlock'
  BY WalksAssumption DEF RunEndsBeforeUnlock, Signals, Runs, RunTypeOK
<1>5. Runs'
  BY WalksAssumption DEF Runs, RunTypeOK
<1>6. Quiet'
  BY WalksAssumption DEF Quiet, Signals, Runs, OneStop, RunTypeOK
<1>7. Halting'
  BY WalksAssumption DEF Halting, OneStop, RunTypeOK
<1> QED BY <1>1, <1>2, <1>3, <1>4, <1>5, <1>6, <1>7

(* and starts the one goroutine that calls Stop.                            *)
LEMMA StopSpawnedKeeps == ASSUME RunInv, StopSpawned PROVE RunInv'
<1> USE DEF RunInv, StopSpawned, Return, Acquired, Locked, operation, run, walkVars
<1>1. RunTypeOK'
  BY WalksAssumption DEF RunTypeOK, Runs
<1>2. OneStop'
  BY WalksAssumption DEF OneStop, Runs, Signals
<1>3. Signals'
  BY WalksAssumption DEF RunTypeOK, Signals
<1>4. RunEndsBeforeUnlock'
  BY WalksAssumption DEF RunEndsBeforeUnlock, Signals, Runs, RunTypeOK
<1>5. Runs'
  BY WalksAssumption DEF Runs, RunTypeOK
<1>6. Quiet'
  BY WalksAssumption DEF Quiet, Signals, Runs, OneStop, RunTypeOK
<1>7. Halting'
  BY WalksAssumption DEF Halting, OneStop, RunTypeOK
<1> QED BY <1>1, <1>2, <1>3, <1>4, <1>5, <1>6, <1>7

(* Only the second interrupt ends an operation with a run under way.        *)
LEMMA CancelledKeeps == ASSUME RunInv, Cancelled PROVE RunInv'
<1> USE DEF RunInv, Cancelled, Return, Acquired, Locked, operation, run, walkVars
<1>1. RunTypeOK'
  BY WalksAssumption DEF RunTypeOK, Runs
<1>2. OneStop'
  BY WalksAssumption DEF OneStop
<1>3. Signals'
  BY WalksAssumption DEF RunTypeOK, Signals
<1>4. RunEndsBeforeUnlock'
  BY WalksAssumption DEF RunEndsBeforeUnlock, Signals, Runs, RunTypeOK
<1>5. Runs'
  BY WalksAssumption DEF Runs, RunTypeOK
<1>6. Quiet'
  BY WalksAssumption DEF Quiet, Signals, Runs, OneStop, RunTypeOK
<1>7. Halting'
  BY WalksAssumption DEF Halting, OneStop, RunTypeOK
<1> QED BY <1>1, <1>2, <1>3, <1>4, <1>5, <1>6, <1>7

(* A run begins when Stop does not hold c.l: it can be cancelled.           *)
LEMMA AcquireRunKeeps == ASSUME RunInv, AcquireRun PROVE RunInv'
<1> USE DEF RunInv, AcquireRun, Return, Acquired, Locked, operation, run, walkVars
<1>1. RunTypeOK'
  <2>1. CommandTyped'
    BY DEF CommandTyped, RunTypeOK
  <2>2. RunTyped'
    BY DEF RunTyped, RunTypeOK, Runs
  <2>3. WalkTyped'
    BY WalksAssumption DEF WalkTyped, RunTypeOK
  <2> QED BY <2>1, <2>2, <2>3 DEF RunTypeOK, CommandTyped, RunTyped, WalkTyped
<1>2. OneStop'
  BY WalksAssumption DEF OneStop
<1>3. Signals'
  BY WalksAssumption DEF RunTypeOK, Signals
<1>4. RunEndsBeforeUnlock'
  BY WalksAssumption DEF RunEndsBeforeUnlock, Signals, Runs, RunTypeOK
<1>5. Runs'
  BY WalksAssumption DEF Runs, RunTypeOK
<1>6. Quiet'
  BY WalksAssumption DEF Quiet, Signals, Runs, OneStop, RunTypeOK
<1>7. Halting'
  BY WalksAssumption DEF Halting, OneStop, RunTypeOK
<1> QED BY <1>1, <1>2, <1>3, <1>4, <1>5, <1>6, <1>7

(* The walk begins with watchStop's goroutine.                              *)
LEMMA BeginWalkKeeps == ASSUME RunInv, BeginWalk PROVE RunInv'
<1> USE DEF RunInv, BeginWalk, Return, Acquired, Locked, operation, run, walkVars
<1>1. RunTypeOK'
  <2>1. CommandTyped'
    BY DEF CommandTyped, RunTypeOK
  <2>2. RunTyped'
    BY DEF RunTyped, RunTypeOK, Runs
  <2>3. WalkTyped'
    <3>1. walks' \in 0 .. MaxWalks
      BY WalksAssumption DEF RunTypeOK
    <3>2. prov' \in [Provider -> {"none", "configuring", "ready", "failed"}]
      BY DEF RunTypeOK
    <3>3. res' \in [Resource -> {"todo", "passed", "calling", "done", "failed"}]
      BY DEF RunTypeOK
    <3> QED BY <3>1, <3>2, <3>3 DEF WalkTyped, RunTypeOK
  <2> QED BY <2>1, <2>2, <2>3 DEF RunTypeOK, CommandTyped, RunTyped, WalkTyped
<1>2. OneStop'
  BY WalksAssumption DEF OneStop
<1>3. Signals'
  BY WalksAssumption DEF RunTypeOK, Signals
<1>4. RunEndsBeforeUnlock'
  BY WalksAssumption DEF RunEndsBeforeUnlock, Signals, Runs, RunTypeOK
<1>5. Runs'
  BY WalksAssumption DEF Runs, RunTypeOK
<1>6. Quiet'
  BY WalksAssumption DEF Quiet, Signals, Runs, OneStop, RunTypeOK
<1>7. Halting'
  BY WalksAssumption DEF Halting, OneStop, RunTypeOK
<1> QED BY <1>1, <1>2, <1>3, <1>4, <1>5, <1>6, <1>7

(* The walk waits for that goroutine,                                       *)
LEMMA EndWalkKeeps == ASSUME RunInv, EndWalk PROVE RunInv'
<1> USE DEF RunInv, EndWalk, WalkComplete, Return, Acquired, Locked, operation, run, walkVars
<1>1. RunTypeOK'
  BY WalksAssumption DEF RunTypeOK, Runs
<1>2. OneStop'
  BY WalksAssumption DEF OneStop
<1>3. Signals'
  BY WalksAssumption DEF RunTypeOK, Signals
<1>4. RunEndsBeforeUnlock'
  BY WalksAssumption DEF RunEndsBeforeUnlock, Signals, Runs, RunTypeOK
<1>5. Runs'
  BY WalksAssumption DEF Runs, RunTypeOK
<1>6. Quiet'
  BY WalksAssumption DEF Quiet, Signals, Runs, OneStop, RunTypeOK
<1>7. Halting'
  BY WalksAssumption DEF Halting, OneStop, RunTypeOK
<1> QED BY <1>1, <1>2, <1>3, <1>4, <1>5, <1>6, <1>7

(* which has ended when the walk has.                                       *)
LEMMA UnwatchedKeeps == ASSUME RunInv, Unwatched PROVE RunInv'
<1> USE DEF RunInv, Unwatched, Return, Acquired, Locked, operation, run, walkVars
<1>1. RunTypeOK'
  BY WalksAssumption DEF RunTypeOK, Runs
<1>2. OneStop'
  BY WalksAssumption DEF OneStop
<1>3. Signals'
  BY WalksAssumption DEF RunTypeOK, Signals
<1>4. RunEndsBeforeUnlock'
  BY WalksAssumption DEF RunEndsBeforeUnlock, Signals, Runs, RunTypeOK
<1>5. Runs'
  BY WalksAssumption DEF Runs, RunTypeOK
<1>6. Quiet'
  BY WalksAssumption DEF Quiet, Signals, Runs, OneStop, RunTypeOK
<1>7. Halting'
  BY WalksAssumption DEF Halting, OneStop, RunTypeOK
<1> QED BY <1>1, <1>2, <1>3, <1>4, <1>5, <1>6, <1>7

(* So nobody watches the context that releaseRun cancels.                   *)
LEMMA ReleaseRunKeeps == ASSUME RunInv, ReleaseRun PROVE RunInv'
<1> USE DEF RunInv, ReleaseRun, Return, Acquired, Locked, operation, run, walkVars
<1>1. RunTypeOK'
  <2>1. CommandTyped'
    BY DEF CommandTyped, RunTypeOK
  <2>2. RunTyped'
    BY DEF RunTyped, RunTypeOK, Runs
  <2>3. WalkTyped'
    BY WalksAssumption DEF WalkTyped, RunTypeOK
  <2> QED BY <2>1, <2>2, <2>3 DEF RunTypeOK, CommandTyped, RunTyped, WalkTyped
<1>2. OneStop'
  BY WalksAssumption DEF OneStop
<1>3. Signals'
  BY WalksAssumption DEF RunTypeOK, Signals
<1>4. RunEndsBeforeUnlock'
  BY WalksAssumption DEF RunEndsBeforeUnlock, Signals, Runs, RunTypeOK
<1>5. Runs'
  BY WalksAssumption DEF Runs, RunTypeOK
<1>6. Quiet'
  BY WalksAssumption DEF Quiet, Signals, Runs, OneStop, RunTypeOK
<1>7. Halting'
  BY WalksAssumption DEF Halting, OneStop, RunTypeOK
<1> QED BY <1>1, <1>2, <1>3, <1>4, <1>5, <1>6, <1>7

(* Providers are configured,                                                *)
LEMMA ConfigureKeeps == ASSUME NEW p \in Provider, RunInv, Configure(p) PROVE RunInv'
<1> USE DEF RunInv, Configure, Return, Acquired, Locked, operation, run, walkVars
<1>1. RunTypeOK'
  BY WalksAssumption DEF RunTypeOK, Runs
<1>2. OneStop'
  BY WalksAssumption DEF OneStop
<1>3. Signals'
  BY WalksAssumption DEF RunTypeOK, Signals
<1>4. RunEndsBeforeUnlock'
  BY WalksAssumption DEF RunEndsBeforeUnlock, Signals, Runs, RunTypeOK
<1>5. Runs'
  BY WalksAssumption DEF Runs, RunTypeOK
<1>6. Quiet'
  BY WalksAssumption DEF Quiet, Signals, Runs, OneStop, RunTypeOK
<1>7. Halting'
  BY WalksAssumption DEF Halting, OneStop, RunTypeOK
<1> QED BY <1>1, <1>2, <1>3, <1>4, <1>5, <1>6, <1>7

(* or fail.                                                                 *)
LEMMA ConfiguredKeeps == ASSUME NEW p \in Provider, RunInv, Configured(p) PROVE RunInv'
<1> USE DEF RunInv, Configured, Return, Acquired, Locked, operation, run, walkVars
<1>1. RunTypeOK'
  BY WalksAssumption DEF RunTypeOK, Runs
<1>2. OneStop'
  BY WalksAssumption DEF OneStop
<1>3. Signals'
  BY WalksAssumption DEF RunTypeOK, Signals
<1>4. RunEndsBeforeUnlock'
  BY WalksAssumption DEF RunEndsBeforeUnlock, Signals, Runs, RunTypeOK
<1>5. Runs'
  BY WalksAssumption DEF Runs, RunTypeOK
<1>6. Quiet'
  BY WalksAssumption DEF Quiet, Signals, Runs, OneStop, RunTypeOK
<1>7. Halting'
  BY WalksAssumption DEF Halting, OneStop, RunTypeOK
<1> QED BY <1>1, <1>2, <1>3, <1>4, <1>5, <1>6, <1>7

(* A resource is visited,                                                   *)
LEMMA VisitKeeps == ASSUME NEW r \in Resource, RunInv, Visit(r) PROVE RunInv'
<1> USE DEF RunInv, Visit, Return, Acquired, Locked, operation, run, walkVars
<1>1. RunTypeOK'
  BY WalksAssumption DEF RunTypeOK, Runs
<1>2. OneStop'
  BY WalksAssumption DEF OneStop
<1>3. Signals'
  BY WalksAssumption DEF RunTypeOK, Signals
<1>4. RunEndsBeforeUnlock'
  BY WalksAssumption DEF RunEndsBeforeUnlock, Signals, Runs, RunTypeOK
<1>5. Runs'
  BY WalksAssumption DEF Runs, RunTypeOK
<1>6. Quiet'
  BY WalksAssumption DEF Quiet, Signals, Runs, OneStop, RunTypeOK
<1>7. Halting'
  BY WalksAssumption DEF Halting, OneStop, RunTypeOK
<1> QED BY <1>1, <1>2, <1>3, <1>4, <1>5, <1>6, <1>7

(* the provider is called,                                                  *)
LEMMA CallKeeps == ASSUME NEW r \in Resource, RunInv, Call(r) PROVE RunInv'
<1> USE DEF RunInv, Call, Return, Acquired, Locked, operation, run, walkVars
<1>1. RunTypeOK'
  BY WalksAssumption DEF RunTypeOK, Runs
<1>2. OneStop'
  BY WalksAssumption DEF OneStop
<1>3. Signals'
  BY WalksAssumption DEF RunTypeOK, Signals
<1>4. RunEndsBeforeUnlock'
  BY WalksAssumption DEF RunEndsBeforeUnlock, Signals, Runs, RunTypeOK
<1>5. Runs'
  BY WalksAssumption DEF Runs, RunTypeOK
<1>6. Quiet'
  BY WalksAssumption DEF Quiet, Signals, Runs, OneStop, RunTypeOK
<1>7. Halting'
  BY WalksAssumption DEF Halting, OneStop, RunTypeOK
<1> QED BY <1>1, <1>2, <1>3, <1>4, <1>5, <1>6, <1>7

(* and its provider answers.                                                *)
LEMMA CallReturnsKeeps == ASSUME NEW r \in Resource, RunInv, CallReturns(r) PROVE RunInv'
<1> USE DEF RunInv, CallReturns, Return, Acquired, Locked, operation, run, walkVars
<1>1. RunTypeOK'
  BY WalksAssumption DEF RunTypeOK, Runs
<1>2. OneStop'
  BY WalksAssumption DEF OneStop
<1>3. Signals'
  BY WalksAssumption DEF RunTypeOK, Signals
<1>4. RunEndsBeforeUnlock'
  BY WalksAssumption DEF RunEndsBeforeUnlock, Signals, Runs, RunTypeOK
<1>5. Runs'
  BY WalksAssumption DEF Runs, RunTypeOK
<1>6. Quiet'
  BY WalksAssumption DEF Quiet, Signals, Runs, OneStop, RunTypeOK
<1>7. Halting'
  BY WalksAssumption DEF Halting, OneStop, RunTypeOK
<1> QED BY <1>1, <1>2, <1>3, <1>4, <1>5, <1>6, <1>7

(* A context cancelled during the walk was cancelled by Stop.               *)
LEMMA WatchSelectKeeps == ASSUME RunInv, WatchSelect PROVE RunInv'
<1> USE DEF RunInv, WatchSelect, Return, Acquired, Locked, operation, run, walkVars
<1>1. RunTypeOK'
  BY WalksAssumption DEF RunTypeOK, Runs
<1>2. OneStop'
  BY WalksAssumption DEF OneStop
<1>3. Signals'
  BY WalksAssumption DEF RunTypeOK, Signals
<1>4. RunEndsBeforeUnlock'
  BY WalksAssumption DEF RunEndsBeforeUnlock, Signals, Runs, RunTypeOK
<1>5. Runs'
  BY WalksAssumption DEF Runs, RunTypeOK
<1>6. Quiet'
  BY WalksAssumption DEF Quiet, Signals, Runs, OneStop, RunTypeOK
<1>7. Halting'
  BY WalksAssumption DEF Halting, OneStop, RunTypeOK
<1> QED BY <1>1, <1>2, <1>3, <1>4, <1>5, <1>6, <1>7

(* Providers are stopped after an interrupt.                                *)
LEMMA StopAllKeeps == ASSUME RunInv, StopAll PROVE RunInv'
<1> USE DEF RunInv, StopAll, Return, Acquired, Locked, operation, run, walkVars
<1>1. RunTypeOK'
  BY WalksAssumption DEF RunTypeOK, Runs
<1>2. OneStop'
  BY WalksAssumption DEF OneStop
<1>3. Signals'
  BY WalksAssumption DEF RunTypeOK, Signals
<1>4. RunEndsBeforeUnlock'
  BY WalksAssumption DEF RunEndsBeforeUnlock, Signals, Runs, RunTypeOK
<1>5. Runs'
  BY WalksAssumption DEF Runs, RunTypeOK
<1>6. Quiet'
  BY WalksAssumption DEF Quiet, Signals, Runs, OneStop, RunTypeOK
<1>7. Halting'
  BY WalksAssumption DEF Halting, OneStop, RunTypeOK
<1> QED BY <1>1, <1>2, <1>3, <1>4, <1>5, <1>6, <1>7

(* Stop sets the hook and cancels the run it finds.                         *)
LEMMA StopRunKeeps == ASSUME RunInv, StopRun PROVE RunInv'
<1> USE DEF RunInv, StopRun, Return, Acquired, Locked, operation, run, walkVars
<1>1. RunTypeOK'
  <2>1. CommandTyped'
    BY DEF CommandTyped, RunTypeOK
  <2>2. RunTyped'
    BY DEF RunTyped, RunTypeOK, Runs
  <2>3. WalkTyped'
    BY WalksAssumption DEF WalkTyped, RunTypeOK
  <2> QED BY <2>1, <2>2, <2>3 DEF RunTypeOK, CommandTyped, RunTyped, WalkTyped
<1>2. OneStop'
  BY WalksAssumption DEF OneStop
<1>3. Signals'
  BY WalksAssumption DEF RunTypeOK, Signals
<1>4. RunEndsBeforeUnlock'
  BY WalksAssumption DEF RunEndsBeforeUnlock, Signals, Runs, RunTypeOK
<1>5. Runs'
  BY WalksAssumption DEF Runs, RunTypeOK
<1>6. Quiet'
  BY WalksAssumption DEF Quiet, Signals, Runs, OneStop, RunTypeOK
<1>7. Halting'
  BY WalksAssumption DEF Halting, OneStop, RunTypeOK
<1> QED BY <1>1, <1>2, <1>3, <1>4, <1>5, <1>6, <1>7

(* It waits for that run, or for none.                                      *)
LEMMA HooksNotifiedKeeps == ASSUME RunInv, HooksNotified PROVE RunInv'
<1> USE DEF RunInv, HooksNotified, Return, Acquired, Locked, operation, run, walkVars
<1>1. RunTypeOK'
  BY WalksAssumption DEF RunTypeOK, Runs
<1>2. OneStop'
  BY WalksAssumption DEF OneStop
<1>3. Signals'
  BY WalksAssumption DEF RunTypeOK, Signals
<1>4. RunEndsBeforeUnlock'
  BY WalksAssumption DEF RunEndsBeforeUnlock, Signals, Runs, RunTypeOK
<1>5. Runs'
  BY WalksAssumption DEF Runs, RunTypeOK
<1>6. Quiet'
  BY WalksAssumption DEF Quiet, Signals, Runs, OneStop, RunTypeOK
<1>7. Halting'
  BY WalksAssumption DEF Halting, OneStop, RunTypeOK
<1> QED BY <1>1, <1>2, <1>3, <1>4, <1>5, <1>6, <1>7

(* It is woken by the end of the run.                                       *)
LEMMA StopReturnsKeeps == ASSUME RunInv, StopReturns PROVE RunInv'
<1> USE DEF RunInv, StopReturns, Return, Acquired, Locked, operation, run, walkVars
<1>1. RunTypeOK'
  BY WalksAssumption DEF RunTypeOK, Runs
<1>2. OneStop'
  BY WalksAssumption DEF OneStop
<1>3. Signals'
  BY WalksAssumption DEF RunTypeOK, Signals
<1>4. RunEndsBeforeUnlock'
  BY WalksAssumption DEF RunEndsBeforeUnlock, Signals, Runs, RunTypeOK
<1>5. Runs'
  BY WalksAssumption DEF Runs, RunTypeOK
<1>6. Quiet'
  BY WalksAssumption DEF Quiet, Signals, Runs, OneStop, RunTypeOK
<1>7. Halting'
  BY WalksAssumption DEF Halting, OneStop, RunTypeOK
<1> QED BY <1>1, <1>2, <1>3, <1>4, <1>5, <1>6, <1>7

(* Nothing changes while nothing happens. *)
LEMMA StutterKeeps == ASSUME RunInv, UNCHANGED runVars PROVE RunInv'
BY DEF runVars, operation, run, walkVars, RunInv, RunTypeOK, OneStop, Signals, RunEndsBeforeUnlock,
   Runs, Quiet, Halting

(* Every step of every goroutine keeps the invariant. *)
LEMMA StepKeeps == ASSUME RunInv, [RunNext]_runVars PROVE RunInv'
<1>1. CASE UNCHANGED runVars
  BY <1>1, StutterKeeps
<1>2. CASE User \/ CommandReturns \/ TimeUp
  BY <1>2, InterruptKeeps, InterruptAgainKeeps, ApprovedKeeps, NotApprovedKeeps,
     CommandReturnsKeeps, TimeUpKeeps DEF User
<1>3. CASE Operation
  BY <1>3, BeginKeeps, PlannedKeeps, RunReturnedKeeps, FinishKeeps, StopRequestedKeeps,
     StopSpawnedKeeps, CancelledKeeps DEF Operation
<1>4. CASE Core
  BY <1>4, AcquireRunKeeps, BeginWalkKeeps, EndWalkKeeps, UnwatchedKeeps, ReleaseRunKeeps DEF Core
<1>5. CASE Walk
  BY <1>5, ConfigureKeeps, ConfiguredKeeps, VisitKeeps, CallKeeps, CallReturnsKeeps DEF Walk
<1>6. CASE Watcher \/ Stop
  BY <1>6, WatchSelectKeeps, StopAllKeeps, StopRunKeeps, HooksNotifiedKeeps, StopReturnsKeeps
     DEF Watcher, Stop
<1> QED BY <1>1, <1>2, <1>3, <1>4, <1>5, <1>6 DEF RunNext, Ended

(* The invariant of every operation, with any number of resources,          *)
(* providers and walks.                                                     *)
THEOREM RunInvariant == RunSpec => []RunInv
<1>1. RunInit => RunInv
  BY InitRun
<1>2. RunInv /\ [RunNext]_runVars => RunInv'
  BY StepKeeps
<1> QED BY <1>1, <1>2, PTL DEF RunSpec

(* Nobody's provider is stopped in an operation that was not interrupted:   *)
(* walk waits for watchStop's goroutine before releaseRun cancels the       *)
(* context (context_walk.go:66-67, context.go:245-247).                     *)
THEOREM ProvidersAreLeftAlone == RunSpec => []OnlyInterruptsStopProviders
<1>1. RunInv => OnlyInterruptsStopProviders
  BY DEF RunInv, Quiet, OnlyInterruptsStopProviders
<1> QED BY <1>1, RunInvariant, PTL

(* The state lock is given up with a run under way only after a second      *)
(* interrupt (backend.go:385-397, backend_apply.go:99-105).                 *)
THEOREM RunsEndFirst == RunSpec => []RunEndsBeforeUnlock
<1>1. RunInv => RunEndsBeforeUnlock
  BY DEF RunInv
<1> QED BY <1>1, RunInvariant, PTL

(* The run that Stop waits for takes up no further resource: what it still  *)
(* begins had passed the hook, which acquireRun resets under c.l only       *)
(* (context.go:220-235, hook_stop.go:28-30).                                *)
THEOREM StopHalts == RunSpec => NothingTakenUpDuringStop
<1>1. RunInv /\ [RunNext]_runVars => [stopper = "wait" => TakenUp' \subseteq TakenUp]_runVars
  <2> SUFFICES ASSUME RunInv, RunNext, stopper = "wait", NEW r \in Resource,
                      res'[r] \in {"passed", "calling"}
               PROVE  res[r] \in {"passed", "calling"}
    BY DEF TakenUp
  <2>1. hook /\ res \in [Resource -> {"todo", "passed", "calling", "done", "failed"}]
    BY DEF RunInv, Halting, RunTypeOK
  <2>2. CASE UNCHANGED res
    BY <2>1, <2>2
  <2>3. CASE BeginWalk
    BY <2>3, <2>1 DEF BeginWalk
  <2>4. CASE \E q \in Resource : Visit(q) \/ Call(q) \/ CallReturns(q)
    BY <2>4, <2>1 DEF Visit, Call, CallReturns
  <2> QED BY <2>2, <2>3, <2>4
    DEF RunNext, User, Operation, Core, Walk, Watcher, Stop, Interrupt, InterruptAgain, CommandReturns,
        TimeUp, Begin, Planned, Approved, NotApproved, RunReturned, Finish, StopRequested,
        StopSpawned, Cancelled, AcquireRun, EndWalk, Unwatched, ReleaseRun, Configure, Configured,
        WatchSelect, StopAll, StopRun, HooksNotified, StopReturns, Ended, runVars, walkVars
<1> QED BY <1>1, RunInvariant, PTL DEF RunSpec, NothingTakenUpDuringStop

(* The fields keep their types, and c.runCond says whether a run is under   *)
(* way.                                                                     *)
THEOREM RunTypesCorrect == RunSpec => []RunTypeOK
<1>1. RunInv => RunTypeOK
  BY DEF RunInv
<1> QED BY <1>1, RunInvariant, PTL

-----------------------------------------------------------------------------
(* The remote state manager, for any processes, any snapshots to begin     *)
(* with and to migrate, and any number of changes, runs and faults.        *)

Manager == [st : State \cup {None}, readSt : State \cup {None}, lin : Nat, readLin : Nat,
            ser : Nat, readSer : Nat]

AtWork == {"applying", "put"}

\* The snapshot that the manager has read or put last.
Read(m) == [lin |-> m.readLin, ser |-> m.readSer, st |-> m.readSt]

\* The parts of the inductive invariant.

\* Kinds of the values.
Kinds ==
  /\ remote \in Snapshot \cup {None}
  /\ mgr \in [Proc -> Manager]
  /\ pc \in [Proc -> {"idle", "locked", "applying", "put", "done"}]
  /\ real \in [Proc -> State]
  /\ result \in [Proc -> {"nil", "error"}]
  /\ brought \in [Proc -> Migrated \cup {None}]
  /\ ended \in [Proc -> BOOLEAN] /\ found \in [Proc -> BOOLEAN]
  /\ updates \in 0 .. MaxUpdates /\ runs \in Nat
  /\ saved \in State

\* A command runs with the client's lock.
Exclusive == \A p \in Proc : pc[p] # "idle" => lock = p

\* A command that has not refreshed yet has written and brought nothing.
Fresh ==
  \A p \in Proc : pc[p] \in {"idle", "locked"} =>
    mgr[p] = NewManager /\ brought[p] = None /\ ~found[p]

\* What was read is still there or followed by what this manager has put.
Descends ==
  \A p \in Proc : pc[p] \in AtWork /\ mgr[p].readSt # None =>
    /\ remote # None
    /\ mgr[p].st # None
    /\ brought[p] = None => /\ mgr[p].lin = mgr[p].readLin /\ remote.lin = mgr[p].lin
                            /\ remote.ser <= mgr[p].ser /\ mgr[p].readSer <= mgr[p].ser
    /\ brought[p] = None /\ pc[p] = "put" =>
         remote.ser < mgr[p].ser \/ remote = ToWrite(mgr[p])

\* A manager that has read nothing puts a new lineage over nothing.
PutsFirst ==
  \A p \in Proc : pc[p] \in AtWork /\ mgr[p].readSt = None =>
    /\ pc[p] = "put" => remote = None /\ mgr[p].lin # 0
    /\ remote # None => remote.lin # 0

\* Before PersistState the remote object is what was read, unless a Put has
\* failed; after that the state has grown, or PersistState cannot tell.
Current ==
  \A p \in Proc : pc[p] \in AtWork /\ found[p] =>
    /\ brought[p] = None => mgr[p].readSt \subseteq mgr[p].st
    /\ \/ mgr[p].readLin = 0 \/ mgr[p].readSer = 0
       \/ /\ pc[p] = "applying" /\ remote = Read(mgr[p])
          /\ brought[p] = None => mgr[p].ser = mgr[p].readSer
       \/ brought[p] = None /\ mgr[p].readSer < mgr[p].ser /\ mgr[p].readSt # mgr[p].st
       \/ brought[p] # None /\ pc[p] = "put"

\* A command that found a snapshot works on the state it will write, which
\* has all that was saved.
Carries ==
  \A p \in Proc : pc[p] \in AtWork /\ found[p] =>
    /\ mgr[p].readSt # None
    /\ mgr[p].st = real[p] /\ saved \subseteq real[p]
    /\ brought[p] # None => mgr[p].lin = brought[p].lin /\ real[p] = brought[p].st

\* One that found none has nothing to lose.
NothingSaved ==
  \A p \in Proc : pc[p] \in AtWork /\ ~found[p] => saved = {}

\* A migration is persisted once, by the last PersistState.
MigratesLast == \A p \in Proc : pc[p] = "put" /\ brought[p] # None => ended[p]

\* What the last PersistState promised stays until the command unlocks.
Written ==
  \A p \in Proc : Wrote(p) /\ found[p] =>
    /\ remote # None /\ remote.st = real[p]
    /\ brought[p] # None => remote.lin = brought[p].lin /\ remote.st = brought[p].st

RemoteInv ==
  /\ Kinds /\ Exclusive /\ Fresh /\ Descends /\ PutsFirst /\ Current /\ Carries
  /\ NothingSaved /\ MigratesLast /\ Written /\ NoUpdateLost

-----------------------------------------------------------------------------
\* It holds whatever the remote object holds to begin with.
LEMMA RemoteInit == Init => RemoteInv
<1> SUFFICES ASSUME Init PROVE RemoteInv OBVIOUS
<1> USE DEF Init
<1>1. remote \in Snapshot \cup {None} BY RemoteAssumption
<1>2. Kinds
  <2>1. NewManager \in Manager BY DEF NewManager, Manager
  <2>2. saved \in State BY <1>1 DEF Snapshot, State
  <2> QED BY <1>1, <2>1, <2>2, BoundAssumption DEF Kinds, State
<1>3. Exclusive /\ Fresh /\ Descends /\ PutsFirst /\ Current /\ Carries
  BY DEF Exclusive, Fresh, Descends, PutsFirst, Current, Carries, AtWork
<1>4. NothingSaved /\ MigratesLast /\ Written
  BY DEF NothingSaved, MigratesLast, Written, Wrote, AtWork
<1>5. NoUpdateLost BY DEF NoUpdateLost
<1> QED BY <1>2, <1>3, <1>4, <1>5 DEF RemoteInv

\* The lock leaves the others idle.
LEMMA Alone ==
  ASSUME RemoteInv, NEW p \in Proc, pc[p] # "idle"
  PROVE  \A q \in Proc : q # p => pc[q] = "idle"
BY DEF RemoteInv, Exclusive

\* A command starts only without a lock, when all are idle.
LEMMA LockKeeps == ASSUME NEW p \in Proc, RemoteInv, Lock(p) PROVE RemoteInv'
<1> USE DEF RemoteInv, Kinds, Lock, Goto
<1>0. \A q \in Proc : q # p => pc[q] = "idle" BY NoneAssumption DEF Exclusive
<1>a. \A q \in Proc : pc'[q] \in {"idle", "locked"} BY <1>0
<1>1. Kinds' OBVIOUS
<1>2. Exclusive' BY <1>0 DEF Exclusive
<1>3. Fresh' BY <1>0 DEF Fresh
<1>4. Descends' /\ PutsFirst' /\ Current' /\ Carries'
  BY <1>a DEF Descends, PutsFirst, Current, Carries, AtWork
<1>5. NothingSaved' /\ MigratesLast' /\ Written'
  BY <1>a DEF NothingSaved, MigratesLast, Written, Wrote, AtWork
<1>6. NoUpdateLost' BY DEF NoUpdateLost
<1> QED BY <1>1, <1>2, <1>3, <1>4, <1>5, <1>6


\* The refresh reads the remote object, which has all that was saved.
LEMMA RefreshStateKeeps == ASSUME NEW p \in Proc, RemoteInv, RefreshState(p) PROVE RemoteInv'
<1> USE DEF RemoteInv, Kinds, RefreshState, Goto
<1>0. /\ \A q \in Proc : q # p => pc'[q] = "idle"
      /\ pc'[p] \in {"applying", "done"}
      /\ mgr[p] = NewManager /\ brought[p] = None /\ ~found[p]
      /\ \A q \in Proc : q # p => mgr'[q] = mgr[q] /\ found'[q] = found[q]
  BY Alone DEF Fresh
<1>a. ASSUME pc'[p] = "applying"
      PROVE  mgr'[p] = Refreshed(NewManager) /\ (found'[p] <=> remote # None)
             /\ real'[p] = IF mgr'[p].st = None THEN {} ELSE mgr'[p].st
  BY <1>a, <1>0
<1>b. remote # None => remote.st \in State /\ remote.st # None
                       /\ remote.lin \in Nat /\ remote.ser \in Nat
                       /\ remote = [lin |-> remote.lin, ser |-> remote.ser, st |-> remote.st]
  BY NoneAssumption DEF Snapshot
<1>c. Refreshed(NewManager) \in Manager BY <1>b DEF Refreshed, NewManager, Manager
<1>d. ASSUME pc'[p] = "applying", remote # None
      PROVE  /\ mgr'[p].readSt = remote.st /\ mgr'[p].st = remote.st
             /\ mgr'[p].lin = remote.lin /\ mgr'[p].readLin = remote.lin
             /\ mgr'[p].ser = remote.ser /\ mgr'[p].readSer = remote.ser
  BY <1>a, <1>d DEF Refreshed
<1>e. ASSUME pc'[p] = "applying", remote = None
      PROVE  mgr'[p].readSt = None /\ mgr'[p].st = None
  BY <1>a, <1>e DEF Refreshed, NewManager
<1>1. Kinds'
  <2>1. CASE UNCHANGED <<mgr, real, found>> BY <1>0, <2>1
  <2>2. CASE pc'[p] = "applying"
    <3>1. mgr' = [mgr EXCEPT ![p] = Refreshed(NewManager)] BY <2>2, <1>0
    <3>2. real'[p] \in State BY <2>2, <1>a, <1>b, <1>d, <1>e DEF State
    <3>3. /\ real' = [real EXCEPT ![p] = real'[p]]
          /\ found' = [found EXCEPT ![p] = remote # None]
      BY <2>2, <1>0
    <3> QED BY <3>1, <3>2, <3>3, <1>0, <1>c
  <2> QED BY <2>1, <2>2
<1>2. Exclusive' /\ Fresh'
  BY <1>0 DEF Exclusive, Fresh
<1>3. Descends' /\ PutsFirst'
  <2>1. Descends' BY <1>0, <1>d, <1>e, <1>b DEF Descends, AtWork
  <2>2. PutsFirst' 
    <3>1. pc'[p] = "applying" /\ mgr'[p].readSt = None => remote = None BY <1>d, <1>b
    <3> QED BY <3>1, <1>0 DEF PutsFirst, AtWork
  <2> QED BY <2>1, <2>2
<1>4. Current' BY <1>0, <1>a, <1>b DEF Current, AtWork, Refreshed, Read, NewManager
<1>5. Carries' /\ NothingSaved'
  BY <1>0, <1>a, <1>b DEF Carries, NothingSaved, NoUpdateLost, AtWork, Refreshed, NewManager
<1>6. MigratesLast' /\ Written'
  BY <1>0 DEF MigratesLast, Written, Wrote
<1>7. NoUpdateLost' BY DEF NoUpdateLost
<1> QED BY <1>1, <1>2, <1>3, <1>4, <1>5, <1>6, <1>7

\* An update only adds to the state in memory and to the working state.
LEMMA MutateStateKeeps == ASSUME NEW p \in Proc, RemoteInv, MutateState(p) PROVE RemoteInv'
<1> USE DEF RemoteInv, Kinds, MutateState
<1>0. \A q \in Proc : q # p => pc[q] = "idle" /\ mgr'[q] = mgr[q]
  BY Alone
<1>a. PICK u \in Update : u = updates + 1 BY BoundAssumption DEF Update
<1>b. /\ mgr'[p] = [mgr[p] EXCEPT !.st = (IF @ = None THEN {} ELSE @) \cup {u}]
      /\ real' = [real EXCEPT ![p] = real[p] \cup {u}]
      /\ updates' = u
  BY <1>a
<1>c. mgr[p] \in Manager /\ real[p] \in State OBVIOUS
<1>d. mgr'[p] \in Manager /\ real'[p] \in State /\ mgr'[p].st # None
  BY <1>b, <1>c, NoneAssumption DEF Manager, State, Update
<1>e. /\ mgr'[p].readSt = mgr[p].readSt /\ mgr'[p].lin = mgr[p].lin
      /\ mgr'[p].readLin = mgr[p].readLin /\ mgr'[p].ser = mgr[p].ser
      /\ mgr'[p].readSer = mgr[p].readSer
      /\ mgr[p].st # None => mgr'[p].st = mgr[p].st \cup {u}
  BY <1>b, <1>c DEF Manager
<1>1. Kinds' BY <1>b, <1>d DEF Update
<1>2. Exclusive' /\ Fresh' BY <1>0 DEF Exclusive, Fresh
<1>3. Descends' /\ PutsFirst'
  BY <1>0, <1>d, <1>e DEF Descends, PutsFirst, AtWork
<1>f. real'[p] = real[p] \cup {u} /\ saved' = saved /\ found' = found /\ pc' = pc
      /\ brought'[p] = None /\ brought[p] = None
  BY <1>b
<1>g. found[p] => mgr[p].readSt # None /\ mgr[p].st = real[p] /\ mgr[p].st # None
                  /\ saved \subseteq real[p] /\ mgr[p].readSt \subseteq mgr[p].st
  BY <1>d, NoneAssumption DEF Carries, AtWork, Descends, Current
<1>4. Current'
  <2>1. found[p] => \/ mgr[p].readLin = 0 \/ mgr[p].readSer = 0
                    \/ remote = Read(mgr[p]) /\ mgr[p].ser = mgr[p].readSer
                    \/ mgr[p].readSer < mgr[p].ser /\ mgr[p].readSt # mgr[p].st
    BY DEF Current, AtWork
  <2>2. Read(mgr'[p]) = Read(mgr[p]) BY <1>e DEF Read
  <2>3. found[p] /\ mgr[p].readSt # mgr[p].st => mgr'[p].readSt # mgr'[p].st
    BY <1>e, <1>g
  <2> QED BY <1>0, <1>e, <1>f, <1>g, <2>1, <2>2, <2>3 DEF Current, AtWork
<1>5. Carries' /\ NothingSaved'
  <2>1. found[p] => mgr'[p].readSt # None /\ mgr'[p].st = real'[p] /\ saved' \subseteq real'[p]
    BY <1>e, <1>f, <1>g
  <2>2. Carries' BY <1>0, <1>f, <2>1 DEF Carries, AtWork
  <2>3. NothingSaved' BY <1>0, <1>f DEF NothingSaved, AtWork
  <2> QED BY <2>2, <2>3
<1>6. MigratesLast' /\ Written' BY <1>0 DEF MigratesLast, Written, Wrote
<1>7. NoUpdateLost' BY DEF NoUpdateLost
<1> QED BY <1>1, <1>2, <1>3, <1>4, <1>5, <1>6, <1>7

\* A migration brings another state, and gives up what that does not have.
LEMMA MigrationKeeps ==
  ASSUME NEW p \in Proc, NEW f \in Migrated, RemoteInv, WriteStateForMigration(p, f)
  PROVE  RemoteInv'
<1> USE DEF RemoteInv, Kinds, WriteStateForMigration
<1>0. \A q \in Proc : q # p => pc[q] = "idle" /\ mgr'[q] = mgr[q] /\ brought'[q] = brought[q]
  BY Alone
<1>a. f \in Snapshot /\ f # None /\ f.st \in State /\ f.st # None /\ f.lin \in Nat /\ f.ser \in Nat
  BY RemoteAssumption, NoneAssumption DEF Snapshot
<1>b. /\ mgr'[p].st = f.st /\ mgr'[p].lin = f.lin /\ mgr'[p].ser = f.ser
      /\ mgr'[p].readSt = mgr[p].readSt /\ mgr'[p].readLin = mgr[p].readLin
      /\ mgr'[p].readSer = mgr[p].readSer
      /\ brought'[p] = f /\ real'[p] = f.st
  OBVIOUS
<1>c. mgr'[p] \in Manager
  <2>1. mgr[p] \in Manager OBVIOUS
  <2>2. mgr'[p] = [mgr[p] EXCEPT !.st = f.st, !.lin = f.lin, !.ser = f.ser] OBVIOUS
  <2> QED BY <2>1, <2>2, <1>a DEF Manager
<1>1. Kinds' BY <1>a, <1>b, <1>c DEF State
<1>2. Exclusive' /\ Fresh' BY <1>0 DEF Exclusive, Fresh
<1>3. Descends' /\ PutsFirst'
  BY ZenonT(60), <1>0, <1>a, <1>b DEF Descends, PutsFirst, AtWork
<1>4. Current' 
  BY <1>0, <1>a, <1>b DEF Current, AtWork, Read
<1>5. Carries' /\ NothingSaved'
  BY <1>0, <1>a, <1>b DEF Carries, NothingSaved, AtWork
<1>6. MigratesLast' /\ Written' BY <1>0 DEF MigratesLast, Written, Wrote
<1>7. NoUpdateLost' BY DEF NoUpdateLost
<1> QED BY <1>1, <1>2, <1>3, <1>4, <1>5, <1>6, <1>7

\* A call of PersistState, with the manager after WriteState.
Persisting(p, last, m) ==
  /\ pc[p] = "applying"
  /\ m = IF last THEN [mgr[p] EXCEPT !.st = real[p]] ELSE mgr[p]
  /\ brought[p] # None => last
  /\ ended' = [ended EXCEPT ![p] = last]
  /\ UNCHANGED <<remote, lock, real, brought, updates, runs, found>>

\* WriteState with the whole state tells a manager that has read a snapshot
\* nothing new.
LEMMA PersistingFacts ==
  ASSUME NEW p \in Proc, NEW last \in BOOLEAN, NEW m, RemoteInv, Persisting(p, last, m)
  PROVE  /\ m \in Manager
         /\ m.readSt = mgr[p].readSt /\ m.lin = mgr[p].lin /\ m.readLin = mgr[p].readLin
         /\ m.ser = mgr[p].ser /\ m.readSer = mgr[p].readSer
         /\ found[p] => m.st = mgr[p].st /\ m.st = real[p] /\ m.readSt # None
         /\ mgr[p].st # None => m.st # None
         /\ \A q \in Proc : q # p => pc[q] = "idle"
<1> USE DEF RemoteInv, Kinds, Persisting
<1>1. \A q \in Proc : q # p => pc[q] = "idle" BY Alone
<1>2. mgr[p] \in Manager /\ real[p] \in State /\ real[p] # None BY NoneAssumption
<1>3. /\ m \in Manager
      /\ m.readSt = mgr[p].readSt /\ m.lin = mgr[p].lin /\ m.readLin = mgr[p].readLin
      /\ m.ser = mgr[p].ser /\ m.readSer = mgr[p].readSer
      /\ m.st = (IF last THEN real[p] ELSE mgr[p].st)
  BY <1>2 DEF Manager
<1>4. found[p] => mgr[p].st = real[p] /\ mgr[p].readSt # None BY DEF Carries, AtWork
<1> QED BY <1>1, <1>2, <1>3, <1>4

\* Without a change PersistState returns nil, and what was read is there.
LEMMA UnchangedReturns ==
  ASSUME NEW p \in Proc, NEW last \in BOOLEAN, NEW m, RemoteInv, Persisting(p, last, m),
         m.readSt # None, Unchanged(m), mgr' = [mgr EXCEPT ![p] = m], Returned(p, "nil", last)
  PROVE  RemoteInv'
<1>0. /\ m \in Manager
      /\ m.readSt = mgr[p].readSt /\ m.lin = mgr[p].lin /\ m.readLin = mgr[p].readLin
      /\ m.ser = mgr[p].ser /\ m.readSer = mgr[p].readSer
      /\ found[p] => m.st = mgr[p].st /\ m.st = real[p] /\ m.readSt # None
      /\ mgr[p].st # None => m.st # None
      /\ \A q \in Proc : q # p => pc[q] = "idle"
  BY PersistingFacts
<1> USE DEF RemoteInv, Kinds, Persisting, Goto
<1>a. /\ mgr'[p] = m /\ \A q \in Proc : q # p => mgr'[q] = mgr[q] /\ pc'[q] = "idle"
      /\ pc'[p] = (IF last THEN "done" ELSE "applying")
      /\ result' = [result EXCEPT ![p] = "nil"]
  BY <1>0 DEF Returned
<1>b. found[p] => /\ remote = Read(mgr[p]) /\ remote # None
                  /\ remote.st = real[p] /\ remote.lin = m.lin
  <2>1. found[p] => remote = Read(mgr[p]) /\ remote # None
    BY <1>0 DEF Current, Descends, AtWork, Unchanged
  <2> QED BY <2>1, <1>0 DEF Read, Unchanged
<1>c. real[p] \in State /\ (found[p] => saved \subseteq real[p]) BY DEF Carries, AtWork
<1>d. /\ saved' = saved \/ (found[p] /\ saved' = real[p])
      /\ ~last => saved' = saved
  <2>1. ~last => saved' = saved BY DEF Returned
  <2>2. ~found[p] => saved' = saved BY DEF Returned
  <2>3. found[p] /\ last => saved' = real[p] \/ saved' = saved \cup real[p] BY DEF Returned
  <2>4. found[p] => saved \cup real[p] = real[p] BY <1>c
  <2> QED BY <2>1, <2>2, <2>3, <2>4
<1>1. Kinds' BY ZenonT(60), <1>0, <1>a, <1>c, <1>d DEF Returned
<1>2. Exclusive' /\ Fresh' BY <1>0, <1>a DEF Exclusive, Fresh
<1>3. Descends' /\ PutsFirst'
  BY <1>0, <1>a DEF Descends, PutsFirst, AtWork
<1>4. Current' 
  <2>1. Read(m) = Read(mgr[p]) BY <1>0 DEF Read
  <2> QED BY <1>0, <1>a, <2>1 DEF Current, AtWork
<1>5. Carries' /\ NothingSaved' BY <1>0, <1>a, <1>d DEF Carries, NothingSaved, AtWork
<1>6. MigratesLast' BY <1>a DEF MigratesLast
<1>7. Written'
  <2>1. found[p] /\ brought[p] # None => remote.lin = brought[p].lin /\ real[p] = brought[p].st
    BY <1>0, <1>b DEF Carries, AtWork
  <2> QED BY <1>a, <1>b, <2>1 DEF Written, Wrote
<1>8. NoUpdateLost' BY <1>b, <1>d DEF NoUpdateLost
<1> QED BY <1>1, <1>2, <1>3, <1>4, <1>5, <1>6, <1>7, <1>8

\* With a change it takes the next serial for what it will put.
LEMMA ChangedGoesToPut ==
  ASSUME NEW p \in Proc, NEW last \in BOOLEAN, NEW m, RemoteInv, Persisting(p, last, m),
         m.readSt # None, ~Unchanged(m), mgr' = [mgr EXCEPT ![p] = [m EXCEPT !.ser = @ + 1]],
         Goto(p, "put"), UNCHANGED <<result, saved>>
  PROVE  RemoteInv'
<1>0. /\ m \in Manager
      /\ m.readSt = mgr[p].readSt /\ m.lin = mgr[p].lin /\ m.readLin = mgr[p].readLin
      /\ m.ser = mgr[p].ser /\ m.readSer = mgr[p].readSer
      /\ found[p] => m.st = mgr[p].st /\ m.st = real[p] /\ m.readSt # None
      /\ mgr[p].st # None => m.st # None
      /\ \A q \in Proc : q # p => pc[q] = "idle"
  BY PersistingFacts
<1> USE DEF RemoteInv, Kinds, Persisting, Goto
<1>a. /\ \A q \in Proc : q # p => mgr'[q] = mgr[q] /\ pc'[q] = "idle"
      /\ pc'[p] = "put" /\ mgr'[p] = [m EXCEPT !.ser = m.ser + 1]
  BY <1>0
<1>b. /\ mgr'[p] \in Manager
      /\ mgr'[p].st = m.st /\ mgr'[p].readSt = m.readSt
      /\ mgr'[p].lin = m.lin /\ mgr'[p].readLin = m.readLin
      /\ mgr'[p].ser = m.ser + 1 /\ mgr'[p].readSer = m.readSer
      /\ m.ser \in Nat /\ m.readSer \in Nat
  BY SMTT(40), <1>0, <1>a DEF Manager
<1>1. Kinds' BY <1>0, <1>a, <1>b
<1>2. Exclusive' /\ Fresh' BY <1>0, <1>a DEF Exclusive, Fresh
<1>3. Descends'
  <2>1. remote # None => remote.ser \in Nat BY DEF Snapshot
  <2>2. /\ remote # None /\ mgr[p].st # None
        /\ brought[p] = None => /\ mgr[p].lin = mgr[p].readLin /\ remote.lin = mgr[p].lin
                                /\ remote.ser <= mgr[p].ser /\ mgr[p].readSer <= mgr[p].ser
    BY <1>0 DEF Descends, AtWork
  <2>3. /\ mgr'[p].st # None
        /\ brought[p] = None => /\ mgr'[p].lin = mgr'[p].readLin /\ remote.lin = mgr'[p].lin
                                /\ remote.ser < mgr'[p].ser /\ mgr'[p].readSer <= mgr'[p].ser
                                /\ remote.ser <= mgr'[p].ser
    BY <1>0, <1>b, <2>1, <2>2
  <2> QED BY <1>a, <2>2, <2>3 DEF Descends, AtWork
<1>4. PutsFirst' BY <1>a, <1>b DEF PutsFirst, AtWork
<1>5. Current'
  <2> SUFFICES ASSUME found[p]
               PROVE  /\ brought[p] = None => mgr'[p].readSt \subseteq mgr'[p].st
                      /\ \/ mgr'[p].readLin = 0 \/ mgr'[p].readSer = 0
                         \/ /\ brought[p] = None /\ mgr'[p].readSer < mgr'[p].ser
                            /\ mgr'[p].readSt # mgr'[p].st
                         \/ brought[p] # None
    BY <1>a DEF Current, AtWork
  <2>1. /\ brought[p] = None => mgr[p].readSt \subseteq mgr[p].st
        /\ \/ mgr[p].readLin = 0 \/ mgr[p].readSer = 0
           \/ brought[p] = None => mgr[p].ser = mgr[p].readSer
           \/ brought[p] = None /\ mgr[p].readSer < mgr[p].ser /\ mgr[p].readSt # mgr[p].st
    BY DEF Current, AtWork
  <2>2. brought[p] = None => mgr[p].lin = mgr[p].readLin
    BY <1>0 DEF Descends, AtWork
  <2> QED BY <1>0, <1>b, <2>1, <2>2 DEF Unchanged
<1>6. Carries' /\ NothingSaved' BY <1>0, <1>a, <1>b DEF Carries, NothingSaved, AtWork
<1>7. MigratesLast' /\ Written' BY <1>a DEF MigratesLast, Written, Wrote
<1>8. NoUpdateLost' BY DEF NoUpdateLost
<1> QED BY <1>1, <1>2, <1>3, <1>4, <1>5, <1>6, <1>7, <1>8

\* The first snapshot of a manager without a lineage gets one that is not empty.
LEMMA NewLineage ==
  ASSUME runs \in Nat, NEW m \in Manager, m.lin = 0
  PROVE  /\ FirstSnapshot(m) \in Manager
         /\ FirstSnapshot(m).readSt = m.readSt /\ FirstSnapshot(m).lin # 0
<1>1. FirstSnapshot(m) = [m EXCEPT !.lin = 100 + runs, !.ser = m.ser + 1] BY DEF FirstSnapshot
<1>2. 100 + runs \in Nat /\ 100 + runs # 0 /\ m.ser + 1 \in Nat BY DEF Manager
<1> QED BY ZenonT(60), <1>1, <1>2 DEF Manager

\* A manager without a snapshot refreshes, and starts a new lineage if there
\* is still none.
LEMMA FirstGoesToPut ==
  ASSUME NEW p \in Proc, NEW last \in BOOLEAN, NEW m, RemoteInv, Persisting(p, last, m),
         m.readSt = None, mgr' = [mgr EXCEPT ![p] = FirstSnapshot(Refreshed(m))],
         Goto(p, "put"), UNCHANGED <<result, saved>>
  PROVE  RemoteInv'
<1>0. /\ m \in Manager /\ m.readSt = mgr[p].readSt /\ ~found[p]
      /\ \A q \in Proc : q # p => pc[q] = "idle"
  BY PersistingFacts
<1> USE DEF RemoteInv, Kinds, Persisting, Goto
<1>a. /\ \A q \in Proc : q # p => mgr'[q] = mgr[q] /\ pc'[q] = "idle"
      /\ pc'[p] = "put" /\ mgr'[p] = FirstSnapshot(Refreshed(m))
  BY <1>0
<1>b. ASSUME remote = None
      PROVE  mgr'[p] \in Manager /\ mgr'[p].readSt = None /\ mgr'[p].lin # 0
  <2>1. Refreshed(m) \in Manager /\ Refreshed(m).readSt = None /\ Refreshed(m).lin = 0
    BY ZenonT(60), <1>0, <1>b DEF Refreshed, Manager
  <2> QED BY <1>a, <2>1, NewLineage
<1>c. ASSUME remote # None
      PROVE  /\ mgr'[p] \in Manager
             /\ mgr'[p].readSt = remote.st /\ mgr'[p].st = remote.st /\ remote.st # None
             /\ mgr'[p].lin = remote.lin /\ mgr'[p].readLin = remote.lin
             /\ mgr'[p].ser = remote.ser /\ mgr'[p].readSer = remote.ser
             /\ remote.ser \in Nat
             /\ remote = [lin |-> remote.lin, ser |-> remote.ser, st |-> remote.st]
  <2>1. /\ remote.lin \in Nat /\ remote.ser \in Nat /\ remote.st \in State /\ remote.st # None
        /\ remote = [lin |-> remote.lin, ser |-> remote.ser, st |-> remote.st]
    BY <1>c, NoneAssumption DEF Snapshot
  <2>2. remote.lin # 0 BY <1>c, <1>0 DEF PutsFirst, AtWork
  <2>3. mgr'[p] = [st |-> remote.st, readSt |-> remote.st, lin |-> remote.lin,
                   readLin |-> remote.lin, ser |-> remote.ser, readSer |-> remote.ser]
    BY <1>a, <1>c, <2>2 DEF Refreshed, FirstSnapshot
  <2> QED BY <2>1, <2>3 DEF Manager
<1>1. Kinds' BY <1>0, <1>a, <1>b, <1>c
<1>2. Exclusive' /\ Fresh' BY <1>0, <1>a DEF Exclusive, Fresh
<1>3. Descends'
  <2>1. remote # None => remote = ToWrite(mgr'[p]) BY <1>c DEF ToWrite
  <2> QED BY <1>a, <1>b, <1>c, <2>1 DEF Descends, AtWork, ToWrite
<1>4. PutsFirst' BY <1>a, <1>b, <1>c DEF PutsFirst, AtWork
<1>5. Current' /\ Carries' BY <1>0, <1>a DEF Current, Carries, AtWork
<1>6. NothingSaved' BY <1>0, <1>a DEF NothingSaved, AtWork
<1>7. MigratesLast' /\ Written' BY <1>a DEF MigratesLast, Written, Wrote
<1>8. NoUpdateLost' BY DEF NoUpdateLost
<1> QED BY <1>1, <1>2, <1>3, <1>4, <1>5, <1>6, <1>7, <1>8

\* When that refresh fails PersistState returns the error.
LEMMA ErrorReturns ==
  ASSUME NEW p \in Proc, NEW last \in BOOLEAN, NEW m, RemoteInv, Persisting(p, last, m),
         m.readSt = None, mgr' = [mgr EXCEPT ![p] = m], Returned(p, "error", last)
  PROVE  RemoteInv'
<1>0. /\ m \in Manager /\ m.readSt = mgr[p].readSt /\ ~found[p]
      /\ \A q \in Proc : q # p => pc[q] = "idle"
  BY PersistingFacts
<1> USE DEF RemoteInv, Kinds, Persisting, Goto
<1>a. /\ \A q \in Proc : q # p => mgr'[q] = mgr[q] /\ pc'[q] = "idle"
      /\ pc'[p] \in {"done", "applying"} /\ mgr'[p] = m
      /\ result' = [result EXCEPT ![p] = "error"]
  BY <1>0 DEF Returned
<1>b. saved' = saved BY <1>0 DEF Returned
<1>1. Kinds' BY <1>0, <1>a, <1>b DEF Returned
<1>2. Exclusive' /\ Fresh' BY <1>0, <1>a DEF Exclusive, Fresh
<1>3. Descends' /\ PutsFirst' BY <1>0, <1>a DEF Descends, PutsFirst, AtWork
<1>4. Current' /\ Carries' BY <1>0, <1>a DEF Current, Carries, AtWork
<1>5. NothingSaved' BY <1>0, <1>a, <1>b DEF NothingSaved, AtWork
<1>6. MigratesLast' /\ Written' BY <1>0, <1>a DEF MigratesLast, Written, Wrote
<1>7. NoUpdateLost' BY <1>b DEF NoUpdateLost
<1> QED BY <1>1, <1>2, <1>3, <1>4, <1>5, <1>6, <1>7

\* PersistState, up to the call of Put.
LEMMA PersistStateKeeps == ASSUME NEW p \in Proc, RemoteInv, PersistState(p) PROVE RemoteInv'
<1> PICK last \in BOOLEAN : \E m \in {IF last THEN [mgr[p] EXCEPT !.st = real[p]] ELSE mgr[p]} :
      /\ Persisting(p, last, m)
      /\ \/ /\ m.readSt # None /\ Unchanged(m)
            /\ mgr' = [mgr EXCEPT ![p] = m] /\ Returned(p, "nil", last)
         \/ /\ m.readSt # None /\ ~Unchanged(m)
            /\ mgr' = [mgr EXCEPT ![p] = [m EXCEPT !.ser = @ + 1]]
            /\ Goto(p, "put") /\ UNCHANGED <<result, saved>>
         \/ /\ m.readSt = None
            /\ mgr' = [mgr EXCEPT ![p] = FirstSnapshot(Refreshed(m))]
            /\ Goto(p, "put") /\ UNCHANGED <<result, saved>>
         \/ /\ m.readSt = None
            /\ mgr' = [mgr EXCEPT ![p] = m] /\ Returned(p, "error", last)
  BY DEF PersistState, Persisting
<1> QED BY UnchangedReturns, ChangedGoesToPut, FirstGoesToPut, ErrorReturns

\* Put, done or not, writes over what the command has seen, and the state it
\* writes has all that was saved.
LEMMA PutWrites ==
  ASSUME NEW p \in Proc, RemoteInv, pc[p] = "put"
  PROVE  /\ ToWrite(mgr[p]) \in Snapshot /\ ToWrite(mgr[p]) # None
         /\ saved \subseteq ToWrite(mgr[p]).st
         /\ mgr[p].st # None => ToWrite(mgr[p]).st = mgr[p].st
         /\ found[p] => ToWrite(mgr[p]).st = real[p] /\ saved \subseteq real[p]
         /\ ~found[p] => saved = {}
         /\ ToWrite(mgr[p]).lin = mgr[p].lin /\ ToWrite(mgr[p]).ser = mgr[p].ser
<1> USE DEF RemoteInv, Kinds
<1>1. mgr[p] \in Manager OBVIOUS
<1>2. ToWrite(mgr[p]) \in Snapshot BY <1>1 DEF Manager, ToWrite, Snapshot, State
<1>3. /\ found[p] => mgr[p].st = real[p] /\ saved \subseteq real[p] /\ real[p] \in State
      /\ ~found[p] => saved = {}
  BY DEF Carries, NothingSaved, AtWork
<1> QED BY <1>2, <1>3, NoneAssumption DEF ToWrite

\* After a Put that succeeded the manager has read what it put.
LEMMA PutSucceedsKeeps ==
  ASSUME NEW p \in Proc, RemoteInv, pc[p] = "put", remote' = ToWrite(mgr[p]),
         mgr' = [mgr EXCEPT ![p].readSt = mgr[p].st, ![p].readLin = mgr[p].lin,
                            ![p].readSer = mgr[p].ser],
         Returned(p, "nil", ended[p]),
         UNCHANGED <<lock, real, brought, ended, updates, runs, found>>
  PROVE  RemoteInv'
<1>0. /\ \A q \in Proc : q # p => pc[q] = "idle" /\ pc'[q] = "idle" /\ mgr'[q] = mgr[q]
      /\ pc'[p] = (IF ended[p] THEN "done" ELSE "applying")
      /\ result' = [result EXCEPT ![p] = "nil"]
  BY Alone DEF RemoteInv, Kinds, Returned, Goto
<1>w. /\ ToWrite(mgr[p]) \in Snapshot /\ ToWrite(mgr[p]) # None
      /\ saved \subseteq ToWrite(mgr[p]).st
      /\ mgr[p].st # None => ToWrite(mgr[p]).st = mgr[p].st
      /\ found[p] => ToWrite(mgr[p]).st = real[p] /\ saved \subseteq real[p]
      /\ ~found[p] => saved = {}
      /\ ToWrite(mgr[p]).lin = mgr[p].lin /\ ToWrite(mgr[p]).ser = mgr[p].ser
  BY PutWrites
<1> USE DEF RemoteInv, Kinds, Goto
<1>a. /\ mgr[p] \in Manager
      /\ mgr'[p] = [mgr[p] EXCEPT !.readSt = mgr[p].st, !.readLin = mgr[p].lin,
                                  !.readSer = mgr[p].ser]
  OBVIOUS
<1>b. /\ mgr'[p] \in Manager
      /\ mgr'[p].st = mgr[p].st /\ mgr'[p].readSt = mgr[p].st
      /\ mgr'[p].lin = mgr[p].lin /\ mgr'[p].readLin = mgr[p].lin
      /\ mgr'[p].ser = mgr[p].ser /\ mgr'[p].readSer = mgr[p].ser
      /\ mgr[p].ser \in Nat
  BY <1>a DEF Manager
<1>c. found[p] => mgr[p].st = real[p] /\ mgr[p].st # None /\ mgr[p].readSt # None
  BY NoneAssumption DEF Carries, AtWork
<1>d. real[p] \in State /\ saved' \in {saved, real[p]} /\ (~found[p] => saved' = saved)
  <2>1. found[p] => saved \cup real[p] = real[p] BY <1>w
  <2> QED BY <2>1 DEF Returned
<1>1. Kinds' BY ZenonT(60), <1>0, <1>b, <1>d, <1>w DEF Returned
<1>2. Exclusive' /\ Fresh' BY <1>0 DEF Exclusive, Fresh
<1>3. Descends'
  <2>1. mgr[p].st # None /\ brought[p] = None => remote'.lin = mgr[p].lin BY <1>w
  <2> QED BY <1>0, <1>b, <1>w, <2>1 DEF Descends, AtWork
<1>4. PutsFirst'
  <2>1. mgr[p].st = None => mgr[p].readSt = None BY DEF Descends, AtWork
  <2>2. mgr[p].st = None => mgr[p].lin # 0 BY <2>1 DEF PutsFirst, AtWork
  <2> QED BY <1>0, <1>b, <1>w, <2>2 DEF PutsFirst, AtWork
<1>5. Current'
  <2>1. found[p] => remote' = Read(mgr'[p]) BY <1>b, <1>c, <1>w DEF Read, ToWrite
  <2>2. Read(mgr'[p]) = Read(mgr[p])' BY DEF Read
  <2> QED BY SMTT(60), <1>0, <1>b, <1>c, <2>1, <2>2 DEF Current, AtWork
<1>6. Carries'
  <2>1. found[p] => /\ saved' \subseteq real[p]
                    /\ brought[p] # None => mgr[p].lin = brought[p].lin /\ real[p] = brought[p].st
    BY <1>d, <1>w DEF Carries, AtWork
  <2> QED BY <1>0, <1>b, <1>c, <2>1 DEF Carries, AtWork
<1>7. NothingSaved' BY <1>0, <1>d, <1>w DEF NothingSaved, AtWork
<1>8. MigratesLast' BY <1>0 DEF MigratesLast
<1>9. Written'
  <2>1. found[p] /\ brought[p] # None => mgr[p].lin = brought[p].lin /\ real[p] = brought[p].st
    BY DEF Carries, AtWork
  <2> QED BY <1>0, <1>w, <2>1 DEF Written, Wrote
<1>10. NoUpdateLost' BY <1>d, <1>w DEF NoUpdateLost
<1> QED BY <1>1, <1>2, <1>3, <1>4, <1>5, <1>6, <1>7, <1>8, <1>9, <1>10

\* After one that failed, carried out or not, the next will be a change still.
LEMMA PutFailsKeeps ==
  ASSUME NEW p \in Proc, RemoteInv, pc[p] = "put", remote' \in {remote, ToWrite(mgr[p])},
         Returned(p, "error", ended[p]),
         UNCHANGED <<mgr, lock, real, brought, ended, updates, runs, found>>
  PROVE  RemoteInv'
<1>0. /\ \A q \in Proc : q # p => pc[q] = "idle" /\ pc'[q] = "idle"
      /\ pc'[p] = (IF ended[p] THEN "done" ELSE "applying")
      /\ result' = [result EXCEPT ![p] = "error"]
      /\ saved' = saved
  BY Alone DEF RemoteInv, Kinds, Returned, Goto
<1>w. /\ ToWrite(mgr[p]) \in Snapshot /\ ToWrite(mgr[p]) # None
      /\ saved \subseteq ToWrite(mgr[p]).st
      /\ ToWrite(mgr[p]).lin = mgr[p].lin /\ ToWrite(mgr[p]).ser = mgr[p].ser
  BY PutWrites
<1> USE DEF RemoteInv, Kinds, Goto
<1>a. mgr[p].ser \in Nat BY DEF Manager
<1>b. ended[p] \/ brought[p] = None BY DEF MigratesLast
<1>1. Kinds' BY <1>0, <1>w DEF Returned
<1>2. Exclusive' /\ Fresh' BY <1>0 DEF Exclusive, Fresh
<1>3. Descends'
  <2> SUFFICES ASSUME mgr[p].readSt # None, brought[p] = None
               PROVE  /\ remote' # None /\ mgr[p].st # None /\ mgr[p].lin = mgr[p].readLin
                      /\ remote'.lin = mgr[p].lin /\ remote'.ser <= mgr[p].ser
                      /\ mgr[p].readSer <= mgr[p].ser
    BY <1>0, <1>b DEF Descends, AtWork
  <2>1. /\ remote # None /\ mgr[p].st # None /\ mgr[p].lin = mgr[p].readLin
        /\ remote.lin = mgr[p].lin /\ remote.ser <= mgr[p].ser /\ mgr[p].readSer <= mgr[p].ser
    BY DEF Descends, AtWork
  <2> QED BY <1>a, <1>w, <2>1
<1>4. PutsFirst' BY <1>0, <1>w DEF PutsFirst, AtWork
<1>5. Current' BY <1>0, <1>b DEF Current, AtWork
<1>6. Carries' /\ NothingSaved' BY <1>0 DEF Carries, NothingSaved, AtWork
<1>7. MigratesLast' /\ Written' BY <1>0 DEF MigratesLast, Written, Wrote
<1>8. NoUpdateLost' BY <1>0, <1>w DEF NoUpdateLost
<1> QED BY <1>1, <1>2, <1>3, <1>4, <1>5, <1>6, <1>7, <1>8

\* Client.Put, whatever becomes of it.
LEMMA PutKeeps == ASSUME NEW p \in Proc, RemoteInv, Put(p) PROVE RemoteInv'
BY PutSucceedsKeeps, PutFailsKeeps DEF Put

\* The end of a process leaves the remote object, or what its Put made of it.
LEMMA GoneKeeps ==
  ASSUME NEW p \in Proc, RemoteInv, pc[p] # "idle", Gone(p), lock' \in {lock, None},
         \/ remote' = remote
         \/ pc[p] = "put" /\ remote' = ToWrite(mgr[p])
  PROVE  RemoteInv'
<1>0. /\ \A q \in Proc : pc'[q] = "idle"
      /\ \A q \in Proc : q # p => pc[q] = "idle" /\ mgr'[q] = mgr[q]
                                  /\ brought'[q] = brought[q] /\ found'[q] = found[q]
      /\ mgr'[p] = NewManager /\ brought'[p] = None /\ ~found'[p] /\ saved' = saved
  BY Alone DEF RemoteInv, Kinds, Gone, Goto
<1>w. pc[p] = "put" => /\ ToWrite(mgr[p]) \in Snapshot /\ ToWrite(mgr[p]) # None
                       /\ saved \subseteq ToWrite(mgr[p]).st
  BY PutWrites
<1> USE DEF RemoteInv, Kinds
<1>1. Kinds'
  <2>1. NewManager \in Manager BY DEF NewManager, Manager
  <2> QED BY <1>w, <2>1 DEF Gone, Goto, State
<1>2. Exclusive' /\ Fresh' BY <1>0 DEF Exclusive, Fresh
<1>3. Descends' /\ PutsFirst' /\ Current' /\ Carries'
  BY <1>0 DEF Descends, PutsFirst, Current, Carries, AtWork
<1>4. NothingSaved' /\ MigratesLast' /\ Written'
  BY <1>0 DEF NothingSaved, MigratesLast, Written, Wrote, AtWork
<1>5. NoUpdateLost' BY <1>0, <1>w DEF NoUpdateLost
<1> QED BY <1>1, <1>2, <1>3, <1>4, <1>5

\* A lock is removed only when its process is gone.
LEMMA ForceUnlockKeeps == ASSUME NEW p \in Proc, RemoteInv, ForceUnlock(p) PROVE RemoteInv'
<1> USE DEF RemoteInv, Kinds, ForceUnlock
<1>0. \A q \in Proc : pc[q] = "idle" BY DEF Exclusive
<1>1. Kinds' OBVIOUS
<1>2. Exclusive' /\ Fresh' BY <1>0 DEF Exclusive, Fresh
<1>3. Descends' /\ PutsFirst' /\ Current' /\ Carries'
  BY <1>0 DEF Descends, PutsFirst, Current, Carries, AtWork
<1>4. NothingSaved' /\ MigratesLast' /\ Written'
  BY <1>0 DEF NothingSaved, MigratesLast, Written, Wrote, AtWork
<1>5. NoUpdateLost' BY DEF NoUpdateLost
<1> QED BY <1>1, <1>2, <1>3, <1>4, <1>5

\* No step, of any process, breaks the invariant.
LEMMA RemoteStep == RemoteInv /\ [Next]_vars => RemoteInv'
<1> SUFFICES ASSUME RemoteInv, [Next]_vars PROVE RemoteInv' OBVIOUS
<1>1. CASE UNCHANGED vars
  BY <1>1 DEF RemoteInv, vars, Kinds, Exclusive, Fresh, Descends, PutsFirst, Current, Carries,
              NothingSaved, MigratesLast, Written, Wrote, NoUpdateLost, Read, ToWrite
<1>2. ASSUME NEW p \in Proc,
             \/ Lock(p) \/ RefreshState(p) \/ MutateState(p) \/ PersistState(p) \/ Put(p)
             \/ ForceUnlock(p)
      PROVE  RemoteInv'
  BY <1>2, LockKeeps, RefreshStateKeeps, MutateStateKeeps, PersistStateKeeps, PutKeeps,
     ForceUnlockKeeps
<1>3. ASSUME NEW p \in Proc, Unlock(p) PROVE RemoteInv'
  BY <1>3, GoneKeeps DEF Unlock
<1>4. ASSUME NEW p \in Proc, Crash(p) PROVE RemoteInv'
  BY <1>4, GoneKeeps DEF Crash
<1>5. ASSUME NEW p \in Proc, NEW f \in Migrated, WriteStateForMigration(p, f) PROVE RemoteInv'
  BY <1>5, MigrationKeeps
<1> QED BY <1>1, <1>2, <1>3, <1>4, <1>5 DEF Next

\* The inductive invariant of the remote state manager.
THEOREM RemoteInvariant == Spec => []RemoteInv
BY RemoteInit, RemoteStep, PTL DEF Spec

\* An update that a command reported as persisted stays in the remote object,
\* whatever fails later and whoever dies (persistent.go:78-82).
THEOREM SavedStaysSaved == Spec => []NoUpdateLost
<1>1. RemoteInv => NoUpdateLost BY DEF RemoteInv
<1> QED BY <1>1, RemoteInvariant, PTL

\* A command that found a remote snapshot, and whose last PersistState
\* returned nil, has written the state it worked out (persistent.go:74-76).
THEOREM ReportedIsWritten == Spec => []PersistedOverSnapshot
<1>1. RemoteInv => PersistedOverSnapshot BY DEF RemoteInv, Written, PersistedOverSnapshot
<1> QED BY <1>1, RemoteInvariant, PTL

\* The remote object keeps its lineage and its serial grows with each change,
\* unless a migration brings other ones, which are then kept unchanged
\* (state.go:35-43, migrate.go:14-16).
THEOREM RemoteHistory == Spec => HistoryKept
<1>1. RemoteInv /\ [Next]_vars
        => [ remote # None /\ remote' # None /\ remote' # remote
               => \/ remote'.lin = remote.lin /\ remote'.ser > remote.ser
                  \/ \E p \in Proc : pc[p] = "put" /\ brought[p] # None ]_vars
  <2> SUFFICES ASSUME RemoteInv, [Next]_vars, remote # None, remote' # None, remote' # remote
               PROVE  \/ remote'.lin = remote.lin /\ remote'.ser > remote.ser
                      \/ \E p \in Proc : pc[p] = "put" /\ brought[p] # None
    OBVIOUS
  <2>1. PICK p \in Proc : Put(p) \/ Crash(p)
    BY ZenonT(60) DEF Next, vars, Lock, RefreshState, MutateState, PersistState, Unlock, ForceUnlock,
           WriteStateForMigration
  <2>2. pc[p] = "put" /\ remote' = ToWrite(mgr[p]) BY <2>1 DEF Put, Crash
  <2>3. brought[p] = None => remote.lin = mgr[p].lin /\ remote.ser < mgr[p].ser
    BY <2>2 DEF RemoteInv, Descends, PutsFirst, AtWork
  <2>4. ToWrite(mgr[p]).lin = mgr[p].lin /\ ToWrite(mgr[p]).ser = mgr[p].ser BY DEF ToWrite
  <2>5. mgr[p].ser \in Nat /\ remote.ser \in Nat BY DEF RemoteInv, Kinds, Manager, Snapshot
  <2> QED BY <2>2, <2>3, <2>4, <2>5
<1>2. RemoteInv => (\A p \in Proc : Wrote(p) /\ found[p] /\ brought[p] # None
                      => remote.lin = brought[p].lin /\ remote.st = brought[p].st)
  BY DEF RemoteInv, Written
<1> QED BY <1>1, <1>2, RemoteInvariant, PTL DEF Spec, HistoryKept
==============================================================================
