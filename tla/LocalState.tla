----------------------------- MODULE LocalState -----------------------------
(* The local state manager, statemgr.Filesystem, and those who drive it in  *)
(* one process: the apply operation of the local backend, its StateHook,    *)
(* the interrupt handling of opWait and Context.Stop, and "state push".     *)
(* Commands follow each other; a process may be killed at any point, also   *)
(* between truncating the state file and writing it, and a call to the      *)
(* operating system may fail.                                               *)
(*                                                                          *)
(* A state is the set of resources tracked in it; a snapshot adds lineage   *)
(* and serial. The manager's mutex makes each of its methods one step, the  *)
(* hook's mutex each hook call. StateFileLock has the lock and the other    *)
(* processes.                                                               *)
EXTENDS Integers, FiniteSets

CONSTANTS
  Res,          \* resources
  Nil,          \* no file, or an empty one
  Torn,         \* a file that does not parse
  InitialDisk,  \* the snapshots the state file may hold initially
  Pushes,       \* the snapshots a "state push" may bring
  Interrupts,   \* whether the user interrupts commands
  MaxRuns,      \* bound: commands
  MaxChanges,   \* bound: changes of resources in one apply
  MaxFaults     \* bound: system calls that fail, and kills, in one command

(* Lineage 0 is the empty one of a legacy state. *)
Snapshot == [lin : Nat, ser : Nat, st : SUBSET Res]

ASSUME NilAssumption ==
  /\ Nil \notin Snapshot /\ Torn \notin Snapshot /\ Torn # Nil
  /\ \A S \in SUBSET Res : S # Nil
ASSUME DiskAssumption == InitialDisk \subseteq Snapshot \cup {Nil} /\ Pushes \subseteq Snapshot
ASSUME InterruptsAssumption == Interrupts \in BOOLEAN
ASSUME BoundAssumption == MaxRuns \in Nat /\ MaxChanges \in Nat /\ MaxFaults \in Nat

VARIABLES
  disk,      \* the state file
  backup,    \* the backup file
  rescue,    \* the state in errored.tfstate or dumped on the terminal, or Nil
  mgr,       \* the Filesystem object
  phase,     \* how far the command is
  lock,      \* the state lock: "held", "released", or "off" with -lock=false
  real,      \* the working state of the apply
  unreported,\* resources changed and not yet reported to the hook
  hook,      \* the StateHook: ticking once LastPersist is set, force as ForcePersist
  stop,      \* the interrupt: "no", "stopping" until the hook was told, "stopped"
  result,    \* what the last PersistState returned
  runs, changes, faults,   \* bounded counters, the last two of one command
  original,  \* history: the snapshot in the file when the command started
  reported,  \* history: the state as the hook was told of it
  flushed    \* history: PersistState returned nil since the last report

files == <<disk, backup>>
core  == <<real, unreported, hook, stop>>
hist  == <<original, reported, flushed>>
vars  == <<disk, backup, rescue, mgr, phase, lock, real, unreported, hook, stop,
           result, runs, changes, faults, original, reported, flushed>>

NewManager == [out |-> FALSE, file |-> Nil, readFile |-> Nil, backupFile |-> Nil,
               writtenBackup |-> FALSE]

(* statemgr.NewStateFile: a lineage of its own, serial 0, an empty state.   *)
(* At most one lineage made up in a run is ever written.                    *)
NewStateFile == [lin |-> 100 + runs, ser |-> 0, st |-> {}]

StateOf(f) == IF f = Nil THEN {} ELSE f.st

(* The command's own part of the state, before and after it. *)
Idle ==
  /\ mgr' = NewManager
  /\ phase' = "idle"
  /\ lock' = "off"
  /\ real' = {}
  /\ unreported' = {}
  /\ hook' = [ticking |-> FALSE, force |-> FALSE]
  /\ stop' = "no"
  /\ result' = "nil"
  /\ changes' = 0
  /\ original' = Nil
  /\ reported' = {}
  /\ flushed' = FALSE

Init ==
  /\ disk \in InitialDisk
  /\ backup = Nil
  /\ rescue = Nil
  /\ mgr = NewManager
  /\ phase = "idle"
  /\ lock = "off"
  /\ real = {}
  /\ unreported = {}
  /\ hook = [ticking |-> FALSE, force |-> FALSE]
  /\ stop = "no"
  /\ result = "nil"
  /\ runs = 0 /\ changes = 0 /\ faults = 0
  /\ original = Nil
  /\ reported = {}
  /\ flushed = FALSE

------------------------------------------------------------------------------
(* The manager's methods, as operators on the manager m.                     *)

(* Where refreshState fails: the file does not parse. *)
Unreadable(m) == m.readFile = Nil /\ disk = Torn

(* Mutated: only the copy to compare with is set. *)
Refreshed_OnlyRead(m) == [m EXCEPT !.readFile = disk]

Refreshed(m) == [m EXCEPT !.file = disk, !.readFile = disk]

(* Mutated: the file is always read again. *)
Loaded_Always(m) == IF disk = Torn THEN m ELSE Refreshed(m)

(* WriteState, MutateState and WriteStateForMigration refresh first if      *)
(* nothing has been read yet; what is in memory is replaced.                *)
Loaded(m) == IF m.readFile = Nil THEN Refreshed(m) ELSE m

FileOf(m) == IF m.file = Nil THEN NewStateFile ELSE m.file

WithState(m, st) == [m EXCEPT !.file = [FileOf(m) EXCEPT !.st = st]]

WriteState(m, st) == WithState(Loaded(m), st)

(* MutateState with the function of updateStateHook: the resource gets the  *)
(* status it has in the working state.                                      *)
MutateState(m, r) ==
  LET st == StateOf(Loaded(m).file)
  IN  WithState(Loaded(m), IF r \in real THEN st \cup {r} ELSE st \ {r})

(* The file is opened by Lock, or by the first persistState without a lock; *)
(* what it holds then is what a backup will get.                            *)
Opened(m) == IF m.out THEN m ELSE [m EXCEPT !.out = TRUE, !.backupFile = disk]

(* Mutated: the backup is made of the state in memory. *)
BackedUp_File(m) == [m EXCEPT !.backupFile = m.file, !.writtenBackup = TRUE]

BackedUp(m) == [m EXCEPT !.writtenBackup = TRUE]

NeedsBackup(m) ==
  ~m.writtenBackup /\ m.backupFile # Nil /\ FileOf(m).st # m.backupFile.st

NextSerial(m) ==
  IF m.readFile = Nil \/ FileOf(m).st # m.readFile.st
  THEN FileOf(m).ser + 1 ELSE FileOf(m).ser

Numbered(m) == [m EXCEPT !.file = [FileOf(m) EXCEPT !.ser = NextSerial(m)]]

Fail == faults < MaxFaults /\ faults' = faults + 1

(* PersistState on manager m. Opening the file may fail, or the file may    *)
(* not parse when its content is read for the backup: both are swallowed.   *)
PersistSwallowed(m) ==
  /\ ~m.out
  /\ \/ Fail /\ mgr' = m
     \/ disk = Torn /\ mgr' = [m EXCEPT !.out = TRUE] /\ UNCHANGED faults
  /\ result' = "nil"
  /\ UNCHANGED <<disk, backup>>

(* The backup is written first: its file is not created, or written in part.*)
PersistBackupFails(m) ==
  /\ m.out \/ disk # Torn
  /\ NeedsBackup(Opened(m))
  /\ Fail
  /\ backup' \in {backup, Torn}
  /\ mgr' = WithState(Opened(m), FileOf(m).st)
  /\ result' = "error"
  /\ UNCHANGED disk

(* Then the file is truncated and written: it is not truncated, or left     *)
(* empty or written in part.                                                *)
PersistWrites(m) ==
  LET o == Opened(m)
      b == IF NeedsBackup(o) THEN BackedUp(o) ELSE o
  IN /\ m.out \/ disk # Torn
     /\ backup' = IF NeedsBackup(o) THEN b.backupFile ELSE backup
     /\ \/ /\ mgr' = Numbered(b)
           /\ \/ disk' = mgr'.file /\ result' = "nil" /\ UNCHANGED faults
              \/ disk' \in {Nil, Torn} /\ result' = "error" /\ Fail
        \/ mgr' = WithState(b, FileOf(m).st) /\ result' = "error" /\ Fail /\ UNCHANGED disk

PersistState(m) == PersistSwallowed(m) \/ PersistBackupFails(m) \/ PersistWrites(m)

------------------------------------------------------------------------------
(* A command: lock, read the state, then apply or push.                     *)

(* Lock reads the file for the backup: if it does not parse, Lock fails.    *)
Start ==
  /\ phase = "idle"
  /\ runs < MaxRuns
  /\ runs' = runs + 1
  /\ original' = disk
  /\ rescue' = Nil
  /\ faults' = 0
  /\ \/ /\ disk # Torn
        /\ lock' = "held" /\ mgr' = Opened(NewManager) /\ phase' = "locked"
     \/ lock' = "off" /\ mgr' = NewManager /\ phase' = "locked"
  /\ UNCHANGED <<files, core, result, changes, reported, flushed>>

RefreshState ==
  /\ phase = "locked"
  /\ IF disk = Torn
     THEN phase' = "failed" /\ UNCHANGED <<mgr, real, reported, flushed>>
     ELSE /\ mgr' = Refreshed(mgr)
          /\ phase' \in {"applying"} \cup (IF Pushes = {} THEN {} ELSE {"pushing"})
          /\ real' = StateOf(disk)
          /\ reported' = StateOf(disk)
          /\ flushed' = (disk # Nil)
  /\ UNCHANGED <<files, rescue, lock, unreported, hook, stop, result, runs, changes,
                 faults, original>>

(* The apply goes on in goroutines of its own, even when the operation was  *)
(* cancelled and its main goroutine has given up the lock.                  *)
Applying == phase \in {"applying", "orphaned"}

(* A resource is created or deleted. *)
Change(r) ==
  /\ Applying
  /\ changes < MaxChanges
  /\ r \notin unreported
  /\ real' = IF r \in real THEN real \ {r} ELSE real \cup {r}
  /\ unreported' = unreported \cup {r}
  /\ changes' = changes + 1
  /\ UNCHANGED <<files, rescue, mgr, phase, lock, hook, stop, result, runs, faults, hist>>

(* StateHook.PostStateUpdate: the manager's state is changed, and persisted *)
(* if the interval is over (the first call only starts it) or the run is    *)
(* being stopped.                                                           *)
PostStateUpdate(r) ==
  /\ Applying
  /\ r \in unreported
  /\ unreported' = unreported \ {r}
  /\ reported' = IF r \in real THEN reported \cup {r} ELSE reported \ {r}
  /\ hook' = [hook EXCEPT !.ticking = TRUE]
  /\ \/ /\ ~Unreadable(mgr)
        /\ hook.force \/ hook.ticking
        /\ PersistState(MutateState(mgr, r))
        /\ flushed' = (result' = "nil")
     \/ /\ ~Unreadable(mgr)
        /\ ~hook.force
        /\ mgr' = MutateState(mgr, r)
        /\ flushed' = FALSE
        /\ UNCHANGED <<files, result, faults>>
     \/ /\ Unreadable(mgr)
        /\ flushed' = FALSE
        /\ UNCHANGED <<files, mgr, result, faults>>
  /\ UNCHANGED <<rescue, phase, lock, real, stop, runs, changes, original>>

(* opWait on the first interrupt: it persists, then starts Context.Stop. *)
Interrupt ==
  /\ Interrupts
  /\ phase = "applying"
  /\ stop = "no"
  /\ stop' = "stopping"
  /\ PersistState(mgr)
  /\ flushed' = (result' = "nil")
  /\ UNCHANGED <<rescue, phase, lock, real, unreported, hook, runs, changes, original,
                 reported>>

(* StateHook.Stopping, called by Context.Stop in its goroutine, which may   *)
(* run as late as the process lives.                                        *)
Stopping ==
  /\ stop = "stopping"
  /\ stop' = "stopped"
  /\ hook' = [hook EXCEPT !.force = TRUE]
  /\ PersistState(mgr)
  /\ flushed' = (result' = "nil")
  /\ UNCHANGED <<rescue, phase, lock, real, unreported, runs, changes, original,
                 reported>>

(* Apply gave up before the walk: it returns no state, and opApply writes   *)
(* none.                                                                    *)
ApplyRefused ==
  /\ phase = "applying"
  /\ changes = 0
  /\ phase' = "refused"
  /\ UNCHANGED <<files, rescue, mgr, lock, core, result, runs, changes, faults, hist>>

(* Mutated: an error of the last write is only reported. *)
ApplyDone_ErrorOnly ==
  /\ phase = "applying"
  /\ unreported = {}
  /\ IF Unreadable(mgr)
     THEN UNCHANGED <<files, mgr, result, faults, flushed>>
     ELSE /\ PersistState(WriteState(mgr, real))
          /\ flushed' = (result' = "nil")
  /\ phase' = "done"
  /\ UNCHANGED <<rescue, lock, real, unreported, hook, stop, runs, changes, original, reported>>

(* The apply ended: the complete state is written and persisted. *)
ApplyDone ==
  /\ phase = "applying"
  /\ unreported = {}
  /\ \/ /\ Unreadable(mgr)
        /\ phase' = "unsaved"
        /\ UNCHANGED <<files, mgr, result, faults, flushed>>
     \/ /\ ~Unreadable(mgr)
        /\ PersistState(WriteState(mgr, real))
        /\ flushed' = (result' = "nil")
        /\ phase' = IF result' = "nil" THEN "done" ELSE "unsaved"
  /\ UNCHANGED <<rescue, lock, real, unreported, hook, stop, runs, changes, original, reported>>

(* If that failed, a manager of its own writes the state to errored.tfstate,*)
(* or it goes to the terminal. But that manager, too, returns nil when it   *)
(* cannot open its file, and the dump may fail: the state is then nowhere.  *)
BackupStateForError ==
  /\ phase = "unsaved"
  /\ phase' = "done"
  /\ \/ rescue' = real /\ UNCHANGED faults
     \/ Fail /\ UNCHANGED rescue
  /\ UNCHANGED <<files, mgr, lock, core, result, runs, changes, hist>>

(* The second interrupt: the main goroutine leaves, the apply goes on. *)
ForceCancel ==
  /\ phase = "applying"
  /\ stop # "no"
  /\ phase' = "cancelled"
  /\ UNCHANGED <<files, rescue, mgr, lock, core, result, runs, changes, faults, hist>>

(* CheckValidImport of f over the snapshot e. *)
ValidImport(f, e) ==
  \/ StateOf(e) = {}
  \/ f.lin = 0 \/ e.lin = 0
  \/ f.lin = e.lin /\ (f.ser > e.ser \/ (f.ser = e.ser /\ f.st = e.st))

(* "state push": WriteStateForMigration, which persists, and then           *)
(* WriteState and PersistState.                                             *)
Push(f, force) ==
  /\ phase = "pushing"
  /\ IF Unreadable(mgr) \/ ~(force \/ ValidImport(f, Loaded(mgr).readFile))
     THEN phase' = "failed" /\ UNCHANGED <<files, mgr, result, faults>>
     ELSE /\ PersistState([Loaded(mgr) EXCEPT !.file = f])
          /\ phase' = IF result' = "nil" THEN "pushed" ELSE "failed"
  /\ flushed' = FALSE
  /\ UNCHANGED <<rescue, lock, core, runs, changes, original, reported>>

PushPersist ==
  /\ phase = "pushed"
  /\ phase' = "failed"
  /\ IF Unreadable(mgr)
     THEN UNCHANGED <<files, mgr, result, faults>>
     ELSE PersistState(WriteState(mgr, StateOf(mgr.file)))
  /\ UNCHANGED <<rescue, lock, core, runs, changes, hist>>

(* The command's deferred Unlock closes the file. *)
Unlock ==
  /\ phase \in {"done", "refused", "failed", "cancelled"}
  /\ phase' = IF phase = "cancelled" THEN "orphaned" ELSE "unlocked"
  /\ IF lock = "held"
     THEN lock' = "released" /\ mgr' = [mgr EXCEPT !.out = FALSE]
     ELSE UNCHANGED <<lock, mgr>>
  /\ UNCHANGED <<files, rescue, core, result, runs, changes, faults, hist>>

Exit ==
  /\ phase \in {"unlocked", "orphaned"}
  /\ Idle
  /\ UNCHANGED <<files, rescue, runs, faults>>

(* The process ends while the stop goroutine is between truncating the file *)
(* and having written it.                                                   *)
ExitInStopping ==
  /\ phase \in {"unlocked", "orphaned"}
  /\ stop = "stopping"
  /\ disk # Torn
  /\ disk' \in {Nil, Torn}
  /\ Idle
  /\ UNCHANGED <<backup, rescue, runs, faults>>

(* The process is killed. Killed between truncating and writing, it leaves  *)
(* what a write that fails leaves.                                          *)
Crash ==
  /\ phase # "idle"
  /\ Fail
  /\ Idle
  /\ UNCHANGED <<files, rescue, runs>>

Next ==
  \/ Start \/ RefreshState
  \/ \E r \in Res : Change(r) \/ PostStateUpdate(r)
  \/ Interrupt \/ Stopping \/ ForceCancel
  \/ ApplyRefused \/ ApplyDone \/ BackupStateForError
  \/ \E f \in Pushes, force \in BOOLEAN : Push(f, force)
  \/ PushPersist
  \/ Unlock \/ Exit \/ ExitInStopping \/ Crash

Spec == Init /\ [][Next]_vars

------------------------------------------------------------------------------
Manager == [out : BOOLEAN, file : Snapshot \cup {Nil}, readFile : Snapshot \cup {Nil},
            backupFile : Snapshot \cup {Nil}, writtenBackup : BOOLEAN]

(* The fields keep their types, and the manager has the file open as long   *)
(* as its command has the lock.                                             *)
TypeOK ==
  /\ disk \in Snapshot \cup {Nil, Torn}
  /\ backup \in Snapshot \cup {Nil, Torn}
  /\ rescue = Nil \/ rescue \in SUBSET Res
  /\ mgr \in Manager
  /\ phase \in {"idle", "locked", "applying", "unsaved", "done", "refused", "failed",
                "cancelled", "orphaned", "pushing", "pushed", "unlocked"}
  /\ lock \in {"held", "released", "off"}
  /\ real \in SUBSET Res
  /\ unreported \in SUBSET Res
  /\ hook \in [ticking : BOOLEAN, force : BOOLEAN]
  /\ stop \in {"no", "stopping", "stopped"}
  /\ result \in {"nil", "error"}
  /\ runs \in 0 .. MaxRuns /\ changes \in 0 .. MaxChanges /\ faults \in 0 .. MaxFaults
  /\ original \in Snapshot \cup {Nil, Torn}
  /\ reported \in SUBSET Res
  /\ flushed \in BOOLEAN
  /\ lock = "held" => mgr.out

IsSnapshot(f) == f \notin {Nil, Torn}

(* Once the state file holds another state than the one the command found,  *)
(* and until the command unlocks, the backup file has the snapshot it       *)
(* found, whichever persist of the command wrote, and whether or not an     *)
(* earlier one failed (filesystem.go:216-217).                              *)
ChangedOriginalBackedUp ==
  /\ phase # "idle" /\ lock # "released"
  /\ IsSnapshot(original) /\ IsSnapshot(disk) /\ disk.st # original.st
  => backup = original

(* When PersistState has returned nil, the state file holds every change    *)
(* the hook was told of, however the calls of the resources, of opWait and  *)
(* of Stopping interleave (hook_state.go:111-115).                          *)
ReportedIsPersisted ==
  lock = "held" /\ flushed => IsSnapshot(disk) /\ disk.st = reported

(* The same, for a command that found a snapshot in the state file.         *)
ReportsOverSnapshotPersisted == IsSnapshot(original) => ReportedIsPersisted

(* The state of an apply that ended is in the state file, or else in        *)
(* errored.tfstate or on the terminal (backend_apply.go:306-320).           *)
AppliedStateKept ==
  phase = "done" => (IsSnapshot(disk) /\ disk.st = real) \/ rescue = real

(* The same, for commands that took the lock and were not interrupted: the  *)
(* persist of a late Stopping may fail after the last write succeeded.      *)
LockedApplyKept == lock = "held" /\ stop = "no" => AppliedStateKept

(* No single system call that fails loses the state of such a command, be   *)
(* it at the first persist, the last one or the rescue                      *)
(* (backend_apply.go:306-320, filesystem.go:220-271).                       *)
OneFailureKept == faults <= 1 => LockedApplyKept

(* What a write may replace. An apply never takes the state file to another *)
(* lineage or back to a lower serial; a push without -force never replaces  *)
(* resources by a state that is older, of the same age but different, or of *)
(* another lineage.                                                         *)
Succeeds(new, old) == new.lin = old.lin /\ new.ser >= old.ser
OnlyLaterReplaces ==
  [][ /\ IsSnapshot(disk) /\ IsSnapshot(disk') /\ phase \notin {"pushing", "pushed"}
        => Succeeds(disk', disk)
      /\ \A f \in Pushes :
           Push(f, FALSE) /\ disk' # disk /\ IsSnapshot(disk) /\ disk.st # {}
             => \/ disk.lin = 0 \/ f.lin = 0
                \/ Succeeds(f, disk) /\ (f.ser > disk.ser \/ f.st = disk.st) ]_vars

(* "If two snapshots both have an identical, non-empty Lineage then the one *)
(* with the higher Serial is newer" (persistent.go:124-126): snapshots of   *)
(* one lineage and one serial are the same.                                 *)
SerialsDistinguishStates ==
  [][ IsSnapshot(disk) /\ IsSnapshot(disk') /\ disk.lin = disk'.lin /\ disk.ser = disk'.ser
        => disk.st = disk'.st ]_vars

=============================================================================
