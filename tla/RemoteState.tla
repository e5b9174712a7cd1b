----------------------------- MODULE RemoteState -----------------------------
(* The remote state manager, remote.State: processes that apply, each with  *)
(* a manager of its own, and one remote object behind Client.Get and        *)
(* Client.Put, with the client's lock. A call may fail, and a Put that      *)
(* fails may have been carried out; a process may be killed, which leaves   *)
(* its lock behind until a user removes it.                                 *)
(*                                                                          *)
(* A state is a set of updates, one per change of any process. Lineage 0 is *)
(* the empty one, and NoState a nil state.                                  *)
EXTENDS Naturals, FiniteSets

CONSTANTS
  Proc,          \* the processes
  None,          \* no process, no snapshot, no state
  InitialRemote, \* what the remote object may hold initially
  Migrated,      \* snapshots a migration may bring
  MaxUpdates,    \* bound: changes made by all processes together
  MaxRuns,       \* bound: commands started
  MaxFaults      \* bound: calls that fail, and processes killed

Update   == 1 .. MaxUpdates
State    == SUBSET (0 .. MaxUpdates)
Snapshot == [lin : Nat, ser : Nat, st : State]

ASSUME NoneAssumption == None \notin Proc /\ None \notin Snapshot /\ \A s \in State : s # None
ASSUME RemoteAssumption ==
  InitialRemote \subseteq Snapshot \cup {None} /\ Migrated \subseteq Snapshot
ASSUME BoundAssumption == MaxUpdates \in Nat /\ MaxRuns \in Nat /\ MaxFaults \in Nat

VARIABLES
  remote,   \* the remote object: a snapshot or None
  lock,     \* the process that has the client's lock, or None
  mgr,      \* each process's remote.State
  pc,       \* how far each process is
  real,     \* each process's working state
  result,   \* what each process's last PersistState returned
  brought,  \* the snapshot each process migrates, or None
  ended,    \* whether the command has made its last write
  updates, runs, faults,  \* bounded counters
  found,    \* history: whether each process's refresh found a snapshot
  saved     \* history: the updates of commands that found a snapshot and whose
            \* final PersistState returned nil

vars == <<remote, lock, mgr, pc, real, result, brought, ended, updates, runs, faults, found, saved>>

NewManager == [st |-> None, readSt |-> None, lin |-> 0, readLin |-> 0, ser |-> 0, readSer |-> 0]

Init ==
  /\ remote \in InitialRemote
  /\ lock = None
  /\ mgr = [p \in Proc |-> NewManager]
  /\ pc = [p \in Proc |-> "idle"]
  /\ real = [p \in Proc |-> {}]
  /\ result = [p \in Proc |-> "nil"]
  /\ brought = [p \in Proc |-> None]
  /\ ended = [p \in Proc |-> FALSE]
  /\ updates = 0 /\ runs = 0 /\ faults = 0
  /\ found = [p \in Proc |-> FALSE]
  /\ saved = IF remote = None THEN {} ELSE remote.st

Goto(p, l) == pc' = [pc EXCEPT ![p] = l]
Fail == faults < MaxFaults /\ faults' = faults + 1

(* Mutated: the client's lock is not looked at. *)
Lock_Ignored(p) ==
  /\ pc[p] = "idle"
  /\ runs < MaxRuns
  /\ runs' = runs + 1
  /\ lock' = p
  /\ Goto(p, "locked")
  /\ UNCHANGED <<remote, mgr, real, result, brought, ended, updates, faults, found, saved>>

(* A command starts and gets the lock; without it, it does not start. *)
Lock(p) ==
  /\ pc[p] = "idle"
  /\ lock = None
  /\ runs < MaxRuns
  /\ runs' = runs + 1
  /\ lock' = p
  /\ Goto(p, "locked")
  /\ UNCHANGED <<remote, mgr, real, result, brought, ended, updates, faults, found, saved>>

(* refreshState with what Get returned. Without a remote object the state   *)
(* in memory stays.                                                         *)
Refreshed(m) ==
  IF remote = None
  THEN [m EXCEPT !.readSt = None, !.lin = 0, !.ser = 0]
  ELSE [st |-> remote.st, readSt |-> remote.st, lin |-> remote.lin, readLin |-> remote.lin,
        ser |-> remote.ser, readSer |-> remote.ser]

RefreshState(p) ==
  /\ pc[p] = "locked"
  /\ \/ /\ mgr' = [mgr EXCEPT ![p] = Refreshed(@)]
        /\ real' = [real EXCEPT ![p] = IF mgr'[p].st = None THEN {} ELSE mgr'[p].st]
        /\ found' = [found EXCEPT ![p] = remote # None]
        /\ Goto(p, "applying")
        /\ UNCHANGED faults
     \/ Fail /\ Goto(p, "done") /\ UNCHANGED <<mgr, real, found>>
  /\ UNCHANGED <<remote, lock, result, brought, ended, updates, runs, saved>>

(* A resource changes, and MutateState records it. *)
MutateState(p) ==
  /\ pc[p] = "applying"
  /\ brought[p] = None
  /\ updates < MaxUpdates
  /\ updates' = updates + 1
  /\ real' = [real EXCEPT ![p] = @ \cup {updates'}]
  /\ mgr' = [mgr EXCEPT ![p].st = (IF @ = None THEN {} ELSE @) \cup {updates'}]
  /\ UNCHANGED <<remote, lock, pc, result, brought, ended, runs, faults, found, saved>>

(* WriteStateForMigration, forced as Migrate does, right after the refresh. *)
WriteStateForMigration(p, f) ==
  /\ pc[p] = "applying"
  /\ brought[p] = None
  /\ mgr[p].st = mgr[p].readSt
  /\ brought' = [brought EXCEPT ![p] = f]
  /\ real' = [real EXCEPT ![p] = f.st]
  /\ mgr' = [mgr EXCEPT ![p].st = f.st, ![p].lin = f.lin, ![p].ser = f.ser]
  /\ saved' = saved \cap f.st
  /\ UNCHANGED <<remote, lock, pc, result, ended, updates, runs, faults, found>>

------------------------------------------------------------------------------
(* PersistState: up to the call of Put, then Put.                            *)

Unchanged(m) ==
  /\ m.st = m.readSt
  /\ m.readLin # 0 /\ m.lin = m.readLin
  /\ m.readSer # 0 /\ m.ser = m.readSer

(* A new lineage, when there is no remote object yet. *)
FirstSnapshot(m) == IF m.lin = 0 THEN [m EXCEPT !.lin = 100 + runs, !.ser = @ + 1] ELSE m

Returned(p, r, last) ==
  /\ result' = [result EXCEPT ![p] = r]
  /\ Goto(p, IF last THEN "done" ELSE "applying")
  /\ saved' = IF last /\ r = "nil" /\ found[p]
              THEN real[p] \cup (IF brought[p] = None THEN saved ELSE {})
              ELSE saved

(* Called in the middle of a command, or last after WriteState with the     *)
(* whole state.                                                             *)
PersistState(p) ==
  /\ pc[p] = "applying"
  /\ \E last \in BOOLEAN :
       LET m == IF last THEN [mgr[p] EXCEPT !.st = real[p]] ELSE mgr[p]
       IN /\ ended' = [ended EXCEPT ![p] = last]
          /\ brought[p] # None => last
          /\ \/ /\ m.readSt # None /\ Unchanged(m)
                /\ mgr' = [mgr EXCEPT ![p] = m]
                /\ Returned(p, "nil", last)
                /\ UNCHANGED faults
             \/ /\ m.readSt # None /\ ~Unchanged(m)
                /\ mgr' = [mgr EXCEPT ![p] = [m EXCEPT !.ser = @ + 1]]
                /\ Goto(p, "put")
                /\ UNCHANGED <<result, saved, faults>>
             \/ /\ m.readSt = None
                /\ mgr' = [mgr EXCEPT ![p] = FirstSnapshot(Refreshed(m))]
                /\ Goto(p, "put")
                /\ UNCHANGED <<result, saved, faults>>
             \/ /\ m.readSt = None
                /\ mgr' = [mgr EXCEPT ![p] = m]
                /\ Returned(p, "error", last)
                /\ Fail
  /\ UNCHANGED <<remote, lock, real, brought, updates, runs, found>>

ToWrite(m) == [lin |-> m.lin, ser |-> m.ser, st |-> IF m.st = None THEN {} ELSE m.st]

(* Mutated: after an error the serial is taken back. *)
Put_RollsBack(p) ==
  /\ pc[p] = "put"
  /\ \/ /\ remote' = ToWrite(mgr[p])
        /\ mgr' = [mgr EXCEPT ![p].readSt = mgr[p].st, ![p].readLin = mgr[p].lin,
                              ![p].readSer = mgr[p].ser]
        /\ Returned(p, "nil", ended[p])
        /\ UNCHANGED faults
     \/ /\ Fail
        /\ remote' \in {remote, ToWrite(mgr[p])}
        /\ mgr' = [mgr EXCEPT ![p].ser = mgr[p].readSer]
        /\ Returned(p, "error", ended[p])
  /\ UNCHANGED <<lock, real, brought, ended, updates, runs, found>>

(* Mutated: what was not put becomes the reference state too. *)
Put_ReadOnError(p) ==
  /\ pc[p] = "put"
  /\ mgr' = [mgr EXCEPT ![p].readSt = mgr[p].st, ![p].readLin = mgr[p].lin,
                        ![p].readSer = mgr[p].ser]
  /\ \/ remote' = ToWrite(mgr[p]) /\ Returned(p, "nil", ended[p]) /\ UNCHANGED faults
     \/ Fail /\ remote' \in {remote, ToWrite(mgr[p])} /\ Returned(p, "error", ended[p])
  /\ UNCHANGED <<lock, real, brought, ended, updates, runs, found>>

(* Client.Put: it succeeds, fails, or fails after it was carried out. *)
Put(p) ==
  /\ pc[p] = "put"
  /\ \/ /\ remote' = ToWrite(mgr[p])
        /\ mgr' = [mgr EXCEPT ![p].readSt = mgr[p].st, ![p].readLin = mgr[p].lin,
                              ![p].readSer = mgr[p].ser]
        /\ Returned(p, "nil", ended[p])
        /\ UNCHANGED faults
     \/ /\ Fail
        /\ remote' \in {remote, ToWrite(mgr[p])}
        /\ Returned(p, "error", ended[p])
        /\ UNCHANGED mgr
  /\ UNCHANGED <<lock, real, brought, ended, updates, runs, found>>

------------------------------------------------------------------------------
Gone(p) ==
  /\ mgr' = [mgr EXCEPT ![p] = NewManager]
  /\ real' = [real EXCEPT ![p] = {}]
  /\ result' = [result EXCEPT ![p] = "nil"]
  /\ brought' = [brought EXCEPT ![p] = None]
  /\ ended' = [ended EXCEPT ![p] = FALSE]
  /\ found' = [found EXCEPT ![p] = FALSE]
  /\ Goto(p, "idle")
  /\ UNCHANGED <<updates, runs, saved>>

(* Unlock, and the end of the process. *)
Unlock(p) ==
  /\ pc[p] = "done"
  /\ lock' = None
  /\ Gone(p)
  /\ UNCHANGED <<remote, faults>>

(* The process is killed; a Put that is under way may have been carried out. *)
Crash(p) ==
  /\ pc[p] # "idle"
  /\ Fail
  /\ Gone(p)
  /\ remote' \in {remote} \cup (IF pc[p] = "put" THEN {ToWrite(mgr[p])} ELSE {})
  /\ UNCHANGED lock

(* "force-unlock" by a user who knows that the process is gone. *)
ForceUnlock(p) ==
  /\ lock = p
  /\ pc[p] = "idle"
  /\ lock' = None
  /\ UNCHANGED <<remote, mgr, pc, real, result, brought, ended, updates, runs, faults, found, saved>>

Next ==
  \E p \in Proc :
    \/ Lock(p) \/ RefreshState(p) \/ MutateState(p) \/ PersistState(p) \/ Put(p)
    \/ Unlock(p) \/ Crash(p) \/ ForceUnlock(p)
    \/ \E f \in Migrated : WriteStateForMigration(p, f)

Spec == Init /\ [][Next]_vars

------------------------------------------------------------------------------
(* The fields keep their types, and every snapshot put has a lineage. *)
TypeOK ==
  /\ remote = None \/ (remote \in Snapshot /\ remote.lin # 0)
  /\ lock \in Proc \cup {None}
  /\ \A p \in Proc :
       /\ mgr[p].st = None \/ mgr[p].st \in State
       /\ mgr[p].readSt = None \/ mgr[p].readSt \in State
       /\ mgr[p].lin \in Nat /\ mgr[p].readLin \in Nat
       /\ mgr[p].ser \in Nat /\ mgr[p].readSer \in Nat
  /\ pc \in [Proc -> {"idle", "locked", "applying", "put", "done"}]
  /\ real \in [Proc -> State]
  /\ result \in [Proc -> {"nil", "error"}]
  /\ brought \in [Proc -> Migrated \cup {None}]
  /\ ended \in [Proc -> BOOLEAN]
  /\ found \in [Proc -> BOOLEAN]
  /\ updates \in 0 .. MaxUpdates /\ runs \in 0 .. MaxRuns /\ faults \in 0 .. MaxFaults
  /\ saved \in State

(* An update of a command that found a remote snapshot, and whose final     *)
(* PersistState returned nil, stays in the remote object through the runs,  *)
(* failed calls and deaths of all processes (persistent.go:78-82), unless a *)
(* migration replaces the state.                                            *)
NoUpdateLost == saved \subseteq (IF remote = None THEN {} ELSE remote.st)

Wrote(p) == pc[p] = "done" /\ ended[p] /\ result[p] = "nil"

(* When the last PersistState of a command returns nil, the remote object   *)
(* holds the state the command worked out: "copying the latest transient    *)
(* snapshot to be the new latest persistent snapshot"                       *)
(* (persistent.go:74-76).                                                   *)
PersistedIsWritten ==
  \A p \in Proc : Wrote(p) => remote # None /\ remote.st = real[p]

(* The same, for a command that found a remote snapshot.                    *)
PersistedOverSnapshot ==
  \A p \in Proc : Wrote(p) /\ found[p] => remote # None /\ remote.st = real[p]

(* The history of the remote object: it keeps its lineage, and its serial   *)
(* grows with every change of the state, also after a Put whose outcome is  *)
(* not known (state.go:35-43); only a migration sets them, and one that     *)
(* succeeds over a remote snapshot keeps the lineage of the snapshot it     *)
(* brings: "direct migration of state snapshots with their associated       *)
(* metadata unchanged" (migrate.go:14-16).                                  *)
HistoryKept ==
  /\ [][ remote # None /\ remote' # None /\ remote' # remote
           => \/ remote'.lin = remote.lin /\ remote'.ser > remote.ser
              \/ \E p \in Proc : pc[p] = "put" /\ brought[p] # None ]_vars
  /\ [](\A p \in Proc : Wrote(p) /\ found[p] /\ brought[p] # None
           => remote.lin = brought[p].lin /\ remote.st = brought[p].st)

=============================================================================
