---------------------------- MODULE StateFileLock ----------------------------
(* The local state file as several OpenTofu processes share it: the lock of *)
(* statemgr.Filesystem (an fcntl lock on the file itself and a lock info    *)
(* file beside it), LockWithContext's retries, and the reading and writing  *)
(* of the file under the lock. Every system call is a step of its own, can  *)
(* fail, and a process can be killed between two of them.                   *)
(*                                                                          *)
(* The state in the file is the set of the updates recorded in it, one per  *)
(* run of a process; a file of size zero is the empty set, and one whose    *)
(* writing was cut short is {Half}. An fcntl lock belongs to an inode, and  *)
(* the kernel drops it when its process ends.                               *)
EXTENDS Naturals, FiniteSets

CONSTANTS
  Proc,         \* the processes
  None,         \* no process, no file
  FileExists,   \* whether the state file is there initially
  MaxRuns,      \* bound: runs of all processes together
  MaxFaults     \* bound: calls that fail and processes killed, together

ASSUME ProcAssumption == None \notin Proc
ASSUME NoneAssumption == None \notin Nat
ASSUME ExistsAssumption == FileExists \in BOOLEAN
ASSUME BoundAssumption == MaxRuns \in Nat /\ MaxFaults \in Nat

Update == 0 .. MaxRuns          \* update 0 was there before the first run
Inode  == 0 .. MaxRuns          \* each run creates at most one file
Half   == MaxRuns + 1           \* a state of which a part was written

VARIABLES
  dir,      \* the inode the state path names, or None
  used,     \* inodes below this one have been created
  content,  \* what each inode holds: updates, or Half
  holder,   \* the process that has each inode's fcntl lock
  info,     \* the process named in the lock info file, or None
  pc,       \* what each process does next
  out,      \* Filesystem.stateFileOut: the open inode, or None
  created,  \* Filesystem.created
  file,     \* Filesystem.file: the state in memory
  run,      \* the number of each process's run, its update
  runs,     \* runs started
  faults,   \* calls that failed and processes killed
  recorded  \* history: the updates whose PersistState returned without an
            \* error since a write was last cut short

disk  == <<dir, used, content, holder, info>>
mgr   == <<out, created, file, run>>
vars  == <<dir, used, content, holder, info, pc, out, created, file, run, runs,
           faults, recorded>>

Goto(p, l) == pc' = [pc EXCEPT ![p] = l]

(* A call fails, or a process is killed. *)
Fault == faults < MaxFaults /\ faults' = faults + 1

(* What is read at the state path; nothing there reads as no state. *)
PathContent == IF dir = None THEN {} ELSE content[dir]

Init ==
  /\ IF FileExists
     THEN dir = 0 /\ \E c \in {{}, {0}} :
            content = [i \in Inode |-> IF i = 0 THEN c ELSE {}] /\ recorded = c
     ELSE dir = None /\ content = [i \in Inode |-> {}] /\ recorded = {}
  /\ used = IF FileExists THEN 1 ELSE 0
  /\ holder = [i \in Inode |-> None]
  /\ info = None
  /\ pc = [p \in Proc |-> "idle"]
  /\ out = [p \in Proc |-> None]
  /\ created = [p \in Proc |-> FALSE]
  /\ file = [p \in Proc |-> {}]
  /\ run = [p \in Proc |-> 0]
  /\ runs = 0
  /\ faults = 0

(* A command that takes the state lock starts. *)
Start(p) ==
  /\ pc[p] = "idle"
  /\ runs < MaxRuns
  /\ runs' = runs + 1
  /\ run' = [run EXCEPT ![p] = runs + 1]
  /\ Goto(p, "stat")
  /\ UNCHANGED <<disk, out, created, file, faults, recorded>>

------------------------------------------------------------------------------
(* Lock: the file is created first if it is not there.                       *)

(* Mutated: the file is looked for after it was created. *)
StatFile_Late(p) ==
  /\ pc[p] = "stat"
  /\ Goto(p, "open")
  /\ UNCHANGED <<disk, mgr, runs, faults, recorded>>

StatFile(p) ==
  /\ pc[p] = "stat"
  /\ created' = [created EXCEPT ![p] = @ \/ dir = None]
  /\ Goto(p, "open")
  /\ UNCHANGED <<disk, out, file, run, runs, faults, recorded>>

OpenFile(p) ==
  /\ pc[p] = "open"
  /\ \/ /\ IF dir = None
           THEN dir' = used /\ used' = used + 1
           ELSE UNCHANGED <<dir, used>>
        /\ out' = [out EXCEPT ![p] = dir']
        /\ Goto(p, "lock")
        /\ UNCHANGED faults
     \/ Fault /\ Goto(p, "exit") /\ UNCHANGED <<dir, used, out>>
  /\ UNCHANGED <<content, holder, info, created, file, run, runs, recorded>>

(* prepareBackupFile, with the kernel's lock taken: when the state cannot be *)
(* read, Lock returns an error that is not retried, and what has the file    *)
(* open and locked is the process, until it ends.                            *)
PrepareBackup(p) ==
  \/ Half \notin content[out[p]] /\ Goto(p, "writeinfo") /\ UNCHANGED faults
  \/ Half \in content[out[p]] /\ Goto(p, "gaveup") /\ UNCHANGED faults
  \/ Fault /\ Goto(p, "gaveup")

(* Mutated: the lock info file is taken for the lock. *)
TakeLock_ByInfo(p) ==
  /\ pc[p] = "lock"
  /\ IF info = None
     THEN holder' = [holder EXCEPT ![out[p]] = p] /\ PrepareBackup(p)
     ELSE Goto(p, "readinfo") /\ UNCHANGED <<holder, faults>>
  /\ UNCHANGED <<dir, used, content, info, mgr, runs, recorded>>

(* Mutated: the lock is a shared one. *)
TakeLock_Shared(p) ==
  /\ pc[p] = "lock"
  /\ holder' = [holder EXCEPT ![out[p]] = p]
  /\ PrepareBackup(p)
  /\ UNCHANGED <<dir, used, content, info, mgr, runs, recorded>>

(* Mutated: the lock info is written before the lock is taken. *)
TakeLock_InfoFirst(p) ==
  /\ pc[p] = "lock"
  /\ info' = p
  /\ IF holder[out[p]] = None
     THEN holder' = [holder EXCEPT ![out[p]] = p] /\ PrepareBackup(p)
     ELSE Goto(p, "readinfo") /\ UNCHANGED <<holder, faults>>
  /\ UNCHANGED <<dir, used, content, mgr, runs, recorded>>

(* flock.Lock does not block: it fails while another process has the lock. *)
TakeLock(p) ==
  /\ pc[p] = "lock"
  /\ IF holder[out[p]] = None
     THEN holder' = [holder EXCEPT ![out[p]] = p] /\ PrepareBackup(p)
     ELSE Goto(p, "readinfo") /\ UNCHANGED <<holder, faults>>
  /\ UNCHANGED <<dir, used, content, info, mgr, runs, recorded>>

(* When the lock info cannot be written the command fails, with the lock;    *)
(* what is there then is the old one, this one, or nothing that can be read. *)
WriteInfo(p) ==
  /\ pc[p] = "writeinfo"
  /\ \/ info' = p /\ Goto(p, "refresh") /\ UNCHANGED faults
     \/ Fault /\ info' \in {info, p, None} /\ Goto(p, "gaveup")
  /\ UNCHANGED <<dir, used, content, holder, mgr, runs, recorded>>

(* The lock was refused: the error carries the lock info if there is any,   *)
(* and LockWithContext retries only an error that does.                     *)
ReadInfo(p) ==
  /\ pc[p] = "readinfo"
  /\ Goto(p, IF info = None THEN "gaveup" ELSE "wait")
  /\ UNCHANGED <<disk, mgr, runs, faults, recorded>>

(* The delay is over: Lock is called again, with the file still open. *)
Retry(p) ==
  /\ pc[p] = "wait"
  /\ Goto(p, "lock")
  /\ UNCHANGED <<disk, mgr, runs, faults, recorded>>

(* The lock timeout is over: the command fails with the last error. *)
Timeout(p) ==
  /\ pc[p] = "wait"
  /\ Goto(p, "timedout")
  /\ UNCHANGED <<disk, mgr, runs, faults, recorded>>

------------------------------------------------------------------------------
(* Under the lock: the state is read; apply writes it back with an update,  *)
(* plan does not. A command that fails unlocks and ends.                    *)

Refresh(p) ==
  /\ pc[p] = "refresh"
  /\ \/ /\ Half \notin content[out[p]]
        /\ file' = [file EXCEPT ![p] = content[out[p]]]
        /\ \/ Goto(p, "truncate")
           \/ Goto(p, "removeinfo")
        /\ UNCHANGED faults
     \/ Half \in content[out[p]] /\ Goto(p, "removeinfo") /\ UNCHANGED <<file, faults>>
     \/ Fault /\ Goto(p, "removeinfo") /\ UNCHANGED file
  /\ UNCHANGED <<disk, out, created, run, runs, recorded>>

(* Writing the backup, Seek or Truncate may fail, before the file changes. *)
Truncate(p) ==
  /\ pc[p] = "truncate"
  /\ \/ /\ content' = [content EXCEPT ![out[p]] = {}]
        /\ Goto(p, "write")
        /\ UNCHANGED faults
     \/ Fault /\ Goto(p, "removeinfo") /\ UNCHANGED content
  /\ UNCHANGED <<dir, used, holder, info, mgr, runs, recorded>>

(* The write ends before its end: what was in the file is gone. *)
CutShort(p) ==
  /\ \E c \in {{}, {Half}} : content' = [content EXCEPT ![out[p]] = c]
  /\ recorded' = {}

Write(p) ==
  /\ pc[p] = "write"
  /\ \/ /\ content' = [content EXCEPT ![out[p]] = file[p] \cup {run[p]}]
        /\ recorded' = recorded \cup {run[p]}
        /\ UNCHANGED faults
     \/ Fault /\ CutShort(p)
  /\ Goto(p, "removeinfo")
  /\ UNCHANGED <<dir, used, holder, info, mgr, runs>>

------------------------------------------------------------------------------
(* Unlock.                                                                   *)

RemoveInfo(p) ==
  /\ pc[p] = "removeinfo"
  /\ \/ info' = None /\ UNCHANGED faults
     \/ Fault /\ UNCHANGED info
  /\ Goto(p, "unlock")
  /\ UNCHANGED <<dir, used, content, holder, mgr, runs, recorded>>

Release(p) ==
  /\ pc[p] = "unlock"
  /\ holder' = [holder EXCEPT ![out[p]] = None]
  /\ out' = [out EXCEPT ![p] = None]
  /\ Goto(p, "size")
  /\ UNCHANGED <<dir, used, content, info, created, file, run, runs, faults, recorded>>

(* Mutated: any empty file is removed. *)
SizeCheck_AnyEmpty(p) ==
  /\ pc[p] = "size"
  /\ Goto(p, IF dir # None /\ PathContent = {} THEN "remove" ELSE "exit")
  /\ UNCHANGED <<disk, mgr, runs, faults, recorded>>

(* A file that this process created and never wrote to is removed, by path. *)
SizeCheck(p) ==
  /\ pc[p] = "size"
  /\ Goto(p, IF dir # None /\ PathContent = {} /\ created[p] THEN "remove" ELSE "exit")
  /\ UNCHANGED <<disk, mgr, runs, faults, recorded>>

RemoveFile(p) ==
  /\ pc[p] = "remove"
  /\ \/ dir' = None /\ UNCHANGED faults
     \/ Fault /\ UNCHANGED dir
  /\ Goto(p, "exit")
  /\ UNCHANGED <<used, content, holder, info, mgr, runs, recorded>>

------------------------------------------------------------------------------
(* The process ends: the kernel closes its files and drops its lock. *)
Gone(p) ==
  /\ holder' = [i \in Inode |-> IF holder[i] = p THEN None ELSE holder[i]]
  /\ out' = [out EXCEPT ![p] = None]
  /\ created' = [created EXCEPT ![p] = FALSE]
  /\ file' = [file EXCEPT ![p] = {}]
  /\ run' = [run EXCEPT ![p] = 0]
  /\ Goto(p, "idle")
  /\ UNCHANGED <<dir, used, info, runs>>

Exit(p) ==
  /\ pc[p] \in {"exit", "gaveup", "timedout"}
  /\ Gone(p)
  /\ UNCHANGED <<content, recorded, faults>>

(* It is killed, perhaps in the middle of a write. *)
Crash(p) ==
  /\ pc[p] # "idle"
  /\ Fault
  /\ Gone(p)
  /\ IF pc[p] = "write" THEN CutShort(p) ELSE UNCHANGED <<content, recorded>>

Step(p) ==
  \/ StatFile(p) \/ OpenFile(p) \/ TakeLock(p) \/ WriteInfo(p) \/ ReadInfo(p)
  \/ Retry(p) \/ Refresh(p) \/ Truncate(p) \/ Write(p) \/ RemoveInfo(p)
  \/ Release(p) \/ SizeCheck(p) \/ RemoveFile(p) \/ Exit(p)

Next == \E p \in Proc : Start(p) \/ Step(p) \/ Timeout(p) \/ Crash(p)

Spec == Init /\ [][Next]_vars

(* A process that is running keeps running: the Go scheduler, the kernel    *)
(* and the retry timer run. Nothing makes a run start, time out or crash,   *)
(* or a call fail.                                                          *)
FairSpec == Spec /\ \A p \in Proc : WF_vars(Step(p))

------------------------------------------------------------------------------
HasLock(p) == pc[p] \in {"writeinfo", "refresh", "truncate", "write", "removeinfo", "unlock"}
HasFile(p) == HasLock(p) \/ pc[p] \in {"lock", "readinfo", "wait", "gaveup", "timedout"}

(* The fields keep their types, and a manager has the state file open from  *)
(* its first attempt to lock until it unlocks or its process ends.          *)
TypeOK ==
  /\ dir \in Inode \cup {None}
  /\ used \in 0 .. MaxRuns + 1
  /\ content \in [Inode -> SUBSET (Update \cup {Half})]
  /\ holder \in [Inode -> Proc \cup {None}]
  /\ info \in Proc \cup {None}
  /\ pc \in [Proc -> {"idle", "stat", "open", "lock", "writeinfo", "readinfo", "wait",
                      "refresh", "truncate", "write", "removeinfo", "unlock", "size",
                      "remove", "exit", "gaveup", "timedout"}]
  /\ out \in [Proc -> Inode \cup {None}]
  /\ created \in [Proc -> BOOLEAN]
  /\ file \in [Proc -> SUBSET Update]
  /\ run \in [Proc -> Update]
  /\ runs \in 0 .. MaxRuns
  /\ faults \in 0 .. MaxFaults
  /\ recorded \in SUBSET Update
  /\ \A p \in Proc : HasFile(p) <=> out[p] # None

(* Two processes never have the state lock at the same time                 *)
(* (locker.go:38-41), whatever waits, times out or is killed.               *)
MutualExclusion == \A p, q \in Proc : HasLock(p) /\ HasLock(q) => p = q

(* While a process works under the lock, the lock info names that process:  *)
(* Lock writes it after taking the lock and Unlock removes it before giving *)
(* the lock up (filesystem.go:377-397 and 421-435), so no process writes    *)
(* over or removes another's.                                               *)
LockInfoHonest ==
  \A p \in Proc : pc[p] \in {"refresh", "truncate", "write", "removeinfo"} => info = p

(* An update that PersistState reported written (filesystem.go:250-279)     *)
(* stays in the state file through every later locked read-modify-write,    *)
(* whichever calls fail: it is missing only in the moment between           *)
(* truncating and writing, and lost only by a write that is cut short       *)
(* there, by an error or a kill, which is what resets recorded. What is     *)
(* written after that is again kept.                                        *)
NoUpdateLost == (\E p \in Proc : pc[p] = "write") \/ recorded \subseteq PathContent

(* A process that waits for the lock does not wait for ever: neither a      *)
(* holder that was killed nor the lock info it left behind blocks it.       *)
WaiterServed ==
  \A p \in Proc : pc[p] = "lock" ~> HasLock(p) \/ pc[p] \in {"gaveup", "timedout", "idle"}

(* The clean-up of Unlock: while no call fails and nothing is killed, a     *)
(* command that never wrote a state leaves no state file behind             *)
(* (filesystem.go:57-59); and a state that was written is never taken away, *)
(* whatever fails: "we only use it to clean up empty files"                 *)
(* (filesystem.go:520).                                                     *)
CleansUpOnlyEmptyFile ==
  /\ [](faults = 0 /\ recorded = {} /\ (\A p \in Proc : pc[p] = "idle") => dir = None)
  /\ [][dir # None /\ dir' = None => content[dir] = {}]_vars

=============================================================================
