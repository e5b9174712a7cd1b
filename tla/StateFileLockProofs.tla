------------------------- MODULE StateFileLockProofs -------------------------
(* What StateFileLock promises when the state file is there: for any number *)
(* of processes, runs, failing calls and kills. (Without a file to begin with, the         *)
(* clean-up of Unlock breaks the lock: StateFileLock_removed.cfg.) The last *)
(* section is about that clean-up, while one process runs at a time.        *)
EXTENDS StateFileLock, TLAPS

(* The state file stays the one inode 0: nobody created it, so nobody       *)
(* removes it.                                                              *)
OneFile ==
  /\ dir = 0
  /\ \A p \in Proc : created[p] = FALSE /\ pc[p] # "remove"
  /\ \A p \in Proc : out[p] \in {0, None}

(* A process between Lock and Unlock has the kernel's lock of that inode,   *)
(* and beside these only one whose Lock failed after it took it.            *)
KernelAgrees ==
  \A p \in Proc : /\ HasLock(p) => holder[0] = p
                  /\ holder[0] = p => HasLock(p) \/ pc[p] = "gaveup"

(* What the process that will write has read is all that was recorded, and  *)
(* between two writes it is in the file.                                    *)
NothingForgotten ==
  /\ \A p \in Proc : pc[p] \in {"truncate", "write"} => recorded \subseteq file[p]
  /\ (\A p \in Proc : pc[p] # "write") => recorded \subseteq content[0]

LockInv == TypeOK /\ OneFile /\ KernelAgrees /\ LockInfoHonest /\ NothingForgotten

(* The runs are counted; inode 0 and update 0 are always there. *)
LEMMA Numbers ==
  /\ 0 \in Inode /\ 0 \in Update /\ Inode = Update
  /\ None \notin Inode
  /\ \A n \in 0 .. MaxRuns : n < MaxRuns => n + 1 \in 0 .. MaxRuns
  /\ \A n \in 0 .. MaxFaults : n < MaxFaults => n + 1 \in 0 .. MaxFaults
  /\ 1 \in 0 .. MaxRuns + 1 /\ 0 \in 0 .. MaxFaults /\ 0 \in 0 .. MaxRuns
BY BoundAssumption, NoneAssumption DEF Inode, Update

(* It holds before the first command.                                       *)
LEMMA InitLock == FileExists /\ Init => LockInv
<1> SUFFICES ASSUME FileExists, Init PROVE LockInv
  OBVIOUS
<1> USE Numbers, ProcAssumption DEF Init, HasLock, HasFile
<1>1. dir = 0 /\ used = 1
  OBVIOUS
<1>2. PICK c \in {{}, {0}} :
        content = [i \in Inode |-> IF i = 0 THEN c ELSE {}] /\ recorded = c
  OBVIOUS
<1>3. content \in [Inode -> SUBSET (Update \cup {Half})] /\ recorded \in SUBSET Update
  BY <1>2
<1>4. content[0] = recorded
  BY <1>2
<1>5. TypeOK
  BY <1>1, <1>3 DEF TypeOK
<1>6. OneFile /\ KernelAgrees /\ LockInfoHonest
  BY <1>1 DEF OneFile, KernelAgrees, LockInfoHonest
<1>7. NothingForgotten
  BY <1>4 DEF NothingForgotten
<1> QED BY <1>5, <1>6, <1>7 DEF LockInv

(* A new command leaves file, lock and info alone.                          *)
LEMMA StartKeeps == ASSUME NEW p \in Proc, LockInv, Start(p) PROVE LockInv'
<1> USE Numbers, ProcAssumption DEF Start, LockInv, Goto, HasLock, HasFile, disk, mgr
<1>0. runs' \in 0 .. MaxRuns /\ run' \in [Proc -> Update]
  <2>1. runs' \in 0 .. MaxRuns
    BY DEF TypeOK
  <2>2. runs + 1 \in Update
    BY <2>1 DEF Update
  <2> QED BY <2>1, <2>2 DEF TypeOK
<1>1. TypeOK'
  BY <1>0 DEF TypeOK, OneFile
<1>2. OneFile'
  BY DEF TypeOK, OneFile
<1>3. KernelAgrees'
  BY DEF TypeOK, OneFile, KernelAgrees
<1>4. LockInfoHonest'
  BY DEF TypeOK, OneFile, KernelAgrees, LockInfoHonest
<1>5. NothingForgotten'
  BY DEF TypeOK, OneFile, KernelAgrees, NothingForgotten
<1> QED BY <1>1, <1>2, <1>3, <1>4, <1>5

(* Looking for the file finds it: it is not created.                        *)
LEMMA StatFileKeeps == ASSUME NEW p \in Proc, LockInv, StatFile(p) PROVE LockInv'
<1> USE Numbers, ProcAssumption DEF StatFile, LockInv, Goto, HasLock, HasFile, disk, mgr
<1>1. TypeOK'
  BY DEF TypeOK, OneFile
<1>2. OneFile'
  BY DEF TypeOK, OneFile
<1>3. KernelAgrees'
  BY DEF TypeOK, OneFile, KernelAgrees
<1>4. LockInfoHonest'
  BY DEF TypeOK, OneFile, KernelAgrees, LockInfoHonest
<1>5. NothingForgotten'
  BY DEF TypeOK, OneFile, KernelAgrees, NothingForgotten
<1> QED BY <1>1, <1>2, <1>3, <1>4, <1>5

(* The file that is opened is inode 0.                                      *)
LEMMA OpenFileKeeps == ASSUME NEW p \in Proc, LockInv, OpenFile(p) PROVE LockInv'
<1> USE Numbers, ProcAssumption DEF OpenFile, Fault, LockInv, Goto, HasLock, HasFile, disk, mgr
<1>1. TypeOK'
  BY DEF TypeOK, OneFile
<1>2. OneFile'
  BY DEF TypeOK, OneFile
<1>3. KernelAgrees'
  BY DEF TypeOK, OneFile, KernelAgrees
<1>4. LockInfoHonest'
  BY DEF TypeOK, OneFile, KernelAgrees, LockInfoHonest
<1>5. NothingForgotten'
  BY DEF TypeOK, OneFile, KernelAgrees, NothingForgotten
<1> QED BY <1>1, <1>2, <1>3, <1>4, <1>5

(* The lock is taken only when nobody has it (fcntl).                       *)
LEMMA TakeLockKeeps == ASSUME NEW p \in Proc, LockInv, TakeLock(p) PROVE LockInv'
<1> USE Numbers, ProcAssumption DEF TakeLock, PrepareBackup, Fault, LockInv, Goto, HasLock, HasFile, disk, mgr
<1>1. TypeOK'
  BY DEF TypeOK, OneFile
<1>2. OneFile'
  BY DEF TypeOK, OneFile
<1>3. KernelAgrees'
  BY DEF TypeOK, OneFile, KernelAgrees
<1>4. LockInfoHonest'
  BY DEF TypeOK, OneFile, KernelAgrees, LockInfoHonest
<1>5. NothingForgotten'
  BY DEF TypeOK, OneFile, KernelAgrees, NothingForgotten
<1> QED BY <1>1, <1>2, <1>3, <1>4, <1>5

(* The lock info is written by the process that has the lock.               *)
LEMMA WriteInfoKeeps == ASSUME NEW p \in Proc, LockInv, WriteInfo(p) PROVE LockInv'
<1> USE Numbers, ProcAssumption DEF WriteInfo, Fault, LockInv, Goto, HasLock, HasFile, disk, mgr
<1>1. TypeOK'
  BY DEF TypeOK, OneFile
<1>2. OneFile'
  BY DEF TypeOK, OneFile
<1>3. KernelAgrees'
  BY DEF TypeOK, OneFile, KernelAgrees
<1>4. LockInfoHonest'
  <2>1. \A q \in Proc : HasLock(q) => q = p
    BY DEF KernelAgrees
  <2> QED BY <2>1 DEF TypeOK, LockInfoHonest
<1>5. NothingForgotten'
  BY DEF TypeOK, OneFile, KernelAgrees, NothingForgotten
<1> QED BY <1>1, <1>2, <1>3, <1>4, <1>5

(* A refused process reads, and changes nothing.                            *)
LEMMA ReadInfoKeeps == ASSUME NEW p \in Proc, LockInv, ReadInfo(p) PROVE LockInv'
<1> USE Numbers, ProcAssumption DEF ReadInfo, LockInv, Goto, HasLock, HasFile, disk, mgr
<1>1. TypeOK'
  BY DEF TypeOK, OneFile
<1>2. OneFile'
  BY DEF TypeOK, OneFile
<1>3. KernelAgrees'
  BY DEF TypeOK, OneFile, KernelAgrees
<1>4. LockInfoHonest'
  BY DEF TypeOK, OneFile, KernelAgrees, LockInfoHonest
<1>5. NothingForgotten'
  BY DEF TypeOK, OneFile, KernelAgrees, NothingForgotten
<1> QED BY <1>1, <1>2, <1>3, <1>4, <1>5

(* Nor does it when it tries again,                                         *)
LEMMA RetryKeeps == ASSUME NEW p \in Proc, LockInv, Retry(p) PROVE LockInv'
<1> USE Numbers, ProcAssumption DEF Retry, LockInv, Goto, HasLock, HasFile, disk, mgr
<1>1. TypeOK'
  BY DEF TypeOK, OneFile
<1>2. OneFile'
  BY DEF TypeOK, OneFile
<1>3. KernelAgrees'
  BY DEF TypeOK, OneFile, KernelAgrees
<1>4. LockInfoHonest'
  BY DEF TypeOK, OneFile, KernelAgrees, LockInfoHonest
<1>5. NothingForgotten'
  BY DEF TypeOK, OneFile, KernelAgrees, NothingForgotten
<1> QED BY <1>1, <1>2, <1>3, <1>4, <1>5

(* or gives up.                                                             *)
LEMMA TimeoutKeeps == ASSUME NEW p \in Proc, LockInv, Timeout(p) PROVE LockInv'
<1> USE Numbers, ProcAssumption DEF Timeout, LockInv, Goto, HasLock, HasFile, disk, mgr
<1>1. TypeOK'
  BY DEF TypeOK, OneFile
<1>2. OneFile'
  BY DEF TypeOK, OneFile
<1>3. KernelAgrees'
  BY DEF TypeOK, OneFile, KernelAgrees
<1>4. LockInfoHonest'
  BY DEF TypeOK, OneFile, KernelAgrees, LockInfoHonest
<1>5. NothingForgotten'
  BY DEF TypeOK, OneFile, KernelAgrees, NothingForgotten
<1> QED BY <1>1, <1>2, <1>3, <1>4, <1>5

(* The process with the lock reads all that was recorded.                   *)
LEMMA RefreshKeeps == ASSUME NEW p \in Proc, LockInv, Refresh(p) PROVE LockInv'
<1> USE Numbers, ProcAssumption DEF Refresh, Fault, LockInv, Goto, HasLock, HasFile, disk, mgr
<1>1. TypeOK'
  BY DEF TypeOK, OneFile
<1>2. OneFile'
  BY DEF TypeOK, OneFile
<1>3. KernelAgrees'
  BY DEF TypeOK, OneFile, KernelAgrees
<1>4. LockInfoHonest'
  BY DEF TypeOK, OneFile, KernelAgrees, LockInfoHonest
<1>5. NothingForgotten'
  <2>1. \A q \in Proc : HasLock(q) => q = p
    BY DEF KernelAgrees
  <2>2. \A q \in Proc : pc'[q] # "write" /\ (pc'[q] = "truncate" => q = p)
    BY <2>1 DEF TypeOK
  <2>3. recorded \subseteq content[0]
    BY <2>1 DEF NothingForgotten
  <2>4. pc'[p] = "truncate" => file'[p] = content[0]
    BY DEF TypeOK, OneFile
  <2> QED BY <2>2, <2>3, <2>4 DEF NothingForgotten
<1> QED BY <1>1, <1>2, <1>3, <1>4, <1>5

(* It empties the file, having read it,                                     *)
LEMMA TruncateKeeps == ASSUME NEW p \in Proc, LockInv, Truncate(p) PROVE LockInv'
<1> USE Numbers, ProcAssumption DEF Truncate, Fault, LockInv, Goto, HasLock, HasFile, disk, mgr
<1>1. TypeOK'
  BY DEF TypeOK, OneFile
<1>2. OneFile'
  BY DEF TypeOK, OneFile
<1>3. KernelAgrees'
  BY DEF TypeOK, OneFile, KernelAgrees
<1>4. LockInfoHonest'
  BY DEF TypeOK, OneFile, KernelAgrees, LockInfoHonest
<1>5. NothingForgotten'
  BY DEF TypeOK, OneFile, KernelAgrees, NothingForgotten
<1> QED BY <1>1, <1>2, <1>3, <1>4, <1>5

(* and writes what it read together with its own update.                    *)
LEMMA WriteKeeps == ASSUME NEW p \in Proc, LockInv, Write(p) PROVE LockInv'
<1> USE Numbers, ProcAssumption DEF Write, Fault, CutShort, LockInv, Goto, HasLock, HasFile, disk, mgr
<1>1. TypeOK'
  <2>1. out[p] \in Inode /\ run[p] \in Update /\ file[p] \in SUBSET Update
    BY DEF TypeOK, OneFile
  <2>2. content' \in [Inode -> SUBSET (Update \cup {Half})] /\ recorded' \in SUBSET Update
    BY <2>1 DEF TypeOK
  <2>3. faults' \in 0 .. MaxFaults
    BY DEF TypeOK
  <2> QED BY <2>2, <2>3 DEF TypeOK
<1>2. OneFile'
  BY DEF TypeOK, OneFile
<1>3. KernelAgrees'
  BY DEF TypeOK, OneFile, KernelAgrees
<1>4. LockInfoHonest'
  BY DEF TypeOK, OneFile, KernelAgrees, LockInfoHonest
<1>5. NothingForgotten'
  <2>1. out[p] = 0
    BY DEF TypeOK, OneFile
  <2>a. \A q \in Proc : HasLock(q) => q = p
    BY DEF KernelAgrees
  <2>2. \A q \in Proc : pc'[q] \notin {"truncate", "write"}
    BY <2>a DEF TypeOK
  <2>3. \/ recorded' = {}
        \/ /\ content'[0] = file[p] \cup {run[p]}
           /\ recorded' = recorded \cup {run[p]}
    BY <2>1 DEF TypeOK
  <2>4. recorded' \subseteq content'[0]
    BY <2>3 DEF NothingForgotten
  <2> QED BY <2>2, <2>4 DEF NothingForgotten
<1> QED BY <1>1, <1>2, <1>3, <1>4, <1>5

(* The lock info is removed with the lock held.                             *)
LEMMA RemoveInfoKeeps == ASSUME NEW p \in Proc, LockInv, RemoveInfo(p) PROVE LockInv'
<1> USE Numbers, ProcAssumption DEF RemoveInfo, Fault, LockInv, Goto, HasLock, HasFile, disk, mgr
<1>1. TypeOK'
  BY DEF TypeOK, OneFile
<1>2. OneFile'
  BY DEF TypeOK, OneFile
<1>3. KernelAgrees'
  BY DEF TypeOK, OneFile, KernelAgrees
<1>4. LockInfoHonest'
  BY DEF TypeOK, OneFile, KernelAgrees, LockInfoHonest
<1>5. NothingForgotten'
  BY DEF TypeOK, OneFile, KernelAgrees, NothingForgotten
<1> QED BY <1>1, <1>2, <1>3, <1>4, <1>5

(* The lock is given up, and the file closed.                               *)
LEMMA ReleaseKeeps == ASSUME NEW p \in Proc, LockInv, Release(p) PROVE LockInv'
<1> USE Numbers, ProcAssumption DEF Release, LockInv, Goto, HasLock, HasFile, disk, mgr
<1>1. TypeOK'
  BY DEF TypeOK, OneFile
<1>2. OneFile'
  BY DEF TypeOK, OneFile
<1>3. KernelAgrees'
  BY DEF TypeOK, OneFile, KernelAgrees
<1>4. LockInfoHonest'
  BY DEF TypeOK, OneFile, KernelAgrees, LockInfoHonest
<1>5. NothingForgotten'
  BY DEF TypeOK, OneFile, KernelAgrees, NothingForgotten
<1> QED BY <1>1, <1>2, <1>3, <1>4, <1>5

(* The size is looked at only by a process that created the file.           *)
LEMMA SizeCheckKeeps == ASSUME NEW p \in Proc, LockInv, SizeCheck(p) PROVE LockInv'
<1> USE Numbers, ProcAssumption DEF SizeCheck, LockInv, Goto, HasLock, HasFile, disk, mgr
<1>1. TypeOK'
  BY DEF TypeOK, OneFile
<1>2. OneFile'
  BY DEF TypeOK, OneFile
<1>3. KernelAgrees'
  BY DEF TypeOK, OneFile, KernelAgrees
<1>4. LockInfoHonest'
  BY DEF TypeOK, OneFile, KernelAgrees, LockInfoHonest
<1>5. NothingForgotten'
  BY DEF TypeOK, OneFile, KernelAgrees, NothingForgotten
<1> QED BY <1>1, <1>2, <1>3, <1>4, <1>5

(* Nobody removes inode 0.                                                  *)
LEMMA RemoveFileKeeps == ASSUME NEW p \in Proc, LockInv, RemoveFile(p) PROVE LockInv'
<1> USE Numbers, ProcAssumption DEF RemoveFile, Fault, LockInv, Goto, HasLock, HasFile, disk, mgr
<1>1. TypeOK'
  BY DEF TypeOK, OneFile
<1>2. OneFile'
  BY DEF TypeOK, OneFile
<1>3. KernelAgrees'
  BY DEF TypeOK, OneFile, KernelAgrees
<1>4. LockInfoHonest'
  BY DEF TypeOK, OneFile, KernelAgrees, LockInfoHonest
<1>5. NothingForgotten'
  BY DEF TypeOK, OneFile, KernelAgrees, NothingForgotten
<1> QED BY <1>1, <1>2, <1>3, <1>4, <1>5

(* The kernel frees what an ended process had open,                         *)
LEMMA ExitKeeps == ASSUME NEW p \in Proc, LockInv, Exit(p) PROVE LockInv'
<1> USE Numbers, ProcAssumption DEF Exit, LockInv, Goto, HasLock, HasFile, disk, mgr, Gone
<1>1. TypeOK'
  BY DEF TypeOK, OneFile
<1>2. OneFile'
  BY DEF TypeOK, OneFile
<1>3. KernelAgrees'
  BY DEF TypeOK, OneFile, KernelAgrees
<1>4. LockInfoHonest'
  BY DEF TypeOK, OneFile, KernelAgrees, LockInfoHonest
<1>5. NothingForgotten'
  BY DEF TypeOK, OneFile, KernelAgrees, NothingForgotten
<1> QED BY <1>1, <1>2, <1>3, <1>4, <1>5

(* and what a killed one had; in the middle of a write it is cut short.     *)
LEMMA CrashKeeps == ASSUME NEW p \in Proc, LockInv, Crash(p) PROVE LockInv'
<1> USE Numbers, ProcAssumption DEF Crash, Fault, CutShort, LockInv, Goto, HasLock, HasFile, disk, mgr, Gone
<1>1. TypeOK'
  <2>1. /\ content' \in [Inode -> SUBSET (Update \cup {Half})]
        /\ recorded' \in SUBSET Update
    BY DEF TypeOK
  <2>2. faults' \in 0 .. MaxFaults
    BY DEF TypeOK
  <2> QED BY <2>1, <2>2 DEF TypeOK
<1>2. OneFile'
  BY DEF TypeOK, OneFile
<1>3. KernelAgrees'
  BY DEF TypeOK, OneFile, KernelAgrees
<1>4. LockInfoHonest'
  BY DEF TypeOK, OneFile, KernelAgrees, LockInfoHonest
<1>5. NothingForgotten'
  <2>1. \A q \in Proc : pc'[q] \in {"truncate", "write"} =>
          pc[q] = pc'[q] /\ file'[q] = file[q]
    BY DEF TypeOK
  <2>2. recorded' \subseteq recorded
    BY DEF CutShort
  <2>3. CASE pc[p] = "write"
    BY <2>1, <2>3 DEF NothingForgotten, CutShort
  <2>4. CASE pc[p] # "write"
    <3>1. (\A q \in Proc : pc'[q] # "write") => (\A q \in Proc : pc[q] # "write")
      BY <2>4 DEF TypeOK
    <3> QED BY <2>1, <2>4, <3>1 DEF NothingForgotten
  <2> QED BY <2>3, <2>4
<1> QED BY <1>1, <1>2, <1>3, <1>4, <1>5

(* Nothing is lost while nothing happens.                                   *)
LEMMA StutterKeeps == ASSUME LockInv, UNCHANGED vars PROVE LockInv'
BY DEF vars, LockInv, TypeOK, OneFile, KernelAgrees, LockInfoHonest, NothingForgotten, HasFile, HasLock

(* Every step of every process keeps the invariant.                         *)
LEMMA StepKeeps == ASSUME LockInv, [Next]_vars PROVE LockInv'
<1>1. CASE UNCHANGED vars
  BY <1>1, StutterKeeps
<1>2. ASSUME NEW p \in Proc, Start(p) \/ Step(p) \/ Timeout(p) \/ Crash(p)
      PROVE  LockInv'
  <2>1. CASE Step(p)
    BY <2>1, StatFileKeeps, OpenFileKeeps, TakeLockKeeps, WriteInfoKeeps, ReadInfoKeeps,
       RetryKeeps, RefreshKeeps, TruncateKeeps, WriteKeeps, RemoveInfoKeeps, ReleaseKeeps,
       SizeCheckKeeps, RemoveFileKeeps, ExitKeeps DEF Step
  <2> QED BY <1>2, <2>1, StartKeeps, TimeoutKeeps, CrashKeeps
<1> QED BY <1>1, <1>2 DEF Next

(* The invariant of every run that starts with a state file. *)
THEOREM LockInvariant == FileExists /\ Spec => []LockInv
<1>1. FileExists /\ Init => LockInv
  BY InitLock
<1>2. LockInv /\ [Next]_vars => LockInv'
  BY StepKeeps
<1> QED BY <1>1, <1>2, PTL DEF Spec

(* Lock is exclusive while the state file exists from the start: at most    *)
(* one process is between Lock and Unlock (filesystem.go:364-451), because  *)
(* all of them lock the same inode.                                         *)
THEOREM LockExcludes == FileExists /\ Spec => []MutualExclusion
<1>1. LockInv => MutualExclusion
  BY DEF LockInv, KernelAgrees, HasLock, MutualExclusion
<1> QED BY <1>1, LockInvariant, PTL

(* The lock info file names the process that works under the lock           *)
(* (filesystem.go:396-397 and 421-435).                                     *)
THEOREM LockInfoIsHonest == FileExists /\ Spec => []LockInfoHonest
<1>1. LockInv => LockInfoHonest
  BY DEF LockInv
<1> QED BY <1>1, LockInvariant, PTL

(* A recorded update stays in the file whichever calls of whichever         *)
(* processes fail or whoever is killed, as long as no write is cut short    *)
(* after the file was truncated (filesystem.go:250-279), and what is        *)
(* recorded after such a write stays again.                                 *)
THEOREM UpdatesAreKept == FileExists /\ Spec => []NoUpdateLost
<1>1. LockInv => NoUpdateLost
  <2>1. SUFFICES ASSUME LockInv, \A p \in Proc : pc[p] # "write"
                 PROVE  recorded \subseteq PathContent
    BY DEF NoUpdateLost
  <2>2. PathContent = content[0]
    BY <2>1, NoneAssumption DEF LockInv, OneFile, PathContent
  <2> QED BY <2>1, <2>2 DEF LockInv, NothingForgotten
<1> QED BY <1>1, LockInvariant, PTL

(* The manager has the file open exactly from its first attempt to lock     *)
(* until it unlocks (filesystem.go:367-371 and 437-438).                    *)
THEOREM LockTypesCorrect == FileExists /\ Spec => []TypeOK
<1>1. LockInv => TypeOK
  BY DEF LockInv
<1> QED BY <1>1, LockInvariant, PTL
------------------------------------------------------------------------------
(* The clean-up, when no state file is there at first and one process runs  *)
(* at a time.                                                               *)
Alone == \A p, q \in Proc : p = q

(* Each run creates at most one inode.                                      *)
InodesCounted ==
  /\ dir = None \/ dir < used
  /\ used <= runs
  /\ \A p \in Proc : pc[p] \in {"stat", "open"} => used < runs

(* No inode is locked but the one that the process between Lock and Unlock  *)
(* has open.                                                                *)
NobodyLocks ==
  \A p \in Proc : \A i \in Inode : holder[i] # None => (HasLock(p) \/ pc[p] = "gaveup") /\ out[p] = i

(* Unless a call failed or a process was killed, a file is there only while the process that *)
(* created it has not looked at its size or has found it empty.             *)
CreatorIsThere ==
  /\ faults = 0 /\ recorded = {} => \A i \in Inode : content[i] = {}
  /\ \A p \in Proc : pc[p] = "open" /\ dir = None => created[p]
  /\ \A p \in Proc : pc[p] = "remove" => dir # None /\ content[dir] = {}
  /\ faults = 0 /\ recorded = {} /\ dir # None =>
       \A p \in Proc : created[p] /\ (HasLock(p) \/ pc[p] \in {"lock", "size", "remove"})

CleanInv == TypeOK /\ InodesCounted /\ NobodyLocks /\ CreatorIsThere

(* It holds before the first command.                                       *)
LEMMA InitClean == ~FileExists /\ Init => CleanInv
<1> SUFFICES ASSUME ~FileExists, Init PROVE CleanInv
  OBVIOUS
<1> USE Numbers, ProcAssumption, BoundAssumption DEF Init, HasLock, HasFile
<1>1. TypeOK
  <2>1. /\ content \in [Inode -> SUBSET (Update \cup {Half})] /\ recorded \in SUBSET Update
        /\ used = 0 /\ dir = None
    OBVIOUS
  <2>2. used \in 0 .. MaxRuns + 1
    BY <2>1
  <2> QED BY <2>1, <2>2 DEF TypeOK
<1>2. InodesCounted /\ NobodyLocks /\ CreatorIsThere
  BY DEF InodesCounted, NobodyLocks, CreatorIsThere
<1> QED BY <1>1, <1>2 DEF CleanInv

(* A new command opens nothing yet.                                         *)
LEMMA StartCleans == ASSUME Alone, NEW p \in Proc, CleanInv, Start(p) PROVE CleanInv'
<1> USE Numbers, ProcAssumption, BoundAssumption
    DEF Start, CleanInv, Goto, HasLock, HasFile, disk, mgr, Alone
<1>1. TypeOK'
  <2>1. runs' \in 0 .. MaxRuns /\ runs' = runs + 1
    BY DEF TypeOK
  <2>2. run' \in [Proc -> Update]
    BY <2>1 DEF TypeOK, Update
  <2> QED BY <2>1, <2>2 DEF TypeOK
<1>2. InodesCounted'
  BY DEF TypeOK, InodesCounted
<1>3. NobodyLocks'
  BY DEF TypeOK, NobodyLocks
<1>4. CreatorIsThere'
  BY DEF TypeOK, InodesCounted, NobodyLocks, CreatorIsThere
<1> QED BY <1>1, <1>2, <1>3, <1>4

(* Whoever finds no file will have created it.                              *)
LEMMA StatFileCleans == ASSUME Alone, NEW p \in Proc, CleanInv, StatFile(p) PROVE CleanInv'
<1> USE Numbers, ProcAssumption, BoundAssumption
    DEF StatFile, CleanInv, Goto, HasLock, HasFile, disk, mgr, Alone
<1>1. TypeOK'
  BY DEF TypeOK, InodesCounted
<1>2. InodesCounted'
  BY DEF TypeOK, InodesCounted
<1>3. NobodyLocks'
  BY DEF TypeOK, NobodyLocks
<1>4. CreatorIsThere'
  <2>1. pc'[p] = "open" /\ \A q \in Proc : q = p
    BY DEF TypeOK
  <2>2. dir = None => created'[p]
    BY DEF TypeOK
  <2>3. dir # None => ~(faults = 0 /\ recorded = {})
    BY DEF CreatorIsThere
  <2> QED BY <2>1, <2>2, <2>3 DEF CreatorIsThere
<1> QED BY <1>1, <1>2, <1>3, <1>4

(* The file that is created is a new one, and this process has it.          *)
LEMMA OpenFileCleans == ASSUME Alone, NEW p \in Proc, CleanInv, OpenFile(p) PROVE CleanInv'
<1> USE Numbers, ProcAssumption, BoundAssumption
    DEF OpenFile, Fault, CleanInv, Goto, HasLock, HasFile, disk, mgr, Alone
<1>1. TypeOK'
  <2>1. used \in Nat /\ runs \in Nat /\ used < runs /\ runs <= MaxRuns
    BY DEF TypeOK, InodesCounted
  <2>2. used \in Inode /\ used + 1 \in 0 .. MaxRuns + 1 /\ used # None
    BY <2>1 DEF Inode
  <2>3. CASE Fault
    BY <2>3 DEF TypeOK
  <2>4. CASE ~Fault
    <3>1. dir' \in Inode /\ dir' # None /\ used' \in 0 .. MaxRuns + 1
      BY <2>2, <2>4 DEF TypeOK
    <3> QED BY <2>4, <3>1 DEF TypeOK
  <2> QED BY <2>3, <2>4
<1>2. InodesCounted'
  BY DEF TypeOK, InodesCounted
<1>3. NobodyLocks'
  BY DEF TypeOK, NobodyLocks
<1>4. CreatorIsThere'
  <2>1. pc'[p] \in {"lock", "exit"} /\ \A q \in Proc : q = p
    BY DEF TypeOK
  <2>2. dir = None => created[p]
    BY DEF CreatorIsThere
  <2>3. dir # None => ~(faults = 0 /\ recorded = {})
    BY DEF CreatorIsThere
  <2>4. faults' = 0 => faults = 0 /\ pc'[p] = "lock"
    BY DEF TypeOK
  <2>5. content' = content /\ recorded' = recorded /\ created' = created
    OBVIOUS
  <2>6. dir # None => dir' = dir
    OBVIOUS
  <2> QED BY <2>1, <2>2, <2>3, <2>4, <2>5, <2>6 DEF CreatorIsThere
<1> QED BY <1>1, <1>2, <1>3, <1>4

(* Nobody else has the lock.                                                *)
LEMMA TakeLockCleans == ASSUME Alone, NEW p \in Proc, CleanInv, TakeLock(p) PROVE CleanInv'
<1> USE Numbers, ProcAssumption, BoundAssumption
    DEF TakeLock, PrepareBackup, Fault, CleanInv, Goto, HasLock, HasFile, disk, mgr, Alone
<1>1. TypeOK'
  BY DEF TypeOK, InodesCounted
<1>2. InodesCounted'
  BY DEF TypeOK, InodesCounted
<1>3. NobodyLocks'
  BY DEF TypeOK, NobodyLocks
<1>4. CreatorIsThere'
  BY DEF TypeOK, InodesCounted, NobodyLocks, CreatorIsThere
<1> QED BY <1>1, <1>2, <1>3, <1>4

(* The lock info says nothing of the state.                                 *)
LEMMA WriteInfoCleans == ASSUME Alone, NEW p \in Proc, CleanInv, WriteInfo(p) PROVE CleanInv'
<1> USE Numbers, ProcAssumption, BoundAssumption
    DEF WriteInfo, Fault, CleanInv, Goto, HasLock, HasFile, disk, mgr, Alone
<1>1. TypeOK'
  BY DEF TypeOK, InodesCounted
<1>2. InodesCounted'
  BY DEF TypeOK, InodesCounted
<1>3. NobodyLocks'
  BY DEF TypeOK, NobodyLocks
<1>4. CreatorIsThere'
  BY DEF TypeOK, InodesCounted, NobodyLocks, CreatorIsThere
<1> QED BY <1>1, <1>2, <1>3, <1>4

(* A refused process changes nothing.                                       *)
LEMMA ReadInfoCleans == ASSUME Alone, NEW p \in Proc, CleanInv, ReadInfo(p) PROVE CleanInv'
<1> USE Numbers, ProcAssumption, BoundAssumption
    DEF ReadInfo, CleanInv, Goto, HasLock, HasFile, disk, mgr, Alone
<1>1. TypeOK'
  BY DEF TypeOK, InodesCounted
<1>2. InodesCounted'
  BY DEF TypeOK, InodesCounted
<1>3. NobodyLocks'
  BY DEF TypeOK, NobodyLocks
<1>4. CreatorIsThere'
  BY DEF TypeOK, InodesCounted, NobodyLocks, CreatorIsThere
<1> QED BY <1>1, <1>2, <1>3, <1>4

(* Nor does one that tries again,                                           *)
LEMMA RetryCleans == ASSUME Alone, NEW p \in Proc, CleanInv, Retry(p) PROVE CleanInv'
<1> USE Numbers, ProcAssumption, BoundAssumption
    DEF Retry, CleanInv, Goto, HasLock, HasFile, disk, mgr, Alone
<1>1. TypeOK'
  BY DEF TypeOK, InodesCounted
<1>2. InodesCounted'
  BY DEF TypeOK, InodesCounted
<1>3. NobodyLocks'
  BY DEF TypeOK, NobodyLocks
<1>4. CreatorIsThere'
  BY DEF TypeOK, InodesCounted, NobodyLocks, CreatorIsThere
<1> QED BY <1>1, <1>2, <1>3, <1>4

(* or gives up.                                                             *)
LEMMA TimeoutCleans == ASSUME Alone, NEW p \in Proc, CleanInv, Timeout(p) PROVE CleanInv'
<1> USE Numbers, ProcAssumption, BoundAssumption
    DEF Timeout, CleanInv, Goto, HasLock, HasFile, disk, mgr, Alone
<1>1. TypeOK'
  BY DEF TypeOK, InodesCounted
<1>2. InodesCounted'
  BY DEF TypeOK, InodesCounted
<1>3. NobodyLocks'
  BY DEF TypeOK, NobodyLocks
<1>4. CreatorIsThere'
  BY DEF TypeOK, InodesCounted, NobodyLocks, CreatorIsThere
<1> QED BY <1>1, <1>2, <1>3, <1>4

(* Reading writes nothing.                                                  *)
LEMMA RefreshCleans == ASSUME Alone, NEW p \in Proc, CleanInv, Refresh(p) PROVE CleanInv'
<1> USE Numbers, ProcAssumption, BoundAssumption
    DEF Refresh, Fault, CleanInv, Goto, HasLock, HasFile, disk, mgr, Alone
<1>1. TypeOK'
  BY DEF TypeOK, InodesCounted
<1>2. InodesCounted'
  BY DEF TypeOK, InodesCounted
<1>3. NobodyLocks'
  BY DEF TypeOK, NobodyLocks
<1>4. CreatorIsThere'
  BY DEF TypeOK, InodesCounted, NobodyLocks, CreatorIsThere
<1> QED BY <1>1, <1>2, <1>3, <1>4

(* A file that is emptied is empty.                                         *)
LEMMA TruncateCleans == ASSUME Alone, NEW p \in Proc, CleanInv, Truncate(p) PROVE CleanInv'
<1> USE Numbers, ProcAssumption, BoundAssumption
    DEF Truncate, Fault, CleanInv, Goto, HasLock, HasFile, disk, mgr, Alone
<1>1. TypeOK'
  BY DEF TypeOK, InodesCounted
<1>2. InodesCounted'
  BY DEF TypeOK, InodesCounted
<1>3. NobodyLocks'
  BY DEF TypeOK, NobodyLocks
<1>4. CreatorIsThere'
  BY DEF TypeOK, InodesCounted, NobodyLocks, CreatorIsThere
<1> QED BY <1>1, <1>2, <1>3, <1>4

(* What is written is recorded.                                             *)
LEMMA WriteCleans == ASSUME Alone, NEW p \in Proc, CleanInv, Write(p) PROVE CleanInv'
<1> USE Numbers, ProcAssumption, BoundAssumption
    DEF Write, Fault, CutShort, CleanInv, Goto, HasLock, HasFile, disk, mgr, Alone
<1>1. TypeOK'
  BY DEF TypeOK, InodesCounted
<1>2. InodesCounted'
  BY DEF TypeOK, InodesCounted
<1>3. NobodyLocks'
  BY DEF TypeOK, NobodyLocks
<1>4. CreatorIsThere'
  <2>1. ~(faults' = 0 /\ recorded' = {})
    BY DEF TypeOK
  <2>2. pc'[p] = "removeinfo" /\ \A q \in Proc : q = p
    BY DEF TypeOK
  <2> QED BY <2>1, <2>2 DEF CreatorIsThere
<1> QED BY <1>1, <1>2, <1>3, <1>4

(* The lock info says nothing of the state.                                 *)
LEMMA RemoveInfoCleans == ASSUME Alone, NEW p \in Proc, CleanInv, RemoveInfo(p) PROVE CleanInv'
<1> USE Numbers, ProcAssumption, BoundAssumption
    DEF RemoveInfo, Fault, CleanInv, Goto, HasLock, HasFile, disk, mgr, Alone
<1>1. TypeOK'
  BY DEF TypeOK, InodesCounted
<1>2. InodesCounted'
  BY DEF TypeOK, InodesCounted
<1>3. NobodyLocks'
  BY DEF TypeOK, NobodyLocks
<1>4. CreatorIsThere'
  BY DEF TypeOK, InodesCounted, NobodyLocks, CreatorIsThere
<1> QED BY <1>1, <1>2, <1>3, <1>4

(* The lock is free again.                                                  *)
LEMMA ReleaseCleans == ASSUME Alone, NEW p \in Proc, CleanInv, Release(p) PROVE CleanInv'
<1> USE Numbers, ProcAssumption, BoundAssumption
    DEF Release, CleanInv, Goto, HasLock, HasFile, disk, mgr, Alone
<1>1. TypeOK'
  BY DEF TypeOK, InodesCounted
<1>2. InodesCounted'
  BY DEF TypeOK, InodesCounted
<1>3. NobodyLocks'
  BY DEF TypeOK, NobodyLocks
<1>4. CreatorIsThere'
  BY DEF TypeOK, InodesCounted, NobodyLocks, CreatorIsThere
<1> QED BY <1>1, <1>2, <1>3, <1>4

(* A file is removed only when it is found empty, and left only when somebody*)
(* else created it or it was written to.                                    *)
LEMMA SizeCheckCleans == ASSUME Alone, NEW p \in Proc, CleanInv, SizeCheck(p) PROVE CleanInv'
<1> USE Numbers, ProcAssumption, BoundAssumption
    DEF SizeCheck, CleanInv, Goto, HasLock, HasFile, disk, mgr, Alone
<1>1. TypeOK'
  BY DEF TypeOK, InodesCounted
<1>2. InodesCounted'
  BY DEF TypeOK, InodesCounted
<1>3. NobodyLocks'
  BY DEF TypeOK, NobodyLocks
<1>4. CreatorIsThere'
  <2>1. faults = 0 /\ recorded = {} /\ dir # None => PathContent = {}
    BY DEF TypeOK, CreatorIsThere, PathContent
  <2>2. pc'[p] = "remove" => dir # None /\ content[dir] = {}
    BY DEF TypeOK, PathContent
  <2>3. faults = 0 /\ recorded = {} /\ dir # None => created[p] /\ pc'[p] = "remove"
    BY <2>1 DEF TypeOK, CreatorIsThere
  <2>4. pc'[p] \in {"remove", "exit"}
    BY DEF TypeOK
  <2> QED BY <2>2, <2>3, <2>4 DEF CreatorIsThere
<1> QED BY <1>1, <1>2, <1>3, <1>4

(* Once it is removed, there is none.                                       *)
LEMMA RemoveFileCleans == ASSUME Alone, NEW p \in Proc, CleanInv, RemoveFile(p) PROVE CleanInv'
<1> USE Numbers, ProcAssumption, BoundAssumption
    DEF RemoveFile, Fault, CleanInv, Goto, HasLock, HasFile, disk, mgr, Alone
<1>1. TypeOK'
  BY DEF TypeOK, InodesCounted
<1>2. InodesCounted'
  BY DEF TypeOK, InodesCounted
<1>3. NobodyLocks'
  BY DEF TypeOK, NobodyLocks
<1>4. CreatorIsThere'
  BY DEF TypeOK, InodesCounted, NobodyLocks, CreatorIsThere
<1> QED BY <1>1, <1>2, <1>3, <1>4

(* What an ended process had open is closed.                                *)
LEMMA ExitCleans == ASSUME Alone, NEW p \in Proc, CleanInv, Exit(p) PROVE CleanInv'
<1> USE Numbers, ProcAssumption, BoundAssumption
    DEF Exit, CleanInv, Goto, HasLock, HasFile, disk, mgr, Alone, Gone
<1>1. TypeOK'
  BY DEF TypeOK, InodesCounted
<1>2. InodesCounted'
  BY DEF TypeOK, InodesCounted
<1>3. NobodyLocks'
  BY DEF TypeOK, NobodyLocks
<1>4. CreatorIsThere'
  BY DEF TypeOK, InodesCounted, NobodyLocks, CreatorIsThere
<1> QED BY <1>1, <1>2, <1>3, <1>4

(* What a killed process leaves, nobody need clean up.                      *)
LEMMA CrashCleans == ASSUME Alone, NEW p \in Proc, CleanInv, Crash(p) PROVE CleanInv'
<1> USE Numbers, ProcAssumption, BoundAssumption
    DEF Crash, Fault, CutShort, CleanInv, Goto, HasLock, HasFile, disk, mgr, Alone, Gone
<1>1. TypeOK'
  BY DEF TypeOK, InodesCounted
<1>2. InodesCounted'
  BY DEF TypeOK, InodesCounted
<1>3. NobodyLocks'
  BY DEF TypeOK, NobodyLocks
<1>4. CreatorIsThere'
  BY DEF TypeOK, InodesCounted, NobodyLocks, CreatorIsThere
<1> QED BY <1>1, <1>2, <1>3, <1>4

(* Every step keeps it.                                                     *)
LEMMA EveryStepCleans == ASSUME Alone, CleanInv, [Next]_vars PROVE CleanInv'
<1>1. CASE UNCHANGED vars
  BY <1>1 DEF vars, CleanInv, TypeOK, InodesCounted, NobodyLocks, CreatorIsThere, HasFile, HasLock
<1>2. ASSUME NEW p \in Proc, Start(p) \/ Step(p) \/ Timeout(p) \/ Crash(p)
      PROVE  CleanInv'
  <2>1. CASE Step(p)
    BY <2>1, StatFileCleans, OpenFileCleans, TakeLockCleans, WriteInfoCleans, ReadInfoCleans,
       RetryCleans, RefreshCleans, TruncateCleans, WriteCleans, RemoveInfoCleans,
       ReleaseCleans, SizeCheckCleans, RemoveFileCleans, ExitCleans DEF Step
  <2> QED BY <1>2, <2>1, StartCleans, TimeoutCleans, CrashCleans
<1> QED BY <1>1, <1>2 DEF Next

(* Only RemoveFile takes the file away.                                     *)
LEMMA RemovesOnlyEmpty ==
  ASSUME CleanInv, [Next]_vars, dir # None, dir' = None PROVE content[dir] = {}
<1>1. PICK p \in Proc : Start(p) \/ Step(p) \/ Timeout(p) \/ Crash(p)
  BY DEF Next, vars
<1>2. CASE RemoveFile(p)
  BY <1>2 DEF RemoveFile, CleanInv, CreatorIsThere
<1>3. CASE ~RemoveFile(p)
  BY <1>1, <1>3 DEF Step, Start, StatFile, OpenFile, TakeLock, WriteInfo, ReadInfo, Retry,
     Timeout, Refresh, Truncate, Write, RemoveInfo, Release, SizeCheck, Exit, Crash, Gone, disk
<1> QED BY <1>2, <1>3

(* While one process runs at a time and there was no state file at first: a *)
(* command that neither wrote a state nor was killed leaves no file, and    *)
(* none that holds a state is removed, whatever was killed before           *)
(* (filesystem.go:437-451).                                                 *)
THEOREM EmptyFilesAreCleanedUp ==
  ASSUME ~FileExists, Alone, Proc # {} PROVE Spec => CleansUpOnlyEmptyFile
<1>1. Init => CleanInv
  BY InitClean
<1>2. CleanInv /\ [Next]_vars => CleanInv'
  BY EveryStepCleans
<1>3. CleanInv => (faults = 0 /\ recorded = {} /\ (\A p \in Proc : pc[p] = "idle") => dir = None)
  BY DEF CleanInv, CreatorIsThere, HasLock
<1>4. CleanInv /\ [Next]_vars => [dir # None /\ dir' = None => content[dir] = {}]_vars
  BY RemovesOnlyEmpty
<1> QED BY <1>1, <1>2, <1>3, <1>4, PTL DEF Spec, CleansUpOnlyEmptyFile
=============================================================================
