--------------------------- MODULE LocalStateProofs ---------------------------
(***************************************************************************)
(* What LocalState promises of the state file and its backup, for any      *)
(* resources, any snapshots to begin with and to push, and any number of   *)
(* commands, changes, interrupts, failing calls and kills.                 *)
(***************************************************************************)
EXTENDS LocalState, TLAPS

\* The parts of the inductive invariant.

\* Before RefreshState a command has done nothing, and without a command, or
\* after its Unlock, there is no lock.
Fresh ==
  /\ phase = "idle" => lock = "off"
  /\ phase \in {"orphaned", "unlocked"} => lock # "held"
  /\ phase = "locked" => disk = original
  /\ phase \in {"idle", "locked"} => unreported = {} /\ ~flushed

\* Only an apply is interrupted.
StopsApply == phase \in {"idle", "locked", "pushing", "pushed", "failed"} => stop = "no"

\* The original is in the file, then in memory, then in the backup file.
BackedUpFile ==
  /\ ~mgr.out => disk = original /\ ~mgr.writtenBackup
  /\ mgr.out => mgr.backupFile = original
  /\ mgr.writtenBackup => backup = original
  /\ ~mgr.writtenBackup /\ IsSnapshot(disk) => disk.st = original.st

Backups == phase # "idle" /\ lock # "released" /\ IsSnapshot(original) => BackedUpFile

\* The manager m would write a successor of what is in the file.
Later(m) == IsSnapshot(disk) => m.file # Nil /\ Succeeds(m.file, disk)

\* The apply of a command that still has its lock.
OfApply == {"applying", "unsaved", "done", "refused", "cancelled"}

\* So would the apply, as long as any part of it is under way.
LaterInApply ==
  phase \in OfApply \cup {"orphaned"} \/ stop # "no" => Later(mgr)

\* A push compares with what is in the file.
ReadsForPush == phase = "pushing" => mgr.readFile = disk

\* A command that found a snapshot does not read the file again.
ReadOnce ==
  phase \notin {"idle", "locked"} /\ IsSnapshot(original)
    => mgr.readFile # Nil /\ mgr.file # Nil

\* The working state differs from what was reported by what was not.
Reports == phase = "applying" => \A r \in Res \ unreported : r \in real <=> r \in reported

\* The manager has what was reported to the hook.
Told ==
  /\ phase \in OfApply \cup {"pushing"} /\ IsSnapshot(original)
       => mgr.file.st = reported
  /\ phase = "pushed" => ~flushed

\* Under the lock only a call that failed leaves the file torn, or makes the
\* last write fail.
Failed == lock = "held" /\ (disk = Torn \/ phase = "unsaved") => faults > 0

LocalInv ==
  /\ TypeOK /\ Fresh /\ StopsApply /\ Backups /\ LaterInApply /\ ReadsForPush /\ ReadOnce
  /\ Reports /\ Told /\ ReportsOverSnapshotPersisted /\ Failed /\ OneFailureKept

USE DEF OfApply

-----------------------------------------------------------------------------
\* What WriteState, MutateState and PersistState make of a manager.

\* A manager that differs from the command's in what it has in memory only.
Derived(m) ==
  /\ m \in Manager
  /\ m.out = mgr.out /\ m.backupFile = mgr.backupFile /\ m.writtenBackup = mgr.writtenBackup

\* What is written to a file is a snapshot.
LEMMA FileOfSnapshot ==
  ASSUME TypeOK, NEW m \in Manager
  PROVE  /\ FileOf(m) \in Snapshot /\ FileOf(m) # Nil
         /\ m.file # Nil => FileOf(m) = m.file
<1>1. NewStateFile \in Snapshot
  <2>1. 100 + runs \in Nat BY BoundAssumption DEF TypeOK
  <2> QED BY <2>1 DEF NewStateFile, Snapshot
<1> QED BY <1>1, NilAssumption DEF FileOf, Manager

\* Writing a state keeps lineage and serial.
LEMMA WithStateFacts ==
  ASSUME TypeOK, NEW m \in Manager, NEW st \in SUBSET Res
  PROVE  /\ WithState(m, st) \in Manager
         /\ WithState(m, st) = [m EXCEPT !.file = WithState(m, st).file]
         /\ WithState(m, st).file \in Snapshot /\ WithState(m, st).file # Nil
         /\ WithState(m, st).file.st = st
         /\ WithState(m, st).file.lin = FileOf(m).lin
         /\ WithState(m, st).file.ser = FileOf(m).ser
         /\ WithState(m, st).out = m.out /\ WithState(m, st).readFile = m.readFile
         /\ WithState(m, st).backupFile = m.backupFile
         /\ WithState(m, st).writtenBackup = m.writtenBackup
<1>1. FileOf(m) \in Snapshot BY FileOfSnapshot
<1> PICK f \in Snapshot : f = FileOf(m) BY <1>1
<1> PICK g \in Snapshot : g = [f EXCEPT !.st = st] BY DEF Snapshot
<1>2. g.st = st /\ g.lin = f.lin /\ g.ser = f.ser /\ g # Nil BY NilAssumption DEF Snapshot
<1>3. WithState(m, st) = [m EXCEPT !.file = g] BY DEF WithState
<1> QED BY <1>2, <1>3 DEF Manager

\* Reading first takes what is in the file, which a successor succeeds.
LEMMA LoadedFacts ==
  ASSUME TypeOK, NEW m \in Manager, ~Unreadable(m)
  PROVE  /\ Loaded(m) \in Manager
         /\ m.readFile # Nil => Loaded(m) = m
         /\ m.readFile = Nil => Loaded(m).file = disk /\ Loaded(m).readFile = disk
         /\ Loaded(m).out = m.out /\ Loaded(m).backupFile = m.backupFile
         /\ Loaded(m).writtenBackup = m.writtenBackup
<1>1. m.readFile = Nil => disk \in Snapshot \cup {Nil} BY DEF TypeOK, Unreadable
<1> QED BY <1>1 DEF Loaded, Refreshed, Manager

\* The serial does not go back.
LEMMA NumberedFacts ==
  ASSUME TypeOK, NEW m \in Manager
  PROVE  /\ Numbered(m) \in Manager
         /\ Numbered(m).file \in Snapshot /\ Numbered(m).file # Nil
         /\ Numbered(m).file.st = FileOf(m).st /\ Numbered(m).file.lin = FileOf(m).lin
         /\ Numbered(m).file.ser >= FileOf(m).ser
         /\ Numbered(m).out = m.out /\ Numbered(m).readFile = m.readFile
         /\ Numbered(m).backupFile = m.backupFile
         /\ Numbered(m).writtenBackup = m.writtenBackup
<1>1. FileOf(m) \in Snapshot BY FileOfSnapshot
<1>2. NextSerial(m) \in Nat /\ NextSerial(m) >= FileOf(m).ser
  BY <1>1 DEF NextSerial, Snapshot
<1> PICK n \in Nat : n = NextSerial(m) /\ n >= FileOf(m).ser BY <1>2
<1> PICK f \in Snapshot : f = FileOf(m) BY <1>1
<1> PICK g \in Snapshot : g = [f EXCEPT !.ser = n] BY DEF Snapshot
<1>3. g.st = f.st /\ g.lin = f.lin /\ g.ser = n /\ g # Nil BY NilAssumption DEF Snapshot
<1>4. Numbered(m) = [m EXCEPT !.file = g] BY DEF Numbered
<1> QED BY <1>3, <1>4 DEF Manager

\* Opening the file notes what is in it.
LEMMA OpenedFacts ==
  ASSUME TypeOK, NEW m \in Manager, m.out \/ disk # Torn
  PROVE  /\ Opened(m) \in Manager /\ Opened(m).out
         /\ Opened(m).file = m.file /\ Opened(m).readFile = m.readFile
         /\ m.out => Opened(m) = m
         /\ ~m.out => Opened(m).backupFile = disk
         /\ Opened(m).writtenBackup = m.writtenBackup
<1>1. ~m.out => disk \in Snapshot \cup {Nil} BY DEF TypeOK
<1> QED BY <1>1 DEF Opened, Manager

\* The manager that writes, with its file open and its backup written.
Writing(m) == LET o == Opened(m) IN IF NeedsBackup(o) THEN BackedUp(o) ELSE o

LEMMA WritingFacts ==
  ASSUME TypeOK, NEW m \in Manager, m.out \/ disk # Torn
  PROVE  /\ Writing(m) \in Manager /\ Writing(m).out
         /\ Writing(m).file = m.file /\ Writing(m).readFile = m.readFile
         /\ FileOf(Writing(m)) = FileOf(m)
         /\ Writing(m).backupFile = Opened(m).backupFile
         /\ Writing(m).writtenBackup <=> m.writtenBackup \/ NeedsBackup(Opened(m))
<1> PICK o \in Manager : o = Opened(m) BY OpenedFacts
<1>1. /\ o.out /\ o.file = m.file /\ o.readFile = m.readFile
      /\ o.writtenBackup = m.writtenBackup /\ m.writtenBackup \in BOOLEAN
  BY OpenedFacts DEF Manager
<1>2. Writing(m) = IF NeedsBackup(o) THEN [o EXCEPT !.writtenBackup = TRUE] ELSE o
  BY DEF Writing, BackedUp
<1>3. /\ Writing(m) \in Manager /\ Writing(m).out
      /\ Writing(m).file = m.file /\ Writing(m).readFile = m.readFile
      /\ Writing(m).backupFile = o.backupFile
      /\ Writing(m).writtenBackup <=> m.writtenBackup \/ NeedsBackup(o)
  BY <1>1, <1>2 DEF Manager
<1> QED BY <1>3 DEF FileOf

\* What PersistState does, whatever fails in it: in memory only the serial
\* may change, and the file is as before, emptied, torn, or what is in memory.
LEMMA PersistEffect ==
  ASSUME TypeOK, NEW m \in Manager, PersistState(m)
  PROVE  /\ mgr' \in Manager /\ disk' \in Snapshot \cup {Nil, Torn}
         /\ backup' \in Snapshot \cup {Nil, Torn} /\ result' \in {"nil", "error"}
         /\ faults' \in 0 .. MaxFaults
         /\ mgr'.readFile = m.readFile
         /\ m.out => mgr'.out
         /\ m.file # Nil => /\ mgr'.file # Nil /\ mgr'.file.st = m.file.st
                            /\ mgr'.file.lin = m.file.lin /\ mgr'.file.ser >= m.file.ser
         /\ disk' \in {disk, Nil, Torn} \/ (disk' = mgr'.file /\ mgr'.file \in Snapshot
                                            /\ mgr'.file.st = FileOf(m).st)
         /\ m.out /\ result' = "nil" => disk' = mgr'.file /\ mgr'.file \in Snapshot
                                        /\ mgr'.file.st = FileOf(m).st
         /\ faults' >= faults
         /\ result' = "error" \/ (disk' = Torn /\ disk # Torn) => faults' > 0
<1>f. FileOf(m) \in Snapshot /\ FileOf(m).st \in SUBSET Res /\ FileOf(m).ser \in Nat
      /\ (m.file # Nil => FileOf(m) = m.file)
  BY FileOfSnapshot DEF Snapshot
<1>g. Fail => faults' \in 0 .. MaxFaults /\ faults' >= faults /\ faults' > 0
  BY BoundAssumption DEF Fail, TypeOK
<1>h. UNCHANGED faults => faults' \in 0 .. MaxFaults /\ faults' >= faults BY DEF TypeOK
<1>s. \A f \in Snapshot : f # Torn BY NilAssumption
<1>1. CASE PersistSwallowed(m)
  <2>1. /\ ~m.out /\ result' = "nil" /\ disk' = disk /\ backup' = backup
        /\ mgr' = m \/ mgr' = [m EXCEPT !.out = TRUE]
        /\ Fail \/ UNCHANGED faults
    BY <1>1 DEF PersistSwallowed
  <2>2. mgr' \in Manager /\ mgr'.readFile = m.readFile /\ mgr'.file = m.file BY <2>1 DEF Manager
  <2> QED BY <2>1, <2>2, <1>f, <1>g, <1>h DEF TypeOK
<1>2. CASE PersistBackupFails(m)
  <2>1. /\ m.out \/ disk # Torn
        /\ Fail /\ backup' \in {backup, Torn} /\ result' = "error" /\ disk' = disk
        /\ mgr' = WithState(Opened(m), FileOf(m).st)
    BY <1>2 DEF PersistBackupFails
  <2> PICK o \in Manager : o = Opened(m) BY <2>1, OpenedFacts
  <2>2. o.out /\ o.file = m.file /\ o.readFile = m.readFile BY <2>1, OpenedFacts
  <2>3. FileOf(o) = FileOf(m) BY <2>2 DEF FileOf
  <2>4. /\ mgr' \in Manager /\ mgr'.file # Nil /\ mgr'.file.st = FileOf(m).st
        /\ mgr'.file.lin = FileOf(m).lin /\ mgr'.file.ser = FileOf(m).ser
        /\ mgr'.out = o.out /\ mgr'.readFile = o.readFile
    BY <2>1, <2>3, <1>f, WithStateFacts
  <2> QED BY <2>1, <2>2, <2>4, <1>f, <1>g DEF TypeOK
<1>3. CASE PersistWrites(m)
  <2>1. /\ m.out \/ disk # Torn
        /\ backup' = IF NeedsBackup(Opened(m)) THEN Writing(m).backupFile ELSE backup
        /\ \/ /\ mgr' = Numbered(Writing(m))
              /\ \/ disk' = mgr'.file /\ result' = "nil" /\ UNCHANGED faults
                 \/ disk' \in {Nil, Torn} /\ result' = "error" /\ Fail
           \/ mgr' = WithState(Writing(m), FileOf(m).st) /\ result' = "error" /\ Fail
              /\ UNCHANGED disk
    BY <1>3 DEF PersistWrites, Writing
  <2> PICK b \in Manager : b = Writing(m) BY <2>1, WritingFacts
  <2>2. b.out /\ b.file = m.file /\ b.readFile = m.readFile /\ FileOf(b) = FileOf(m)
    BY <2>1, WritingFacts
  <2>3. backup' \in Snapshot \cup {Nil, Torn} BY <2>1 DEF TypeOK, Manager
  <2>4. CASE mgr' = Numbered(b)
    <3>1. /\ mgr' \in Manager /\ mgr'.file \in Snapshot /\ mgr'.file # Nil
          /\ mgr'.file.st = FileOf(m).st /\ mgr'.file.lin = FileOf(m).lin
          /\ mgr'.file.ser >= FileOf(m).ser /\ mgr'.out = b.out /\ mgr'.readFile = b.readFile
      BY <2>4, <2>2, NumberedFacts
    <3> QED BY <2>1, <2>2, <2>3, <3>1, <1>f, <1>g, <1>h, <1>s DEF TypeOK
  <2>5. CASE mgr' = WithState(b, FileOf(m).st) /\ result' = "error" /\ Fail /\ UNCHANGED disk
    <3> PICK st \in SUBSET Res : st = FileOf(m).st BY <1>f
    <3> PICK w \in Manager : w = WithState(b, st) BY WithStateFacts
    <3>0. /\ w.file # Nil /\ w.file.st = st /\ w.file.lin = FileOf(b).lin
          /\ w.file.ser = FileOf(b).ser /\ w.out = b.out /\ w.readFile = b.readFile
      BY WithStateFacts
    <3>1. /\ mgr' \in Manager /\ mgr'.file # Nil
          /\ mgr'.file.st = FileOf(m).st /\ mgr'.file.lin = FileOf(m).lin
          /\ mgr'.file.ser = FileOf(m).ser /\ mgr'.out = b.out /\ mgr'.readFile = b.readFile
      BY <3>0, <2>5, <2>2
    <3> QED BY <2>5, <2>2, <2>3, <3>1, <1>f, <1>g DEF TypeOK
  <2> QED BY <2>1, <2>4, <2>5
<1> QED BY <1>1, <1>2, <1>3 DEF PersistState

\* PersistState writes the original to the backup file before another state
\* to the state file (filesystem.go:216-217).
LEMMA PersistBacksUp ==
  ASSUME TypeOK, NEW m, Derived(m), PersistState(m), IsSnapshot(original), BackedUpFile,
         UNCHANGED original
  PROVE  BackedUpFile'
<1> USE DEF IsSnapshot
<1>a. /\ m \in Manager
      /\ ~m.out => disk = original /\ ~m.writtenBackup
      /\ m.out => m.backupFile = original
      /\ m.writtenBackup => backup = original
      /\ ~m.writtenBackup /\ disk \notin {Nil, Torn} => disk.st = original.st
  BY DEF Derived, BackedUpFile
<1>f. FileOf(m) \in Snapshot /\ FileOf(m).st \in SUBSET Res
  BY <1>a, FileOfSnapshot DEF Snapshot
<1>1. CASE PersistSwallowed(m)
  <2>1. mgr' = m /\ disk' = disk /\ backup' = backup
    BY <1>1, <1>a DEF PersistSwallowed
  <2> QED BY <2>1, <1>a DEF BackedUpFile
<1>o. m.out \/ disk # Torn BY <1>1, <1>a
<1> PICK o \in Manager : o = Opened(m) BY <1>a, <1>o, OpenedFacts
<1>b. /\ o.out /\ o.backupFile = original /\ o.writtenBackup = m.writtenBackup
      /\ o.file = m.file /\ FileOf(o) = FileOf(m)
  BY <1>a, <1>o, OpenedFacts DEF FileOf
<1>c. NeedsBackup(o) <=> ~m.writtenBackup /\ FileOf(m).st # original.st
  BY <1>b DEF NeedsBackup
<1>2. CASE PersistBackupFails(m)
  <2>1. ~m.writtenBackup /\ disk' = disk /\ mgr' = WithState(o, FileOf(m).st)
    BY <1>2, <1>c DEF PersistBackupFails
  <2>2. mgr'.out = o.out /\ mgr'.backupFile = o.backupFile /\ mgr'.writtenBackup = o.writtenBackup
    BY <2>1, <1>f, WithStateFacts
  <2> QED BY <2>1, <2>2, <1>a, <1>b DEF BackedUpFile
<1>3. CASE PersistWrites(m)
  <2> PICK b \in Manager : b = Writing(m) BY <1>a, <1>o, WritingFacts
  <2>1. /\ b.out /\ b.backupFile = original /\ FileOf(b) = FileOf(m)
        /\ b.writtenBackup <=> m.writtenBackup \/ FileOf(m).st # original.st
    BY <1>a, <1>b, <1>c, <1>o, WritingFacts
  <2>2. /\ backup' = IF NeedsBackup(o) THEN b.backupFile ELSE backup
        /\ \/ mgr' = Numbered(b) /\ disk' \in {mgr'.file, Nil, Torn}
           \/ mgr' = WithState(b, FileOf(m).st) /\ UNCHANGED disk
    BY <1>3 DEF PersistWrites, Writing
  <2>3. /\ mgr'.out = b.out /\ mgr'.backupFile = b.backupFile
        /\ mgr'.writtenBackup = b.writtenBackup
        /\ disk' = disk \/ disk' \in {Nil, Torn} \/ disk'.st = FileOf(m).st
    <3>1. CASE mgr' = Numbered(b) /\ disk' \in {mgr'.file, Nil, Torn}
      BY ZenonT(60), <3>1, <2>1, NumberedFacts
    <3>2. CASE mgr' = WithState(b, FileOf(m).st) /\ UNCHANGED disk
      <4> PICK st \in SUBSET Res : st = FileOf(m).st BY <1>f
      <4>1. mgr' = WithState(b, st) BY <3>2
      <4> QED BY <4>1, <3>2, WithStateFacts
    <3> QED BY <2>2, <3>1, <3>2
  <2>4. b.writtenBackup => backup' = original
    BY <2>1, <2>2, <1>a, <1>c
  <2> QED BY <2>1, <2>3, <2>4, <1>a DEF BackedUpFile
<1> QED BY <1>1, <1>2, <1>3 DEF PersistState

\* A manager that would write a successor does, and would again.
LEMMA PersistSucceeds ==
  ASSUME TypeOK, NEW m \in Manager, PersistState(m), Later(m)
  PROVE  /\ Later(mgr)'
         /\ IsSnapshot(disk) /\ IsSnapshot(disk') => Succeeds(disk', disk)
<1>1. /\ mgr' \in Manager
      /\ m.file # Nil => /\ mgr'.file # Nil /\ mgr'.file.st = m.file.st
                         /\ mgr'.file.lin = m.file.lin /\ mgr'.file.ser >= m.file.ser
      /\ disk' \in {disk, Nil, Torn} \/ (disk' = mgr'.file /\ mgr'.file \in Snapshot)
  BY PersistEffect
<1>2. /\ IsSnapshot(disk) => disk.ser \in Nat
      /\ mgr'.file # Nil => mgr'.file.ser \in Nat /\ mgr'.file \in Snapshot
      /\ m.file # Nil => m.file.ser \in Nat
  BY <1>1 DEF TypeOK, IsSnapshot, Manager, Snapshot
<1>3. IsSnapshot(disk) => mgr'.file # Nil /\ Succeeds(mgr'.file, disk)
  BY <1>1, <1>2 DEF Later, Succeeds
<1>4. mgr'.file \in Snapshot => mgr'.file # Nil /\ Succeeds(mgr'.file, mgr'.file)
  BY NilAssumption DEF Succeeds, Snapshot
<1>5. IsSnapshot(disk') => disk' = disk \/ (disk' = mgr'.file /\ mgr'.file \in Snapshot)
  BY <1>1 DEF IsSnapshot
<1>6. IsSnapshot(disk') => mgr'.file # Nil /\ Succeeds(mgr'.file, disk')
  BY <1>3, <1>4, <1>5
<1>7. IsSnapshot(disk) /\ IsSnapshot(disk') => Succeeds(disk', disk)
  <2>1. IsSnapshot(disk) => Succeeds(disk, disk) BY <1>2 DEF Succeeds
  <2> QED BY <1>3, <1>5, <2>1
<1> QED BY <1>6, <1>7 DEF Later, Succeeds, IsSnapshot

\* WriteState and MutateState leave it such a manager.
LEMMA WriteStateFacts ==
  ASSUME TypeOK, NEW m \in Manager, ~Unreadable(m), NEW st \in SUBSET Res
  PROVE  LET w == WithState(Loaded(m), st)
         IN /\ w \in Manager /\ w.file # Nil /\ w.file.st = st
            /\ FileOf(w).st = st
            /\ w.out = m.out /\ w.backupFile = m.backupFile
            /\ w.writtenBackup = m.writtenBackup
            /\ m.readFile # Nil => w.readFile = m.readFile
            /\ Later(m) => Later(w)
<1> PICK l \in Manager : l = Loaded(m) BY LoadedFacts
<1>1. /\ m.readFile # Nil => l = m
      /\ m.readFile = Nil => l.file = disk /\ l.readFile = disk
      /\ l.out = m.out /\ l.backupFile = m.backupFile /\ l.writtenBackup = m.writtenBackup
  BY LoadedFacts
<1>2. Later(m) => Later(l)
  <2>1. IsSnapshot(disk) => disk # Nil /\ Succeeds(disk, disk)
    BY DEF IsSnapshot, Succeeds, TypeOK, Snapshot
  <2> QED BY <1>1, <2>1 DEF Later
<1> PICK w \in Manager : w = WithState(l, st) BY WithStateFacts
<1>3. /\ w.file # Nil /\ w.file.st = st /\ w.file.lin = FileOf(l).lin
      /\ w.file.ser = FileOf(l).ser /\ w.out = l.out /\ w.readFile = l.readFile
      /\ w.backupFile = l.backupFile /\ w.writtenBackup = l.writtenBackup
  BY WithStateFacts
<1>4. FileOf(w).st = st BY <1>3 DEF FileOf
<1>5. Later(l) => Later(w) BY <1>3 DEF Later, FileOf, Succeeds
<1> QED BY <1>1, <1>2, <1>3, <1>4, <1>5

-----------------------------------------------------------------------------
\* It holds whatever the state file holds to begin with.
LEMMA LocalInit == Init => LocalInv
<1> SUFFICES ASSUME Init PROVE LocalInv OBVIOUS
<1> USE DEF Init
<1>1. TypeOK
  <2>1. NewManager \in Manager BY DEF NewManager, Manager
  <2>2. hook \in [ticking : BOOLEAN, force : BOOLEAN] OBVIOUS
  <2>3. disk \in Snapshot \cup {Nil, Torn} BY DiskAssumption
  <2>4. runs \in 0 .. MaxRuns /\ changes \in 0 .. MaxChanges /\ faults \in 0 .. MaxFaults
    BY BoundAssumption
  <2>5. /\ backup = Nil /\ rescue = Nil /\ real = {} /\ unreported = {} /\ reported = {}
        /\ phase = "idle" /\ lock = "off" /\ stop = "no" /\ result = "nil" /\ original = Nil
        /\ flushed = FALSE
    OBVIOUS
  <2>6. mgr \in Manager BY <2>1
  <2> HIDE DEF Init
  <2> QED BY <2>2, <2>3, <2>4, <2>5, <2>6 DEF TypeOK
<1>2. Fresh /\ StopsApply /\ Backups /\ LaterInApply /\ ReadsForPush /\ ReadOnce
  BY DEF Fresh, StopsApply, Backups, LaterInApply, ReadsForPush, ReadOnce
<1>3. Reports /\ Told /\ ReportsOverSnapshotPersisted /\ Failed /\ OneFailureKept
  BY DEF Reports, Told, ReportsOverSnapshotPersisted, ReportedIsPersisted, LockedApplyKept,
         AppliedStateKept, Failed, OneFailureKept
<1> QED BY <1>1, <1>2, <1>3 DEF LocalInv

\* The end of a process leaves nothing but the files to answer for.
LEMMA IdleKeeps ==
  ASSUME LocalInv, Idle, disk' \in {disk, Nil, Torn}, UNCHANGED <<backup, rescue, runs>>,
         faults' \in 0 .. MaxFaults
  PROVE  LocalInv'
<1> USE DEF LocalInv, Idle
<1>1. TypeOK'
  <2>1. NewManager \in Manager BY DEF NewManager, Manager
  <2>2. hook' \in [ticking : BOOLEAN, force : BOOLEAN] OBVIOUS
  <2>3. disk' \in Snapshot \cup {Nil, Torn} /\ changes' \in 0 .. MaxChanges
    BY BoundAssumption DEF TypeOK
  <2>4. mgr' \in Manager BY <2>1
  <2>5. /\ real' = {} /\ unreported' = {} /\ reported' = {} /\ phase' = "idle"
        /\ lock' = "off" /\ stop' = "no" /\ result' = "nil" /\ original' = Nil
        /\ flushed' = FALSE
    OBVIOUS
  <2> HIDE DEF Idle
  <2> QED BY <2>2, <2>3, <2>4, <2>5 DEF TypeOK
<1>2. Fresh' /\ StopsApply' /\ Backups' /\ LaterInApply' /\ ReadsForPush' /\ ReadOnce'
  BY DEF Fresh, StopsApply, Backups, LaterInApply, ReadsForPush, ReadOnce
<1>3. Reports' /\ Told' /\ ReportsOverSnapshotPersisted' /\ Failed' /\ OneFailureKept'
  BY DEF Reports, Told, ReportsOverSnapshotPersisted, ReportedIsPersisted, LockedApplyKept,
         AppliedStateKept, Failed, OneFailureKept
<1> QED BY <1>1, <1>2, <1>3

\* A command starts with the file as it is, which it opens to lock it.
LEMMA StartKeeps == ASSUME LocalInv, Start PROVE LocalInv'
<1> USE DEF LocalInv, Start, files, core
<1>0. /\ phase = "idle" /\ phase' = "locked" /\ lock = "off" /\ stop = "no" /\ disk' = disk
      /\ original' = disk /\ lock' \in {"held", "off"} /\ unreported = {} /\ ~flushed
  BY DEF Fresh, StopsApply
<1>a. /\ NewManager \in Manager /\ ~NewManager.out /\ ~NewManager.writtenBackup
      /\ NewManager.file = Nil /\ NewManager.readFile = Nil
  BY DEF NewManager, Manager
<1>b. disk # Torn => /\ Opened(NewManager) \in Manager /\ Opened(NewManager).out
                     /\ Opened(NewManager).backupFile = disk
                     /\ ~Opened(NewManager).writtenBackup
  BY <1>a, OpenedFacts
<1>1. TypeOK' BY <1>a, <1>b, BoundAssumption DEF TypeOK
<1>2. Fresh' /\ StopsApply' /\ LaterInApply' /\ ReadsForPush' /\ ReadOnce'
  BY <1>0 DEF Fresh, StopsApply, LaterInApply, ReadsForPush, ReadOnce
<1>3. Backups' BY <1>0, <1>a, <1>b DEF Backups, BackedUpFile
<1>4. Reports' /\ Told' /\ Failed' /\ OneFailureKept' 
  BY <1>0 DEF Reports, Told, LockedApplyKept, AppliedStateKept, Failed, OneFailureKept
<1>5. ReportsOverSnapshotPersisted'
  BY <1>0 DEF ReportsOverSnapshotPersisted, ReportedIsPersisted
<1> QED BY <1>1, <1>2, <1>3, <1>4, <1>5

\* RefreshState reads what the command found.
LEMMA RefreshStateKeeps == ASSUME LocalInv, RefreshState PROVE LocalInv'
<1> USE DEF LocalInv, RefreshState, files
<1>0. /\ phase = "locked" /\ stop = "no" /\ disk = original /\ ~flushed /\ unreported = {}
      /\ UNCHANGED <<disk, backup, rescue, lock, unreported, hook, stop, original>>
  BY DEF Fresh, StopsApply
<1>1. CASE disk = Torn
  <2>1. phase' = "failed" /\ UNCHANGED <<mgr, real, reported, flushed>> BY <1>1
  <2>2. TypeOK' BY <2>1 DEF TypeOK
  <2>3. Fresh' /\ StopsApply' /\ LaterInApply' /\ ReadsForPush' /\ ReadOnce' /\ Backups'
    BY <1>0, <1>1, <2>1 DEF Fresh, StopsApply, LaterInApply, ReadsForPush, ReadOnce, Backups,
                            IsSnapshot
  <2>4. Reports' /\ Told' /\ ReportsOverSnapshotPersisted' /\ Failed' /\ OneFailureKept'
    BY <1>0, <1>1, <2>1 DEF Reports, Told, ReportsOverSnapshotPersisted, ReportedIsPersisted,
                            LockedApplyKept, AppliedStateKept, Failed, OneFailureKept,
                            IsSnapshot
  <2> QED BY <2>2, <2>3, <2>4
<1>2. CASE disk # Torn
  <2>1. /\ phase' \in {"applying", "pushing"} /\ mgr' = Refreshed(mgr)
        /\ real' = StateOf(disk) /\ reported' = StateOf(disk) /\ flushed' = (disk # Nil)
    BY <1>2
  <2>2. disk \in Snapshot \cup {Nil} /\ mgr \in Manager BY <1>2 DEF TypeOK
  <2>3. /\ mgr' \in Manager /\ mgr'.file = disk /\ mgr'.readFile = disk /\ mgr'.out = mgr.out
        /\ mgr'.backupFile = mgr.backupFile /\ mgr'.writtenBackup = mgr.writtenBackup
    BY <2>1, <2>2 DEF Refreshed, Manager
  <2>4. StateOf(disk) \in SUBSET Res BY <2>2 DEF StateOf, Snapshot
  <2>5. TypeOK' BY <2>1, <2>3, <2>4 DEF TypeOK
  <2>6. Fresh' /\ StopsApply' /\ ReadsForPush' /\ ReadOnce'
    BY <1>0, <2>1, <2>3 DEF Fresh, StopsApply, ReadsForPush, ReadOnce, IsSnapshot
  <2>7. Backups' BY <1>0, <2>1, <2>3 DEF Backups, BackedUpFile
  <2>8. LaterInApply'
    <3>1. IsSnapshot(disk) => Succeeds(disk, disk)
      BY <2>2 DEF Succeeds, Snapshot, IsSnapshot
    <3> QED BY <1>0, <2>3, <3>1 DEF LaterInApply, Later, IsSnapshot
  <2>9. Reports' /\ Told' /\ ReportsOverSnapshotPersisted' /\ Failed' /\ OneFailureKept'
    BY <1>0, <2>1, <2>3 DEF Reports, Told, ReportsOverSnapshotPersisted, ReportedIsPersisted,
                            LockedApplyKept, AppliedStateKept, Failed, OneFailureKept,
                            IsSnapshot, StateOf
  <2> QED BY <2>5, <2>6, <2>7, <2>8, <2>9
<1> QED BY <1>1, <1>2

\* A change is one to report.
LEMMA ChangeKeeps == ASSUME LocalInv, NEW r \in Res, Change(r) PROVE LocalInv'
<1> USE DEF LocalInv, Change, files, hist, Applying
<1>1. TypeOK' BY BoundAssumption DEF TypeOK
<1>2. Fresh' /\ StopsApply' /\ ReadsForPush' /\ ReadOnce'
  BY DEF Fresh, StopsApply, ReadsForPush, ReadOnce
<1>3. Backups' /\ LaterInApply' BY DEF Backups, BackedUpFile, LaterInApply, Later
<1>4. Reports' BY DEF Reports, TypeOK
<1>5. Told' /\ ReportsOverSnapshotPersisted' /\ Failed' /\ OneFailureKept'
  BY DEF Told, ReportsOverSnapshotPersisted, ReportedIsPersisted, LockedApplyKept,
         AppliedStateKept, Failed, OneFailureKept
<1> QED BY <1>1, <1>2, <1>3, <1>4, <1>5

\* A step of an apply that persists what the hook was told of, or what is in
\* memory when nobody waits for the file any more.
LEMMA PersistInApply ==
  ASSUME LocalInv, NEW m, Derived(m), PersistState(m), Later(m),
         phase \notin {"idle", "locked", "pushing", "pushed", "failed"},
         phase' \in {phase, "done", "unsaved"}, flushed' = (result' = "nil"),
         phase' = "unsaved" => phase = "unsaved" \/ result' = "error",
         UNCHANGED <<lock, original, runs>>,
         IsSnapshot(original) => /\ m.file # Nil /\ m.readFile # Nil
                                 /\ phase \in OfApply
                                      => m.file.st = reported'
  PROVE  /\ mgr' \in Manager /\ disk' \in Snapshot \cup {Nil, Torn}
         /\ backup' \in Snapshot \cup {Nil, Torn} /\ result' \in {"nil", "error"}
         /\ faults' \in 0 .. MaxFaults
         /\ lock' = "held" => mgr'.out
         /\ Backups' /\ LaterInApply' /\ ReadsForPush' /\ ReadOnce'
         /\ Failed'
         /\ (phase' # phase => phase = "applying") => Told' /\ ReportsOverSnapshotPersisted'
<1>m. m \in Manager /\ m.out = mgr.out BY DEF Derived
<1>1. /\ mgr' \in Manager /\ disk' \in Snapshot \cup {Nil, Torn}
      /\ backup' \in Snapshot \cup {Nil, Torn} /\ result' \in {"nil", "error"}
      /\ faults' \in 0 .. MaxFaults
      /\ mgr'.readFile = m.readFile
      /\ m.out => mgr'.out
      /\ m.file # Nil => mgr'.file # Nil /\ mgr'.file.st = m.file.st
      /\ m.out /\ result' = "nil" => disk' = mgr'.file /\ mgr'.file \in Snapshot
      /\ faults' >= faults
      /\ result' = "error" \/ (disk' = Torn /\ disk # Torn) => faults' > 0
  BY <1>m, PersistEffect DEF LocalInv
<1>2. lock' = "held" => mgr'.out BY <1>1, <1>m DEF LocalInv, TypeOK
<1>3. Backups'
  <2> SUFFICES ASSUME lock # "released", IsSnapshot(original) PROVE BackedUpFile' 
    BY DEF Backups
  <2>1. BackedUpFile BY DEF LocalInv, Backups
  <2> QED BY <2>1, PersistBacksUp DEF LocalInv
<1>4. LaterInApply' BY <1>m, PersistSucceeds DEF LaterInApply, LocalInv
<1>5. ReadsForPush' /\ ReadOnce' BY <1>1 DEF ReadsForPush, ReadOnce
<1>6. ASSUME phase' # phase => phase = "applying" PROVE Told'
  BY <1>1, <1>6 DEF Told
<1>8. Failed' BY <1>1 DEF Failed, LocalInv, TypeOK
<1>7. ASSUME phase' # phase => phase = "applying"
      PROVE  ReportsOverSnapshotPersisted'
  <2> SUFFICES ASSUME IsSnapshot(original), lock = "held", result' = "nil"
               PROVE  IsSnapshot(disk') /\ disk'.st = reported'
    BY DEF ReportsOverSnapshotPersisted, ReportedIsPersisted
  <2>1. phase \in OfApply BY DEF LocalInv, Fresh, TypeOK
  <2>2. m.out BY <1>m DEF LocalInv, TypeOK
  <2>3. disk' = mgr'.file /\ mgr'.file \in Snapshot /\ mgr'.file.st = reported'
    BY <1>1, <2>1, <2>2
  <2> QED BY <2>3, NilAssumption DEF IsSnapshot
<1> QED BY <1>1, <1>2, <1>3, <1>4, <1>5, <1>6, <1>7, <1>8

\* The interrupt, and Stopping, persist what is in memory.
LEMMA StopKeeps ==
  ASSUME LocalInv, Interrupt \/ Stopping PROVE LocalInv'
<1>0. /\ PersistState(mgr) /\ flushed' = (result' = "nil") /\ phase' = phase
      /\ phase \notin {"idle", "locked", "pushing", "pushed", "failed"}
      /\ stop' \in {"stopping", "stopped"}
      /\ UNCHANGED <<rescue, lock, real, unreported, runs, changes, original, reported>>
      /\ hook' \in {hook, [hook EXCEPT !.force = TRUE]}
      /\ stop # "no" \/ phase = "applying"
  BY DEF Interrupt, Stopping, LocalInv, StopsApply
<1>1. Derived(mgr) BY DEF Derived, LocalInv, TypeOK
<1>2. Later(mgr) BY <1>0 DEF LocalInv, LaterInApply
<1>3. IsSnapshot(original) => /\ mgr.file # Nil /\ mgr.readFile # Nil
                              /\ phase \in OfApply
                                   => mgr.file.st = reported'
  BY <1>0 DEF LocalInv, ReadOnce, Told
<1>4. /\ mgr' \in Manager /\ disk' \in Snapshot \cup {Nil, Torn}
      /\ backup' \in Snapshot \cup {Nil, Torn} /\ result' \in {"nil", "error"}
      /\ faults' \in 0 .. MaxFaults
      /\ lock' = "held" => mgr'.out
      /\ Backups' /\ LaterInApply' /\ ReadsForPush' /\ ReadOnce'
      /\ Told' /\ ReportsOverSnapshotPersisted' /\ Failed'
  BY <1>0, <1>1, <1>2, <1>3, PersistInApply
<1>5. hook \in [ticking : BOOLEAN, force : BOOLEAN]
        => hook' \in [ticking : BOOLEAN, force : BOOLEAN]
  BY <1>0
<1>6. TypeOK' BY <1>0, <1>4, <1>5 DEF LocalInv, TypeOK
<1>7. Fresh' /\ StopsApply' BY <1>0 DEF LocalInv, Fresh, StopsApply
<1>8. Reports' BY <1>0 DEF LocalInv, Reports
<1>9. OneFailureKept' BY <1>0 DEF OneFailureKept, LockedApplyKept
<1> QED BY <1>4, <1>6, <1>7, <1>8, <1>9 DEF LocalInv

\* A report reaches the manager, and the file if it is persisted.
LEMMA PostStateUpdateKeeps ==
  ASSUME LocalInv, NEW r \in Res, PostStateUpdate(r) PROVE LocalInv'
<1>0. /\ phase \in {"applying", "orphaned"} /\ phase' = phase /\ r \in unreported
      /\ unreported' = unreported \ {r}
      /\ reported' = IF r \in real THEN reported \cup {r} ELSE reported \ {r}
      /\ hook' = [hook EXCEPT !.ticking = TRUE]
      /\ UNCHANGED <<rescue, lock, real, stop, runs, changes, original>>
  BY DEF PostStateUpdate, Applying
<1>1. /\ real' \in SUBSET Res /\ unreported' \in SUBSET Res /\ reported' \in SUBSET Res
      /\ hook' \in [ticking : BOOLEAN, force : BOOLEAN]
      /\ mgr \in Manager /\ real \in SUBSET Res
  BY <1>0 DEF LocalInv, TypeOK
<1>2. Fresh' /\ StopsApply' BY <1>0 DEF LocalInv, Fresh, StopsApply
<1>3. Reports' BY <1>0, <1>1 DEF LocalInv, Reports
<1>4. OneFailureKept' BY <1>0 DEF LockedApplyKept, AppliedStateKept, OneFailureKept
<1>5. Later(mgr) BY <1>0 DEF LocalInv, LaterInApply
<1>6. IsSnapshot(original) => mgr.file # Nil /\ mgr.readFile # Nil
                              /\ (phase = "applying" => mgr.file.st = reported)
  BY <1>0 DEF LocalInv, ReadOnce, Told
<1>7. CASE Unreadable(mgr)
  <2>1. flushed' = FALSE /\ UNCHANGED <<files, mgr, result, faults>>
    BY <1>7 DEF PostStateUpdate
  <2> USE DEF files
  <2>2. ~IsSnapshot(original) BY <1>6, <1>7 DEF Unreadable
  <2>3. TypeOK' BY ZenonT(60), <1>0, <1>1, <2>1 DEF LocalInv, TypeOK
  <2>4. Backups' /\ LaterInApply' /\ ReadsForPush' /\ ReadOnce'
    BY <1>0, <1>5, <2>1, <2>2 DEF Backups, LaterInApply, ReadsForPush, ReadOnce, Later
  <2>5. Told' /\ ReportsOverSnapshotPersisted' /\ Failed'
    BY <1>0, <2>1, <2>2 DEF Told, ReportsOverSnapshotPersisted, Failed, LocalInv
  <2> QED BY <1>2, <1>3, <1>4, <2>3, <2>4, <2>5 DEF LocalInv
<1> SUFFICES ASSUME ~Unreadable(mgr) PROVE LocalInv' BY <1>7
<1> DEFINE st == StateOf(Loaded(mgr).file)
<1> PICK new \in {IF r \in real THEN st \cup {r} ELSE st \ {r}} : TRUE OBVIOUS
<1>8. new \in SUBSET Res
  <2>1. Loaded(mgr).file \in Snapshot \cup {Nil} BY <1>1, LoadedFacts DEF LocalInv, Manager
  <2>2. st \in SUBSET Res BY <2>1 DEF StateOf, Snapshot
  <2> QED BY <2>2
<1>t. TypeOK BY DEF LocalInv
<1> PICK m \in Manager : m = WithState(Loaded(mgr), new)
  BY <1>t, <1>1, <1>8, WriteStateFacts
<1>m. m = MutateState(mgr, r) BY DEF MutateState
<1>9. /\ m.file # Nil /\ m.file.st = new
      /\ m.out = mgr.out /\ m.backupFile = mgr.backupFile
      /\ m.writtenBackup = mgr.writtenBackup
      /\ mgr.readFile # Nil => m.readFile = mgr.readFile
      /\ Later(m)
  <2> HIDE DEF st
  <2> QED BY <1>t, <1>1, <1>5, <1>8, WriteStateFacts
<1>10. IsSnapshot(original) => /\ m.readFile # Nil
                               /\ phase = "applying" => m.file.st = reported'
  <2>1. IsSnapshot(original) => Loaded(mgr) = mgr
    BY <1>1, <1>6, LoadedFacts DEF LocalInv
  <2>2. IsSnapshot(original) /\ phase = "applying" => st = reported
    BY <2>1, <1>6 DEF StateOf
  <2> QED BY <1>0, <1>6, <1>9, <2>2
<1>11. CASE PersistState(m) /\ flushed' = (result' = "nil")
  <2>1. Derived(m) BY <1>9 DEF Derived
  <2>2. /\ mgr' \in Manager /\ disk' \in Snapshot \cup {Nil, Torn}
        /\ backup' \in Snapshot \cup {Nil, Torn} /\ result' \in {"nil", "error"}
        /\ faults' \in 0 .. MaxFaults
        /\ lock' = "held" => mgr'.out
        /\ Backups' /\ LaterInApply' /\ ReadsForPush' /\ ReadOnce'
        /\ Told' /\ ReportsOverSnapshotPersisted' /\ Failed'
    BY <1>0, <1>9, <1>10, <1>11, <2>1, PersistInApply
  <2>3. TypeOK' BY <1>0, <1>1, <1>11, <2>2 DEF LocalInv, TypeOK
  <2> QED BY <1>2, <1>3, <1>4, <2>2, <2>3 DEF LocalInv
<1>12. CASE mgr' = m /\ flushed' = FALSE /\ UNCHANGED <<files, result, faults>>
  <2> USE DEF files
  <2>1. TypeOK' BY ZenonT(60), <1>0, <1>1, <1>9, <1>12 DEF LocalInv, TypeOK
  <2>2. Backups' BY <1>0, <1>9, <1>12 DEF LocalInv, Backups, BackedUpFile
  <2>3. LaterInApply' BY <1>9, <1>12 DEF LaterInApply, Later
  <2>4. ReadsForPush' /\ ReadOnce' BY <1>0, <1>9, <1>10, <1>12 DEF ReadsForPush, ReadOnce
  <2>5. Told' BY <1>0, <1>10, <1>12 DEF Told
  <2>6. ReportsOverSnapshotPersisted' /\ Failed'
    BY <1>0, <1>12 DEF ReportsOverSnapshotPersisted, ReportedIsPersisted, Failed, LocalInv
  <2> QED BY <1>2, <1>3, <1>4, <2>1, <2>2, <2>3, <2>4, <2>5, <2>6 DEF LocalInv
<1> QED BY <1>m, <1>11, <1>12 DEF PostStateUpdate

\* The end of an apply persists the working state, or has a call that failed.
LEMMA ApplyDoneKeeps == ASSUME LocalInv, ApplyDone PROVE LocalInv'
<1>0. /\ phase = "applying" /\ phase' \in {"done", "unsaved"} /\ unreported = {}
      /\ UNCHANGED <<rescue, lock, real, unreported, hook, stop, runs, changes, original, reported>>
  BY DEF ApplyDone
<1>t. TypeOK BY DEF LocalInv
<1>1. mgr \in Manager /\ real \in SUBSET Res /\ real = reported
  BY <1>0 DEF LocalInv, TypeOK, Reports
<1>2. Fresh' /\ StopsApply' BY <1>0 DEF LocalInv, Fresh, StopsApply
<1>3. Reports' BY <1>0 DEF Reports
<1>4. Later(mgr) BY <1>0 DEF LocalInv, LaterInApply
<1>5. IsSnapshot(original) => mgr.file # Nil /\ mgr.readFile # Nil
  BY <1>0 DEF LocalInv, ReadOnce
<1>6. CASE Unreadable(mgr)
  <2>1. phase' = "unsaved" /\ UNCHANGED <<files, mgr, result, faults, flushed>>
    BY <1>6 DEF ApplyDone
  <2> USE DEF files
  <2>2. ~IsSnapshot(original) BY <1>5, <1>6 DEF Unreadable
  <2>3. TypeOK' BY <1>0, <1>1, <2>1 DEF LocalInv, TypeOK
  <2>4. Backups' /\ LaterInApply' /\ ReadsForPush' /\ ReadOnce'
    BY <1>0, <1>4, <2>1, <2>2 DEF Backups, LaterInApply, ReadsForPush, ReadOnce, Later
  <2>5. Told' /\ ReportsOverSnapshotPersisted' /\ OneFailureKept'
    BY <1>0, <2>1, <2>2 DEF Told, ReportsOverSnapshotPersisted, LockedApplyKept,
                            AppliedStateKept, OneFailureKept
  <2>6. Failed' BY <1>0, <1>6, <2>1 DEF Failed, LocalInv, Unreadable
  <2> QED BY <1>2, <1>3, <2>3, <2>4, <2>5, <2>6 DEF LocalInv
<1>7. CASE ~Unreadable(mgr)
  <2> PICK m \in Manager : m = WithState(Loaded(mgr), real)
    BY <1>t, <1>1, <1>7, WriteStateFacts
  <2>m. m = WriteState(mgr, real) BY DEF WriteState
  <2>1. /\ m.file # Nil /\ m.file.st = real /\ FileOf(m).st = real
        /\ m.out = mgr.out /\ m.backupFile = mgr.backupFile
        /\ m.writtenBackup = mgr.writtenBackup
        /\ mgr.readFile # Nil => m.readFile = mgr.readFile
        /\ Later(m)
    BY <1>t, <1>1, <1>4, <1>7, WriteStateFacts
  <2>2. /\ PersistState(m) /\ flushed' = (result' = "nil")
        /\ phase' = IF result' = "nil" THEN "done" ELSE "unsaved"
    BY <1>7, <2>m DEF ApplyDone
  <2>3. Derived(m) BY <2>1 DEF Derived
  <2>4. /\ mgr' \in Manager /\ disk' \in Snapshot \cup {Nil, Torn}
        /\ backup' \in Snapshot \cup {Nil, Torn} /\ result' \in {"nil", "error"}
        /\ faults' \in 0 .. MaxFaults
        /\ lock' = "held" => mgr'.out
        /\ Backups' /\ LaterInApply' /\ ReadsForPush' /\ ReadOnce'
        /\ Told' /\ ReportsOverSnapshotPersisted' /\ Failed'
    <3>1. result' \in {"nil", "error"} BY <1>t, <2>2, PersistEffect
    <3>2. phase' = "unsaved" => result' = "error" BY <2>2, <3>1
    <3>3. UNCHANGED <<lock, original, runs>> /\ reported' = real BY <1>0, <1>1
    <3> QED BY <1>0, <1>1, <1>5, <2>1, <2>2, <2>3, <3>2, <3>3, PersistInApply
  <2>5. TypeOK' BY <1>0, <1>1, <2>2, <2>4 DEF LocalInv, TypeOK
  <2>6. OneFailureKept'
    <3> SUFFICES ASSUME lock = "held", result' = "nil"
                 PROVE  IsSnapshot(disk') /\ disk'.st = real
      BY <1>0, <2>2, <2>4 DEF LockedApplyKept, AppliedStateKept, OneFailureKept
    <3>1. m.out BY <2>1 DEF LocalInv, TypeOK
    <3>2. disk' \in Snapshot /\ disk'.st = real BY <1>t, <2>1, <2>2, <3>1, PersistEffect
    <3> QED BY <3>2, NilAssumption DEF IsSnapshot
  <2> QED BY <1>2, <1>3, <2>4, <2>5, <2>6 DEF LocalInv
<1> QED BY <1>6, <1>7

\* If the rescue fails too, two calls have.
LEMMA RescueKeeps == ASSUME LocalInv, BackupStateForError PROVE LocalInv'
<1> USE DEF files, core, hist, LocalInv, BackupStateForError
<1>0. /\ phase = "unsaved" /\ phase' = "done"
      /\ UNCHANGED <<disk, backup, mgr, lock, core, result, runs, changes, hist>>
      /\ \/ rescue' = real /\ faults' = faults
         \/ rescue' = rescue /\ Fail
  OBVIOUS
<1>1. faults \in Nat /\ faults' \in 0 .. MaxFaults /\ faults' >= faults
      /\ (Fail => faults' = faults + 1)
  BY <1>0, BoundAssumption DEF Fail, TypeOK
<1>2. TypeOK' BY <1>0, <1>1 DEF TypeOK
<1>3. Fresh' /\ StopsApply' /\ ReadsForPush' /\ ReadOnce'
  BY <1>0 DEF Fresh, StopsApply, ReadsForPush, ReadOnce
<1>4. Backups' /\ LaterInApply'
  BY <1>0 DEF Backups, BackedUpFile, LaterInApply, Later
<1>5. Reports' /\ Told' /\ ReportsOverSnapshotPersisted'
  BY <1>0 DEF Reports, Told, ReportsOverSnapshotPersisted, ReportedIsPersisted
<1>6. lock' = "held" => faults > 0 BY <1>0 DEF Failed
<1>7. Failed' BY <1>0, <1>1, <1>6 DEF Failed
<1>8. OneFailureKept'
  BY <1>0, <1>1, <1>6 DEF OneFailureKept, LockedApplyKept, AppliedStateKept
<1> QED BY <1>2, <1>3, <1>4, <1>5, <1>7, <1>8

\* A push persists what it brings; nobody waits for a report.
LEMMA PersistInPush ==
  ASSUME LocalInv, NEW m, Derived(m), PersistState(m),
         phase \in {"pushing", "pushed"}, phase' \in {"pushed", "failed"}, flushed' = FALSE,
         IsSnapshot(original) => m.file # Nil /\ m.readFile # Nil,
         UNCHANGED <<rescue, lock, core, runs, changes, original, reported>>
  PROVE  LocalInv'
<1>m. m \in Manager /\ m.out = mgr.out BY DEF Derived
<1>1. /\ mgr' \in Manager /\ disk' \in Snapshot \cup {Nil, Torn}
      /\ backup' \in Snapshot \cup {Nil, Torn} /\ result' \in {"nil", "error"}
      /\ faults' \in 0 .. MaxFaults
      /\ mgr'.readFile = m.readFile
      /\ m.out => mgr'.out
      /\ m.file # Nil => mgr'.file # Nil
      /\ faults' >= faults /\ (disk' = Torn /\ disk # Torn => faults' > 0)
  BY <1>m, PersistEffect DEF LocalInv
<1>2. stop = "no" BY DEF LocalInv, StopsApply
<1>3. Backups'
  <2> SUFFICES ASSUME lock # "released", IsSnapshot(original) PROVE BackedUpFile'
    BY DEF Backups
  <2>1. BackedUpFile BY DEF LocalInv, Backups
  <2> QED BY <2>1, PersistBacksUp DEF LocalInv
<1> USE DEF core
<1>4. TypeOK' BY ZenonT(60), <1>1, <1>m DEF LocalInv, TypeOK
<1>5. Fresh' /\ StopsApply' /\ LaterInApply' /\ ReadsForPush' /\ ReadOnce'
  BY <1>1, <1>2 DEF Fresh, StopsApply, LaterInApply, ReadsForPush, ReadOnce
<1>6. Reports' /\ Told' /\ ReportsOverSnapshotPersisted' /\ OneFailureKept'
  BY DEF Reports, Told, ReportsOverSnapshotPersisted, ReportedIsPersisted, LockedApplyKept,
         AppliedStateKept, OneFailureKept
<1>7. Failed' BY <1>1 DEF Failed, LocalInv, TypeOK
<1> QED BY <1>3, <1>4, <1>5, <1>6, <1>7 DEF LocalInv

\* A step of a push, the second interrupt, or an Apply that gives up, touches no
\* file.
LEMMA LeaveKeeps ==
  ASSUME LocalInv,
         \/ phase \in {"pushing", "pushed"} /\ phase' = "failed" /\ flushed' = FALSE
         \/ ForceCancel /\ phase' = "cancelled" /\ flushed' = flushed
         \/ ApplyRefused /\ phase' = "refused" /\ flushed' = flushed,
         UNCHANGED <<files, rescue, mgr, lock, core, result, runs, changes, faults, original,
                     reported>>
  PROVE  LocalInv'
<1> USE DEF files, core, LocalInv, ForceCancel, ApplyRefused
<1>0. phase' \in {"failed", "cancelled", "refused"} /\ flushed' \in BOOLEAN BY DEF TypeOK
<1>1. TypeOK'
  <2> HIDE DEF ForceCancel, ApplyRefused
  <2> QED BY <1>0 DEF TypeOK
<1>2. Fresh' /\ StopsApply' /\ ReadsForPush' /\ ReadOnce'
  BY DEF Fresh, StopsApply, ReadsForPush, ReadOnce
<1>3. Backups' /\ LaterInApply'
  BY DEF Backups, BackedUpFile, LaterInApply, Later, StopsApply
<1>4. Reports' /\ Told' BY DEF Reports, Told
<1>5. ReportsOverSnapshotPersisted' /\ Failed' /\ OneFailureKept'
  BY DEF ReportsOverSnapshotPersisted, ReportedIsPersisted, LockedApplyKept, AppliedStateKept,
         Failed, OneFailureKept
<1> QED BY <1>1, <1>2, <1>3, <1>4, <1>5

\* "state push" brings a snapshot with its lineage and serial.
LEMMA PushKeeps ==
  ASSUME LocalInv, NEW f \in Pushes, NEW force \in BOOLEAN, Push(f, force) PROVE LocalInv'
<1>0. /\ phase = "pushing" /\ flushed' = FALSE
      /\ UNCHANGED <<rescue, lock, core, runs, changes, original, reported>>
  BY DEF Push
<1>1. CASE phase' = "failed" /\ UNCHANGED <<files, mgr, result, faults>>
  BY <1>0, <1>1, LeaveKeeps
<1>2. CASE /\ ~Unreadable(mgr)
           /\ PersistState([Loaded(mgr) EXCEPT !.file = f])
           /\ phase' = IF result' = "nil" THEN "pushed" ELSE "failed"
  <2>1. mgr \in Manager BY DEF LocalInv, TypeOK
  <2> PICK l \in Manager : l = Loaded(mgr) BY <1>2, <2>1, LoadedFacts DEF LocalInv
  <2>2. /\ l.out = mgr.out /\ l.backupFile = mgr.backupFile
        /\ l.writtenBackup = mgr.writtenBackup
        /\ mgr.readFile # Nil => l = mgr
    BY <1>2, <2>1, LoadedFacts DEF LocalInv
  <2>3. f \in Snapshot /\ f # Nil BY DiskAssumption, NilAssumption
  <2> PICK m \in Manager : m = [l EXCEPT !.file = f] BY <2>3 DEF Manager
  <2>4. /\ m.file = f /\ m.readFile = l.readFile /\ m.out = l.out
        /\ m.backupFile = l.backupFile /\ m.writtenBackup = l.writtenBackup
    BY DEF Manager
  <2>5. Derived(m) BY <2>2, <2>4 DEF Derived
  <2>6. IsSnapshot(original) => m.file # Nil /\ m.readFile # Nil
    BY <1>0, <2>2, <2>3, <2>4 DEF LocalInv, ReadOnce
  <2>7. PersistState(m) /\ phase' \in {"pushed", "failed"} BY <1>2
  <2> QED BY <1>0, <2>5, <2>6, <2>7, PersistInPush
<1> QED BY <1>1, <1>2 DEF Push

\* The second write of "state push" is of the same state.
LEMMA PushPersistKeeps == ASSUME LocalInv, PushPersist PROVE LocalInv'
<1>0. /\ phase = "pushed" /\ phase' = "failed" /\ flushed' = FALSE
      /\ UNCHANGED <<rescue, lock, core, runs, changes, original, reported>>
  BY DEF PushPersist, hist, LocalInv, Told, TypeOK
<1>t. TypeOK /\ mgr \in Manager BY DEF LocalInv, TypeOK
<1>1. CASE Unreadable(mgr)
  BY <1>0, <1>1, LeaveKeeps DEF PushPersist
<1>2. CASE ~Unreadable(mgr)
  <2> PICK st \in SUBSET Res : st = StateOf(mgr.file)
    BY <1>t DEF StateOf, Manager, Snapshot
  <2> PICK m \in Manager : m = WithState(Loaded(mgr), st)
    BY <1>t, <1>2, WriteStateFacts
  <2>1. /\ m.file # Nil
        /\ m.out = mgr.out /\ m.backupFile = mgr.backupFile
        /\ m.writtenBackup = mgr.writtenBackup
        /\ mgr.readFile # Nil => m.readFile = mgr.readFile
    BY <1>t, <1>2, WriteStateFacts
  <2>2. PersistState(m) BY <1>2 DEF PushPersist, WriteState
  <2>3. Derived(m) BY <2>1 DEF Derived
  <2>4. IsSnapshot(original) => m.file # Nil /\ m.readFile # Nil
    BY <1>0, <2>1 DEF LocalInv, ReadOnce
  <2> QED BY <1>0, <2>2, <2>3, <2>4, PersistInPush
<1> QED BY <1>1, <1>2

\* Unlock closes the file.
LEMMA UnlockKeeps == ASSUME LocalInv, Unlock PROVE LocalInv'
<1> USE DEF files, core, hist, LocalInv, Unlock
<1>0. /\ phase' \in {"orphaned", "unlocked"}
      /\ phase = "failed" => phase' = "unlocked" /\ stop = "no"
      /\ lock' # "held" /\ lock' \in {"released", "off"}
      /\ lock' = "released" \/ (lock' = lock /\ mgr' = mgr)
  BY DEF StopsApply, TypeOK
<1>1. /\ mgr' \in Manager /\ mgr'.file = mgr.file /\ mgr'.readFile = mgr.readFile
  <2>1. mgr \in Manager BY DEF TypeOK
  <2>2. mgr' = mgr \/ mgr' = [mgr EXCEPT !.out = FALSE] OBVIOUS
  <2> QED BY <2>1, <2>2 DEF Manager
<1>2. TypeOK' BY <1>0, <1>1 DEF TypeOK
<1>3. Fresh' /\ StopsApply' /\ ReadsForPush' /\ ReadOnce'
  BY <1>0, <1>1 DEF Fresh, StopsApply, ReadsForPush, ReadOnce
<1>4. Backups' BY <1>0 DEF Backups, BackedUpFile
<1>5. LaterInApply' BY <1>0, <1>1 DEF LaterInApply, Later
<1>6. Reports' /\ Told' BY <1>0 DEF Reports, Told
<1>7. ReportsOverSnapshotPersisted' /\ Failed' /\ OneFailureKept'
  BY <1>0 DEF ReportsOverSnapshotPersisted, ReportedIsPersisted, LockedApplyKept, AppliedStateKept,
            Failed, OneFailureKept
<1> QED BY <1>2, <1>3, <1>4, <1>5, <1>6, <1>7

\* No step breaks the invariant.
LEMMA LocalStep == LocalInv /\ [Next]_vars => LocalInv'
<1> SUFFICES ASSUME LocalInv, [Next]_vars PROVE LocalInv' OBVIOUS
<1>1. CASE UNCHANGED vars
  BY <1>1 DEF vars, LocalInv, TypeOK, Fresh, StopsApply, Backups, BackedUpFile, LaterInApply,
              Later, ReadsForPush, ReadOnce, Reports, Told, ReportsOverSnapshotPersisted,
              ReportedIsPersisted, LockedApplyKept, AppliedStateKept, Failed, OneFailureKept
<1>2. CASE \/ Start \/ RefreshState \/ Interrupt \/ Stopping
           \/ ApplyDone \/ BackupStateForError \/ PushPersist \/ Unlock
  BY <1>2, StartKeeps, RefreshStateKeeps, StopKeeps, ApplyDoneKeeps, RescueKeeps,
     PushPersistKeeps, UnlockKeeps
<1>3. ASSUME NEW r \in Res, Change(r) \/ PostStateUpdate(r) PROVE LocalInv'
  BY <1>3, ChangeKeeps, PostStateUpdateKeeps
<1>4. CASE ForceCancel \/ ApplyRefused
  <2>1. /\ flushed' = flushed
        /\ \/ ForceCancel /\ phase' = "cancelled"
           \/ ApplyRefused /\ phase' = "refused"
        /\ UNCHANGED <<files, rescue, mgr, lock, core, result, runs, changes, faults, original,
                       reported>>
    BY <1>4 DEF ForceCancel, ApplyRefused, hist
  <2> QED BY <1>4, <2>1, LeaveKeeps
<1>5. ASSUME NEW f \in Pushes, NEW force \in BOOLEAN, Push(f, force) PROVE LocalInv'
  BY <1>5, PushKeeps
<1>6. CASE Exit \/ ExitInStopping \/ Crash
  <2>1. faults' \in 0 .. MaxFaults
    BY <1>6, BoundAssumption DEF Exit, ExitInStopping, Crash, Fail, LocalInv, TypeOK
  <2>2. Idle /\ disk' \in {disk, Nil, Torn} /\ UNCHANGED <<backup, rescue, runs>>
    BY <1>6 DEF Exit, ExitInStopping, Crash, files
  <2> QED BY <2>1, <2>2, IdleKeeps
<1> QED BY <1>1, <1>2, <1>3, <1>4, <1>5, <1>6 DEF Next

\* The inductive invariant of the local state manager and its drivers.
THEOREM LocalInvariant == Spec => []LocalInv
BY LocalInit, LocalStep, PTL DEF Spec

\* Before another state than the original is in the state file, the original
\* is in the backup file (filesystem.go:216-217).
THEOREM OriginalIsBackedUp == Spec => []ChangedOriginalBackedUp
<1>1. LocalInv => ChangedOriginalBackedUp
  BY DEF LocalInv, Backups, BackedUpFile, ChangedOriginalBackedUp
<1> QED BY <1>1, LocalInvariant, PTL

\* A command that found a snapshot and has the lock: when PersistState has
\* returned nil, what the hook was told of is in the file, in whatever order
\* resources, opWait and Stopping called it (hook_state.go:111-115).
THEOREM ReportsArePersisted == Spec => []ReportsOverSnapshotPersisted
<1>1. LocalInv => ReportsOverSnapshotPersisted BY DEF LocalInv
<1> QED BY <1>1, LocalInvariant, PTL

\* No single call that fails loses the state of an apply under the lock that
\* nobody interrupted: it is in the state file, in errored.tfstate or on the
\* terminal (backend_apply.go:306-320, filesystem.go:220-271).
THEOREM ApplyIsKept == Spec => []OneFailureKept
<1>1. LocalInv => OneFailureKept BY DEF LocalInv
<1> QED BY <1>1, LocalInvariant, PTL

\* The fields keep their types, and the file is open under the lock.
THEOREM LocalTypesCorrect == Spec => []TypeOK
<1>1. LocalInv => TypeOK BY DEF LocalInv
<1> QED BY <1>1, LocalInvariant, PTL

\* What a step may make of the state file: an apply, whatever fails in it,
\* never takes it to another lineage or back to a lower serial.
LEMMA ApplyWritesLater ==
  ASSUME LocalInv, [Next]_vars, IsSnapshot(disk), IsSnapshot(disk'),
         phase \notin {"pushing", "pushed"}
  PROVE  Succeeds(disk', disk)
<1>t. TypeOK /\ mgr \in Manager BY DEF LocalInv, TypeOK
<1>1. CASE disk' = disk BY <1>1, <1>t DEF Succeeds, TypeOK, IsSnapshot, Snapshot
<1> SUFFICES ASSUME disk' # disk PROVE Succeeds(disk', disk) BY <1>1
<1>2. CASE Interrupt \/ Stopping
  <2>1. PersistState(mgr) /\ Later(mgr)
    BY <1>2 DEF Interrupt, Stopping, LocalInv, LaterInApply
  <2> QED BY <2>1, <1>t, PersistSucceeds
<1>3. ASSUME NEW m, NEW st \in SUBSET Res, m = WithState(Loaded(mgr), st), ~Unreadable(mgr),
             PersistState(m), phase \in {"applying", "orphaned"}
      PROVE  Succeeds(disk', disk)
  <2>1. Later(mgr) BY <1>3 DEF LocalInv, LaterInApply
  <2>2. m \in Manager /\ Later(m) BY <1>3, <1>t, <2>1, WriteStateFacts
  <2> QED BY <1>3, <1>t, <2>2, PersistSucceeds
<1>4. ASSUME NEW r \in Res, PostStateUpdate(r) PROVE Succeeds(disk', disk)
  <2>1. /\ ~Unreadable(mgr) /\ PersistState(MutateState(mgr, r))
        /\ phase \in {"applying", "orphaned"}
    BY <1>4 DEF PostStateUpdate, Applying, files
  <2> PICK l \in Manager : l = Loaded(mgr) BY <1>t, <2>1, LoadedFacts
  <2>2. StateOf(l.file) \in SUBSET Res BY DEF StateOf, Manager, Snapshot
  <2>3. MutateState(mgr, r)
          = WithState(Loaded(mgr), IF r \in real THEN StateOf(l.file) \cup {r}
                                   ELSE StateOf(l.file) \ {r})
    BY DEF MutateState
  <2>4. (IF r \in real THEN StateOf(l.file) \cup {r} ELSE StateOf(l.file) \ {r}) \in SUBSET Res
    BY <2>2
  <2> QED BY <1>3, <2>1, <2>3, <2>4
<1>5. CASE ApplyDone
  <2>1. ~Unreadable(mgr) /\ PersistState(WithState(Loaded(mgr), real)) /\ phase = "applying"
    BY <1>5 DEF ApplyDone, WriteState, files
  <2>2. real \in SUBSET Res BY <1>t DEF TypeOK
  <2> QED BY <1>3, <2>1, <2>2
<1>6. CASE ExitInStopping BY <1>6 DEF ExitInStopping, IsSnapshot
<1> QED BY <1>2, <1>4, <1>5, <1>6
        DEF Next, vars, files, Start, RefreshState, Change, ForceCancel, ApplyRefused,
            BackupStateForError, Push, PushPersist, Unlock, Exit, Crash

\* A push without -force compares with what is in the file.
LEMMA PushReplacesOlder ==
  ASSUME LocalInv, NEW f \in Pushes, Push(f, FALSE), disk' # disk, IsSnapshot(disk),
         disk.st # {}
  PROVE  \/ disk.lin = 0 \/ f.lin = 0
         \/ Succeeds(f, disk) /\ (f.ser > disk.ser \/ f.st = disk.st)
<1>t. TypeOK /\ mgr \in Manager BY DEF LocalInv, TypeOK
<1>1. ~Unreadable(mgr) /\ ValidImport(f, Loaded(mgr).readFile) BY DEF Push, files
<1>2. Loaded(mgr).readFile = disk
  <2>1. mgr.readFile = disk BY DEF Push, LocalInv, ReadsForPush
  <2> QED BY <1>t, <1>1, <2>1, LoadedFacts
<1>3. StateOf(disk) # {} BY DEF StateOf, IsSnapshot
<1>4. f.ser \in Nat /\ disk.ser \in Nat
  BY <1>t, DiskAssumption DEF TypeOK, IsSnapshot, Snapshot
<1> QED BY <1>1, <1>2, <1>3, <1>4 DEF ValidImport, Succeeds

\* What a write may replace, by an apply or by a push that is not forced.
THEOREM WritesOnlyReplaceOlder == Spec => OnlyLaterReplaces
<1>1. LocalInv /\ [Next]_vars =>
        [ /\ IsSnapshot(disk) /\ IsSnapshot(disk') /\ phase \notin {"pushing", "pushed"}
               => Succeeds(disk', disk)
          /\ \A f \in Pushes :
               Push(f, FALSE) /\ disk' # disk /\ IsSnapshot(disk) /\ disk.st # {}
                 => \/ disk.lin = 0 \/ f.lin = 0
                    \/ Succeeds(f, disk) /\ (f.ser > disk.ser \/ f.st = disk.st) ]_vars
  BY ApplyWritesLater, PushReplacesOlder
<1> QED BY <1>1, LocalInvariant, PTL DEF Spec, OnlyLaterReplaces

===============================================================================
