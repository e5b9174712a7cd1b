------------------------------ MODULE ConsulState ------------------------------
(***************************************************************************)
(* Operations on one state in Consul: the RemoteClient of                  *)
(* internal/backend/remote-state/consul/client.go, used by an operation    *)
(* that locks, reads, writes some times and unlocks, and the goroutine in  *)
(* each client that takes a lost lock again.                               *)
(*                                                                         *)
(* Of Consul there are the key of the lock, with the session that has it,  *)
(* the key of the state and those of its parts when it is stored in parts. *)
(* A state is the set of the updates in it.                                *)
(***************************************************************************)
EXTENDS Naturals, FiniteSets

CONSTANTS Client,     \* operations, each with a client and a process
          None,
          MaxPuts,    \* states an operation writes
          MaxLost,    \* sessions lost, and locks given up, by the network
          MaxFaults   \* calls that fail, and processes that are killed

ASSUME ConsulAssumption ==
  /\ None \notin Client
  /\ MaxPuts \in Nat /\ MaxLost \in Nat /\ MaxFaults \in Nat

VARIABLES
  holder,     \* <<client, "current" or "earlier">>: the session with the lock
  entry,      \* the state's key: modify index, updates, whether in parts
  parts,      \* the parts there are, <<updates, number>>
  pc,         \* what the operation is about to do
  mu,         \* who has the client's mutex
  consulLock, \* whether the client has a lock object
  lockCh,     \* closed when the lock is lost
  cancelled,  \* the monitor's context
  monitor,    \* what the monitoring goroutine is about to do
  modifyIndex,
  state,      \* the updates of the operation's state
  old,        \* the parts to remove after a write
  puts, lost, faults

server  == <<holder, entry, parts>>
locking == <<consulLock, lockCh, cancelled, monitor>>
data    == <<modifyIndex, state, old, puts>>
bounds  == <<lost, faults>>
vars    == <<server, pc, mu, locking, data, bounds>>

Updates == Client \X (1..MaxPuts)
Entry   == [index : Nat, value : SUBSET Updates, chunked : BOOLEAN]
Parts   == 1..2

PartsOf(value) == {value} \X Parts

Current(c) == <<c, "current">>
Earlier(c) == <<c, "earlier">>
Mine(c)    == {Current(c), Earlier(c)}

\* sessionCancel: the session is destroyed when its renewing goroutine runs.
Cancelled(h, c) == IF h = Current(c) THEN Earlier(c) ELSE h

Released(h, c)  == IF h = Current(c) THEN None ELSE h

Goto(c, l)  == pc' = [pc EXCEPT ![c] = l]
Monitor(c, l) == monitor' = [monitor EXCEPT ![c] = l]
Take(c, w)  == mu[c] = "free" /\ mu' = [mu EXCEPT ![c] = w]
Free(c)     == mu' = [mu EXCEPT ![c] = "free"]

Fault == faults < MaxFaults /\ faults' = faults + 1 /\ UNCHANGED lost

Alive(c) == pc[c] # "gone"

-----------------------------------------------------------------------------
(* Locking.                                                                *)

\* Lock, lock: a session, one attempt, and the monitor starts.  A call that
\* fails may have taken the lock for the session.  When it is putLockInfo,
\* unlock calls monitorCancel, which is nil in a client that locks for the
\* first time: the process panics.
Lock(c) ==
  /\ pc[c] = "lock"
  /\ \/ /\ holder = None
        /\ holder' = Current(c)
        /\ consulLock' = [consulLock EXCEPT ![c] = TRUE]
        /\ lockCh' = [lockCh EXCEPT ![c] = "open"]
        /\ Monitor(c, "new") /\ Goto(c, "get")
        /\ UNCHANGED bounds
     \/ /\ holder # None
        /\ Goto(c, "done")
        /\ UNCHANGED <<holder, consulLock, lockCh, monitor, bounds>>
     \/ /\ Fault
        /\ Goto(c, "done")
        /\ holder' \in IF holder = None THEN {None, Current(c)} ELSE {holder}
        /\ UNCHANGED <<consulLock, lockCh, monitor>>
  /\ UNCHANGED <<entry, parts, mu, cancelled, data>>

-----------------------------------------------------------------------------
(* Reading and writing.                                                    *)

\* Get: the key, and then the parts, which another write may have removed.
Get(c) ==
  /\ pc[c] = "get" /\ mu[c] = "free"
  /\ \/ /\ modifyIndex' = [modifyIndex EXCEPT ![c] = entry.index]
        /\ state' = [state EXCEPT ![c] = entry.value]
        /\ IF entry.chunked THEN Goto(c, "parts") /\ Take(c, "main")
                            ELSE Goto(c, "work") /\ UNCHANGED mu
        /\ UNCHANGED bounds
     \/ Fault /\ Goto(c, "unlock") /\ UNCHANGED <<mu, modifyIndex, state>>
  /\ UNCHANGED <<server, locking, old, puts>>

GetParts(c) ==
  /\ pc[c] = "parts"
  /\ Goto(c, IF PartsOf(state[c]) \subseteq parts THEN "work" ELSE "unlock")
  /\ Free(c)
  /\ UNCHANGED <<server, locking, data, bounds>>

\* Put: what is there now is what will have to be removed.
Put(c) ==
  /\ pc[c] = "work" /\ puts[c] < MaxPuts
  /\ Take(c, "main") /\ Goto(c, "store")
  /\ puts' = [puts EXCEPT ![c] = @ + 1]
  /\ state' = [state EXCEPT ![c] = @ \cup {<<c, puts'[c]>>}]
  /\ old' = [old EXCEPT ![c] = IF entry.chunked THEN PartsOf(entry.value) ELSE {}]
  /\ UNCHANGED <<server, locking, modifyIndex, bounds>>

\* Mutated: the index is not compared.
Unmodified_Set(c) == TRUE

\* KVCAS, or KVSet by a client that has read no state.
Unmodified(c) == modifyIndex[c] \in {0, entry.index}

Written(c, chunked) == [index |-> entry.index + 1, value |-> state[c], chunked |-> chunked]

\* store: a transaction, which fails when the state was modified, or with
\* and without an effect; a state may be too large to be stored in one.
Store(c) ==
  /\ pc[c] \in {"store", "link"}
  /\ \/ /\ Unmodified(c)
        /\ entry' = Written(c, pc[c] = "link")
        /\ modifyIndex' = [modifyIndex EXCEPT ![c] = entry'.index]
        /\ Goto(c, "clean")
        /\ UNCHANGED <<mu, bounds>>
     \/ /\ ~Unmodified(c)
        /\ Goto(c, "work") /\ Free(c)
        /\ UNCHANGED <<entry, modifyIndex, bounds>>
     \/ /\ Fault
        /\ entry' \in {entry} \cup IF Unmodified(c) THEN {Written(c, pc[c] = "link")} ELSE {}
        /\ Goto(c, "work") /\ Free(c)
        /\ UNCHANGED modifyIndex
     \/ /\ pc[c] = "store"
        /\ Goto(c, "split")
        /\ UNCHANGED <<entry, mu, modifyIndex, bounds>>
  /\ UNCHANGED <<holder, parts, locking, state, old, puts>>

\* Mutated: the old parts go before the key that names them.
PutParts_Cleans(c) ==
  /\ pc[c] = "split"
  /\ \/ parts' = (parts \ old[c]) \cup PartsOf(state[c]) /\ Goto(c, "link") /\ UNCHANGED <<mu, bounds>>
     \/ /\ Fault
        /\ \E i \in Parts : parts' = parts \cup {p \in PartsOf(state[c]) : p[2] < i}
        /\ Goto(c, "work") /\ Free(c)
  /\ UNCHANGED <<holder, entry, locking, data>>

\* The parts are written one by one, before the key that names them.
PutParts(c) ==
  /\ pc[c] = "split"
  /\ \/ parts' = parts \cup PartsOf(state[c]) /\ Goto(c, "link") /\ UNCHANGED <<mu, bounds>>
     \/ /\ Fault
        /\ \E i \in Parts : parts' = parts \cup {p \in PartsOf(state[c]) : p[2] < i}
        /\ Goto(c, "work") /\ Free(c)
  /\ UNCHANGED <<holder, entry, locking, data>>

\* Mutated: an early return keeps the mutex.
Clean_Locked(c) ==
  /\ pc[c] = "clean"
  /\ \/ parts' = parts \ old[c] /\ Free(c) /\ UNCHANGED bounds
     \/ Fault /\ UNCHANGED <<parts, mu>>
  /\ Goto(c, "work")
  /\ UNCHANGED <<holder, entry, locking, data>>

\* cleanupOldChunks ignores errors.
Clean(c) ==
  /\ pc[c] = "clean"
  /\ \/ parts' = parts \ old[c] /\ UNCHANGED bounds
     \/ Fault /\ UNCHANGED parts
  /\ Goto(c, "work") /\ Free(c)
  /\ UNCHANGED <<holder, entry, locking, data>>

-----------------------------------------------------------------------------
(* Unlocking.                                                              *)

\* A goroutine that waits in its select goes by what comes first.
Woken(c, l) == IF monitor[c] = "select" THEN l ELSE monitor[c]

\* unlock without a lock object or a channel: the branch of force-unlock.
\* A session that is gone is no error, and the keys go whoever has them.
ForceUnlock(c) ==
  /\ pc[c] \in {"work", "unlock"} /\ mu[c] = "free"
  /\ ~consulLock[c] \/ lockCh[c] = "nil"
  /\ \/ holder' = None /\ UNCHANGED bounds
     \/ Fault /\ UNCHANGED holder
  /\ Goto(c, "done")
  /\ UNCHANGED <<entry, parts, mu, locking, data>>

\* unlock of a lock that is known to be lost.
UnlockLost(c) ==
  /\ pc[c] \in {"work", "unlock"} /\ mu[c] = "free"
  /\ consulLock[c] /\ lockCh[c] = "closed"
  /\ cancelled' = [cancelled EXCEPT ![c] = TRUE]
  /\ consulLock' = [consulLock EXCEPT ![c] = FALSE]
  /\ holder' = Cancelled(holder, c)
  /\ Goto(c, "done")
  /\ UNCHANGED <<entry, parts, mu, lockCh, monitor, data, bounds>>

\* unlock, up to the release.
Unlock(c) ==
  /\ pc[c] \in {"work", "unlock"}
  /\ consulLock[c] /\ lockCh[c] = "open"
  /\ Take(c, "main") /\ Goto(c, "release")
  /\ cancelled' = [cancelled EXCEPT ![c] = TRUE]
  /\ Monitor(c, Woken(c, "ended"))
  /\ UNCHANGED <<server, consulLock, lockCh, data, bounds>>

Release(c) ==
  /\ pc[c] = "release"
  /\ \/ holder' = Released(holder, c) /\ UNCHANGED bounds
     \/ Fault /\ holder' \in {holder, Released(holder, c)}
  /\ Goto(c, "wait")
  /\ UNCHANGED <<entry, parts, mu, locking, data>>

\* monitorWG.Wait, with the client's mutex held.
WaitMonitor(c) ==
  /\ pc[c] = "wait" /\ monitor[c] = "ended"
  /\ lockCh' = [lockCh EXCEPT ![c] = "nil"]
  /\ consulLock' = [consulLock EXCEPT ![c] = FALSE]
  /\ holder' = Cancelled(holder, c)
  /\ Free(c) /\ Goto(c, "done")
  /\ UNCHANGED <<entry, parts, cancelled, monitor, data, bounds>>

\* A process that is no more has no goroutines and loses what it had in
\* memory; its session is not renewed any more.
Gone(c) ==
  /\ Goto(c, "gone") /\ Monitor(c, "ended") /\ Free(c)
  /\ holder' = Cancelled(holder, c)
  /\ consulLock' = [consulLock EXCEPT ![c] = FALSE]
  /\ lockCh' = [lockCh EXCEPT ![c] = "nil"]
  /\ cancelled' = [cancelled EXCEPT ![c] = FALSE]
  /\ modifyIndex' = [modifyIndex EXCEPT ![c] = 0]
  /\ state' = [state EXCEPT ![c] = {}] /\ old' = [old EXCEPT ![c] = {}]
  /\ puts' = [puts EXCEPT ![c] = 0]
  /\ UNCHANGED <<entry, parts>>

\* The process ends, and with it what goroutines it has left.
End(c) == pc[c] = "done" /\ Gone(c) /\ UNCHANGED bounds

\* It is killed, wherever it is.
Kill(c) == Alive(c) /\ Fault /\ Gone(c)

-----------------------------------------------------------------------------
(* The goroutine that monitors the lock.                                   *)

Watch(c) ==
  /\ monitor[c] = "new"
  /\ \/ lockCh[c] = "closed" /\ Monitor(c, "lost")
     \/ cancelled[c] /\ Monitor(c, "ended")
     \/ lockCh[c] # "closed" /\ ~cancelled[c] /\ Monitor(c, "select")
  /\ UNCHANGED <<server, pc, mu, consulLock, lockCh, cancelled, data, bounds>>

\* With the mutex, the session is given up, another one is created, and
\* lock makes one attempt, as in Lock.  Without a session there is no lock
\* object; without the lock there is one, and the closed channel stays.
\* When it is putLockInfo that fails, unlock releases the lock and waits for
\* the monitor to end, which is calling it.
Relock(c) ==
  /\ monitor[c] = "lost" /\ mu[c] = "free"
  /\ \/ /\ holder = None /\ holder' = Current(c)
        /\ consulLock' = [consulLock EXCEPT ![c] = TRUE]
        /\ lockCh' = [lockCh EXCEPT ![c] = "open"]
        /\ cancelled' = [cancelled EXCEPT ![c] = FALSE]
        /\ Monitor(c, "new")
        /\ UNCHANGED <<mu, bounds>>
     \/ /\ holder # None /\ holder' = Cancelled(holder, c)
        /\ consulLock' = [consulLock EXCEPT ![c] = TRUE]
        /\ Monitor(c, "sleep")
        /\ UNCHANGED <<mu, lockCh, cancelled, bounds>>
     \/ /\ Fault /\ holder' = Cancelled(holder, c)
        /\ \E locked \in BOOLEAN : consulLock' = [consulLock EXCEPT ![c] = locked]
        /\ Monitor(c, "sleep")
        /\ UNCHANGED <<mu, lockCh, cancelled>>
     \/ /\ Fault /\ holder = None
        /\ consulLock' = [consulLock EXCEPT ![c] = TRUE]
        /\ \/ holder' = Current(c) /\ Monitor(c, "sleep") /\ UNCHANGED <<mu, lockCh, cancelled>>
           \/ /\ UNCHANGED holder
              /\ lockCh' = [lockCh EXCEPT ![c] = "closed"]
              /\ cancelled' = [cancelled EXCEPT ![c] = TRUE]
              /\ Monitor(c, "itself") /\ Take(c, "monitor")
  /\ UNCHANGED <<entry, parts, pc, data>>

Sleep(c) ==
  /\ monitor[c] = "sleep"
  /\ Monitor(c, IF cancelled[c] THEN "ended" ELSE "lost")
  /\ UNCHANGED <<server, pc, mu, consulLock, lockCh, cancelled, data, bounds>>

-----------------------------------------------------------------------------
(* Consul.                                                                 *)

\* The library sees that the lock is another's, or stops trying to see.
Lose(c) ==
  /\ Alive(c) /\ lockCh[c] = "open"
  /\ \/ holder # Current(c) /\ UNCHANGED bounds
     \/ holder = Current(c) /\ lost < MaxLost /\ lost' = lost + 1 /\ UNCHANGED faults
  /\ lockCh' = [lockCh EXCEPT ![c] = "closed"]
  /\ Monitor(c, Woken(c, "lost"))
  /\ UNCHANGED <<server, pc, mu, consulLock, cancelled, data>>

\* A session that is not renewed any more is destroyed, or expires.
Expire(c) ==
  /\ holder \in Mine(c)
  /\ \/ holder = Earlier(c) /\ UNCHANGED bounds
     \/ holder = Current(c) /\ lost < MaxLost /\ lost' = lost + 1 /\ UNCHANGED faults
  /\ holder' = None
  /\ UNCHANGED <<entry, parts, pc, mu, locking, data>>

Init ==
  /\ holder = None
  /\ entry \in [index : {0}, value : {{}}, chunked : {FALSE}] \cup
               [index : {1}, value : {{}}, chunked : {TRUE}]
  /\ parts = IF entry.chunked THEN PartsOf(entry.value) ELSE {}
  /\ pc = [c \in Client |-> "lock"] /\ mu = [c \in Client |-> "free"]
  /\ consulLock = [c \in Client |-> FALSE] /\ lockCh = [c \in Client |-> "nil"]
  /\ cancelled = [c \in Client |-> FALSE] /\ monitor = [c \in Client |-> "ended"]
  /\ modifyIndex = [c \in Client |-> 0] /\ state = [c \in Client |-> {}]
  /\ old = [c \in Client |-> {}] /\ puts = [c \in Client |-> 0]
  /\ lost = 0 /\ faults = 0

\* What the operation does, and what its monitor does.
Operate(c) ==
  \/ Lock(c) \/ Get(c) \/ GetParts(c) \/ Put(c)
  \/ Store(c) \/ PutParts(c) \/ Clean(c)
  \/ ForceUnlock(c) \/ UnlockLost(c) \/ Unlock(c) \/ Release(c) \/ WaitMonitor(c)

Guard(c) ==
  Alive(c) /\ (Watch(c) \/ Relock(c) \/ Sleep(c))

Next == \E c \in Client : Operate(c) \/ Guard(c) \/ End(c) \/ Kill(c) \/ Lose(c) \/ Expire(c)

\* Goroutines run, also those that wait for a mutex others keep taking: Go
\* hands a mutex over to one that waits for a millisecond.  Nothing makes a
\* call fail, a lock get lost or a process be killed.
Spec ==
  /\ Init /\ [][Next]_vars
  /\ \A c \in Client :
       /\ SF_vars(Operate(c)) /\ WF_vars(Guard(c)) /\ WF_vars(End(c))
       /\ WF_vars(holder # Current(c) /\ Lose(c)) /\ WF_vars(holder = Earlier(c) /\ Expire(c))

-----------------------------------------------------------------------------
(* Properties.                                                             *)

Locations == {"lock", "get", "parts", "work", "store", "split", "link", "clean", "unlock",
              "release", "wait", "done", "gone"}

\* Who has the mutex is what the two goroutines of a client are about to do.
TypeOK ==
  /\ holder \in {None} \cup Client \X {"current", "earlier"}
  /\ entry \in Entry /\ parts \subseteq (SUBSET Updates) \X Parts
  /\ pc \in [Client -> Locations] /\ mu \in [Client -> {"free", "main", "monitor"}]
  /\ consulLock \in [Client -> BOOLEAN] /\ lockCh \in [Client -> {"nil", "open", "closed"}]
  /\ cancelled \in [Client -> BOOLEAN]
  /\ monitor \in [Client -> {"new", "select", "lost", "sleep", "itself", "ended"}]
  /\ modifyIndex \in [Client -> Nat] /\ state \in [Client -> SUBSET Updates]
  /\ old \in [Client -> SUBSET ((SUBSET Updates) \X Parts)]
  /\ puts \in [Client -> 0..MaxPuts] /\ lost \in 0..MaxLost /\ faults \in 0..MaxFaults
  /\ \A c \in Client : Alive(c) =>
       /\ mu[c] = "main" <=> pc[c] \in {"parts", "store", "split", "link", "clean",
                                        "release", "wait"}
       /\ mu[c] = "monitor" <=> monitor[c] = "itself"

\* "Put will perform a CAS to ensure that the state wasn't changed during
\* the operation" (client.go:54): an operation that has read a state does
\* not take away what another has written, though it may have lost the lock
\* and taken it again meanwhile.
NothingOverwritten ==
  [][(\E c \in Client : modifyIndex[c] > 0 /\ pc[c] \in {"store", "link"} /\ pc'[c] # pc[c])
       => entry.value \subseteq entry'.value]_vars

\* The state can be read at any time: while it is in parts all of them are
\* there, whoever writes another one, fails or is killed in between, with
\* the lock or without it.
CurrentReadable == entry.chunked => PartsOf(entry.value) \subseteq parts

\* The monitor waits for itself after a failed putLockInfo, or it had not
\* yet waited when Unlock released the lock and now wants the mutex that
\* Unlock has while it waits for the monitor.
Stuck(c) == monitor[c] = "itself" \/ (pc[c] = "wait" /\ monitor[c] = "lost")

\* Whatever is lost and fails, operations end: except for these two ways to
\* wait for ever there is none.
EndsUnlessStuck == \A c \in Client : pc[c] = "work" ~> pc[c] = "gone" \/ Stuck(c)

\* Without a lock object unlock is taken for a force-unlock: "The user
\* called `tofu force-unlock <lock_id>`, we just destroy the session which
\* will release the lock" (client.go:575).  It removes the operation's own
\* lock, not one that another operation has.
UnlocksOwnLock ==
  [][\A c \in Client : pc[c] \in {"work", "unlock"} /\ pc'[c] = "done" =>
       \A d \in Client \ {c} : holder = Current(d) => holder' = holder]_vars
================================================================================
