----------------------------- MODULE ConsulProofs -----------------------------
(***************************************************************************)
(* What ConsulState promises of the state's keys, for any number of        *)
(* clients, puts, lost sessions, failing calls and kills: the lock plays   *)
(* no part in it, since it may be lost at any time.                        *)
(***************************************************************************)
EXTENDS ConsulState, TLAPS

Writing == {"store", "split", "link"}

\* The parts of the inductive invariant.

\* Kinds of the values that the state's keys depend on.
Kinds ==
  /\ entry \in Entry
  /\ pc \in [Client -> Locations]
  /\ modifyIndex \in [Client -> Nat]
  /\ state \in [Client -> SUBSET Updates]
  /\ old \in [Client -> SUBSET ((SUBSET Updates) \X Parts)]
  /\ puts \in [Client -> 0..MaxPuts]

\* No state but the client's own has its n-th update.
Unwritten(c, n) ==
  /\ <<c, n>> \notin entry.value
  /\ \A d \in Client : /\ \A p \in old[d] : <<c, n>> \notin p[1]
                       /\ d # c => <<c, n>> \notin state[d]

\* Updates to come are nowhere yet.
Counted ==
  \A c \in Client : pc[c] # "gone" =>
    \A n \in 1..MaxPuts : n > puts[c] => Unwritten(c, n) /\ <<c, n>> \notin state[c]

\* What a client is about to write nobody has written before.
Fresh ==
  \A c \in Client : pc[c] \in Writing =>
    puts[c] \in 1..MaxPuts /\ <<c, puts[c]>> \in state[c] /\ Unwritten(c, puts[c])

\* A client whose index is the key's has seen what it holds.
Seen ==
  \A c \in Client :
    /\ modifyIndex[c] <= entry.index
    /\ modifyIndex[c] > 0 /\ modifyIndex[c] = entry.index => entry.value \subseteq state[c]

\* The parts are there before the key that names them.
Linking == \A c \in Client : pc[c] = "link" => PartsOf(state[c]) \subseteq parts

\* The parts that are removed are not those of the state there is now.
Cleaning == \A c \in Client : pc[c] = "clean" => \A p \in old[c] : p[1] # entry.value

ConsulInv == Kinds /\ Counted /\ Fresh /\ Seen /\ Linking /\ Cleaning /\ CurrentReadable

-----------------------------------------------------------------------------
\* It holds before the first operation, whether there is a state or not.
LEMMA ConsulInit == Init => ConsulInv
<1> SUFFICES ASSUME Init PROVE ConsulInv OBVIOUS
<1>0. entry \in Entry /\ entry.value = {}
  <2>1. CASE entry \in [index : {0}, value : {{}}, chunked : {FALSE}]
    <3>1. entry = [index |-> 0, value |-> {}, chunked |-> FALSE] BY <2>1
    <3> QED BY <3>1 DEF Entry
  <2>2. CASE entry \in [index : {1}, value : {{}}, chunked : {TRUE}]
    <3>1. entry = [index |-> 1, value |-> {}, chunked |-> TRUE] BY <2>2
    <3> QED BY <3>1 DEF Entry
  <2> QED BY <2>1, <2>2 DEF Init
<1>1. Kinds BY <1>0, ConsulAssumption DEF Init, Kinds, Locations
<1>2. Counted BY DEF Init, Counted, Unwritten
<1>3. Fresh BY DEF Init, Fresh, Writing
<1>4. Seen BY <1>0 DEF Init, Seen, Entry
<1>5. Linking /\ Cleaning BY DEF Init, Linking, Cleaning
<1>6. CurrentReadable BY DEF Init, CurrentReadable
<1> QED BY <1>1, <1>2, <1>3, <1>4, <1>5, <1>6 DEF ConsulInv

\* What only concerns the lock, the mutex or the monitor, or ends a read,
\* changes nothing of what is stored and does not begin to write.
LEMMA AwayKeeps ==
  ASSUME NEW c \in Client, NEW l \in Locations \ (Writing \cup {"clean", "gone"}), ConsulInv,
         pc[c] # "gone", Goto(c, l), UNCHANGED <<entry, parts, data>>
  PROVE  ConsulInv'
<1> USE DEF ConsulInv, Kinds, Goto, data
<1>1. Kinds' OBVIOUS
<1>2. Counted' BY DEF Counted, Unwritten
<1>3. Fresh' BY DEF Fresh, Unwritten, Writing
<1>4. Seen' BY DEF Seen
<1>5. Linking' /\ Cleaning' BY DEF Linking, Cleaning, Writing, PartsOf
<1>6. CurrentReadable' BY DEF CurrentReadable, PartsOf
<1> QED BY <1>1, <1>2, <1>3, <1>4, <1>5, <1>6

\* So do the monitor and the server, who change no operation's place either.
LEMMA AsideKeeps ==
  ASSUME ConsulInv, UNCHANGED <<entry, parts, pc, data>> PROVE ConsulInv'
BY DEF ConsulInv, Kinds, Counted, Unwritten, Fresh, Seen, Linking, Cleaning, CurrentReadable,
   PartsOf, data

\* Get remembers the index and the state it has read with it.
LEMMA GetKeeps == ASSUME NEW c \in Client, ConsulInv, Get(c) PROVE ConsulInv'
<1> USE DEF ConsulInv, Kinds, Get, Goto, server
<1>1. Kinds' BY DEF Entry, Locations
<1>2. Counted' BY DEF Counted, Unwritten
<1>3. Fresh' BY DEF Fresh, Unwritten, Writing
<1>4. Seen' BY DEF Seen, Entry
<1>5. Linking' /\ Cleaning' BY DEF Linking, Cleaning, PartsOf
<1>6. CurrentReadable' BY DEF CurrentReadable, PartsOf
<1> QED BY <1>1, <1>2, <1>3, <1>4, <1>5, <1>6

\* Put notes the parts there are, and its update is one that nobody has.
LEMMA PutKeeps == ASSUME NEW c \in Client, ConsulInv, Put(c) PROVE ConsulInv'
<1> USE ConsulAssumption DEF ConsulInv, Kinds, Put, Goto, server
<1> PICK n \in Nat : n = puts[c] + 1 OBVIOUS
<1>a. n \in 1..MaxPuts /\ puts' = [puts EXCEPT ![c] = n] /\ n > puts[c] /\ pc[c] # "gone"
  OBVIOUS
<1>b. state' = [state EXCEPT ![c] = state[c] \cup {<<c, n>>}]
  BY <1>a
<1>c. Unwritten(c, n)
  BY <1>a, Zenon DEF Counted
<1>d. /\ entry' = entry
      /\ old' \in {[old EXCEPT ![c] = PartsOf(entry.value)], [old EXCEPT ![c] = {}]}
  OBVIOUS
<1>0. \A d \in Client : \A p \in old'[d] : p \in old[d] \/ p[1] = entry.value
  BY <1>d DEF PartsOf
<1>1. Kinds'
  <2>1. <<c, n>> \in Updates BY <1>a DEF Updates
  <2>2. PartsOf(entry.value) \in SUBSET ((SUBSET Updates) \X Parts) BY DEF Entry, PartsOf
  <2> QED BY <1>a, <1>b, <1>d, <2>1, <2>2 DEF Locations
<1>2. \A d \in Client, m \in Nat : Unwritten(d, m) /\ <<d, m>> # <<c, n>> => Unwritten(d, m)'
  BY <1>0, <1>b, <1>d DEF Unwritten
<1>3. Unwritten(c, n)'
  BY <1>0, <1>b, <1>c, <1>d DEF Unwritten
<1>4. Counted'
  <2> SUFFICES ASSUME NEW d \in Client, pc'[d] # "gone", NEW m \in 1..MaxPuts, m > puts'[d]
               PROVE  Unwritten(d, m)' /\ <<d, m>> \notin state'[d]
    BY DEF Counted
  <2>1. pc[d] # "gone" /\ m > puts[d] /\ <<d, m>> # <<c, n>> BY <1>a
  <2>2. Unwritten(d, m) /\ <<d, m>> \notin state[d] BY <2>1, Zenon DEF Counted
  <2> QED BY <1>2, <1>b, <2>1, <2>2
<1>5. Fresh'
  <2> SUFFICES ASSUME NEW d \in Client, pc'[d] \in Writing, NEW m \in Nat, m = puts'[d]
               PROVE  m \in 1..MaxPuts /\ <<d, m>> \in state'[d] /\ Unwritten(d, m)'
    BY <1>1 DEF Fresh
  <2>1. CASE d # c
    <3>1. pc[d] \in Writing /\ m = puts[d] /\ state'[d] = state[d] BY <2>1, <1>a, <1>b
    <3>2. m \in 1..MaxPuts /\ <<d, m>> \in state[d] /\ Unwritten(d, m) BY <3>1, Zenon DEF Fresh
    <3> QED BY <2>1, <3>1, <3>2, <1>2
  <2>2. CASE d = c
    <3>1. m = n /\ <<c, n>> \in state'[c] BY <2>2, <1>a, <1>b
    <3> QED BY <2>2, <3>1, <1>a, <1>3
  <2> QED BY <2>1, <2>2
<1>6. Seen' BY <1>b, <1>d DEF Seen
<1>7. Linking' /\ Cleaning' BY DEF Linking, Cleaning, PartsOf
<1>8. CurrentReadable' BY DEF CurrentReadable, PartsOf
<1> QED BY <1>1, <1>4, <1>5, <1>6, <1>7, <1>8

\* A transaction with an effect replaces the state by one that no old parts
\* are of, and the index by one nobody has; without one it changes nothing.
LEMMA StoreKeeps == ASSUME NEW c \in Client, ConsulInv, Store(c) PROVE ConsulInv'
<1> USE DEF ConsulInv, Kinds, Store, Goto
<1>0. \/ entry' = Written(c, pc[c] = "link") /\ Unmodified(c)
      \/ entry' = entry
  OBVIOUS
<1>a. entry'.value \in {entry.value, state[c]} /\ entry'.index \in {entry.index, entry.index + 1}
  BY <1>0 DEF Written
<1>b. entry.index \in Nat BY DEF Entry
<1>1. Kinds'
  <2>1. Written(c, TRUE) \in Entry /\ Written(c, FALSE) \in Entry BY <1>b DEF Written, Entry
  <2>2. entry' \in Entry BY <1>0, <2>1
  <2>3. modifyIndex' \in [Client -> Nat] BY <2>2 DEF Entry
  <2> QED BY <2>2, <2>3 DEF Locations
<1>2. \A d \in Client, n \in Nat : Unwritten(d, n) /\ (c = d => <<d, n>> \notin state[c])
                                     => Unwritten(d, n)'
  BY <1>a DEF Unwritten
<1>3. Counted' BY <1>2 DEF Counted
<1>4. Fresh'
  <2>1. pc'[c] = "split" => entry' = entry BY Zenon
  <2>2. Unwritten(c, puts[c]) BY DEF Fresh, Writing
  <2>3. pc'[c] \in Writing => Unwritten(c, puts[c])'
    BY <2>1, <2>2 DEF Writing, Unwritten
  <2>4. pc[c] \in Writing BY DEF Writing
  <2> QED BY <1>2, <2>3, <2>4 DEF Fresh
<1>5. Seen' BY <1>0, <1>b DEF Seen, Written
<1>6. Linking' BY DEF Linking, PartsOf
<1>7. Cleaning'
  <2>1. \A d \in Client : \A p \in old[d] : p[1] # state[c]
    BY DEF Fresh, Unwritten, Writing
  <2>2. pc'[c] = "clean" => entry'.value = state[c] BY DEF Written
  <2> QED BY <1>a, <2>1, <2>2 DEF Cleaning
<1>8. CurrentReadable'
  <2>1. entry' = entry => CurrentReadable' BY DEF CurrentReadable, PartsOf
  <2>2. ASSUME entry' = Written(c, pc[c] = "link") PROVE CurrentReadable'
    <3>1. entry'.value = state[c] /\ (entry'.chunked <=> pc[c] = "link") BY <2>2 DEF Written
    <3> QED BY <3>1 DEF CurrentReadable, Linking, PartsOf
  <2> QED BY <1>0, <2>1, <2>2
<1> QED BY <1>1, <1>3, <1>4, <1>5, <1>6, <1>7, <1>8

\* Parts are only added.
LEMMA PutPartsKeeps == ASSUME NEW c \in Client, ConsulInv, PutParts(c) PROVE ConsulInv'
<1> USE DEF ConsulInv, Kinds, PutParts, Goto, data
<1>0. parts \subseteq parts' OBVIOUS
<1>1. Kinds' BY DEF Locations
<1>2. Counted' BY DEF Counted, Unwritten
<1>3. Fresh' BY DEF Fresh, Unwritten, Writing
<1>4. Seen' BY DEF Seen
<1>5. Linking' BY <1>0 DEF Linking, PartsOf
<1>6. Cleaning' BY DEF Cleaning
<1>7. CurrentReadable' BY <1>0 DEF CurrentReadable, PartsOf
<1> QED BY <1>1, <1>2, <1>3, <1>4, <1>5, <1>6, <1>7

\* What cleanupOldChunks removes is neither of the state there is now nor
\* of one that another client is writing.
LEMMA CleanKeeps == ASSUME NEW c \in Client, ConsulInv, Clean(c) PROVE ConsulInv'
<1> USE DEF ConsulInv, Kinds, Clean, Goto, data
<1>0. parts \ old[c] \subseteq parts' OBVIOUS
<1>1. Kinds' BY DEF Locations
<1>2. Counted' BY DEF Counted, Unwritten
<1>3. Fresh' BY DEF Fresh, Unwritten, Writing
<1>4. Seen' BY DEF Seen
<1>5. Linking'
  <2>1. \A d \in Client : pc[d] = "link" => \A p \in old[c] : p[1] # state[d]
    BY DEF Fresh, Unwritten, Writing
  <2> QED BY <1>0, <2>1 DEF Linking, PartsOf
<1>6. Cleaning' BY DEF Cleaning
<1>7. CurrentReadable' BY <1>0 DEF CurrentReadable, Cleaning, PartsOf
<1> QED BY <1>1, <1>2, <1>3, <1>4, <1>5, <1>6, <1>7

\* A process that ends, killed or not, leaves what it has stored.
LEMMA GoneKeeps == ASSUME NEW c \in Client, ConsulInv, Gone(c) PROVE ConsulInv'
<1> USE ConsulAssumption DEF ConsulInv, Kinds, Gone, Goto
<1>1. Kinds' BY DEF Locations
<1>a. \A d \in Client, n \in Nat : Unwritten(d, n) => Unwritten(d, n)' BY DEF Unwritten
<1>2. Counted' BY <1>a DEF Counted
<1>3. Fresh' BY <1>a DEF Fresh, Writing
<1>4. Seen' BY DEF Seen, Entry
<1>5. Linking' /\ Cleaning' BY DEF Linking, Cleaning, PartsOf
<1>6. CurrentReadable' BY DEF CurrentReadable, PartsOf
<1> QED BY <1>1, <1>2, <1>3, <1>4, <1>5, <1>6

\* No step of an operation, its monitor, its process or the server breaks
\* the invariant.
LEMMA ConsulStep == ASSUME ConsulInv, [Next]_vars PROVE ConsulInv'
<1>1. CASE UNCHANGED vars BY <1>1, AsideKeeps DEF vars, server, data
<1>2. ASSUME NEW c \in Client, Operate(c) PROVE ConsulInv'
  <2>1. CASE \/ Lock(c) \/ GetParts(c) \/ ForceUnlock(c) \/ UnlockLost(c) \/ Unlock(c)
             \/ Release(c) \/ WaitMonitor(c)
    <3>1. /\ pc[c] # "gone" /\ UNCHANGED <<entry, parts, data>>
          /\ \E l \in {"get", "work", "unlock", "release", "wait", "done"} : Goto(c, l)
      BY <2>1 DEF Lock, GetParts, ForceUnlock, UnlockLost, Unlock, Release, WaitMonitor, server
    <3> QED BY <3>1, AwayKeeps DEF Locations, Writing
  <2>2. CASE Get(c) \/ Put(c) \/ Store(c) \/ PutParts(c) \/ Clean(c)
    BY <2>2, GetKeeps, PutKeeps, StoreKeeps, PutPartsKeeps, CleanKeeps
  <2> QED BY <1>2, <2>1, <2>2 DEF Operate
<1>3. ASSUME NEW c \in Client, Guard(c) \/ Lose(c) \/ Expire(c) PROVE ConsulInv'
  <2>1. UNCHANGED <<entry, parts, pc, data>>
    BY <1>3 DEF Guard, Watch, Relock, Sleep, Lose, Expire, server
  <2> QED BY <2>1, AsideKeeps
<1>4. ASSUME NEW c \in Client, End(c) \/ Kill(c) PROVE ConsulInv'
  BY <1>4, GoneKeeps DEF End, Kill
<1> QED BY <1>1, <1>2, <1>3, <1>4 DEF Next

\* What the clients hold of the state fits what is stored, always.
THEOREM ConsulInvariant == Spec => []ConsulInv
BY ConsulInit, ConsulStep, PTL DEF Spec

\* The state can be read, whichever of the calls for its parts and its key
\* fails and whoever is killed between them (RemoteClient.Put).
THEOREM StateIsReadable == Spec => []CurrentReadable
<1>1. ConsulInv => CurrentReadable BY DEF ConsulInv
<1> QED BY <1>1, ConsulInvariant, PTL

\* A client that has read a state overwrites nothing that others wrote
\* since, with the lock or without it (the check-and-set of Put).
THEOREM WritesAreKept == Spec => NothingOverwritten
<1>1. ConsulInv /\ [Next]_vars =>
        [(\E c \in Client : modifyIndex[c] > 0 /\ pc[c] \in {"store", "link"} /\ pc'[c] # pc[c])
           => entry.value \subseteq entry'.value]_vars
  <2> SUFFICES ASSUME ConsulInv, Next, NEW c \in Client, modifyIndex[c] > 0,
                      pc[c] \in {"store", "link"}, pc'[c] # pc[c]
               PROVE  entry.value \subseteq entry'.value
    OBVIOUS
  <2>1. pc \in [Client -> Locations] BY DEF ConsulInv, Kinds
  <2>2. \A d \in Client : Operate(d) \/ End(d) \/ Kill(d) => \E l \in Locations : Goto(d, l)
    BY <2>1 DEF Operate, Lock, Get, GetParts, Put, Store, PutParts, Clean, ForceUnlock, UnlockLost,
       Unlock, Release, WaitMonitor, End, Kill, Gone, Goto, Locations
  <2>3. \A d \in Client : Guard(d) \/ Lose(d) \/ Expire(d) => pc' = pc
    BY DEF Guard, Watch, Relock, Sleep, Lose, Expire
  <2>4. Operate(c) \/ End(c) \/ Kill(c) BY <2>1, <2>2, <2>3 DEF Next, Goto
  <2>5. CASE End(c) \/ Kill(c) BY <2>5 DEF End, Kill, Gone
  <2>6. CASE Operate(c)
    <3>1. Store(c)
      BY <2>6 DEF Operate, Lock, Get, GetParts, Put, PutParts, Clean, ForceUnlock, UnlockLost,
         Unlock, Release, WaitMonitor
    <3>2. entry'.value = entry.value \/ (entry'.value = state[c] /\ Unmodified(c))
      BY <3>1 DEF Store, Written
    <3>3. Unmodified(c) => entry.value \subseteq state[c]
      BY DEF Unmodified, ConsulInv, Seen, Kinds
    <3> QED BY <3>2, <3>3
  <2> QED BY <2>4, <2>5, <2>6
<1> QED BY <1>1, ConsulInvariant, PTL DEF Spec, NothingOverwritten
===============================================================================
