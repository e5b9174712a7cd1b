-------------------------- MODULE ProviderCacheProofs --------------------------
(***************************************************************************)
(* What ProviderCache promises of the plugin cache, for any number of      *)
(* working directories, runs and kills, whatever the cache holds and the   *)
(* lock files say at first, as long as                                     *)
(* plugin_cache_may_break_dependency_lock_file is not set.                 *)
(***************************************************************************)
EXTENDS ProviderCache, TLAPS

Locked == {"held", "fetch", "fill", "release", "giveup"}

\* A package that can be hashed and is not being unpacked.
Package == {"whole", "other"}

\* The parts of the inductive invariant.

\* Kinds of the values; no hash of a package unpacked in part among them.
Kinds ==
  /\ source \in {"archive", "mirror"} /\ cache \in Contents
  /\ lock \in [Dir -> SUBSET Hashes] /\ new \in [Dir -> SUBSET Hashes]
  /\ pinned \in [Dir -> SUBSET Hashes]
  /\ link \in [Dir -> BOOLEAN]
  /\ pc \in [Dir -> Locations]
  /\ result \in [Dir -> {"none", "ok", "unrecorded", "failed", "panic"}]
  /\ owner \in Dir \cup {None}

\* The lock is with the process that is between lock and unlock.
Exclusive == \A d \in Dir : pc[d] \in Locked <=> owner = d

\* What is unpacked over is not a package.
FillsUp == \A d \in Dir : source = "archive" /\ pc[d] = "fill" => cache \notin Package

\* What the lock is given up over is what was installed or asked for; of a
\* mirror it may be gone again.
Vouched ==
  \A d \in Dir : pc[d] \in {"release", "detect", "hash"} =>
    \/ cache = "whole"
    \/ cache = "other" /\ "other" \in pinned[d]
    \/ source = "mirror" /\ cache = "absent"

\* The hashes of lock files, now and soon.
AsPinned ==
  \A d \in Dir : /\ lock[d] \subseteq pinned[d] \cup {"whole", "zh"}
                 /\ new[d] \subseteq pinned[d] \cup {"whole", "zh"}

\* What is about to be linked and recorded is in the cache.
Backed ==
  \A d \in Dir : source = "archive" /\ pc[d] \in {"unlink", "link", "verify", "save"}
                   => cache \in Package /\ cache \in new[d]

\* The link is there before the lock file is written, and stays.
Linked ==
  \A d \in Dir : /\ pc[d] \in {"verify", "save"} => link[d]
                 /\ result[d] \in {"ok", "unrecorded"} => link[d] /\ pc[d] = "idle"

\* What was found stays in the cache, and in the lock file if it was recorded.
Recorded ==
  \A d \in Dir : source = "archive" =>
    /\ result[d] \in {"ok", "unrecorded"} => cache \in Package /\ cache \in new[d]
    /\ result[d] = "ok" => cache \in lock[d]

CacheInv == /\ Kinds /\ Exclusive /\ FillsUp /\ Vouched
            /\ AsPinned /\ Backed /\ Linked /\ Recorded

\* It holds before the first run.
LEMMA CacheInit == Init => CacheInv
BY CacheAssumption DEF Init, CacheInv, Kinds, Exclusive, FillsUp, Vouched, AsPinned, Backed,
   Linked, Recorded, Locations, Contents, Locked

\* An init starts: its context, its new hashes and its result are its own.
LEMMA StartKeeps == ASSUME NEW d \in Dir, ~MayBreak, CacheInv, Start(d) PROVE CacheInv'
<1>1. Kinds' BY DEF Start, Kinds, CacheInv, Locations, Goto, shared
<1>2. Exclusive' BY DEF Start, Exclusive, CacheInv, Kinds, Locked, Goto
<1>3. FillsUp' BY DEF Start, FillsUp, CacheInv, Kinds, Goto, shared
<1>4. Vouched' BY DEF Start, Vouched, CacheInv, Kinds, Goto, shared
<1>5. AsPinned' BY DEF Start, AsPinned, CacheInv, Kinds, Goto, shared
<1>6. Backed' BY DEF Start, Backed, CacheInv, Kinds, Goto, shared
<1>7. Linked' BY DEF Start, Linked, CacheInv, Kinds, Goto
<1>8. Recorded' BY DEF Start, Recorded, CacheInv, Kinds, Goto, shared
<1> QED BY <1>1, <1>2, <1>3, <1>4, <1>5, <1>6, <1>7, <1>8 DEF CacheInv

\* What the working directory already links to is kept only when its lock file vouches for it.
LEMMA CheckTargetKeeps == ASSUME NEW d \in Dir, ~MayBreak, CacheInv, CheckTarget(d) PROVE CacheInv'
<1>1. Kinds' BY DEF CheckTarget, Kinds, CacheInv, Locations, Goto, shared
<1>2. Exclusive' BY DEF CheckTarget, Exclusive, CacheInv, Kinds, Locked, Goto
<1>3. FillsUp' BY DEF CheckTarget, FillsUp, CacheInv, Kinds, Goto, shared
<1>4. Vouched' BY DEF CheckTarget, Vouched, CacheInv, Kinds, Goto, shared
<1>5. AsPinned' BY DEF CheckTarget, AsPinned, CacheInv, Kinds, Goto, shared
<1>6. Backed' BY DEF CheckTarget, Backed, CacheInv, Kinds, Matches, Hashes, Package, Goto, shared
<1>7. Linked' BY DEF CheckTarget, Linked, CacheInv, Kinds, Goto
<1>a. /\ \A e \in Dir : result[e] \in {"ok", "unrecorded"} => e # d
      /\ \A e \in Dir \ {d} : new'[e] = new[e]
  BY DEF CheckTarget, Linked, CacheInv, Kinds, Goto
<1>b. UNCHANGED <<source, result, lock>> BY DEF CheckTarget, shared
<1>c. source = "archive" /\ cache \in Package => cache' = cache
  BY DEF CheckTarget, CacheInv, Kinds, Package
<1>8. Recorded' BY <1>a, <1>b, <1>c DEF Recorded, CacheInv
<1> QED BY <1>1, <1>2, <1>3, <1>4, <1>5, <1>6, <1>7, <1>8 DEF CacheInv

\* What the cache holds is used without the lock only when the lock file vouches for it.
LEMMA CheckCacheKeeps == ASSUME NEW d \in Dir, ~MayBreak, CacheInv, CheckCache(d) PROVE CacheInv'
<1>1. Kinds' BY DEF CheckCache, Kinds, CacheInv, Locations, Goto, shared
<1>2. Exclusive' BY DEF CheckCache, Exclusive, CacheInv, Kinds, Locked, Goto
<1>3. FillsUp' BY DEF CheckCache, FillsUp, CacheInv, Kinds, Goto, shared
<1>4. Vouched' BY DEF CheckCache, Vouched, CacheInv, Kinds, Goto, shared
<1>5. AsPinned' BY DEF CheckCache, AsPinned, CacheInv, Kinds, Goto, shared
<1>6. Backed' BY DEF CheckCache, Backed, CacheInv, Kinds, Matches, Hashes, Package, Goto, shared
<1>7. Linked' BY DEF CheckCache, Linked, CacheInv, Kinds, Goto
<1>a. /\ \A e \in Dir : result[e] \in {"ok", "unrecorded"} => e # d
      /\ \A e \in Dir \ {d} : new'[e] = new[e]
  BY DEF CheckCache, Linked, CacheInv, Kinds, Goto
<1>b. UNCHANGED <<source, result, lock>> BY DEF CheckCache, shared
<1>c. source = "archive" /\ cache \in Package => cache' = cache
  BY DEF CheckCache, CacheInv, Kinds, Package
<1>8. Recorded' BY <1>a, <1>b, <1>c DEF Recorded, CacheInv
<1> QED BY <1>1, <1>2, <1>3, <1>4, <1>5, <1>6, <1>7, <1>8 DEF CacheInv

\* Asking the source for the package changes nothing in the cache.
LEMMA GetMetaKeeps == ASSUME NEW d \in Dir, ~MayBreak, CacheInv, GetMeta(d) PROVE CacheInv'
<1>1. Kinds' BY DEF GetMeta, Kinds, CacheInv, Locations, Goto, End, shared
<1>2. Exclusive' BY DEF GetMeta, Exclusive, CacheInv, Kinds, Locked, Goto, End
<1>3. FillsUp' BY DEF GetMeta, FillsUp, CacheInv, Kinds, Goto, End, shared
<1>4. Vouched' BY DEF GetMeta, Vouched, CacheInv, Kinds, Goto, End, shared
<1>5. AsPinned' BY DEF GetMeta, AsPinned, CacheInv, Kinds, Goto, shared
<1>6. Backed' BY DEF GetMeta, Backed, CacheInv, Kinds, Goto, End, shared
<1>7. Linked' BY DEF GetMeta, Linked, CacheInv, Kinds, Goto, End
<1>8. Recorded' BY DEF GetMeta, Recorded, CacheInv, Kinds, Goto, End, shared
<1> QED BY <1>1, <1>2, <1>3, <1>4, <1>5, <1>6, <1>7, <1>8 DEF CacheInv

\* The lock on the file beside the package is granted to one process.
LEMMA AcquireKeeps == ASSUME NEW d \in Dir, ~MayBreak, CacheInv, Acquire(d) PROVE CacheInv'
<1>1. Kinds' BY DEF Acquire, Kinds, CacheInv, Locations, Goto, shared
<1>2. Exclusive' BY CacheAssumption DEF Acquire, Exclusive, CacheInv, Kinds, Locked, Goto
<1>3. FillsUp' BY DEF Acquire, FillsUp, CacheInv, Kinds, Goto, shared
<1>4. Vouched' BY DEF Acquire, Vouched, CacheInv, Kinds, Goto, shared
<1>5. AsPinned' BY DEF Acquire, AsPinned, CacheInv, Kinds, Goto, shared
<1>6. Backed' BY DEF Acquire, Backed, CacheInv, Kinds, Goto, shared
<1>7. Linked' BY DEF Acquire, Linked, CacheInv, Kinds, Goto
<1>8. Recorded' BY DEF Acquire, Recorded, CacheInv, Kinds, Goto, shared
<1> QED BY <1>1, <1>2, <1>3, <1>4, <1>5, <1>6, <1>7, <1>8 DEF CacheInv

\* A cancelled wait ends without the lock.
LEMMA StopWaitingKeeps == ASSUME NEW d \in Dir, ~MayBreak, CacheInv, StopWaiting(d) PROVE CacheInv'
<1>1. Kinds' BY DEF StopWaiting, Kinds, CacheInv, Locations, Goto, End, shared
<1>2. Exclusive' BY DEF StopWaiting, Exclusive, CacheInv, Kinds, Locked, Goto, End
<1>3. FillsUp' BY DEF StopWaiting, FillsUp, CacheInv, Kinds, Goto, End, shared
<1>4. Vouched' BY DEF StopWaiting, Vouched, CacheInv, Kinds, Goto, End, shared
<1>5. AsPinned' BY DEF StopWaiting, AsPinned, CacheInv, Kinds, Goto, shared
<1>6. Backed' BY DEF StopWaiting, Backed, CacheInv, Kinds, Goto, End, shared
<1>7. Linked' BY DEF StopWaiting, Linked, CacheInv, Kinds, Goto, End
<1>8. Recorded' BY DEF StopWaiting, Recorded, CacheInv, Kinds, Goto, End, shared
<1> QED BY <1>1, <1>2, <1>3, <1>4, <1>5, <1>6, <1>7, <1>8 DEF CacheInv

\* Under the lock the cache is looked at again before anything is fetched.
LEMMA RecheckKeeps == ASSUME NEW d \in Dir, ~MayBreak, CacheInv, Recheck(d) PROVE CacheInv'
<1>1. Kinds' BY DEF Recheck, Kinds, CacheInv, Locations, Goto, shared
<1>2. Exclusive' BY DEF Recheck, Exclusive, CacheInv, Kinds, Locked, Goto
<1>3. FillsUp' BY DEF Recheck, FillsUp, CacheInv, Kinds, Exclusive, Locked, Goto
<1>4. Vouched' BY DEF Recheck, Vouched, CacheInv, Kinds, AsPinned, Matches, Hashes, Goto, shared
<1>5. AsPinned' BY DEF Recheck, AsPinned, CacheInv, Kinds, Goto, shared
<1>6. Backed' BY DEF Recheck, Backed, CacheInv, Kinds, Goto, shared
<1>7. Linked' BY DEF Recheck, Linked, CacheInv, Kinds, Goto
<1>8. Recorded' BY DEF Recheck, Recorded, CacheInv, Kinds, Goto, shared
<1> QED BY <1>1, <1>2, <1>3, <1>4, <1>5, <1>6, <1>7, <1>8 DEF CacheInv

\* An archive is unpacked only where no package is; a mirror's target is removed first.
LEMMA FetchKeeps == ASSUME NEW d \in Dir, ~MayBreak, CacheInv, Fetch(d) PROVE CacheInv'
<1>1. Kinds' BY DEF Fetch, Kinds, CacheInv, Hashes, Contents, Locations, Goto, shared,
     FetchArchive, FetchMirror
<1>2. Exclusive' BY DEF Fetch, Exclusive, CacheInv, Kinds, Locked, Goto, FetchArchive, FetchMirror
<1>3. FillsUp' BY DEF Fetch, FillsUp, CacheInv, Kinds, Exclusive, Locked, Package, Goto,
     FetchArchive, FetchMirror
<1>4. Vouched' BY DEF Fetch, Vouched, CacheInv, Kinds, Goto, shared, FetchArchive, FetchMirror
<1>5. AsPinned' BY DEF Fetch, AsPinned, CacheInv, Kinds, Goto, shared, FetchArchive, FetchMirror
<1>6. Backed' BY DEF Fetch, Backed, CacheInv, Kinds, Goto, shared, FetchArchive, FetchMirror
<1>7. Linked' BY DEF Fetch, Linked, CacheInv, Kinds, Goto, FetchArchive, FetchMirror
<1>a. /\ \A e \in Dir : result[e] \in {"ok", "unrecorded"} => e # d
      /\ \A e \in Dir \ {d} : new'[e] = new[e]
  BY DEF Fetch, Linked, CacheInv, Kinds, Goto, FetchArchive, FetchMirror
<1>b. UNCHANGED <<source, result, lock>> BY DEF Fetch, shared, FetchArchive, FetchMirror
<1>c. source = "archive" /\ cache \in Package => cache' = cache
  BY DEF Fetch, CacheInv, Kinds, Package, FetchArchive, FetchMirror
<1>8. Recorded' BY <1>a, <1>b, <1>c DEF Recorded, CacheInv
<1> QED BY <1>1, <1>2, <1>3, <1>4, <1>5, <1>6, <1>7, <1>8 DEF CacheInv

\* The directory grows under the lock until it is the source's package, or is given up.
LEMMA FillKeeps == ASSUME NEW d \in Dir, ~MayBreak, CacheInv, Fill(d) PROVE CacheInv'
<1>1. Kinds' BY DEF Fill, Kinds, CacheInv, Contents, Grown, Locations, Goto, shared
<1>2. Exclusive' BY DEF Fill, Exclusive, CacheInv, Kinds, Locked, Goto
<1>3. FillsUp' BY DEF Fill, FillsUp, CacheInv, Kinds, Exclusive, Grown, Locked, Package, Goto
<1>4. Vouched' BY DEF Fill, Vouched, CacheInv, Kinds, Grown, Goto, shared
<1>5. AsPinned' BY DEF Fill, AsPinned, CacheInv, Kinds, Goto, shared
<1>6. Backed' BY DEF Fill, Backed, CacheInv, Kinds, FillsUp, Goto, shared
<1>7. Linked' BY DEF Fill, Linked, CacheInv, Kinds, Goto
<1>8. Recorded' BY DEF Fill, Recorded, CacheInv, Kinds, FillsUp, Goto, shared
<1> QED BY <1>1, <1>2, <1>3, <1>4, <1>5, <1>6, <1>7, <1>8 DEF CacheInv

\* The lock is given up, whether the installation succeeded or not.
LEMMA ReleaseKeeps == ASSUME NEW d \in Dir, ~MayBreak, CacheInv, Release(d) PROVE CacheInv'
<1>1. Kinds' BY DEF Release, Kinds, CacheInv, Locations, Goto, End, shared
<1>2. Exclusive' BY CacheAssumption DEF Release, Exclusive, CacheInv, Kinds, Locked, Goto, End
<1>3. FillsUp' BY DEF Release, FillsUp, CacheInv, Kinds, Exclusive, Locked, Goto, End
<1>4. Vouched' BY DEF Release, Vouched, CacheInv, Kinds, Goto, End, shared
<1>5. AsPinned' BY DEF Release, AsPinned, CacheInv, Kinds, Goto, shared
<1>6. Backed' BY DEF Release, Backed, CacheInv, Kinds, Goto, End, shared
<1>7. Linked' BY DEF Release, Linked, CacheInv, Kinds, Goto, End
<1>8. Recorded' BY DEF Release, Recorded, CacheInv, Kinds, Goto, End, shared
<1> QED BY <1>1, <1>2, <1>3, <1>4, <1>5, <1>6, <1>7, <1>8 DEF CacheInv

\* The package is looked for without the lock, which only fails or goes on.
LEMMA DetectKeeps == ASSUME NEW d \in Dir, ~MayBreak, CacheInv, Detect(d) PROVE CacheInv'
<1>1. Kinds' BY DEF Detect, Kinds, CacheInv, Locations, Goto, End, shared
<1>2. Exclusive' BY DEF Detect, Exclusive, CacheInv, Kinds, Locked, Goto, End
<1>3. FillsUp' BY DEF Detect, FillsUp, CacheInv, Kinds, Goto, End, shared
<1>4. Vouched' BY DEF Detect, Vouched, CacheInv, Kinds, Goto, End, shared
<1>5. AsPinned' BY DEF Detect, AsPinned, CacheInv, Kinds, Goto, shared
<1>6. Backed' BY DEF Detect, Backed, CacheInv, Kinds, Goto, End, shared
<1>7. Linked' BY DEF Detect, Linked, CacheInv, Kinds, Goto, End
<1>8. Recorded' BY DEF Detect, Recorded, CacheInv, Kinds, Goto, End, shared
<1> QED BY <1>1, <1>2, <1>3, <1>4, <1>5, <1>6, <1>7, <1>8 DEF CacheInv

\* The hash that is recorded is that of what the lock was given up over.
LEMMA HashKeeps == ASSUME NEW d \in Dir, ~MayBreak, CacheInv, Hash(d) PROVE CacheInv'
<1>1. Kinds' BY DEF Hash, Kinds, CacheInv, Hashes, Vouched, Locations, Goto, End, shared
<1>2. Exclusive' BY DEF Hash, Exclusive, CacheInv, Kinds, Locked, Goto, End
<1>3. FillsUp' BY DEF Hash, FillsUp, CacheInv, Kinds, Goto, End, shared
<1>4. Vouched' BY DEF Hash, Vouched, CacheInv, Kinds, Goto, shared
<1>5. AsPinned' BY DEF Hash, AsPinned, CacheInv, Kinds, Vouched, Goto, shared
<1>6. Backed' BY DEF Hash, Backed, CacheInv, Kinds, Vouched, Package, Goto, shared
<1>7. Linked' BY DEF Hash, Linked, CacheInv, Kinds, Goto, End
<1>8. Recorded' BY DEF Hash, Recorded, CacheInv, Kinds, Goto, End, shared
<1> QED BY <1>1, <1>2, <1>3, <1>4, <1>5, <1>6, <1>7, <1>8 DEF CacheInv

\* The working directory's link is removed before the new one is made.
LEMMA UnlinkKeeps == ASSUME NEW d \in Dir, ~MayBreak, CacheInv, Unlink(d) PROVE CacheInv'
<1>1. Kinds' BY DEF Unlink, Kinds, CacheInv, Locations, Goto, End, shared
<1>2. Exclusive' BY DEF Unlink, Exclusive, CacheInv, Kinds, Locked, Goto, End
<1>3. FillsUp' BY DEF Unlink, FillsUp, CacheInv, Kinds, Goto, End, shared
<1>4. Vouched' BY DEF Unlink, Vouched, CacheInv, Kinds, Goto, End, shared
<1>5. AsPinned' BY DEF Unlink, AsPinned, CacheInv, Kinds, Goto, shared
<1>6. Backed' BY DEF Unlink, Backed, CacheInv, Kinds, Hashes, Goto, shared
<1>7. Linked' BY DEF Unlink, Linked, CacheInv, Kinds, Goto, End
<1>8. Recorded' BY DEF Unlink, Recorded, CacheInv, Kinds, Backed, Hashes, Goto, shared
<1> QED BY <1>1, <1>2, <1>3, <1>4, <1>5, <1>6, <1>7, <1>8 DEF CacheInv

\* The link is made, or init fails.
LEMMA LinkKeeps == ASSUME NEW d \in Dir, ~MayBreak, CacheInv, Link(d) PROVE CacheInv'
<1>1. Kinds' BY DEF Link, Kinds, CacheInv, Locations, Goto, End, shared
<1>2. Exclusive' BY DEF Link, Exclusive, CacheInv, Kinds, Locked, Goto, End
<1>3. FillsUp' BY DEF Link, FillsUp, CacheInv, Kinds, Goto, End, shared
<1>4. Vouched' BY DEF Link, Vouched, CacheInv, Kinds, Goto, End, shared
<1>5. AsPinned' BY DEF Link, AsPinned, CacheInv, Kinds, Goto, shared
<1>6. Backed' BY DEF Link, Backed, CacheInv, Kinds, Goto, End, shared
<1>7. Linked' BY DEF Link, Linked, CacheInv, Kinds, Goto, End
<1>8. Recorded' BY DEF Link, Recorded, CacheInv, Kinds, Goto, End, shared
<1> QED BY <1>1, <1>2, <1>3, <1>4, <1>5, <1>6, <1>7, <1>8 DEF CacheInv

\* The package is looked for through the link.
LEMMA VerifyKeeps == ASSUME NEW d \in Dir, ~MayBreak, CacheInv, Verify(d) PROVE CacheInv'
<1>1. Kinds' BY DEF Verify, Kinds, CacheInv, Locations, Goto, End, shared
<1>2. Exclusive' BY DEF Verify, Exclusive, CacheInv, Kinds, Locked, Goto, End
<1>3. FillsUp' BY DEF Verify, FillsUp, CacheInv, Kinds, Goto, End, shared
<1>4. Vouched' BY DEF Verify, Vouched, CacheInv, Kinds, Goto, End, shared
<1>5. AsPinned' BY DEF Verify, AsPinned, CacheInv, Kinds, Goto, shared
<1>6. Backed' BY DEF Verify, Backed, CacheInv, Kinds, Goto, End, shared
<1>7. Linked' BY DEF Verify, Linked, CacheInv, Kinds, Goto, End
<1>8. Recorded' BY DEF Verify, Recorded, CacheInv, Kinds, Goto, End, shared
<1> QED BY <1>1, <1>2, <1>3, <1>4, <1>5, <1>6, <1>7, <1>8 DEF CacheInv

\* The lock file is replaced at once by the hashes that were gathered.
LEMMA SaveKeeps == ASSUME NEW d \in Dir, ~MayBreak, CacheInv, Save(d) PROVE CacheInv'
<1>1. Kinds' BY DEF Save, Kinds, CacheInv, Locations, Goto, End, shared
<1>2. Exclusive' BY DEF Save, Exclusive, CacheInv, Kinds, Locked, Goto, End
<1>3. FillsUp' BY DEF Save, FillsUp, CacheInv, Kinds, Goto, End, shared
<1>4. Vouched' BY DEF Save, Vouched, CacheInv, Kinds, Goto, End, shared
<1>5. AsPinned' BY DEF Save, AsPinned, CacheInv, Kinds, Goto, shared
<1>6. Backed' BY DEF Save, Backed, CacheInv, Kinds, Goto, End, shared
<1>7. Linked' BY DEF Save, Linked, CacheInv, Kinds, Goto, End
<1>8. Recorded' BY DEF Save, Recorded, CacheInv, Kinds, Backed, Goto, End, shared
<1> QED BY <1>1, <1>2, <1>3, <1>4, <1>5, <1>6, <1>7, <1>8 DEF CacheInv

\* Cancelling only sets the context.
LEMMA CancelKeeps == ASSUME NEW d \in Dir, ~MayBreak, CacheInv, Cancel(d) PROVE CacheInv'
<1>1. Kinds' BY DEF Cancel, Kinds, CacheInv, Goto, shared
<1>2. Exclusive' BY DEF Cancel, Exclusive, CacheInv, Kinds, Goto
<1>3. FillsUp' BY DEF Cancel, FillsUp, CacheInv, Kinds, Goto, shared
<1>4. Vouched' BY DEF Cancel, Vouched, CacheInv, Kinds, Goto, shared
<1>5. AsPinned' BY DEF Cancel, AsPinned, CacheInv, Kinds, Goto, shared
<1>6. Backed' BY DEF Cancel, Backed, CacheInv, Kinds, Goto, shared
<1>7. Linked' BY DEF Cancel, Linked, CacheInv, Kinds, Goto
<1>8. Recorded' BY DEF Cancel, Recorded, CacheInv, Kinds, Goto, shared
<1> QED BY <1>1, <1>2, <1>3, <1>4, <1>5, <1>6, <1>7, <1>8 DEF CacheInv

\* A process killed anywhere loses its lock and leaves the cache as it is.
LEMMA KillKeeps == ASSUME NEW d \in Dir, ~MayBreak, CacheInv, Kill(d) PROVE CacheInv'
<1>1. Kinds' BY DEF Kill, Kinds, CacheInv, Locations, Goto, End
<1>2. Exclusive' BY CacheAssumption DEF Kill, Exclusive, CacheInv, Kinds, Locked, Goto, End
<1>3. FillsUp' BY DEF Kill, FillsUp, CacheInv, Kinds, Goto, End
<1>4. Vouched' BY DEF Kill, Vouched, CacheInv, Kinds, Goto, End
<1>5. AsPinned' BY DEF Kill, AsPinned, CacheInv, Kinds, Goto
<1>6. Backed' BY DEF Kill, Backed, CacheInv, Kinds, Goto, End
<1>7. Linked' BY DEF Kill, Linked, CacheInv, Kinds, Goto, End
<1>8. Recorded' BY DEF Kill, Recorded, CacheInv, Kinds, Goto, End
<1> QED BY <1>1, <1>2, <1>3, <1>4, <1>5, <1>6, <1>7, <1>8 DEF CacheInv

\* No step of any process breaks the invariant.
LEMMA CacheStep == ASSUME ~MayBreak, CacheInv, [Next]_vars PROVE CacheInv'
<1>1. CASE UNCHANGED vars
  BY <1>1 DEF vars, CacheInv, Kinds, Exclusive, FillsUp, Vouched, AsPinned, Backed,
     Linked, Recorded
<1>2. ASSUME NEW d \in Dir, Start(d) \/ Continue(d) \/ Cancel(d) \/ Kill(d)
      PROVE  CacheInv'
  <2>1. CASE Start(d) \/ Cancel(d) \/ Kill(d)
    BY <2>1, StartKeeps, CancelKeeps, KillKeeps
  <2>2. CASE Continue(d)
    BY <2>2, CheckTargetKeeps, CheckCacheKeeps, GetMetaKeeps, AcquireKeeps, StopWaitingKeeps,
       RecheckKeeps, FetchKeeps, FillKeeps, ReleaseKeeps, DetectKeeps, HashKeeps, UnlinkKeeps,
       LinkKeeps, VerifyKeeps, SaveKeeps DEF Continue
  <2> QED BY <1>2, <2>1, <2>2
<1> QED BY <1>1, <1>2 DEF Next

\* Whoever installs, fails or is killed, the cache and the lock files stay
\* as the invariant says (Dir.InstallPackage under its lock).
THEOREM CacheInvariant == ASSUME ~MayBreak PROVE Spec => []CacheInv
BY CacheInit, CacheStep, PTL DEF Spec

\* What init records in a lock file is what the source has or what the file
\* asked for (ensureProviderVersionInDirectory).
THEOREM InstalledIsPinned == Spec => []InstalledAsPinned
<1>1. CASE MayBreak
  <2>1. InstalledAsPinned BY <1>1 DEF InstalledAsPinned
  <2> QED BY <2>1, PTL
<1>2. CASE ~MayBreak
  <2>1. CacheInv => InstalledAsPinned BY DEF CacheInv, AsPinned, InstalledAsPinned
  <2> QED BY <1>2, <2>1, CacheInvariant, PTL
<1> QED BY <1>1, <1>2

\* The package that an init has linked stays in the cache, with the hash that
\* it found, which the lock file has too unless it was read-only, so that a
\* later init finds it (LinkFromOtherCache, InitCommand.getProviders).
THEOREM InstallationStays == ASSUME ~MayBreak PROVE Spec => []StaysInstalled
<1>1. CacheInv => StaysInstalled
  BY DEF CacheInv, Linked, Recorded, StaysInstalled, Matches, Package
<1> QED BY <1>1, CacheInvariant, PTL
===============================================================================
