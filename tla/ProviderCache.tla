----------------------------- MODULE ProviderCache -----------------------------
(***************************************************************************)
(* Several "tofu init", each in a working directory of its own, install    *)
(* one version of one provider through a shared plugin cache:              *)
(* internal/providercache/installer.go and dir_modify.go, under the file   *)
(* lock of internal/flock, with what the package locations of              *)
(* internal/getproviders do to the cache's directory.                      *)
(*                                                                         *)
(* A package is known by what its directory holds.  "whole" is what the    *)
(* source has; a directory that is being unpacked goes from "empty" over   *)
(* "partial", which has no executable yet, or "started", which has one, to *)
(* "whole"; "other" is a package somebody changed.  A lock file has hashes *)
(* of such contents, and "zh", the hash of the source's archive, which no  *)
(* directory ever matches.                                                 *)
(***************************************************************************)
EXTENDS Naturals, FiniteSets

CONSTANTS Dir,        \* working directories, each with one process at a time
          None,
          Sources,    \* what the packages come from
          Found,      \* what the cache may hold at first
          Pins,       \* the hashes a lock file may have at first
          MayBreak,   \* plugin_cache_may_break_dependency_lock_file
          MaxRuns,    \* runs of init in each directory
          MaxKills    \* processes that are killed

Contents == {"absent", "empty", "partial", "started", "whole", "other"}
Hashes   == {"whole", "other", "zh"}

ASSUME CacheAssumption ==
  /\ Sources \subseteq {"archive", "mirror"} /\ Found \subseteq Contents
  /\ Pins \subseteq SUBSET Hashes /\ MayBreak \in BOOLEAN
  /\ MaxRuns \in Nat /\ MaxKills \in Nat /\ None \notin Dir

VARIABLES
  source,     \* "archive": zip files, "mirror": unpacked directories
  cache,      \* what the provider's directory in the cache holds
  owner,      \* who has the lock on the file beside it
  link,       \* whether the working directory has a link to the cache
  lock,       \* the lock file's hashes
  pinned,     \* those it had at first
  pc,         \* what a directory's process is about to do
  new,        \* the hashes it has found, which it is going to record
  cancelled,  \* its context
  result,     \* of the last run
  runs, kills

shared == <<source, pinned, kills>>
vars == <<source, cache, owner, link, lock, pinned, pc, new, cancelled, result,
          runs, kills>>

Locations == {"idle", "target", "cache", "meta", "wait", "held", "fetch", "fill",
              "release", "giveup", "detect", "hash", "unlink", "link", "verify", "save"}

\* CachedProvider.MatchesAnyHash, of a directory.
Matches(content, hashes) == content \in hashes \ {"zh"}

\* CachedProvider.ExecutableFile
HasExecutable(content) == content \in {"started", "whole", "other"}

Goto(d, l) == pc' = [pc EXCEPT ![d] = l]

End(d, r) == Goto(d, "idle") /\ result' = [result EXCEPT ![d] = r]

-----------------------------------------------------------------------------
(* A run of init, up to the lock.                                          *)

Start(d) ==
  /\ pc[d] = "idle" /\ runs[d] < MaxRuns
  /\ Goto(d, "target")
  /\ runs' = [runs EXCEPT ![d] = @ + 1]
  /\ new' = [new EXCEPT ![d] = {}]
  /\ cancelled' = [cancelled EXCEPT ![d] = FALSE]
  /\ result' = [result EXCEPT ![d] = "none"]
  /\ UNCHANGED <<shared, cache, owner, link, lock>>

\* ensureProviderVersionInstalled: the working directory has it.
CheckTarget(d) ==
  /\ pc[d] = "target"
  /\ IF link[d] /\ Matches(cache, lock[d])
     THEN Goto(d, "save") /\ new' = [new EXCEPT ![d] = lock[d]]
     ELSE Goto(d, "cache") /\ UNCHANGED new
  /\ UNCHANGED <<shared, cache, owner, link, lock, cancelled, result, runs>>

\* ensureProviderVersionInDirectory: the cache has it, read without the lock.
CheckCache(d) ==
  /\ pc[d] = "cache"
  /\ IF Matches(cache, lock[d])
     THEN Goto(d, "unlink") /\ new' = [new EXCEPT ![d] = lock[d]]
     ELSE Goto(d, "meta") /\ UNCHANGED new
  /\ UNCHANGED <<shared, cache, owner, link, lock, cancelled, result, runs>>

\* PackageMeta asks the source, which may fail, and does when cancelled.
GetMeta(d) ==
  /\ pc[d] = "meta"
  /\ \/ ~cancelled[d] /\ Goto(d, "wait") /\ UNCHANGED result
     \/ End(d, "failed")
  /\ UNCHANGED <<shared, cache, owner, link, lock, new, cancelled, runs>>

\* flock.LockBlocking
Acquire(d) ==
  /\ pc[d] = "wait" /\ owner = None
  /\ owner' = d
  /\ Goto(d, "held")
  /\ UNCHANGED <<shared, cache, link, lock, new, cancelled, result, runs>>

\* A cancelled wait ends when a signal reaches the thread that waits; until
\* then it may still get the lock.
StopWaiting(d) ==
  /\ pc[d] = "wait" /\ cancelled[d]
  /\ End(d, "failed")
  /\ UNCHANGED <<shared, cache, owner, link, lock, new, cancelled, runs>>

-----------------------------------------------------------------------------
(* Under the lock.                                                         *)

\* Mutated: without hashes, whatever is there is accepted.
Recheck_Trusts(d) ==
  /\ pc[d] = "held"
  /\ Goto(d, IF (lock[d] = {} /\ HasExecutable(cache)) \/ Matches(cache, lock[d])
             THEN "release" ELSE "fetch")
  /\ UNCHANGED <<shared, cache, owner, link, lock, new, cancelled, result, runs>>

\* Dir.installPackageWithLock: another process may have been faster.
Recheck(d) ==
  /\ pc[d] = "held"
  /\ Goto(d, IF \/ MayBreak /\ lock[d] = {} /\ HasExecutable(cache)
                \/ Matches(cache, lock[d])
             THEN "release" ELSE "fetch")
  /\ UNCHANGED <<shared, cache, owner, link, lock, new, cancelled, result, runs>>

\* Mutated: what is there is replaced.
FetchArchive_Clobbers(d) ==
  /\ source = "archive"
  /\ Goto(d, IF lock[d] \cap {"zh", "whole"} = {} /\ lock[d] # {} THEN "giveup"
             ELSE IF cache = "whole" THEN "release" ELSE "fill")
  /\ new' = [new EXCEPT ![d] = {"zh"}]
  /\ cache' = IF cache = "whole" THEN cache ELSE "empty"

\* PackageLocalArchive.InstallProviderPackage: what is there is neither
\* used nor replaced unless it is what the archive holds.
FetchArchive(d) ==
  /\ source = "archive"
  /\ Goto(d, IF lock[d] \cap {"zh", "whole"} = {} /\ lock[d] # {} THEN "giveup"
             ELSE CASE cache = "whole" -> "release"
                    [] cache \in {"absent", "empty"} -> "fill"
                    [] OTHER -> "giveup")
  /\ new' = [new EXCEPT ![d] = {"zh"}]
  /\ UNCHANGED cache

\* PackageLocalDir.InstallProviderPackage: it is removed first.
FetchMirror(d) ==
  /\ source = "mirror"
  /\ IF lock[d] \ {"zh"} # {} /\ "whole" \notin lock[d]
     THEN Goto(d, "giveup") /\ UNCHANGED cache
     ELSE Goto(d, "fill") /\ cache' = "absent"
  /\ UNCHANGED new

\* The download, and what is done before anything is written.
Fetch(d) ==
  /\ pc[d] = "fetch"
  /\ \/ ~cancelled[d] /\ FetchArchive(d)
     \/ FetchMirror(d)
     \/ source = "archive" /\ Goto(d, "giveup") /\ UNCHANGED <<cache, new>>
  /\ UNCHANGED <<shared, owner, link, lock, cancelled, result, runs>>

\* A file more: files come in the archive's order.  A link comes at once.
Grown == IF source = "mirror" THEN {"whole"}
         ELSE CASE cache = "absent"  -> {"empty"}
                [] cache = "empty"   -> {"partial", "started"}
                [] cache = "partial" -> {"started"}
                [] OTHER -> {"whole"}

Fill(d) ==
  /\ pc[d] = "fill"
  /\ \/ /\ cache' \in Grown
        /\ Goto(d, IF cache' = "whole" THEN "release" ELSE "fill")
     \/ Goto(d, "giveup") /\ UNCHANGED cache
  /\ UNCHANGED <<shared, owner, link, lock, new, cancelled, result, runs>>

\* Mutated: a failed installation returns before it unlocks.
Release_Keeps(d) ==
  /\ pc[d] \in {"release", "giveup"}
  /\ owner' = IF owner = d /\ pc[d] = "release" THEN None ELSE owner
  /\ IF pc[d] = "release" THEN Goto(d, "detect") /\ UNCHANGED result ELSE End(d, "failed")
  /\ UNCHANGED <<shared, cache, link, lock, new, cancelled, runs>>

\* InstallPackage unlocks, whatever it returns.
Release(d) ==
  /\ pc[d] \in {"release", "giveup"}
  /\ owner' = IF owner = d THEN None ELSE owner
  /\ IF pc[d] = "release" THEN Goto(d, "detect") /\ UNCHANGED result ELSE End(d, "failed")
  /\ UNCHANGED <<shared, cache, link, lock, new, cancelled, runs>>

-----------------------------------------------------------------------------
(* And after it.                                                           *)

\* ProviderVersion, ExecutableFile
Detect(d) ==
  /\ pc[d] = "detect"
  /\ IF HasExecutable(cache) THEN Goto(d, "hash") /\ UNCHANGED result ELSE End(d, "failed")
  /\ UNCHANGED <<shared, cache, owner, link, lock, new, cancelled, runs>>

\* CachedProvider.Hash
Hash(d) ==
  /\ pc[d] = "hash"
  /\ IF cache = "absent" THEN End(d, "failed") /\ UNCHANGED new
     ELSE /\ Goto(d, "unlink") /\ UNCHANGED result
          /\ new' = [new EXCEPT ![d] = @ \cup lock[d] \cup {cache}]
  /\ UNCHANGED <<shared, cache, owner, link, lock, cancelled, runs>>

\* LinkFromOtherCache, given what ProviderVersion finds: when that is
\* nothing, the process panics.
Unlink(d) ==
  /\ pc[d] = "unlink"
  /\ IF cache = "absent" THEN End(d, "panic") /\ UNCHANGED link
     ELSE Goto(d, "link") /\ link' = [link EXCEPT ![d] = FALSE] /\ UNCHANGED result
  /\ UNCHANGED <<shared, cache, owner, lock, new, cancelled, runs>>

Link(d) ==
  /\ pc[d] = "link"
  /\ \/ Goto(d, "verify") /\ link' = [link EXCEPT ![d] = TRUE] /\ UNCHANGED result
     \/ End(d, "failed") /\ UNCHANGED link
  /\ UNCHANGED <<shared, cache, owner, lock, new, cancelled, runs>>

\* ExecutableFile, through the link
Verify(d) ==
  /\ pc[d] = "verify"
  /\ IF HasExecutable(cache) THEN Goto(d, "save") /\ UNCHANGED result ELSE End(d, "failed")
  /\ UNCHANGED <<shared, cache, owner, link, lock, new, cancelled, runs>>

\* InitCommand.getProviders, SaveLocksToFile: a file replaced at once.
\* With -lockfile=readonly it stays as it is: an error when it has nothing of
\* the provider, and no more than a warning when a hash is new.
Save(d) ==
  /\ pc[d] = "save"
  /\ \/ ~cancelled[d] /\ End(d, "ok") /\ lock' = [lock EXCEPT ![d] = new[d]]
     \/ ~cancelled[d] /\ lock[d] # {} /\ End(d, "unrecorded") /\ UNCHANGED lock
     \/ End(d, "failed") /\ UNCHANGED lock
  /\ UNCHANGED <<shared, cache, owner, link, new, cancelled, runs>>

-----------------------------------------------------------------------------

Cancel(d) ==
  /\ pc[d] # "idle" /\ ~cancelled[d]
  /\ cancelled' = [cancelled EXCEPT ![d] = TRUE]
  /\ UNCHANGED <<shared, cache, owner, link, lock, pc, new, result, runs>>

\* The kernel takes the lock away from a process that ends.
Kill(d) ==
  /\ pc[d] # "idle" /\ kills < MaxKills
  /\ kills' = kills + 1
  /\ End(d, "none")
  /\ owner' = IF owner = d THEN None ELSE owner
  /\ UNCHANGED <<source, pinned, cache, link, lock, new, cancelled, runs>>

Init ==
  /\ source \in Sources /\ cache \in Found /\ owner = None
  /\ link = [d \in Dir |-> FALSE]
  /\ pinned \in [Dir -> Pins] /\ lock = pinned
  /\ pc = [d \in Dir |-> "idle"] /\ new = [d \in Dir |-> {}]
  /\ cancelled = [d \in Dir |-> FALSE] /\ result = [d \in Dir |-> "none"]
  /\ runs = [d \in Dir |-> 0] /\ kills = 0

Continue(d) ==
  \/ CheckTarget(d) \/ CheckCache(d) \/ GetMeta(d) \/ Acquire(d) \/ StopWaiting(d)
  \/ Recheck(d) \/ Fetch(d) \/ Fill(d) \/ Release(d)
  \/ Detect(d) \/ Hash(d) \/ Unlink(d) \/ Link(d) \/ Verify(d) \/ Save(d)

Next == \E d \in Dir : Start(d) \/ Continue(d) \/ Cancel(d) \/ Kill(d)

\* A process that is not killed goes on; a lock that stays free is granted.
Spec == Init /\ [][Next]_vars /\ \A d \in Dir : WF_vars(Continue(d))

-----------------------------------------------------------------------------
(* Properties.                                                             *)

\* Nothing but its kind is recorded, and what a process relies on it has.
TypeOK ==
  /\ source \in Sources /\ cache \in Contents /\ owner \in Dir \cup {None}
  /\ link \in [Dir -> BOOLEAN] /\ cancelled \in [Dir -> BOOLEAN]
  /\ lock \in [Dir -> SUBSET (Hashes \cup {"started"})] /\ pinned \in [Dir -> SUBSET Hashes]
  /\ pc \in [Dir -> Locations] /\ new \in [Dir -> SUBSET (Hashes \cup {"started"})]
  /\ result \in [Dir -> {"none", "ok", "unrecorded", "failed", "panic"}]
  /\ runs \in [Dir -> 0..MaxRuns] /\ kills \in 0..MaxKills
  /\ \A d \in Dir : pc[d] \in {"verify", "save"} => link[d]

\* A package unpacked in part is never taken for one: what init finds
\* installed, and records unless the lock file is read-only, is what the
\* source has, or what the lock file asked for, though the cache is read
\* without its lock before and after the installation
\* (ensureProviderVersionInDirectory).
InstalledAsPinned ==
  ~MayBreak => \A d \in Dir : lock[d] \cup new[d] \subseteq pinned[d] \cup {"whole", "zh"}

\* What one init has installed no other can spoil, killed or failing as it
\* may be: the link of the working directory leads to the package whose hash
\* this init found, and its lock file has that hash, unless init was to leave
\* the lock file alone.
StaysInstalled ==
  source = "archive" =>
    \A d \in Dir :
      /\ result[d] \in {"ok", "unrecorded"} => link[d] /\ Matches(cache, new[d])
      /\ result[d] = "ok" => Matches(cache, lock[d])

\* "OpenTofu will never itself delete a plugin from the plugin cache once
\* it has been placed there" (website/docs/cli/config/config-file.mdx).
NeverDeleted == [][(cache \in {"whole", "other"}) => cache' # "absent"]_vars

\* Every init ends, also one whose lock another holds that is killed, and
\* one that is cancelled while it waits for the lock.
InitEnds == \A d \in Dir : pc[d] # "idle" ~> pc[d] = "idle"
==============================================================================
