------------------------------- MODULE Catalog -------------------------------
(* The catalog of reference capabilities (internal/catalog/refresh.go): the   *)
(* scheduler's goroutine and operators refresh it from models.dev, keep it in *)
(* memory and cache it on disk; the process may crash between any two steps.  *)
(*                                                                            *)
(* A catalog is its version: what models.dev served after that many updates,  *)
(* 0 for the embedded snapshot.  Left out: Lookup and the dates.              *)
EXTENDS Integers

CONSTANTS
  Refreshers,    \* the scheduler and operators' requests
  MaxVersion,    \* bound on the upstream's versions
  MaxCrashes,    \* bound on the crashes
  MaxStuck       \* bound on the temporary files that cannot be removed

ASSUME CatalogAssumption == MaxVersion \in Nat /\ MaxCrashes \in Nat /\ MaxStuck \in Nat

Versions == 0..MaxVersion

(* Files: version -1 is an absent one, -2 one whose content is not a catalog; *)
(* synced tells whether the content has reached the disk.                     *)
Absent == [version |-> -1, synced |-> TRUE]
Torn == [version |-> -2, synced |-> TRUE]
Files == [version : {-2, -1} \cup Versions, synced : BOOLEAN]

VARIABLES
  remote,       \* the version models.dev serves
  up,           \* whether initialize has run in this process
  data,         \* the catalog in memory
  cache,        \* the cache file
  settled,      \* the one a power failure may bring back
  temps,        \* temporary files left behind
  mutex,        \* refreshMu: the refreshers that hold it
  pc,           \* where each refresher is
  next,         \* the catalog each one parsed, then wrote
  fault,        \* whether its write to the cache failed
  report,       \* refreshState: LastError, CacheError, LastSuccess as BOOLEANs
  promised,     \* history: the last version reported as refreshed and cached
  secured,      \* history: what was promised when a file was last synced
  stuck,        \* history: temporary files that could not be removed
  crashes

history == <<promised, secured, stuck, crashes>>
process == <<up, data, mutex, pc, next, fault, report>>
disk == <<cache, settled, temps>>
vars == <<remote, process, disk, history>>

NoReport == [error |-> FALSE, cacheError |-> FALSE, success |-> FALSE]

Init ==
  /\ remote \in Versions /\ up = FALSE /\ data = 0
  /\ cache = Absent /\ settled = Absent /\ temps = 0
  /\ mutex = {}
  /\ pc = [r \in Refreshers |-> "idle"]
  /\ next = [r \in Refreshers |-> Absent]
  /\ fault = [r \in Refreshers |-> FALSE]
  /\ report = NoReport
  /\ promised = 0 /\ secured = 0 /\ stuck = 0 /\ crashes = 0

-----------------------------------------------------------------------------
(* initialize, once per process: the cache if it can be read and holds a      *)
(* catalog, else the embedded snapshot.  Faulty form: whatever it holds.      *)
InitializeUnchecked ==
  /\ ~up
  /\ up' = TRUE /\ data' \in {0, cache.version}
  /\ UNCHANGED <<remote, mutex, pc, next, fault, report, disk, history>>

Initialize ==
  /\ ~up
  /\ up' = TRUE /\ data' \in {0, cache.version} \cap Versions
  /\ UNCHANGED <<remote, mutex, pc, next, fault, report, disk, history>>

(* Refresh takes the mutex or gives up at once.  Faulty form: the unlock is   *)
(* not deferred, so the mutex is free again before anything is done.          *)
BeginReleasing(r) ==
  /\ up /\ pc[r] = "idle" /\ mutex = {}
  /\ pc' = [pc EXCEPT ![r] = "fetch"]
  /\ UNCHANGED <<remote, up, data, mutex, next, fault, report, disk, history>>

Begin(r) ==
  /\ up /\ pc[r] = "idle" /\ mutex = {}
  /\ mutex' = mutex \cup {r} /\ pc' = [pc EXCEPT ![r] = "fetch"]
  /\ UNCHANGED <<remote, up, data, next, fault, report, disk, history>>

(* The response is read whole, and parsed.                                    *)
Fetch(r) ==
  /\ pc[r] = "fetch"
  /\ next' = [next EXCEPT ![r] = [version |-> remote, synced |-> FALSE]]
  /\ fault' = [fault EXCEPT ![r] = FALSE]
  /\ pc' = [pc EXCEPT ![r] = "write"]
  /\ UNCHANGED <<remote, up, data, mutex, report, disk, history>>

(* The deferred unlock runs last.                                             *)
Ended(r) == pc' = [pc EXCEPT ![r] = "idle"] /\ mutex' = mutex \ {r}

(* Timeout, HTTP status, size or content.  Faulty form: this return keeps the *)
(* mutex.                                                                     *)
FetchFailsKeepingMutex(r) ==
  /\ pc[r] = "fetch"
  /\ report' = [report EXCEPT !.error = TRUE]
  /\ pc' = [pc EXCEPT ![r] = "idle"]
  /\ UNCHANGED <<remote, up, data, mutex, next, fault, disk, history>>

FetchFails(r) ==
  /\ pc[r] = "fetch"
  /\ report' = [report EXCEPT !.error = TRUE]
  /\ Ended(r)
  /\ UNCHANGED <<remote, up, data, next, fault, disk, history>>

-----------------------------------------------------------------------------
(* persist: a temporary file, written, synced and renamed over the cache.     *)
Write(r) ==
  /\ pc[r] = "write"
  /\ temps' = temps + 1
  /\ pc' = [pc EXCEPT ![r] = "sync"]
  /\ UNCHANGED <<remote, up, data, mutex, next, fault, report, cache, settled, history>>

(* Faulty form: the file is renamed before it is synced.                      *)
SyncSkipped(r) ==
  /\ pc[r] = "sync"
  /\ pc' = [pc EXCEPT ![r] = "rename"]
  /\ UNCHANGED <<remote, up, data, mutex, next, fault, report, disk, history>>

Sync(r) ==
  /\ pc[r] = "sync"
  /\ next' = [next EXCEPT ![r].synced = TRUE]
  /\ settled' = cache /\ secured' = promised
  /\ pc' = [pc EXCEPT ![r] = "rename"]
  /\ UNCHANGED <<remote, up, data, mutex, fault, report, cache, temps, promised, stuck,
                 crashes>>

Rename(r) ==
  /\ pc[r] = "rename"
  /\ cache' = next[r] /\ temps' = temps - 1
  /\ pc' = [pc EXCEPT ![r] = "swap"]
  /\ UNCHANGED <<remote, up, data, mutex, next, fault, report, settled, history>>

(* Any step of persist may fail; the temporary file, once made, is removed,   *)
(* unless that fails, too, which is ignored.  Faulty form: it never is.       *)
PersistFailsLittering(r) ==
  /\ pc[r] \in {"write", "sync", "rename"}
  /\ fault' = [fault EXCEPT ![r] = TRUE]
  /\ pc' = [pc EXCEPT ![r] = "swap"]
  /\ UNCHANGED <<remote, up, data, mutex, next, report, disk, history>>

PersistFails(r) ==
  /\ pc[r] \in {"write", "sync", "rename"}
  /\ \/ temps' = (IF pc[r] = "write" THEN temps ELSE temps - 1) /\ UNCHANGED stuck
     \/ pc[r] # "write" /\ stuck < MaxStuck /\ stuck' = stuck + 1 /\ UNCHANGED temps
  /\ fault' = [fault EXCEPT ![r] = TRUE]
  /\ pc' = [pc EXCEPT ![r] = "swap"]
  /\ UNCHANGED <<remote, up, data, mutex, next, report, cache, settled, promised, secured,
                 crashes>>

(* The new catalog is used whether or not it could be cached.                 *)
Swap(r) ==
  /\ pc[r] = "swap"
  /\ data' = next[r].version
  /\ pc' = [pc EXCEPT ![r] = "note"]
  /\ UNCHANGED <<remote, up, mutex, next, fault, report, disk, history>>

(* CacheError is written under refreshState's lock ... faulty form: only ever *)
(* cleared.                                                                   *)
NoteCacheForgotten(r) ==
  /\ pc[r] = "note"
  /\ report' = [report EXCEPT !.cacheError = FALSE]
  /\ pc' = [pc EXCEPT ![r] = "finish"]
  /\ UNCHANGED <<remote, up, data, mutex, next, fault, disk, history>>

NoteCache(r) ==
  /\ pc[r] = "note"
  /\ report' = [report EXCEPT !.cacheError = fault[r]]
  /\ pc' = [pc EXCEPT ![r] = "finish"]
  /\ UNCHANGED <<remote, up, data, mutex, next, fault, disk, history>>

(* ... and the result in a second critical section.                           *)
Finish(r) ==
  /\ pc[r] = "finish"
  /\ report' = [report EXCEPT !.error = FALSE, !.success = TRUE]
  /\ promised' = IF report.cacheError THEN promised ELSE data
  /\ Ended(r)
  /\ UNCHANGED <<remote, up, data, next, fault, disk, secured, stuck, crashes>>

-----------------------------------------------------------------------------
(* The environment: models.dev changes; the process dies and starts again; or *)
(* the machine does.  The directory is never synced: a rename is lost with the*)
(* power unless a later sync of a file, which on a journaling file system     *)
(* carries the renames before it, has settled it.                             *)
Publish ==
  /\ remote < MaxVersion /\ remote' = remote + 1
  /\ UNCHANGED <<process, disk, history>>

Died ==
  /\ crashes < MaxCrashes /\ crashes' = crashes + 1
  /\ up' = FALSE /\ data' = 0 /\ mutex' = {}
  /\ pc' = [r \in Refreshers |-> "idle"]
  /\ report' = NoReport
  /\ UNCHANGED <<remote, next, fault, temps, stuck>>

Crash == Died /\ UNCHANGED <<cache, settled, promised, secured>>

(* Either the last rename holds, of a file that is whole if it was synced, or *)
(* it is lost, and with it what was reported since the last sync.             *)
PowerFailure ==
  /\ Died
  /\ \/ cache' = (IF cache.synced THEN cache ELSE Torn) /\ UNCHANGED promised
     \/ cache' = settled /\ promised' = secured
  /\ settled' = cache' /\ secured' = promised'

Work(r) ==
  \/ Fetch(r) \/ FetchFails(r) \/ Write(r) \/ Sync(r) \/ Rename(r) \/ PersistFails(r)
  \/ Swap(r) \/ NoteCache(r) \/ Finish(r)

Next ==
  \/ Initialize \/ Publish \/ Crash \/ PowerFailure
  \/ \E r \in Refreshers : Begin(r) \/ Work(r)

Spec == Init /\ [][Next]_vars

(* The fetch is bounded by its timeout and disk operations return.            *)
FairSpec == Spec /\ \A r \in Refreshers : WF_vars(Work(r))

-----------------------------------------------------------------------------
TypeOK ==
  /\ {remote, data, promised, secured} \subseteq Versions
  /\ up \in BOOLEAN
  /\ {cache, settled} \subseteq Files /\ next \in [Refreshers -> Files]
  /\ temps \in Nat /\ stuck \in 0..MaxStuck /\ crashes \in 0..MaxCrashes
  /\ mutex \subseteq Refreshers
  /\ pc \in [Refreshers ->
       {"idle", "fetch", "write", "sync", "rename", "swap", "note", "finish"}]
  /\ fault \in [Refreshers -> BOOLEAN]
  /\ report \in [error : BOOLEAN, cacheError : BOOLEAN, success : BOOLEAN]
  /\ \A r \in Refreshers : pc[r] # "idle" => r \in mutex

(* In one process the catalog never goes back to an older one: not on errors, *)
(* and not when a slow refresh ends after a quicker one.                      *)
NeverOlder == [][crashes' = crashes /\ up => data' >= data]_vars

(* What was reported as refreshed with no cache error is in the cache file,   *)
(* or something newer is: whichever step fails, and at whichever step the     *)
(* process or the machine dies.  Losing power may cost the reports since the  *)
(* last sync, whose renames the disk may not have, and never more.            *)
Durable == promised > 0 => cache.version >= promised

(* When no refresh is running and one has succeeded, the status shows a cache *)
(* error or the catalog in memory is the one on disk, whatever failed since.  *)
ReportHonest ==
  mutex = {} /\ report.success /\ ~report.cacheError => cache.version = data

(* Only crashes, and files that cannot be removed, leave temporary files.     *)
NoLitter == mutex = {} => temps <= crashes + stuck

(* A refresh never holds the mutex forever, so that later ones can begin.     *)
MutexFreed == \A r \in Refreshers : r \in mutex ~> r \notin mutex
==============================================================================
