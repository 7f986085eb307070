---------------------------- MODULE CatalogProofs ----------------------------
(* Theorems about the catalog, for any refreshers and any bounds: whatever    *)
(* fails or crashes and when, what was promised is kept.                      *)
EXTENDS Catalog, TLAPS

-----------------------------------------------------------------------------
(* The inductive invariant.  One refresher runs at a time, in a process that  *)
(* has been initialised.                                                      *)
Alone ==
  /\ \A r, s \in mutex : r = s
  /\ \A r \in mutex : pc[r] # "idle" /\ up

(* Only whole files are renamed over the cache.                               *)
Whole ==
  /\ cache.synced /\ settled.synced
  /\ \A r \in Refreshers : pc[r] = "rename" => next[r].synced

(* What a running refresher has fetched is not older than what is in use and  *)
(* on disk: it was alone since.                                               *)
Carrying == {"write", "sync", "rename", "swap", "note", "finish"}

Newest ==
  /\ data <= remote /\ cache.version <= remote /\ settled.version <= remote
  /\ \A r \in Refreshers : pc[r] \in Carrying =>
       /\ next[r].version \in Versions /\ next[r].version <= remote
       /\ data <= next[r].version /\ cache.version <= next[r].version

(* After the rename, or its failure, what has been done with it so far.       *)
Stored ==
  \A r \in Refreshers :
    /\ pc[r] \in {"swap", "note", "finish"} /\ ~fault[r] => cache.version = next[r].version
    /\ pc[r] \in {"note", "finish"} => data = next[r].version
    /\ pc[r] = "finish" => report.cacheError = fault[r]

(* The promise is on disk, and a part of it where a power failure leaves it.  *)
Kept ==
  /\ promised = 0 \/ promised <= cache.version
  /\ secured = 0 \/ secured <= settled.version

(* A good report is true until the next refresh swaps its catalog in; a new   *)
(* process has none.                                                          *)
Honest ==
  /\ report.success => up
  /\ report.success /\ ~report.cacheError =>
       \/ cache.version = data
       \/ \E r \in Refreshers : pc[r] \in {"swap", "note"}

(* One temporary file is in use at most, the others are those of crashes and  *)
(* of removals that failed.                                                   *)
Writing == {"sync", "rename"}

Littered ==
  /\ \A r \in Refreshers : pc[r] \in Writing => temps >= 1 /\ temps <= crashes + stuck + 1
  /\ temps <= crashes + stuck \/ \E r \in Refreshers : pc[r] \in Writing

IInv ==
  /\ TypeOK /\ Alone /\ Whole /\ Newest /\ Stored /\ Kept /\ Honest /\ Littered

-----------------------------------------------------------------------------
LEMMA Initially == Init => IInv
<1> SUFFICES ASSUME Init  PROVE IInv
  OBVIOUS
<1> USE DEF Init, Absent, NoReport
<1>1. 0 \in Versions /\ -1 \in Int /\ Absent \in Files
  BY CatalogAssumption DEF Versions, Files
<1>2. TypeOK
  <2>1. report \in [error : BOOLEAN, cacheError : BOOLEAN, success : BOOLEAN]
    OBVIOUS
  <2>2. next \in [Refreshers -> Files] /\ {cache, settled} \subseteq Files
    BY <1>1
  <2>3. pc \in [Refreshers ->
          {"idle", "fetch", "write", "sync", "rename", "swap", "note", "finish"}]
    OBVIOUS
  <2>4. \A r \in Refreshers : pc[r] = "idle"
    OBVIOUS
  <2>5. fault \in [Refreshers -> BOOLEAN] /\ mutex \subseteq Refreshers /\ temps \in Nat
    OBVIOUS
  <2>6. /\ {remote, data, promised, secured} \subseteq Versions
        /\ stuck \in 0..MaxStuck /\ crashes \in 0..MaxCrashes
    BY <1>1, CatalogAssumption
  <2>7. up \in BOOLEAN
    OBVIOUS
  <2> QED
    BY <2>1, <2>2, <2>3, <2>4, <2>5, <2>6, <2>7 DEF TypeOK
<1>3. Alone /\ Whole /\ Newest /\ Stored
  BY <1>1 DEF Alone, Whole, Newest, Stored, Versions, Carrying
<1>4. Kept /\ Honest /\ Littered
  BY DEF Kept, Honest, Littered, Writing
<1> QED
  BY <1>2, <1>3, <1>4 DEF IInv

(* Who is not idle holds the mutex, and alone.                                *)
LEMMA OnlyOne ==
  ASSUME IInv, NEW r \in Refreshers, pc[r] # "idle"
  PROVE  /\ \A s \in Refreshers : s # r => pc[s] = "idle"
         /\ mutex = {r} /\ mutex \ {r} = {} /\ up
BY DEF IInv, TypeOK, Alone

(* The fields of a file.                                                      *)
LEMMA FileFields ==
  ASSUME NEW f \in Files
  PROVE  /\ f.version \in {-2, -1} \cup Versions /\ f.version \in Int
         /\ f.synced \in BOOLEAN
         /\ [f EXCEPT !.synced = TRUE] \in Files
         /\ [f EXCEPT !.synced = TRUE].version = f.version
         /\ [f EXCEPT !.synced = TRUE].synced
<1>1. f.version \in {-2, -1} \cup Versions /\ f.synced \in BOOLEAN
  BY DEF Files
<1>2. f.version \in Int
  BY <1>1, CatalogAssumption DEF Versions
<1>3. [f EXCEPT !.synced = TRUE] \in Files
  BY DEF Files
<1>4. [f EXCEPT !.synced = TRUE].version = f.version /\ [f EXCEPT !.synced = TRUE].synced
  BY DEF Files
<1> QED
  BY <1>1, <1>2, <1>3, <1>4

LEMMA BeginKeeps ==
  ASSUME IInv, NEW r \in Refreshers, Begin(r)
  PROVE  IInv'
<1> USE DEF Begin, disk, history
<1>1. \A s \in Refreshers : pc[s] = "idle"
  BY DEF IInv, TypeOK
<1>2. pc' = [s \in Refreshers |-> IF s = r THEN "fetch" ELSE pc[s]]
  BY DEF IInv, TypeOK
<1>3. TypeOK'
  BY <1>2 DEF IInv, TypeOK
<1>4. Alone' /\ Whole' /\ Newest'
  BY <1>1, <1>2 DEF IInv, TypeOK, Alone, Whole, Newest, Carrying
<1>5. Stored' /\ Kept' /\ Honest' /\ Littered'
  BY <1>1, <1>2 DEF IInv, Stored, Kept, Honest, Littered, Writing
<1> QED
  BY <1>3, <1>4, <1>5 DEF IInv

LEMMA FetchKeeps ==
  ASSUME IInv, NEW r \in Refreshers, Fetch(r)
  PROVE  IInv'
<1> USE DEF Fetch, disk, history
<1> DEFINE new == [version |-> remote, synced |-> FALSE]
<1>1. /\ pc[r] = "fetch" /\ \A s \in Refreshers : s # r => pc[s] = "idle"
      /\ mutex = {r} /\ up
  BY OnlyOne
<1>2. /\ pc' = [s \in Refreshers |-> IF s = r THEN "write" ELSE pc[s]]
      /\ next' = [s \in Refreshers |-> IF s = r THEN new ELSE next[s]]
  BY DEF IInv, TypeOK
<1>3. new \in Files /\ new.version = remote /\ remote \in Versions
  BY DEF IInv, TypeOK, Files
<1> HIDE DEF new
<1>4. TypeOK'
  <2>1. next' \in [Refreshers -> Files]
    BY <1>2, <1>3 DEF IInv, TypeOK
  <2>4. pc' \in [Refreshers ->
          {"idle", "fetch", "write", "sync", "rename", "swap", "note", "finish"}]
    BY <1>2 DEF IInv, TypeOK
  <2>2. fault' \in [Refreshers -> BOOLEAN]
    BY DEF IInv, TypeOK
  <2>3. \A s \in Refreshers : pc'[s] # "idle" => s \in mutex'
    BY <1>1, <1>2 DEF IInv, TypeOK
  <2> QED
    BY <2>1, <2>2, <2>3, <2>4 DEF IInv, TypeOK
<1>5. Alone' /\ Whole' /\ Newest'
  BY <1>1, <1>2, <1>3, CatalogAssumption DEF IInv, TypeOK, Alone, Whole, Newest, Carrying, Versions
<1>6. Stored' /\ Kept' /\ Honest' /\ Littered'
  BY <1>1, <1>2 DEF IInv, TypeOK, Stored, Kept, Honest, Littered, Writing
<1> QED
  BY <1>4, <1>5, <1>6 DEF IInv
LEMMA FetchFailsKeeps ==
  ASSUME IInv, NEW r \in Refreshers, FetchFails(r)
  PROVE  IInv'
<1> USE DEF FetchFails, Ended, disk, history
<1>1. /\ pc[r] = "fetch" /\ \A s \in Refreshers : s # r => pc[s] = "idle"
      /\ mutex = {r} /\ mutex' = {} /\ up
  BY OnlyOne
<1>2. pc' = [s \in Refreshers |-> IF s = r THEN "idle" ELSE pc[s]]
  BY DEF IInv, TypeOK
<1>3. /\ report' \in [error : BOOLEAN, cacheError : BOOLEAN, success : BOOLEAN]
      /\ report'.cacheError = report.cacheError /\ report'.success = report.success
  BY DEF IInv, TypeOK
<1>4. \A s \in Refreshers : pc'[s] = "idle"
  BY <1>1, <1>2
<1>5. TypeOK'
  BY <1>1, <1>2, <1>3, <1>4 DEF IInv, TypeOK
<1>6. Alone' /\ Whole' /\ Newest' /\ Stored'
  BY <1>1, <1>4 DEF IInv, Alone, Whole, Newest, Stored, Carrying
<1>7. Kept' /\ Honest' /\ Littered'
  BY <1>1, <1>3, <1>4 DEF IInv, Kept, Honest, Littered, Writing
<1> QED
  BY <1>5, <1>6, <1>7 DEF IInv

LEMMA WriteKeeps ==
  ASSUME IInv, NEW r \in Refreshers, Write(r)
  PROVE  IInv'
<1> USE DEF Write, history
<1>1. /\ pc[r] = "write" /\ \A s \in Refreshers : s # r => pc[s] = "idle"
      /\ mutex = {r} /\ up
  BY OnlyOne
<1>2. pc' = [s \in Refreshers |-> IF s = r THEN "sync" ELSE pc[s]]
  BY DEF IInv, TypeOK
<1>3. TypeOK'
  BY <1>1, <1>2 DEF IInv, TypeOK
<1>4. Alone' /\ Whole' /\ Newest' /\ Stored'
  BY <1>1, <1>2 DEF IInv, Alone, Whole, Newest, Stored, Carrying
<1>5. Kept' /\ Honest'
  BY <1>1, <1>2 DEF IInv, Kept, Honest
<1>6. Littered'
  BY <1>1, <1>2 DEF IInv, TypeOK, Littered, Writing
<1> QED
  BY <1>3, <1>4, <1>5, <1>6 DEF IInv

LEMMA SyncKeeps ==
  ASSUME IInv, NEW r \in Refreshers, Sync(r)
  PROVE  IInv'
<1> USE DEF Sync
<1> DEFINE new == [next[r] EXCEPT !.synced = TRUE]
<1>1. /\ pc[r] = "sync" /\ \A s \in Refreshers : s # r => pc[s] = "idle"
      /\ mutex = {r} /\ up
  BY OnlyOne
<1>2. new \in Files /\ new.version = next[r].version /\ new.synced
  BY FileFields DEF IInv, TypeOK
<1>3. /\ pc' = [s \in Refreshers |-> IF s = r THEN "rename" ELSE pc[s]]
      /\ next' = [s \in Refreshers |-> IF s = r THEN new ELSE next[s]]
  BY DEF IInv, TypeOK
<1> HIDE DEF new
<1>4. TypeOK'
  <2>1. next' \in [Refreshers -> Files]
    BY <1>2, <1>3 DEF IInv, TypeOK
  <2>4. {cache', settled'} \subseteq Files
    BY DEF IInv, TypeOK
  <2>2. pc' \in [Refreshers ->
          {"idle", "fetch", "write", "sync", "rename", "swap", "note", "finish"}]
    BY <1>3 DEF IInv, TypeOK
  <2>3. \A s \in Refreshers : pc'[s] # "idle" => s \in mutex'
    BY <1>1, <1>3 DEF IInv, TypeOK
  <2> QED
    BY <2>1, <2>2, <2>3, <2>4 DEF IInv, TypeOK
<1>5. Alone' /\ Whole'
  BY <1>1, <1>2, <1>3 DEF IInv, Alone, Whole
<1>6. Newest' /\ Stored'
  BY <1>1, <1>2, <1>3 DEF IInv, Newest, Stored, Carrying
<1>7. Kept' /\ Honest'
  BY <1>1, <1>3 DEF IInv, Kept, Honest
<1>8. Littered'
  BY <1>1, <1>3 DEF IInv, TypeOK, Littered, Writing
<1> QED
  BY <1>4, <1>5, <1>6, <1>7, <1>8 DEF IInv

LEMMA RenameKeeps ==
  ASSUME IInv, NEW r \in Refreshers, Rename(r)
  PROVE  IInv'
<1> USE DEF Rename, history
<1>1. /\ pc[r] = "rename" /\ \A s \in Refreshers : s # r => pc[s] = "idle"
      /\ mutex = {r} /\ up
  BY OnlyOne
<1>2. pc' = [s \in Refreshers |-> IF s = r THEN "swap" ELSE pc[s]]
  BY DEF IInv, TypeOK
<1>3. /\ cache' \in Files /\ cache'.synced /\ cache'.version = next[r].version
      /\ cache'.version \in Int /\ cache.version \in Int
      /\ cache.version <= cache'.version /\ cache'.version <= remote
  BY <1>1, FileFields DEF IInv, TypeOK, Whole, Newest, Carrying
<1>4. temps \in Nat /\ temps >= 1 /\ temps' \in Nat /\ temps' <= crashes + stuck
  BY <1>1, CatalogAssumption DEF IInv, TypeOK, Littered, Writing
<1>5. TypeOK'
  BY <1>1, <1>2, <1>3, <1>4 DEF IInv, TypeOK
<1>6. Alone' /\ Whole'
  BY <1>1, <1>2, <1>3 DEF IInv, Alone, Whole
<1>7. Newest' /\ Stored'
  BY <1>1, <1>2, <1>3 DEF IInv, Newest, Stored, Carrying
<1>8. Kept'
  BY <1>3, CatalogAssumption DEF IInv, TypeOK, Kept, Versions
<1>9. Honest' /\ Littered'
  BY <1>1, <1>2, <1>4 DEF IInv, TypeOK, Honest, Littered, Writing
<1> QED
  BY <1>5, <1>6, <1>7, <1>8, <1>9 DEF IInv

LEMMA PersistFailsKeeps ==
  ASSUME IInv, NEW r \in Refreshers, PersistFails(r)
  PROVE  IInv'
<1> USE DEF PersistFails, history
<1>1. /\ pc[r] \in {"write", "sync", "rename"}
      /\ \A s \in Refreshers : s # r => pc[s] = "idle"
      /\ mutex = {r} /\ up
  BY OnlyOne
<1>2. /\ pc' = [s \in Refreshers |-> IF s = r THEN "swap" ELSE pc[s]]
      /\ fault' = [s \in Refreshers |-> IF s = r THEN TRUE ELSE fault[s]]
  BY DEF IInv, TypeOK
<1>3. temps' \in Nat /\ stuck' \in 0..MaxStuck /\ temps' <= crashes + stuck'
  BY <1>1, CatalogAssumption DEF IInv, TypeOK, Littered, Writing
<1>4. TypeOK'
  BY <1>1, <1>2, <1>3 DEF IInv, TypeOK
<1>5. Alone' /\ Whole' /\ Newest' /\ Stored'
  BY <1>1, <1>2 DEF IInv, Alone, Whole, Newest, Stored, Carrying
<1>6. Kept' /\ Honest' /\ Littered'
  BY <1>1, <1>2, <1>3 DEF IInv, Kept, Honest, Littered, Writing
<1> QED
  BY <1>4, <1>5, <1>6 DEF IInv

LEMMA SwapKeeps ==
  ASSUME IInv, NEW r \in Refreshers, Swap(r)
  PROVE  IInv'
<1> USE DEF Swap, disk, history
<1>1. /\ pc[r] = "swap" /\ \A s \in Refreshers : s # r => pc[s] = "idle"
      /\ mutex = {r} /\ up
  BY OnlyOne
<1>2. pc' = [s \in Refreshers |-> IF s = r THEN "note" ELSE pc[s]]
  BY DEF IInv, TypeOK
<1>3. data' \in Versions /\ data' = next[r].version /\ data <= data' /\ data' <= remote
  BY <1>1 DEF IInv, Newest, Carrying
<1>4. TypeOK'
  BY <1>1, <1>2, <1>3 DEF IInv, TypeOK
<1>5. Alone' /\ Whole'
  BY <1>1, <1>2 DEF IInv, Alone, Whole
<1>6. Newest'
  BY <1>1, <1>2, <1>3, CatalogAssumption DEF IInv, Newest, Carrying, Versions
<1>7. Stored'
  BY <1>1, <1>2, <1>3 DEF IInv, Stored
<1>8. Kept'
  BY <1>3, CatalogAssumption DEF IInv, TypeOK, Kept, Versions
<1>9. Honest' /\ Littered'
  BY <1>1, <1>2 DEF IInv, Honest, Littered, Writing
<1> QED
  BY <1>4, <1>5, <1>6, <1>7, <1>8, <1>9 DEF IInv

LEMMA NoteCacheKeeps ==
  ASSUME IInv, NEW r \in Refreshers, NoteCache(r)
  PROVE  IInv'
<1> USE DEF NoteCache, disk, history
<1>1. /\ pc[r] = "note" /\ \A s \in Refreshers : s # r => pc[s] = "idle"
      /\ mutex = {r} /\ up
  BY OnlyOne
<1>2. pc' = [s \in Refreshers |-> IF s = r THEN "finish" ELSE pc[s]]
  BY DEF IInv, TypeOK
<1>3. /\ report' \in [error : BOOLEAN, cacheError : BOOLEAN, success : BOOLEAN]
      /\ report'.cacheError = fault[r] /\ report'.success = report.success
  BY DEF IInv, TypeOK
<1>4. TypeOK'
  BY <1>1, <1>2, <1>3 DEF IInv, TypeOK
<1>5. Alone' /\ Whole' /\ Newest'
  BY <1>1, <1>2 DEF IInv, Alone, Whole, Newest, Carrying
<1>6. Stored'
  BY <1>1, <1>2, <1>3 DEF IInv, Stored
<1>7. Kept' /\ Littered'
  BY <1>1, <1>2 DEF IInv, Kept, Littered, Writing
<1>8. Honest'
  BY <1>1, <1>2, <1>3 DEF IInv, Stored, Honest
<1> QED
  BY <1>4, <1>5, <1>6, <1>7, <1>8 DEF IInv

LEMMA FinishKeeps ==
  ASSUME IInv, NEW r \in Refreshers, Finish(r)
  PROVE  IInv'
<1> USE DEF Finish, Ended, disk, history
<1>1. /\ pc[r] = "finish" /\ \A s \in Refreshers : s # r => pc[s] = "idle"
      /\ mutex = {r} /\ mutex' = {} /\ up
  BY OnlyOne
<1>2. pc' = [s \in Refreshers |-> IF s = r THEN "idle" ELSE pc[s]]
  BY DEF IInv, TypeOK
<1>3. \A s \in Refreshers : pc'[s] = "idle"
  BY <1>1, <1>2
<1>4. /\ report' \in [error : BOOLEAN, cacheError : BOOLEAN, success : BOOLEAN]
      /\ report'.cacheError = report.cacheError
  BY DEF IInv, TypeOK
<1>5. ~report.cacheError => cache.version = data
  BY <1>1 DEF IInv, Stored
<1>6. TypeOK'
  BY <1>1, <1>2, <1>3, <1>4 DEF IInv, TypeOK
<1>7. Alone' /\ Whole' /\ Newest' /\ Stored'
  BY <1>1, <1>3 DEF IInv, Alone, Whole, Newest, Stored, Carrying
<1>8. Kept'
  BY <1>1, <1>5, CatalogAssumption DEF IInv, TypeOK, Kept, Versions
<1>9. Honest' /\ Littered'
  BY <1>1, <1>3, <1>4, <1>5 DEF IInv, Honest, Littered, Writing
<1> QED
  BY <1>6, <1>7, <1>8, <1>9 DEF IInv

LEMMA InitializeKeeps ==
  ASSUME IInv, Initialize
  PROVE  IInv'
<1> USE DEF Initialize, disk, history
<1>1. mutex = {} /\ \A r \in Refreshers : pc[r] = "idle"
  BY DEF IInv, TypeOK, Alone
<1>2. /\ 0 \in Versions /\ Versions \subseteq Nat /\ remote \in Versions
      /\ cache.version \in Int /\ cache.version \in {-2, -1} \cup Versions
  <2>1. cache \in Files /\ remote \in Versions
    BY DEF IInv, TypeOK
  <2>2. 0 \in Versions /\ Versions \subseteq Nat
    BY CatalogAssumption DEF Versions
  <2> QED
    BY <2>1, <2>2, FileFields
<1>3. data' \in Versions /\ data' <= remote
  BY <1>2 DEF IInv, TypeOK, Newest, Kept
<1>4. TypeOK'
  BY <1>1, <1>3 DEF IInv, TypeOK
<1>5. Alone' /\ Whole' /\ Newest' /\ Stored'
  BY <1>1, <1>3 DEF IInv, Alone, Whole, Newest, Stored, Carrying
<1>6. Kept' /\ Littered'
  BY <1>1, <1>2, <1>3 DEF IInv, TypeOK, Kept, Littered, Writing
<1>7. Honest'
  BY DEF IInv, Honest
<1> QED
  BY <1>4, <1>5, <1>6, <1>7 DEF IInv

LEMMA PublishKeeps ==
  ASSUME IInv, Publish
  PROVE  IInv'
<1> USE DEF Publish, process, disk, history
<1>1. remote' \in Versions /\ remote <= remote' /\ remote \in Int /\ remote' \in Int
  BY CatalogAssumption DEF IInv, TypeOK, Versions
<1>2. TypeOK'
  BY <1>1 DEF IInv, TypeOK
<1>3. Alone' /\ Whole' /\ Stored' /\ Kept' /\ Honest' /\ Littered'
  BY DEF IInv, Alone, Whole, Stored, Kept, Honest, Littered
<1>4. Newest'
  <2>1. {cache, settled} \subseteq Files /\ data \in Versions /\ Versions \subseteq Nat
    BY CatalogAssumption DEF IInv, TypeOK, Versions
  <2>2. cache.version \in Int /\ settled.version \in Int
    BY <2>1, FileFields
  <2>3. ASSUME NEW v \in Int, v <= remote  PROVE v <= remote'
    BY <1>1, <2>3
  <2>4. data' <= remote' /\ cache'.version <= remote' /\ settled'.version <= remote'
    BY <2>1, <2>2, <2>3 DEF IInv, Newest
  <2>5. ASSUME NEW r \in Refreshers, pc'[r] \in Carrying
        PROVE  /\ next'[r].version \in Versions /\ next'[r].version <= remote'
               /\ data' <= next'[r].version /\ cache'.version <= next'[r].version
    <3>1. pc[r] \in Carrying /\ next' = next /\ data' = data /\ cache' = cache
      BY <2>5
    <3>2. /\ next[r].version \in Versions /\ next[r].version <= remote
          /\ data <= next[r].version /\ cache.version <= next[r].version
      BY <3>1 DEF IInv, Newest
    <3>3. next[r].version \in Int
      BY <3>2, CatalogAssumption DEF Versions
    <3>4. next[r].version <= remote'
      BY <2>3, <3>2, <3>3
    <3> QED
      BY <3>1, <3>2, <3>4
  <2> QED
    BY <2>4, <2>5 DEF Newest
<1> QED
  BY <1>2, <1>3, <1>4 DEF IInv

LEMMA DiedKeeps ==
  ASSUME IInv, Died
  PROVE  /\ Alone' /\ Littered' /\ mutex' = {} /\ ~report'.success /\ up' = FALSE
         /\ \A r \in Refreshers : pc'[r] = "idle"
         /\ data' \in Versions /\ data' <= remote'
         /\ up' \in BOOLEAN /\ crashes' \in 0..MaxCrashes
         /\ report' \in [error : BOOLEAN, cacheError : BOOLEAN, success : BOOLEAN]
<1> USE DEF Died, NoReport
<1>1. \A r \in Refreshers : pc'[r] = "idle"
  OBVIOUS
<1>2. report' \in [error : BOOLEAN, cacheError : BOOLEAN, success : BOOLEAN] /\ ~report'.success
  OBVIOUS
<1>3. data' \in Versions /\ data' <= remote'
  BY CatalogAssumption DEF IInv, TypeOK, Versions
<1>4. crashes \in 0..MaxCrashes /\ crashes' \in 0..MaxCrashes /\ crashes' = crashes + 1
  BY CatalogAssumption DEF IInv, TypeOK
<1>5. Alone'
  BY DEF Alone
<1>6. Littered'
  BY <1>1, <1>4 DEF IInv, TypeOK, Littered, Writing
<1> QED
  BY <1>1, <1>2, <1>3, <1>4, <1>5, <1>6

(* After a crash only the files matter.                                       *)
LEMMA Restarted ==
  ASSUME IInv, Died, {cache', settled'} \subseteq Files, cache'.synced, settled'.synced,
         cache'.version <= remote, settled'.version <= remote,
         promised' \in Versions, promised' = 0 \/ promised' <= cache'.version,
         secured' \in Versions, secured' = 0 \/ secured' <= settled'.version
  PROVE  IInv'
<1>1. /\ Alone' /\ Littered' /\ mutex' = {} /\ ~report'.success /\ up' = FALSE
      /\ \A r \in Refreshers : pc'[r] = "idle"
      /\ data' \in Versions /\ data' <= remote'
      /\ up' \in BOOLEAN /\ crashes' \in 0..MaxCrashes
      /\ report' \in [error : BOOLEAN, cacheError : BOOLEAN, success : BOOLEAN]
  BY DiedKeeps
<1>2. pc' \in [Refreshers ->
        {"idle", "fetch", "write", "sync", "rename", "swap", "note", "finish"}]
  BY DEF Died
<1>3. TypeOK'
  BY <1>1, <1>2 DEF IInv, TypeOK, Died
<1>4. Whole' /\ Newest' /\ Stored'
  BY <1>1 DEF Whole, Newest, Stored, Carrying, Died
<1>5. Kept' /\ Honest'
  BY <1>1 DEF Kept, Honest
<1> QED
  BY <1>1, <1>3, <1>4, <1>5 DEF IInv

LEMMA CrashesKeep ==
  ASSUME IInv, Crash \/ PowerFailure
  PROVE  IInv'
<1>1. /\ cache \in Files /\ settled \in Files /\ cache.synced /\ settled.synced
      /\ cache.version <= remote /\ settled.version <= remote
      /\ promised \in Versions /\ secured \in Versions
      /\ (promised = 0 \/ promised <= cache.version)
      /\ (secured = 0 \/ secured <= settled.version) /\ Died
  BY DEF IInv, TypeOK, Whole, Newest, Kept, Crash, PowerFailure
<1>2. CASE Crash
  BY <1>1, <1>2, Restarted DEF Crash
<1>3. CASE PowerFailure
  <2>1. \/ cache' = cache /\ settled' = cache /\ promised' = promised /\ secured' = promised
        \/ cache' = settled /\ settled' = settled /\ promised' = secured /\ secured' = secured
    BY <1>1, <1>3 DEF PowerFailure
  <2> QED
    BY <1>1, <2>1, Restarted
<1> QED
  BY <1>2, <1>3

-----------------------------------------------------------------------------
LEMMA Inductive == IInv /\ [Next]_vars => IInv'
<1> SUFFICES ASSUME IInv, [Next]_vars  PROVE IInv'
  OBVIOUS
<1>1. CASE Initialize
  BY <1>1, InitializeKeeps
<1>2. CASE Publish
  BY <1>2, PublishKeeps
<1>3. CASE Crash \/ PowerFailure
  BY <1>3, CrashesKeep
<1>4. CASE \E r \in Refreshers : Begin(r)
  BY <1>4, BeginKeeps
<1>5. CASE \E r \in Refreshers : Work(r)
  <2> PICK r \in Refreshers : Work(r)
    BY <1>5
  <2> QED
    BY FetchKeeps, FetchFailsKeeps, WriteKeeps, SyncKeeps, RenameKeeps, PersistFailsKeeps,
       SwapKeeps, NoteCacheKeeps, FinishKeeps DEF Work
<1>6. CASE UNCHANGED vars
  BY <1>6 DEF vars, process, disk, history, IInv, TypeOK, Alone, Whole, Newest, Stored, Kept, Honest,
              Littered
<1> QED
  BY <1>1, <1>2, <1>3, <1>4, <1>5, <1>6 DEF Next

THEOREM Invariance == Spec => []IInv
<1>1. Init => IInv
  BY Initially
<1>2. IInv /\ [Next]_vars => IInv'
  BY Inductive
<1> QED
  BY <1>1, <1>2, PTL DEF Spec

(* The variables keep their types, and only the holder of the mutex works.    *)
THEOREM TypeCorrect == Spec => []TypeOK
<1>1. IInv => TypeOK
  BY DEF IInv
<1> QED
  BY <1>1, Invariance, PTL

(* persist: what was reported as refreshed and cached is in the file after    *)
(* crashes of the process at any step; when the power fails, all of it that   *)
(* was reported before the last sync of a file.                               *)
THEOREM AlwaysDurable == Spec => []Durable
<1>1. IInv => Durable
  <2> SUFFICES ASSUME IInv, promised > 0  PROVE cache.version >= promised
    BY DEF Durable
  <2>1. cache.version \in Int /\ promised \in Int
    <3>1. cache \in Files /\ promised \in Versions
      BY DEF IInv, TypeOK
    <3>2. cache.version \in Int
      BY <3>1, FileFields
    <3>3. promised \in Int
      BY <3>1, CatalogAssumption DEF Versions
    <3> QED
      BY <3>2, <3>3
  <2> QED
    BY <2>1 DEF IInv, Kept
<1> QED
  BY <1>1, Invariance, PTL

(* refreshState: a status without errors tells the truth about the file.      *)
THEOREM AlwaysHonest == Spec => []ReportHonest
<1>1. IInv => ReportHonest
  BY DEF IInv, TypeOK, Honest, ReportHonest
<1> QED
  BY <1>1, Invariance, PTL

(* persist removes its temporary file on every way out but a crash, where it  *)
(* can be removed.                                                            *)
THEOREM NeverLitters == Spec => []NoLitter
<1>1. IInv => NoLitter
  BY DEF IInv, TypeOK, Littered, Writing, NoLitter
<1> QED
  BY <1>1, Invariance, PTL

(* The catalog in memory never goes back while the process lives.             *)
THEOREM NeverGoesBack == Spec => NeverOlder
<1>1. ASSUME IInv, [Next]_vars  PROVE [crashes' = crashes /\ up => data' >= data]_vars
  <2> USE DEF disk, process, history
  <2>1. data \in Int /\ crashes \in Int /\ Versions \subseteq Int
    BY <1>1, CatalogAssumption DEF IInv, TypeOK, Versions
  <2>2. CASE \E r \in Refreshers : Swap(r)
    <3> PICK r \in Refreshers : Swap(r)
      BY <2>2
    <3>1. data <= next[r].version /\ data' = next[r].version /\ next[r].version \in Int
      BY <1>1, <2>1 DEF Swap, IInv, Newest, Carrying
    <3> QED
      BY <2>1, <3>1
  <2>3. CASE Crash \/ PowerFailure
    BY <2>1, <2>3 DEF Crash, PowerFailure, Died
  <2>4. CASE Initialize
    BY <2>4 DEF Initialize
  <2>5. CASE data' = data
    BY <2>1, <2>5
  <2>6. ASSUME NEW r \in Refreshers, Begin(r) \/ Work(r)  PROVE Swap(r) \/ data' = data
    BY <2>6 DEF Begin, Work, Fetch, FetchFails, Write, Sync, Rename, PersistFails, NoteCache,
                Finish
  <2> QED
    BY <1>1, <2>2, <2>3, <2>4, <2>5, <2>6 DEF Next, Publish, vars
<1> QED
  BY <1>1, Invariance, PTL DEF Spec, NeverOlder

==============================================================================
