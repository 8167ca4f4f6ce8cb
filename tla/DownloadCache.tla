--------------------------- MODULE DownloadCache ---------------------------
(***************************************************************************)
(* The download caches of a fleet and how a deletion reaches them: each     *)
(* instance keeps plaintext copies of stored uploads in its own directory,  *)
(* filled by downloads and by the upload worker's seeding, bounded by a     *)
(* budget, and emptied of deleted content by the deleting handler, by the   *)
(* promoters' own second look at the row, and by a sweep worker that        *)
(* follows the purge log and reconciles the directory with the rows.        *)
(*                                                                          *)
(* internal/downloadcache/downloadcache.go, internal/worker/cache_sweep.go, *)
(* DownloadUpload and DeleteUpload of internal/handlers/uploads.go, Delete  *)
(* and the purge log of internal/services/upload.go, seedDownloadCache of   *)
(* internal/worker/upload.go.                                               *)
(***************************************************************************)
EXTENDS Integers, FiniteSets

CONSTANTS
    Uploads,        \* rows that may ever be stored
    Keys, KeyOf,    \* cache keys; the key of an upload's content
    Size,           \* size of the content behind a key
    Instances,      \* processes of the fleet whose caches are modelled
    Elsewhere,      \* any other process: it meets these only through the database
    Writer,         \* the process that runs the upload worker
    Visibilities,   \* the visibilities that uploads are created with
    Requests,       \* downloads and seedings under way at one time
    Budget,         \* download_cache_max_bytes when the cache is enabled
    MaxObject,      \* download_cache_max_object_bytes
    Batch,          \* cachePurgeBatch (500 in the code)
    SerialDeletes,  \* delete transactions do not overlap (always so on SQLite)
    Faults,         \* the faults that may happen
    MaxDownloads,   \* bound on downloads
    MaxDeletes,     \* bound on delete requests
    MaxFaults,      \* bound on faults
    MaxRestarts,    \* bound on crashes
    MaxToggles      \* bound on changes of settings

FaultKinds == {"unlink", "sweepRead", "verifyRead", "scan", "prune"}

ASSUME CacheAssumption ==
    /\ Uploads # {} /\ Instances # {} /\ IsFiniteSet(Keys)
    /\ KeyOf \in [Uploads -> Keys] /\ Size \in [Keys -> Nat \ {0}]
    /\ Visibilities \subseteq {"public", "private"}
    /\ Elsewhere \notin Instances /\ Writer \in Instances \cup {Elsewhere}
    /\ Budget \in Nat /\ MaxObject \in Nat /\ Batch \in Nat \ {0}
    /\ SerialDeletes \in BOOLEAN /\ Faults \subseteq FaultKinds
    /\ MaxDownloads \in Nat /\ MaxDeletes \in Nat /\ MaxFaults \in Nat
    /\ MaxRestarts \in Nat /\ MaxToggles \in Nat

VARIABLES
    \* the database
    row,        \* an upload's row: "absent", "stored" or "deleted"
    visibility, \* uploads.visibility
    log,        \* committed rows of cache_purge_log: [id, key]
    nextId,     \* next id of that table's sequence
    private,    \* the setting download_cache_private
    budget,     \* the setting download_cache_max_bytes
    \* the store of each instance
    disk,       \* keys with a file in the cache directory
    index,      \* Store.entries: the generation of each indexed key, 0 if none
    bytes,      \* Store.bytes
    genSeq,     \* Store.genSeq
    ready,      \* Store.ready
    \* the actors
    up,         \* the instance runs
    req,        \* downloads and seedings
    del,        \* DeleteUpload, one at a time for each upload
    sw,         \* the sweep worker's tick in progress
    lastPurgeID, lastReconcile, privateAllowed,
    \* bounds and history
    downloads, faults, restarts, toggles,
    reported,   \* <<i, k>>: a failed unlink after which only an error was logged
    shredded    \* <<i, k>>: instance i has answered a deletion that left no row of k

dbVars    == <<row, visibility, log, nextId, private, budget>>
storeVars == <<disk, index, bytes, genSeq, ready>>
markVars  == <<lastPurgeID, lastReconcile, privateAllowed>>
envVars   == <<downloads, faults, restarts, toggles, reported, shredded>>
vars      == <<dbVars, storeVars, up, req, del, sw, markVars, envVars>>

Hosts     == Instances \cup {Elsewhere}
Entry     == [id: Nat, key: Keys]
\* A download or seeding: an indexed file is about to be opened, fetched bytes
\* wait for promotion, a promotion waits for the second look at the row, a
\* resurrection waits to be undone.
Request   == [pc: {"idle", "open", "fetch", "verify", "undo"},
              i: Hosts, u: Uploads, gen: Nat]
\* DeleteUpload: first purge, log row inserted, committed and to be purged again.
Deletion  == [pc: {"idle", "purge", "insert", "commit", "purgeAgain"},
              i: Hosts, id: Nat]
SweepPC   == {"idle", "max", "snapshot", "lookup", "drop", "tail", "apply",
              "evict", "evicting"}
Sweep     == [pc: SweepPC,
              privateNow: BOOLEAN,
              maxID: Nat,               \* reconcile: MaxPurgeLogID
              victims: SUBSET Keys,     \* reconcile: keys still to be handled
              stuck: BOOLEAN,           \* reconcile: an unlink failed
              entries: SUBSET Entry,    \* tail: entries still to be applied
              full: BOOLEAN,            \* tail: the batch was full
              stalled: BOOLEAN,         \* tail: an unlink failed
              oldest: SUBSET (Keys \X Nat), \* candidates of an eviction batch
              evicted: BOOLEAN]         \* the batch has dropped something

NoSweep   == [pc |-> "idle", privateNow |-> FALSE, maxID |-> 0, victims |-> {},
              stuck |-> FALSE, entries |-> {}, full |-> FALSE, stalled |-> FALSE,
              oldest |-> {}, evicted |-> FALSE]
NoRequest == [pc |-> "idle", i |-> Elsewhere, u |-> CHOOSE u \in Uploads : TRUE,
              gen |-> 0]
NoDelete  == [pc |-> "idle", i |-> Elsewhere, id |-> 0]

TypeOK ==
    /\ row \in [Uploads -> {"absent", "stored", "deleted"}]
    /\ visibility \in [Uploads -> {"public", "private"}]
    /\ log \subseteq Entry /\ nextId \in Nat \ {0}
    /\ private \in BOOLEAN /\ budget \in {0, Budget}
    /\ disk \in [Instances -> SUBSET Keys]
    /\ index \in [Instances -> [Keys -> Nat]]
    /\ DOMAIN bytes = Instances    \* its values: Accounted
    /\ genSeq \in [Instances -> Nat]
    /\ ready \in [Instances -> BOOLEAN] /\ up \in [Instances -> BOOLEAN]
    /\ req \in [Requests -> Request] /\ del \in [Uploads -> Deletion]
    /\ sw \in [Instances -> Sweep]
    /\ lastPurgeID \in [Instances -> Nat]
    /\ lastReconcile \in [Instances -> {"never", "recent", "old"}]
    /\ privateAllowed \in [Instances -> BOOLEAN]
    /\ downloads \in Nat /\ faults \in Nat /\ restarts \in Nat /\ toggles \in Nat
    /\ reported \subseteq Instances \X Keys /\ shredded \subseteq Instances \X Keys

Init ==
    /\ row = [u \in Uploads |-> "absent"]
    /\ visibility \in [Uploads -> Visibilities]
    /\ log = {} /\ nextId = 1
    /\ private = FALSE /\ budget = Budget
    /\ disk = [i \in Instances |-> {}]
    /\ index = [i \in Instances |-> [k \in Keys |-> 0]]
    /\ bytes = [i \in Instances |-> 0] /\ genSeq = [i \in Instances |-> 0]
    /\ ready = [i \in Instances |-> TRUE] /\ up = [i \in Instances |-> TRUE]
    /\ req = [p \in Requests |-> NoRequest] /\ del = [u \in Uploads |-> NoDelete]
    /\ sw = [i \in Instances |-> NoSweep]
    /\ lastPurgeID = [i \in Instances |-> 0]
    /\ lastReconcile = [i \in Instances |-> "never"]
    /\ privateAllowed = [i \in Instances |-> FALSE]
    /\ downloads = 0 /\ faults = 0 /\ restarts = 0 /\ toggles = 0
    /\ reported = {} /\ shredded = {}

-----------------------------------------------------------------------------
(* The store. Every operation runs under the store's mutex.                 *)

\* The size of a set of objects: their bytes, counted one by one.
TotalSize(keys) == Cardinality(UNION {{k} \X (1..Size[k]) : k \in keys})
Indexed(i)  == {k \in Keys : index[i][k] # 0}
SizeIn(i, k) == IF index[i][k] # 0 THEN Size[k] ELSE 0

\* A fault of kind f happens (and is counted), or it does not.
Healthy   == UNCHANGED faults
Broken(f) == f \in Faults /\ faults < MaxFaults /\ faults' = faults + 1

Remove(i, k) ==
    /\ disk' = [disk EXCEPT ![i] = @ \ {k}]
    /\ index' = [index EXCEPT ![i][k] = 0]
    /\ bytes' = [bytes EXCEPT ![i] = @ - SizeIn(i, k)]
    /\ UNCHANGED <<genSeq, ready>>

\* Mutant: the entry is forgotten before the unlink is tried.
DropIndexFirst(i, k, done) ==
    \/ done /\ Healthy /\ Remove(i, k)
    \/ /\ ~done /\ Broken("unlink") /\ k \in disk[i]
       /\ index' = [index EXCEPT ![i][k] = 0]
       /\ bytes' = [bytes EXCEPT ![i] = @ - SizeIn(i, k)]
       /\ UNCHANGED <<disk, genSeq, ready>>

\* Store.Drop: unlink, then forget the entry; a failed unlink changes nothing.
Drop(i, k, done) ==
    \/ done /\ Healthy /\ Remove(i, k)
    \/ ~done /\ Broken("unlink") /\ k \in disk[i] /\ UNCHANGED storeVars

\* The handler's Drop: on another process it concerns another cache.
DropAt(i, k, done) ==
    IF i \in Instances THEN Drop(i, k, done) ELSE done /\ Healthy /\ UNCHANGED storeVars

\* Mutant: the generation is not compared.
DropAnyGen(i, k, gen, done) ==
    IF index[i][k] # 0 THEN Drop(i, k, done) ELSE Healthy /\ UNCHANGED storeVars

\* Store.DropGen: only if the entry is still the promotion that was seen.
DropGen(i, k, gen, done) ==
    IF index[i][k] # 0 /\ index[i][k] = gen
    THEN Drop(i, k, done) ELSE done /\ Healthy /\ UNCHANGED storeVars

\* Mutant: promotion does not wait for the boot scan.
FitsUnscanned(i, k) == bytes[i] + Size[k] - SizeIn(i, k) <= Budget

\* PromoteIfFits admits k. The budget is the one the request read when it began.
Fits(i, k) == ready[i] /\ bytes[i] + Size[k] - SizeIn(i, k) <= Budget

Promote(i, k) ==
    /\ disk' = [disk EXCEPT ![i] = @ \cup {k}]
    /\ genSeq' = [genSeq EXCEPT ![i] = @ + 1]
    /\ index' = [index EXCEPT ![i][k] = genSeq[i] + 1]
    /\ bytes' = [bytes EXCEPT ![i] = @ + Size[k] - SizeIn(i, k)]
    /\ UNCHANGED ready

-----------------------------------------------------------------------------
(* Uploads are stored; downloads and seedings fill the caches.              *)

\* A key is live while some row with that uploads.cache_key is there.
Live(k) == \E u \in Uploads : row[u] = "stored" /\ KeyOf[u] = k

\* Private content is cached only while the operator allows it.
Cacheable(u) == budget > 0 /\ (visibility[u] = "public" \/ private)

Runs(i) == i \in Instances => up[i]

Fetching(i, u) == [pc |-> "fetch", i |-> i, u |-> u, gen |-> 0]

\* MarkCompleted and its siblings, then seedDownloadCache, which may also be
\* switched off or find the file too large.
Complete(p, u, seed) ==
    /\ Runs(Writer) /\ row[u] = "absent" /\ req[p].pc = "idle"
    /\ seed => Writer \in Instances /\ Cacheable(u) /\ Size[KeyOf[u]] <= MaxObject
    /\ row' = [row EXCEPT ![u] = "stored"]
    /\ req' = IF seed THEN [req EXCEPT ![p] = Fetching(Writer, u)] ELSE req
    /\ shredded' = {x \in shredded : x[2] # KeyOf[u]}
    /\ UNCHANGED <<visibility, log, nextId, private, budget, storeVars, up, del, sw,
                   markVars, downloads, faults, restarts, toggles, reported>>

\* The back-publication tool makes a private row public; its key stays.
MarkPublished(u) ==
    /\ row[u] = "stored" /\ visibility[u] = "private"
    /\ visibility' = [visibility EXCEPT ![u] = "public"]
    /\ UNCHANGED <<row, log, nextId, private, budget, storeVars, up, req, del, sw,
                   markVars, envVars>>

\* A cache-eligible download: row and settings are read, then the index. What is
\* indexed is opened, anything else is fetched from the network.
Download(p, i, u) ==
    LET gen == index[i][KeyOf[u]] IN
    /\ up[i] /\ req[p].pc = "idle" /\ downloads < MaxDownloads
    /\ row[u] = "stored" /\ Cacheable(u)
    /\ req' = [req EXCEPT ![p] = IF gen = 0 THEN Fetching(i, u)
                                 ELSE [pc |-> "open", i |-> i, u |-> u, gen |-> gen]]
    /\ downloads' = downloads + 1
    /\ UNCHANGED <<dbVars, storeVars, up, del, sw, markVars, faults, restarts,
                   toggles, reported, shredded>>

\* Store.Open: an open descriptor is served, whatever happens to the file. A
\* file that has gone since the index was read heals the index, and is fetched.
Open(p) ==
    LET i == req[p].i  k == KeyOf[req[p].u] IN
    /\ req[p].pc = "open"
    /\ IF k \in disk[i]
       THEN Healthy /\ UNCHANGED storeVars /\ req' = [req EXCEPT ![p] = NoRequest]
       ELSE /\ DropGen(i, k, req[p].gen, TRUE)
            /\ req' = [req EXCEPT ![p] = Fetching(i, req[p].u)]
    /\ UNCHANGED <<dbVars, up, del, sw, markVars, downloads, restarts, toggles,
                   reported, shredded>>

\* Mutant: the promoter does not look at the row again.
PromoteUnguarded(p) ==
    LET i == req[p].i  k == KeyOf[req[p].u] IN
    /\ req[p].pc = "fetch" /\ Fits(i, k) /\ Size[k] <= MaxObject
    /\ Promote(i, k)
    /\ req' = [req EXCEPT ![p] = NoRequest]
    /\ UNCHANGED <<dbVars, up, del, sw, markVars, envVars>>

PromoteFetched(p) ==
    LET i == req[p].i  k == KeyOf[req[p].u] IN
    /\ req[p].pc = "fetch" /\ Fits(i, k) /\ Size[k] <= MaxObject
    /\ Promote(i, k)
    /\ req' = [req EXCEPT ![p].pc = "verify"]
    /\ UNCHANGED <<dbVars, up, del, sw, markVars, envVars>>

\* The fetch fails, the object is too large or too rarely used, the cache is
\* full or not scanned: nothing is promoted.
NotPromoted(p) ==
    /\ req[p].pc = "fetch"
    /\ req' = [req EXCEPT ![p] = NoRequest]
    /\ UNCHANGED <<dbVars, storeVars, up, del, sw, markVars, envVars>>

\* The second look at the row: only "not found" leads to a purge, an error of
\* the read passes for a live row.
Verify(p, read) ==
    /\ req[p].pc = "verify"
    /\ IF read THEN Healthy ELSE Broken("verifyRead")
    /\ req' = IF read /\ row[req[p].u] = "deleted" THEN [req EXCEPT ![p].pc = "undo"]
                                                   ELSE [req EXCEPT ![p] = NoRequest]
    /\ UNCHANGED <<dbVars, storeVars, up, del, sw, markVars, downloads, restarts,
                   toggles, reported, shredded>>

Undo(p, done) ==
    LET i == req[p].i  k == KeyOf[req[p].u] IN
    /\ req[p].pc = "undo"
    /\ Drop(i, k, done)
    /\ reported' = IF done THEN reported ELSE reported \cup {<<i, k>>}
    /\ req' = [req EXCEPT ![p] = NoRequest]
    /\ UNCHANGED <<dbVars, up, del, sw, markVars, downloads, restarts, toggles, shredded>>

-----------------------------------------------------------------------------
(* DeleteUpload, handled by any instance.                                   *)

DeleteBegin(u, i) ==
    /\ Runs(i) /\ row[u] = "stored" /\ del[u].pc = "idle"
    /\ del' = [del EXCEPT ![u] = [pc |-> "purge", i |-> i, id |-> 0]]
    /\ UNCHANGED <<dbVars, storeVars, up, req, sw, markVars, envVars>>

\* The purge before the row is touched: when it fails, so does the request.
DeletePurge(u, done) ==
    /\ del[u].pc = "purge"
    /\ DropAt(del[u].i, KeyOf[u], done)
    /\ del' = IF done THEN [del EXCEPT ![u].pc = "insert"] ELSE [del EXCEPT ![u] = NoDelete]
    /\ UNCHANGED <<dbVars, up, req, sw, markVars, downloads, restarts, toggles, reported,
                   shredded>>

\* The transaction of UploadService.Delete takes its log id when it inserts...
DeleteInsert(u) ==
    /\ del[u].pc = "insert"
    /\ nextId <= MaxDeletes
    /\ SerialDeletes => \A v \in Uploads : del[v].pc # "commit"
    /\ del' = [del EXCEPT ![u] = [@ EXCEPT !.pc = "commit", !.id = nextId]]
    /\ nextId' = nextId + 1
    /\ UNCHANGED <<row, visibility, log, private, budget, storeVars, up, req, sw,
                   markVars, envVars>>

\* ... and shows log entry and deletion together when it commits.
DeleteCommit(u) ==
    /\ del[u].pc = "commit"
    /\ row' = [row EXCEPT ![u] = "deleted"]
    /\ log' = log \cup {[id |-> del[u].id, key |-> KeyOf[u]]}
    /\ del' = [del EXCEPT ![u].pc = "purgeAgain"]
    /\ UNCHANGED <<visibility, nextId, private, budget, storeVars, up, req, sw,
                   markVars, envVars>>

\* Refused (a foreign key, a busy database): rolled back, the id is lost.
DeleteRefused(u) ==
    /\ del[u].pc \in {"insert", "commit"}
    /\ del' = [del EXCEPT ![u] = NoDelete]
    /\ UNCHANGED <<dbVars, storeVars, up, req, sw, markVars, envVars>>

\* The deletion of u is answered with success.
Answered(u) ==
    shredded' = IF Live(KeyOf[u]) \/ del[u].i = Elsewhere THEN shredded
                ELSE shredded \cup {<<del[u].i, KeyOf[u]>>}

\* The purge after the row is gone: a failure is only logged.
DeletePurgeAgain(u, done) ==
    /\ del[u].pc = "purgeAgain"
    /\ DropAt(del[u].i, KeyOf[u], done)
    /\ reported' = IF done THEN reported ELSE reported \cup {<<del[u].i, KeyOf[u]>>}
    /\ Answered(u)
    /\ del' = [del EXCEPT ![u] = NoDelete]
    /\ UNCHANGED <<dbVars, up, req, sw, markVars, downloads, restarts, toggles>>

-----------------------------------------------------------------------------
(* The sweep worker: propagatePurges, then eviction.                        *)

\* Sweeper i, at location l, goes on with the local variables s.
At(i, l)  == up[i] /\ sw[i].pc = l
Sets(i, s) == sw' = [sw EXCEPT ![i] = s]
Returns(i) == Sets(i, NoSweep)

\* Mutant: there is no periodic reconciliation.
MustReconcileBootOnly(i) == lastReconcile[i] = "never" \/ (privateAllowed[i] /\ ~private)

\* At boot, when private caching was switched off, and every twelve hours.
MustReconcile(i) ==
    \/ lastReconcile[i] = "never"
    \/ privateAllowed[i] /\ ~private
    \/ lastReconcile[i] = "old"

Tick(i) ==
    /\ At(i, "idle")
    /\ IF MustReconcile(i)
       THEN /\ Sets(i, [NoSweep EXCEPT !.pc = "max", !.privateNow = private])
            /\ UNCHANGED privateAllowed
       ELSE /\ Sets(i, [NoSweep EXCEPT !.pc = "tail"])
            /\ privateAllowed' = [privateAllowed EXCEPT ![i] = private]
    /\ UNCHANGED <<dbVars, storeVars, up, req, del, lastPurgeID, lastReconcile, envVars>>

\* A read of the database fails: the tick is given up where it stands.
SweepReadFails(i) ==
    /\ up[i] /\ sw[i].pc \in {"max", "lookup", "tail"}
    /\ sw[i].pc = "lookup" => sw[i].victims # {}
    /\ Broken("sweepRead")
    /\ Returns(i)
    /\ UNCHANGED <<dbVars, storeVars, up, req, del, markVars, downloads, restarts,
                   toggles, reported, shredded>>

IsMaxPurgeLogID(m) ==
    IF log = {} THEN m = 0 ELSE \E e \in log : m = e.id /\ \A f \in log : f.id <= m

ReadMax(i, m) ==
    /\ At(i, "max") /\ IsMaxPurgeLogID(m)
    /\ Sets(i, [sw[i] EXCEPT !.pc = "snapshot", !.maxID = m])
    /\ UNCHANGED <<dbVars, storeVars, up, req, del, markVars, envVars>>

\* Stats and Oldest: what is indexed now.
Snapshot(i) ==
    /\ At(i, "snapshot")
    /\ Sets(i, [sw[i] EXCEPT !.pc = "lookup", !.victims = Indexed(i)])
    /\ UNCHANGED <<dbVars, storeVars, up, req, del, markVars, envVars>>

\* CacheKeyVisibility: a row's visibility for each key that has one. Rows that
\* share a key overwrite each other in the order of the query.
CacheKeyVisibility(keys) ==
    {vis \in [keys -> {"none", "public", "private"}] :
        \A k \in keys :
            IF Live(k) THEN \E u \in Uploads : /\ row[u] = "stored" /\ KeyOf[u] = k
                                              /\ vis[k] = visibility[u]
            ELSE vis[k] = "none"}

\* Mutant: a private key is kept as long as it is live.
KeepsLive(vis, privateNow) == vis # "none"

Keeps(vis, privateNow) == vis = "public" \/ (vis = "private" /\ privateNow)

Lookup(i) ==
    /\ At(i, "lookup")
    /\ \E vis \in CacheKeyVisibility(sw[i].victims) :
          Sets(i, [sw[i] EXCEPT !.pc = "drop",
                       !.victims = {k \in @ : ~Keeps(vis[k], sw[i].privateNow)}])
    /\ UNCHANGED <<dbVars, storeVars, up, req, del, markVars, envVars>>

DropVictim(i, k, done) ==
    /\ At(i, "drop") /\ k \in sw[i].victims
    /\ Drop(i, k, done)
    /\ Sets(i, [sw[i] EXCEPT !.victims = @ \ {k}, !.stuck = @ \/ ~done])
    /\ UNCHANGED <<dbVars, up, req, del, markVars, downloads, restarts, toggles, reported,
                   shredded>>

\* The log mark moves to the maximum read at the start; a pass with a failed
\* unlink leaves lastReconcile as it is.
Reconciled(i) ==
    /\ At(i, "drop") /\ sw[i].victims = {}
    /\ lastPurgeID' = [lastPurgeID EXCEPT ![i] = sw[i].maxID]
    /\ lastReconcile' = [lastReconcile EXCEPT ![i] = IF sw[i].stuck THEN @ ELSE "recent"]
    /\ privateAllowed' = [privateAllowed EXCEPT ![i] = sw[i].privateNow]
    /\ Sets(i, [NoSweep EXCEPT !.pc = "tail"])
    /\ UNCHANGED <<dbVars, storeVars, up, req, del, envVars>>

\* PurgeLogSince: the Batch entries that follow the mark.
PurgeLogSince(i) ==
    LET later == {e \in log : e.id > lastPurgeID[i]}
    IN  {e \in later : Cardinality({f \in later : f.id < e.id}) < Batch}

ReadTail(i) ==
    LET entries == PurgeLogSince(i) IN
    /\ At(i, "tail")
    /\ IF entries = {}
       THEN Sets(i, [NoSweep EXCEPT !.pc = "evict"])
       ELSE Sets(i, [sw[i] EXCEPT !.pc = "apply", !.entries = entries,
                                   !.full = Cardinality(entries) = Batch])
    /\ UNCHANGED <<dbVars, storeVars, up, req, del, markVars, envVars>>

\* Mutant: the mark passes an entry whose unlink failed.
AdvanceAlways(i, e, done) == [lastPurgeID EXCEPT ![i] = e.id]

\* The mark follows the contiguous prefix of successes.
Advance(i, e, done) ==
    IF done /\ ~sw[i].stalled THEN [lastPurgeID EXCEPT ![i] = e.id] ELSE lastPurgeID

Apply(i, e, done) ==
    /\ At(i, "apply") /\ e \in sw[i].entries
    /\ \A f \in sw[i].entries : e.id <= f.id
    /\ Drop(i, e.key, done)
    /\ lastPurgeID' = Advance(i, e, done)
    /\ Sets(i, [sw[i] EXCEPT !.entries = @ \ {e}, !.stalled = @ \/ ~done])
    /\ UNCHANGED <<dbVars, up, req, del, lastReconcile, privateAllowed, downloads,
                   restarts, toggles, reported, shredded>>

Applied(i) ==
    /\ At(i, "apply") /\ sw[i].entries = {}
    /\ Sets(i, [NoSweep EXCEPT !.pc = IF sw[i].stalled \/ ~sw[i].full THEN "evict" ELSE "tail"])
    /\ UNCHANGED <<dbVars, storeVars, up, req, del, markVars, envVars>>

\* PrunePurgeLog, hourly and by the writer: what is older than seven days. Every
\* running instance has consumed that unless its purges were stuck for so long.
Prune(id) ==
    /\ Writer \in Instances => At(Writer, "evict")
    /\ (\A j \in Instances : up[j] => lastPurgeID[j] >= id) \/ "prune" \in Faults
    /\ log' = {e \in log : e.id > id}
    /\ UNCHANGED <<row, visibility, nextId, private, budget, storeVars, up, req, del, sw,
                   markVars, envVars>>

\* Mutant: a disabled cache keeps what it has.
TargetEnabledOnly == IF budget = 0 THEN Budget ELSE budget \div 2

\* sweepBudget's low-water mark: room for new content below the budget.
Target ==
    LET larger == IF MaxObject > budget \div 10 THEN MaxObject ELSE budget \div 10
    IN  budget - (IF larger > budget \div 2 THEN budget \div 2 ELSE larger)

\* A batch for disk pressure, inactivity or the budget: some of the entries, with
\* the generation they have now.
EvictSnapshot(i) ==
    /\ At(i, "evict")
    /\ \E batch \in SUBSET Indexed(i) \ {{}} :
          Sets(i, [sw[i] EXCEPT !.pc = "evicting",
                               !.oldest = {<<k, index[i][k]>> : k \in batch}])
    /\ UNCHANGED <<dbVars, storeVars, up, req, del, markVars, envVars>>

EvictOne(i, v, done) ==
    /\ At(i, "evicting") /\ v \in sw[i].oldest
    /\ DropGen(i, v[1], v[2], done)
    /\ Sets(i, [sw[i] EXCEPT !.oldest = @ \ {v},
                             !.evicted = @ \/ (done /\ index[i][v[1]] = v[2])])
    /\ UNCHANGED <<dbVars, up, req, del, markVars, downloads, restarts, toggles, reported,
                   shredded>>

\* The next batch follows one that dropped something.
BatchEnds(i) ==
    /\ At(i, "evicting") /\ sw[i].evicted
    /\ bytes[i] <= Target \/ sw[i].oldest = {}
    /\ Sets(i, [NoSweep EXCEPT !.pc = "evict"])
    /\ UNCHANGED <<dbVars, storeVars, up, req, del, markVars, envVars>>

\* The tick ends below the target, with an empty cache or after a vain batch.
SweepEnds(i) ==
    /\ \/ At(i, "evict") /\ (bytes[i] <= Target \/ Indexed(i) = {})
       \/ At(i, "evicting") /\ sw[i].oldest = {} /\ ~sw[i].evicted
    /\ Returns(i)
    /\ UNCHANGED <<dbVars, storeVars, up, req, del, markVars, envVars>>

-----------------------------------------------------------------------------
(* Time, settings and the life of an instance.                              *)

TwelveHours(i) ==
    /\ lastReconcile[i] = "recent"
    /\ lastReconcile' = [lastReconcile EXCEPT ![i] = "old"]
    /\ UNCHANGED <<dbVars, storeVars, up, req, del, sw, lastPurgeID, privateAllowed, envVars>>

SetPrivate ==
    /\ toggles < MaxToggles /\ toggles' = toggles + 1
    /\ private' = ~private
    /\ UNCHANGED <<row, visibility, log, nextId, budget, storeVars, up, req, del, sw,
                   markVars, downloads, faults, restarts, reported, shredded>>

DisableCache ==
    /\ toggles < MaxToggles /\ toggles' = toggles + 1
    /\ budget' = 0
    /\ UNCHANGED <<row, visibility, log, nextId, private, storeVars, up, req, del, sw,
                   markVars, downloads, faults, restarts, reported, shredded>>

\* Only the directory survives. An open transaction is rolled back.
Crash(i) ==
    /\ up[i] /\ restarts < MaxRestarts
    /\ up' = [up EXCEPT ![i] = FALSE] /\ restarts' = restarts + 1
    /\ index' = [index EXCEPT ![i] = [k \in Keys |-> 0]]
    /\ bytes' = [bytes EXCEPT ![i] = 0] /\ genSeq' = [genSeq EXCEPT ![i] = 0]
    /\ ready' = [ready EXCEPT ![i] = FALSE]
    /\ req' = [p \in Requests |-> IF req[p].i = i THEN NoRequest ELSE req[p]]
    /\ del' = [u \in Uploads |-> IF del[u].i = i THEN NoDelete ELSE del[u]]
    /\ sw' = [sw EXCEPT ![i] = NoSweep]
    /\ lastPurgeID' = [lastPurgeID EXCEPT ![i] = 0]
    /\ lastReconcile' = [lastReconcile EXCEPT ![i] = "never"]
    /\ privateAllowed' = [privateAllowed EXCEPT ![i] = FALSE]
    /\ shredded' = {x \in shredded : x[1] # i}
    /\ UNCHANGED <<dbVars, disk, downloads, faults, toggles, reported>>

\* New and Scan, before anything else runs: the files found are adopted with
\* fresh generations. A scan that fails part of the way leaves a partial index
\* that is never ready.
Boot(i, found) ==
    LET scanned == found = disk[i] IN
    /\ ~up[i] /\ found \subseteq disk[i]
    /\ IF scanned THEN Healthy ELSE Broken("scan")
    /\ up' = [up EXCEPT ![i] = TRUE] /\ ready' = [ready EXCEPT ![i] = scanned]
    /\ \E order \in {g \in [found -> 1..Cardinality(found)] :
                       \A k, l \in found : k # l => g[k] # g[l]} :
          index' = [index EXCEPT ![i] = [k \in Keys |-> IF k \in found THEN order[k] ELSE 0]]
    /\ genSeq' = [genSeq EXCEPT ![i] = Cardinality(found)]
    /\ bytes' = [bytes EXCEPT ![i] = TotalSize(found)]
    /\ UNCHANGED <<dbVars, disk, req, del, sw, markVars, downloads, restarts, toggles,
                   reported, shredded>>

-----------------------------------------------------------------------------
(* The specification.                                                       *)

Filling(p) ==
    \/ Open(p) \/ PromoteFetched(p) \/ NotPromoted(p)
    \/ \E ok \in BOOLEAN : Verify(p, ok) \/ Undo(p, ok)

Deleting(u) ==
    \/ DeleteInsert(u) \/ DeleteCommit(u) \/ DeleteRefused(u)
    \/ \E ok \in BOOLEAN : DeletePurge(u, ok) \/ DeletePurgeAgain(u, ok)

Reconciling(i) ==
    \/ \E m \in {0} \cup {e.id : e \in log} : ReadMax(i, m)
    \/ Snapshot(i) \/ Lookup(i) \/ Reconciled(i)
    \/ \E k \in Keys, ok \in BOOLEAN : DropVictim(i, k, ok)

Tailing(i) ==
    \/ ReadTail(i) \/ Applied(i)
    \/ \E e \in sw[i].entries, ok \in BOOLEAN : Apply(i, e, ok)

Evicting(i) ==
    \/ EvictSnapshot(i) \/ BatchEnds(i) \/ SweepEnds(i)
    \/ \E v \in sw[i].oldest, ok \in BOOLEAN : EvictOne(i, v, ok)

Sweeping(i) == Tick(i) \/ Reconciling(i) \/ Tailing(i) \/ Evicting(i) \/ SweepReadFails(i)

Serving ==
    \/ \E p \in Requests, u \in Uploads : \/ \E seed \in BOOLEAN : Complete(p, u, seed)
                                         \/ \E i \in Instances : Download(p, i, u)
    \/ \E u \in Uploads, i \in Hosts : DeleteBegin(u, i)
    \/ \E u \in Uploads : MarkPublished(u)
    \/ \E e \in log : Prune(e.id)

Operating == SetPrivate \/ DisableCache

Running(i) == TwelveHours(i) \/ Crash(i) \/ \E found \in SUBSET Keys : Boot(i, found)

Next ==
    \/ Serving \/ Operating
    \/ \E p \in Requests : Filling(p)
    \/ \E u \in Uploads : Deleting(u)
    \/ \E i \in Instances : Sweeping(i) \/ Running(i)

Spec == Init /\ [][Next]_vars

\* Requests that have begun go on, the sweep's ticker fires and its steps are
\* taken, hours pass, a stopped instance is started. Faults stop at MaxFaults.
Fairness ==
    /\ \A p \in Requests : WF_vars(Filling(p))
    /\ \A u \in Uploads : WF_vars(Deleting(u))
    /\ \A i \in Instances : /\ WF_vars(Sweeping(i)) /\ WF_vars(TwelveHours(i))
                            /\ WF_vars(\E found \in SUBSET Keys : Boot(i, found))

FairSpec == Spec /\ Fairness

-----------------------------------------------------------------------------
(* Properties.                                                              *)

\* Someone on instance i is about to unlink k: a promoter at its second look, or
\* the handler that deleted the upload.
PurgeUnderWay(i, k) ==
    \/ \E p \in Requests : /\ req[p].pc \in {"verify", "undo"}
                           /\ req[p].i = i /\ KeyOf[req[p].u] = k
    \/ \E u \in Uploads : del[u].pc = "purgeAgain" /\ del[u].i = i /\ KeyOf[u] = k

\* The sweep of instance i will come to k: the log has an entry for it beyond
\* the mark, or a reconciliation is due.
PurgePending(i, k) ==
    \/ \E e \in log : e.key = k /\ e.id > lastPurgeID[i]
    \/ lastReconcile[i] \in {"never", "old"}

\* A copy of deleted content on a running instance that nobody is about to unlink.
Loose(i, k) ==
    /\ up[i] /\ k \in disk[i] /\ ~Live(k) /\ <<i, k>> \notin reported
    /\ ~PurgeUnderWay(i, k)

Owed(i) == \A k \in Keys : Loose(i, k) => PurgePending(i, k)

\* A cached copy of a deleted upload is never forgotten: while it is on a running
\* instance's disk, some actor is committed to removing it, whatever the order
\* in which the deletion, downloads, sweeps and restarts happen, unless its
\* removal failed and was reported.
PurgeOwed == \A i \in Instances : Owed(i)

\* Once DeleteUpload has answered, its own instance holds no copy of the content
\* except for the moment in which a late download is about to take its copy back
\* (the two purges of the handler and the promoters' second look, V2-824).
DeletionShreds ==
    \A x \in shredded \ reported :
        (x[2] \in disk[x[1]] /\ ~Live(x[2])) =>
            \E p \in Requests : /\ req[p].pc \in {"verify", "undo"}
                               /\ req[p].i = x[1] /\ KeyOf[req[p].u] = x[2]

\* The index never loses a file: after a complete scan it lists exactly the files
\* on disk, and the running total is their size, whatever unlinks fail.
Accounted ==
    \A i \in Instances :
        /\ Indexed(i) \subseteq disk[i]
        /\ ready[i] => Indexed(i) = disk[i]
        /\ bytes[i] = TotalSize(Indexed(i))

\* The files on disk never exceed the budget, not even those that a failed boot
\* scan did not find (ErrNotReady).
DiskWithinBudget ==
    \A i \in Instances : TotalSize(disk[i]) <= Budget

\* Eviction never removes a promotion younger than its snapshot: a candidate that
\* was dropped and promoted again in between is spared (DropGen).
EvictionSparesFresh ==
    [][\A i \in Instances, k \in Keys :
          (index[i][k] # 0 /\ index'[i][k] = 0 /\ sw[i].pc = "evicting" /\ sw'[i] # sw[i]
              /\ up'[i])
              => <<k, index[i][k]>> \in sw[i].oldest]_vars

\* Every copy of a deleted upload disappears from every instance, even one whose
\* purge failed, was skipped or fell out of the log (propagatePurges, reconcile).
Erased ==
    \A i \in Instances, k \in Keys :
        (k \in disk[i] /\ ~Live(k)) ~> (k \notin disk[i] \/ Live(k))

\* Once private caching is off, private content leaves every cache, also what a
\* download already under way adds afterwards (reconcile is policy-aware).
PrivateKey(k) == \A u \in Uploads : KeyOf[u] = k => visibility[u] = "private"
OptOutErases ==
    \A i \in Instances, k \in Keys :
        (k \in disk[i] /\ ~private /\ PrivateKey(k))
            ~> (k \notin disk[i] \/ private \/ ~PrivateKey(k))

\* A disabled cache converges to an empty directory (sweepBudget with budget 0).
DisabledDrains ==
    \A i \in Instances : (budget = 0) ~> (disk[i] = {})

-----------------------------------------------------------------------------
(* The inductive invariant behind PurgeOwed.                                *)

\* Scans, second looks and the age of pruned entries can be relied on, delete
\* transactions do not overlap, and unlinks do not fail where settings change.
Benign ==
    /\ SerialDeletes /\ Faults \cap {"scan", "verifyRead", "prune"} = {}
    /\ MaxToggles = 0 \/ "unlink" \notin Faults

\* Log id n was taken before any id that is still to be committed.
Below(n) == n < nextId /\ \A u \in Uploads : del[u].pc = "commit" => n < del[u].id

\* Ids name log entries, and delete transactions commit one after the other.
LogOrdered ==
    /\ IsFiniteSet(log)
    /\ \A e \in log : Below(e.id) /\ \A f \in log : e.id = f.id => e = f
    /\ \A u \in Uploads : del[u].pc = "commit" =>
          del[u].id < nextId /\ \A v \in Uploads : del[v].pc = "commit" => u = v

RequestsHaveRows ==
    \A p \in Requests : req[p].pc # "idle" => req[p].i \in Instances /\ row[req[p].u] # "absent"

\* Whatever a sweeper has read of the log is older than what is to be committed.
MarksOrdered(i) ==
    /\ Below(lastPurgeID[i]) /\ Below(sw[i].maxID)
    /\ \A e \in sw[i].entries :
          Below(e.id) /\ \A f \in log \cup sw[i].entries : e.id = f.id => e = f

\* A running store has scanned its directory, a stopped instance does nothing.
StoreSound(i) ==
    IF up[i] THEN ready[i] /\ Indexed(i) = disk[i]
    ELSE ~ready[i] /\ lastReconcile[i] = "never" /\ sw[i].pc = "idle"

NeverPrivate(i) == MaxToggles = 0 => ~private /\ ~privateAllowed[i] /\ ~sw[i].privateNow

\* A reconciliation that cannot unlink is due again.
ReconcileRepeats(i) ==
    sw[i].pc \in {"max", "snapshot", "lookup", "drop"} =>
        /\ lastReconcile[i] \in {"never", "old"} \/ "unlink" \notin Faults
        /\ sw[i].stuck => "unlink" \in Faults

\* What a reconciliation under way will not come to is ahead in the log.
ReconcileOwes(i) ==
    \A k \in Keys : (sw[i].pc \in {"snapshot", "lookup", "drop"} /\ Loose(i, k)) =>
        \/ sw[i].pc = "snapshot" \/ k \in sw[i].victims \/ sw[i].stuck
        \/ \E e \in log : e.key = k /\ e.id > sw[i].maxID /\ e.id > lastPurgeID[i]

\* A batch of the log lies ahead of the mark and has no gap.
TailOwes(i) ==
    (sw[i].pc = "apply" /\ ~sw[i].stalled) =>
        /\ \A e \in sw[i].entries : e.id > lastPurgeID[i]
        /\ \A f \in log : f.id > lastPurgeID[i] =>
              f \in sw[i].entries \/ \A e \in sw[i].entries : e.id < f.id

SweepInv(i) ==
    /\ MarksOrdered(i) /\ StoreSound(i) /\ NeverPrivate(i) /\ ReconcileRepeats(i)
    /\ ReconcileOwes(i) /\ TailOwes(i) /\ Owed(i)

\* Under Benign every step keeps all this; PurgeOwed alone is not inductive
\* (propagatePurges, reconcile, UploadService.Delete).
IInv == LogOrdered /\ RequestsHaveRows /\ \A i \in Instances : SweepInv(i)

=============================================================================
