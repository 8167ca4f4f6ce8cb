# Indelible: verification project

TLA+ models, TLC configurations and TLAPS proofs for Indelible, a gateway that
accepts files over HTTP, pays for their storage on an EVM chain and stores them
on the Autonomi network through the antd daemon. Every definition is translated
from the Go source; `PROJECT.json` maps each one to its lines.

## 1. The system

One *writer* process runs the HTTP API and the background workers over a SQL
database (SQLite or PostgreSQL), a temp directory and a cache directory. Reader
processes may serve downloads from the same database.

| Component | State it keeps | Operations | Meets |
|---|---|---|---|
| Upload worker (`internal/worker/upload*.go`) | registry of active uploads, circuit breaker, goroutines with their attempt | dequeue, check, prepare, price check, pay, record, finalize, complete, classify a failure, back off, retry, sweep, collect temp files, start, stop | upload records, ledger, signer, antd, cache, webhooks |
| Upload records (`services/upload.go`) | rows: status, detail, temp path, payment floor, backoff, progress time; purge log | create, claim, mark, touch, requeue, cancel, retry, force-retry, delete | worker, handlers, cache sweep |
| Payment ledger (`services/transaction.go`) | transactions rows | record, "any payment", "payment since queued" | worker |
| EVM signer (`evm/signer.go`) | chain connection, nonce lock | approve, send, await receipt, parse the merkle event | worker, chain |
| Upload handlers (`handlers/uploads.go`) | staged temp files | POST, cancel, retry, force-retry, delete, download | records, quota, cache |
| Download cache (`downloadcache/`, `worker/cache_sweep.go`, `handlers/download_gate.go`) | entries, bytes, generations, in-flight fills, purge cursor | promote, drop, scan, evict, reconcile, join a fill | handlers, worker, purge log |
| Admission: quotas, wallets, gates (`services/quota.go`, `services/wallet.go`) | limits of user, group, department, system; wallets; two flags | check at accept and again at processing, change a quota, choose a default wallet | handlers, worker |
| Audit log (`services/log.go`, `worker/audit_anchor.go`, `worker/log_retention.go`) | hash-chained entries, anchors, three plain logs | write, verify, publish and record an anchor, prune, page, export | every handler, network |
| Webhooks (`services/webhook_delivery.go`) | configuration, delivery log, dead letters, deliveries in memory | fire, retry, dead-letter, resend, dismiss, prune | worker, handlers |
| antd manager (`antd/manager.go`) | child process, restart count | start, discover, monitor, restart, stop | worker |
| System monitor, disk alerts | debounce counters, `uploads_paused`, `antd_unavailable` | poll, raise, clear | handlers |
| Accounts (users, groups, permissions, tokens, sessions, links) | rows; signed session tokens outside the database | seed, register, sign in, change, reset, verify, grant, revoke, deactivate, delete | every handler |
| Federation (OIDC, SCIM) | providers, identities, SCIM token, state cookies | authorize, callback, link, unlink, provision | accounts, identity provider |
| Catalog (tags, rules, collections, selectors) | tag lists, rules, collections | set, bulk change, apply rules, inherit, select | upload handlers |
| Settings cache, key rotation, idempotency, rate limits, backup, analytics, configuration, web UI | rows and small caches | CRUD, rotate, import | handlers |

What is hard here. Money is spent in the middle of a pipeline of calls each of
which can fail, time out or lose its answer, and the process can die between any
two of them; the row is the only memory. The stuck-row sweep, the restart, the
temp-file collector and the operator's cancel, retry and delete act on the same
rows without locks across steps. What makes the pipeline correct:

* an upload is paid for by one goroutine at a time, and an automatic re-run does
  not pay again for what the ledger shows as paid;
* the source of a paid, unfinished upload stays on disk and named by its row;
* an upload in progress is never handed to a second goroutine;
* a finished upload stays finished;
* every accepted upload settles and no temp file is left behind forever.

The cache holds decrypted content on the disks of several processes, and a
deletion has to reach every copy although downloads that began earlier may put
one back, unlinks fail and instances are down. What makes it correct:

* a copy of deleted content on a running instance is always owed a removal by
  somebody, and disappears;
* the instance that answers a deletion has none left;
* files and accounting agree and stay within the budget;
* private content leaves after the opt-out, everything after a disable;
* downloads that share a fill or wait for a slot are all answered.

Most other requests are sequences of SQL statements without a transaction
around them, next to workers that do the same. What makes them correct:

* the audit chain never accuses an honest history, and what it and its anchors
  vouch for is what was written; an anchor is not paid for twice;
* a notification is delivered, dead-lettered or accounted for as lost, and is
  repeated only where a reply was lost or an operator asked;
* the gates in front of uploads follow daemon and disk, and a shutdown ends and
  leaves no daemon behind;
* a deactivated or deleted user keeps no credential, an identity is never tied
  to an account by its address, and a fleet seeds one administrator;
* stored bytes pass a quota only when an administrator lowered it;
* the tags a user chose survive rules and collections;
* uploads have exactly one default wallet to be paid from.

The hazards, each at its line and with the properties aimed at it, are in
`PROJECT.json`.

## 2. Modules

`UploadWorker.tla` models the worker, the rows, the ledger, the signer's
protocol and the handlers that change rows.

* *State.* `status`, `detail`, `tempPath`, `floor`, `backoffUntil`,
  `backoffAttempt`, `stale`, `before` are the columns of an upload's row (time
  columns reduced to what the code asks of them: is the backoff over, is the row
  older than the requeue window, which row was queued first). `file` is the temp
  source on disk, `txns` the number of ledger rows. `broadcast` counts payment
  transactions on the chain, `unstored` the chunks the network lacks. `up`,
  `draining`, `staging`, `active`, `prepareFailures`, `circuitOpen` are process
  memory. `pc[g]`/`job[g]` are the program point and locals of goroutine `g` in
  `processOne`/`processUpload`.
* *Actions.* One per step of the code that another actor can separate from the
  next: each database statement, each call to antd or the chain, each timer. The
  failure branches are actions of their own (`SendFail`, `SendLost`,
  `ReceiptTimeout`, `ReceiptCancelled`, `RecordFail`, ...). `Crash` may happen
  anywhere; `Shutdown` cancels the context, after which waits end with the
  context's error, and `Exit` follows when every goroutine has returned.
* *Abstractions.* Amounts, hashes and messages are dropped; a price check passes
  or not. A plan is a number of payments: one for a wave batch with chunks to
  store, none without, 1..`MaxBatches` for merkle, which pays even for chunks
  already stored. Webhooks and log lines are left out. Seeding the download
  cache moves the temp file away after the row is written; it is part of
  `Cleanup`. antd, the chain and the network are external and may give any
  answer the code distinguishes. `DequeueNext` is atomic (as on SQLite; on
  PostgreSQL a cancel can slip between its SELECT and UPDATE, and the cancelled
  row, which has no temp path any more, fails before anything is paid).
* *Faults.* `Faults` selects which database and RPC faults may happen;
  `MaxLostWrites` bounds outcomes whose UPDATE fails with the error ignored.
* *`EagerRetry`.* Between writing an outcome and `clearActive` a goroutine is
  still registered. With `EagerRetry = FALSE` operators and backoff timers act
  after that gap (microseconds in the code); with `TRUE` they need not, and
  `SweepSparesLive` fails (section 6). The runs use `FALSE`.

`DownloadCache.tla` models the plaintext caches and how a deletion reaches them:
the store (`downloadcache.go`), the sweep worker (`cache_sweep.go`), the cache
side of `DownloadUpload`, `DeleteUpload` and `seedDownloadCache`, and the purge
log.

* *State.* `row`, `visibility`, `log`, `nextId`, `private`, `budget` are the
  database; `disk`, `index`, `bytes`, `genSeq`, `ready` the store of each
  instance; `lastPurgeID`, `lastReconcile`, `privateAllowed` the sweep worker's
  fields and `sw` the locals of its tick; `req` the downloads and seedings that
  may still promote, `del` the delete requests. `reported` and `shredded` are
  history: failed unlinks that were only logged, and deletions answered.
* *Actions.* The store's methods run under its mutex and are single steps; the
  sweep, the downloads and the deletions are split at every database statement
  and every call of the store. `Drop(i, k, done)` with `done = FALSE` is a
  failing unlink. A delete transaction takes its log id (`DeleteInsert`) and
  becomes visible (`DeleteCommit`) separately; `SerialDeletes` says that no two
  are open at once, which SQLite enforces and PostgreSQL does not. The runs set it.
* *Abstractions.* Instances meet only in the database, so one modelled instance
  and `Elsewhere`, which deletes and writes rows but whose cache is not shown,
  stand for a fleet. A row has one key (the second key of a back-published row
  holds no bytes). The 500-key chunks of one `CacheKeyVisibility` call are read
  together, as are `Stats` and `Oldest` in `reconcile`. Which entries an eviction
  batch takes (disk pressure, age, LRU order, batch size) is left open; a batch
  that drops nothing ends the tick, though the code may still try the next
  policy. The settings cache's staleness is covered by the gap between reading
  the settings and promoting. Coalescing of fills and the gate are in
  `DownloadFlight`; here they, and the miss counter, only decide whether a fetch
  promotes (`NotPromoted`). Ages: a log row is
  pruned after seven days, when every running instance has consumed it, unless
  the fault `prune` says that its unlinks were stuck for so long.
* *Faults.* `unlink`, `sweepRead` (the sweep's queries), `verifyRead` (the
  promoter's second look), `scan` (the boot scan), `prune`.

`UploadLifecycle.tla` is the abstract specification of the pipeline: what the
rows and the ledger promise about one upload, without goroutines, files, chain or
crashes. `UploadWorker` implements it (`ImplementsLifecycle`) under the mapping
`phase` from `status`, `paid` from `txns`, `limit` from the payment floor plus one
plan, `complete` from the chunks still missing on the network, `released` from
the cancellations. The worker is not told of a cancel; `Straggle` is what the
promise becomes for such an upload. Since `phase` steps from `running` to
`stored` only for complete content, a partial salvage that calls itself complete
is excluded.

`DownloadFlight.tla` refines one step of `DownloadCache`, the fetch: followers
that wait for a leader's fill (`flight.go`), the slots of the gate
(`download_gate.go`), the second look in the cache after the slot is won, and the
deferred calls in their order. A closed channel is the flag `woken` of everybody
who had taken it. The limit is read outside the mutex and may change at any time.

`AuditLog.tla` models `WriteAudit` (read of the head and insert under the
process-wide mutex), `VerifyAuditChain` row by row, the anchor worker with the
two reads of the head, the paid `PublishChunk` and the record of the anchor, and
alterations behind the service's back. A row hash is the sequence of contents it
commits to: SHA-256 is taken to be injective. The plain logs are sequences that
grow at one end and, for `system_log`, are pruned at the other; a client pages
through any of the four logs or exports it while they change. Rows of one second
come in insertion order.

`Webhooks.tla` models the fan-out of an event, the attempts, the delivery log, the
dead letters, resend and dismissal by operators, changes of the configuration
(with the cascade of a deletion) and the retention pass. Payloads, signatures and
URLs are data. Each event is raised once.

`Accounts.tla` and `Federation.tla`, which extends it, model every request that
changes users, permissions, groups, tokens, links, providers or identities. A
request holds what it has read in `req[c]` (`fed[c]`) and takes one step per
statement; uniqueness constraints are the only thing that makes two of them
exclusive. `session` is the set of signed session tokens, which the database does
not know. A deactivation revokes the user's tokens in a later statement
(`RevokeAll`), which fails or is never reached when the request returns early:
`AdminUpdateUser` that is given upload restrictions too, and does not find the
user again or cannot write them. Passwords are a counter `pwv`: who proves the password proves its
current value. Requests are served once a replica has booted. Sign-ins are not
counted against the bound on requests.

`Daemon.tla` composes the manager of the antd process, the system monitor and the
disk alert worker with the two settings they write. Assumed of what is outside:
discovery reports only a live daemon, a restarted daemon listens on a different
port, and `exec.CommandContext` refuses to start, or kills, a child whose context
is cancelled. At boot each worker reads its flag (`MonitorStart`), a read that may
fail and then leaves the worker's copy false, and the disk worker checks once
before the instance serves (`FirstCheck`). A write of a flag, a read of one at
boot and a measurement of the disk may fail; a failed measurement does nothing.

`Admission.tla` and `Catalog.tla`, which extends it, model an upload as the
database sees it: admitted by the gates, wallets and quotas, claimed and checked
again, completed, failed, cancelled, retried, deleted; and the tags it gets from
its owner, from rules and from collections. They share `CreateUpload`, whose last
statements write the tags. An attempt is only "not begun, before the quota check,
after it" (`UploadWorker` has the rest). Sizes are added up by counting bytes.
Who is in a group and which department a token carries does not change here.
`given` holds what the owner last asked for under each key: a creation or a bulk
change asks for the keys it names and leaves the others as they were asked for,
whatever its write does to them. `disputed` holds the uploads for which one such
request overlapped another, or met an error the code does not report: tags that
cannot be written after the insert, a read of tags whose error is not looked at.
Creations and deletions of wallets are two statements each; `raced` says which of
the two harmful overlaps has happened since the default was last set.

The `MC*.tla` modules give the instances their values. The theorems are in
`UploadWorkerProofs.tla`, `DownloadCacheProofs.tla`, `DownloadFlightProofs.tla`,
`AuditLogProofs.tla`, `WebhooksProofs.tla`, `DaemonProofs.tla`,
`FederationProofs.tla` (accounts and federation) and `CatalogProofs.tla`
(admission and catalog). Each extends the module it is about.

Definitions whose comment says *Mutant* are deliberate defects: each property is
shown to fail when one of them replaces the definition below it.

## 3. Runs

Deadlock is not an error in any run: the system may rest with every upload
settled, every request answered and every bound used up.

| Run | Instance | Checks |
|---|---|---|
| `MCUploadWorker` | 1 upload, 2 goroutines, plans of 1-2 payments, 1 retry of each kind, 1 crash or shutdown, all faults but failed ledger reads | `OnePayer`, `LedgerOnePlan`, `PaymentsAuthorized`, `PaidSourceKept`, `SweepSparesLive`, `CompletedIsFinal`, refinement `ImplementsLifecycle` |
| `MCUploadLive` | fairness, 1 crash or shutdown, failing ledger reads and writes, 1 lost outcome, breaker opening after one failure | `Settles`, `OrphansReclaimed` |
| `MCCacheFleet` | 1 object, 2 requests, 1 delete, 2 faults (unlinks, sweep reads), 1 restart | `PurgeOwed`, `DeletionShreds`, `EvictionSparesFresh` |
| `MCCacheStore` | 2 objects, budget for 1, failing unlinks and scans, 1 restart | `Accounted`, `DiskWithinBudget` |
| `MCCacheLive` | fairness, a private object, 1 delete, 2 changes of settings, 1 fault of any kind but `scan` | `Erased`, `OptOutErases`, `DisabledDrains` |
| `MCDownloadFlight` | fairness without timers, 3 downloads of 1 object, limits 1 and 2 changed once, 1 eviction | `SlotsBounded`, `OneFill`, `Answered` |
| `MCAuditLog` | 2 writers, 2 rows beside one legacy row in each log, pages of 1, 1 alteration, 1 fault, 1 verification or walk | `NoFalseAlarm`, `TrustedPrefix`, `AnchorVouches`, `WalkComplete`, `NoPayForStored` |
| `MCWebhooks` | 1 event, 1 webhook, 2 operators, 3 changes of the configuration, 2 resends, 1 fault, 1 crash, 2 days; fairness | `NoSilentLoss`, `DuplicatesAccounted`, `ResolvedMeansHandled`, `DeliverySettles` |
| `MCFederation` | 2 replicas, 2 clients, 3 users, 2 subjects with one address, 3 requests | `SeedsOneAdmin`, `LoginHolds`, `AutoRevocation`, `NeverLinkedByEmail`, `DeletionDropsIdentities` |
| `MCDaemon` | 3 restarts, 2 boots, 4 changes of the world, 1 fault; fairness | `StopLeavesNoDaemon`, `StopReturns`, `GateFollows` |
| `MCCatalog` | 2 clients, 2 users in 1 group, 2 uploads, 2 quotas, 2 wallets, 2 tag keys, 1 rule, 1 collection, 1 failing read or write, in 8 scenes | `QuotaHolds`, `UserTagsSurvive`, `OneDefaultWallet` |

One run shows a disagreement between the code and the user guide:
`MCAdmissionRefusal` (`RefusedOnlyOverQuota`). The worker checks the quota of the
upload it has just claimed against usage that already contains it and adds its
size a second time, so an upload of more than half of the free quota is refused
although it fits, and every retry is refused again. `QuotaHolds` holds all the
same: the check is stricter than it should be, not laxer.

*What the properties say.* They are stated in full above their definitions. Where
the code gives up a guarantee on purpose, the property names the exception: a
cancelled upload may still be paid for, an identity linked by a callback after
the deletion of its user is `lateLink`, a token inserted after the revocation of
a deletion under way is `late`, a token is no longer `doomed` when the request
that should revoke it ended without, a gate stays as it is after a failed write, a
failed read at boot or an administrator's edit (`stuck`), tags may be lost between
overlapping requests of their owner (`disputed`), the default wallet between the
overlapping requests that `raced` names, a notification is `lost` by a crash, a failed
write or with its webhook.

*Bounds.* Uploads interact only through the queue order, the breaker and the
slots, so one upload with two goroutines covers the races on a row. Two payments
per plan give a first, a last and a partly paid plan; one retry, one restart and
one resume give each counter its zero, its last and its exhausted value.
Goroutine slots are symmetric (`WorkerSymmetry`, safety only). In the cache two
requests make a seeding race a download or two promotions of one key race each
other; keys meet in the budget, for which two suffice; one restart separates two
lives of a store. Longer logs, shared keys, small batches and more instances are
left to the proofs. In `DownloadFlight` three requests are a leader, a follower
and one that arrives between them. In `AuditLog` the chain and the plain logs
share nothing but the client that reads them, so `OneAtATime` explores each while
the other rests; two rows give the chain an inner link and a head. In `Webhooks`
one event and one webhook suffice because deliveries of different pairs share no
row. `MCFederation` has two scenes: local requests of every kind on a fleet that
boots on an empty database, and federated ones, with the local ones that meet
them (tokens, deletions), on an instance that an administrator has set up; three
requests on two clients interleave any two and add one before or after.
`MCCatalog`'s scenes spend the bounds on quotas, wallets, tags, collections,
rules or errors in turn: they meet only in the upload's row, and each scene creates
uploads. Two keys tell the key a bulk change names from one it does not; four
requests about wallets give two creations, a change of the default and a deletion.

*Fairness.* Weak fairness of every goroutine (Go schedules runnable goroutines,
every wait has a timer or ends with the daemon's answer), of the two-second,
one-minute and five-minute tickers (dequeue, sweep, collector), of the timers
and of restarting a stopped process (a service manager's job). That the daemon
answers is an assumption: its client has no timeout. Requests, crashes and
shutdowns are not fair. Gas backoff, resumes and retries are bounded by
counters, so no strong fairness is needed. For the cache: requests that have
begun go on (every wait in them has a timeout), the one-minute ticker fires and
its steps are taken, twelve hours pass, a stopped instance is started. Faults
are bounded: an unlink that fails forever keeps its file forever. For
`DownloadFlight` only the steps that need nobody's patience are fair; no timer
need fire. For `Webhooks`: each delivery goroutine and the retention pass. For
`Daemon`: the monitor goroutine, the context's kill, `Stop` once called, and the
two probing tickers; neither deaths of daemons nor boots are fair.

## 4. Proofs

A safety theorem is about `Spec`, the behaviours without fairness; `FairSpec`,
which the runs with liveness properties use, adds fairness to it. Each rests on
one inductive invariant: it holds initially, every action keeps it (one step of
the proof for each), and the property follows from it. The assumptions on
constants are the `ASSUME` of the module that declares them: bounds are numbers,
and sets that the code draws from are not empty, or are finite where the code
counts them (requests at the gate, operators, keys). Conditions beyond these
stand in the theorem.

`UploadWorkerProofs` proves, for every set of uploads and goroutines, all bounds
and every set of faults:

* `TypeCorrect`: `Spec => []TypeOK`;
* for operators that respect the retry gap (`~EagerRetry`): `InvariantHolds`
  (`[]IInv`), `OnePlanPerAuthorization` (`[]LedgerOnePlan`),
  `NoConcurrentPayers` (`[]OnePayer`), and the action properties
  `SweepSparesLiveUploads` and `CompletedStaysCompleted`.

`LedgerOnePlan` and `OnePayer` are not inductive. `IInv` adds what makes them
so: two goroutines meet on one upload only after a cancel, and then only one has
a source (`SoleHolder`); a goroutine's upload is registered and its row is in
processing until the goroutine writes the outcome (`HoldersRegistered`, which is
where the sweep's exclusion list matters); rows and goroutines exist only when
they may (`Lifecycle`); and the ledger rows above the floor while a plan is
being paid are that plan's own (`PlanProgress`). Nearly every step of a
goroutine moves only that goroutine and writes only its own row: `Local` states
this once and `LocalStep` shows that such a step keeps `IInv`; `OutsideStep`
does the same for steps that move no goroutine. `StatusMoves` lists the ways a
status changes, from which the action properties follow.

Three results build on `IInv`, for `~EagerRetry`:

* `PipelineImplementsLifecycle` (`Spec => ImplementsLifecycle`): the refinement.
  What `IInv` lacks is that a goroutine about to write `MarkCompleted` has all
  of its content on the network (`ContentKnown`). Initial states map to initial
  states, and every action to one disjunct of `LifeNext` or to a stutter.
* `PaidSourceIsKept` (`[]PaidSourceKept`), where the ledger can be read when a
  failure is classified (`"ledgerRead" \notin Faults`, see section 6).
  `SourceInv` adds that a paid row that waits, runs or has failed points to a
  file on disk, and what each goroutine that will decide about the file knows of
  the ledger.
* `PaymentsAreAuthorized` (`[]PaymentsAuthorized`), for every set of faults.
  `SpendInv` follows the payments through an attempt: a queued row, and one in
  processing that no goroutine holds, is covered by an authorization not yet
  spent or has its payments in the ledger, where `refuseRepayment` finds them.

`DownloadCacheProofs` proves, for every set of uploads, keys (shared or not),
instances and requests, every batch size, budget and bound:

* `TypeCorrect`: `Spec => []TypeOK`;
* `SweepInvariant` and `PurgeIsOwed`: `Benign => (Spec => []IInv)` and
  `Benign => (Spec => []PurgeOwed)`. `Benign` names the faults that break the
  property: overlapping delete transactions (PostgreSQL), failing
  boot scans and second looks, log rows pruned while purges are stuck, and
  failing unlinks together with changes of the settings (section 6).
  Failing unlinks without the latter, failing sweep reads, crashes and restarts
  are allowed;
* `DeletionsShred`: `"verifyRead" \notin Faults => (Spec => []DeletionShreds)`;
* `EvictionSpares`: `Spec => EvictionSparesFresh`;
* `IndexIsAccounted` and `BudgetIsKept`: `Spec => []Accounted` and
  `Spec => []DiskWithinBudget`, for every set of faults.

`PurgeOwed` is not inductive: `reconcile` moves the mark to a maximum that it
read long before, and the tail moves it past entries one by one. `IInv` adds
that whatever a sweeper has read of the log is older than what is still to be
committed (`LogOrdered`, `MarksOrdered`), that a running store lists its whole
directory, so that the snapshot misses nothing (`StoreSound`), that a copy which
the reconciliation under way will not come to is ahead of its maximum in the log
(`ReconcileOwes`) or the reconciliation is due again (`ReconcileRepeats`), and
that a batch of the log has no gap ahead of the mark (`TailOwes`). The argument
has two halves: `LooseOrLogged` shows that a copy becomes loose only together
with a log entry above everything read so far, or by a restart after which a
reconciliation is due; `SweepingStep` that no step of the sweep forgets a loose
copy. `Shredding` strengthens `DeletionShreds` by "no row of the content is
left", which only a new upload of it undoes. `Accounted` and `DiskWithinBudget`
hold only together (`BooksInv`): the room `Promote` looks at is that of the byte
total, and it says something about the directory because a store that promotes
has listed all of it. `StoreMove` says that every step promotes one object that
fits, unlinks one, scans or leaves the store alone; the size of a set of objects
is the number of their bytes, so that one object more or less changes it by its
size (`SizeAdd`, `SizeRemove`).

`DownloadFlightProofs` proves `FlightInvariant`, `FlightTypes`, `FillsAreShared`
(`[]OneFill`) and `GateCounts` (`[]SlotsBounded`), for any number of requests,
objects, limits and rounds. The map of fills and the requests agree on who leads
what, and a follower nobody has woken has a leader (`FillInv`). For the gate it
is not enough to bound the counter by the limit, which changes: `SlotInv` says
that for every `m` at most `m` of the holders were admitted under a limit of at
most `m`.

`AuditLogProofs` proves `UntouchedIsIntact` (`[]NoFalseAlarm`),
`AcceptedRowsAreGenuine` (`[]TrustedPrefix`), `AnchorsVouch` (`[]AnchorVouches`)
and the action property `PaysOnlyForMissing` (`NoPayForStored`), for any number
of writers, rows, alterations and crashes. `AuditInv` says that, unless the table
was forged, the newest row commits to all that was written, whoever holds the
mutex has read that commitment, and every row still there commits to a prefix of
it. About the verifier, `LinkedCovers` says that in rows that link the hash of a
row is the contents up to it. It is an induction along the rows, written as a
least counterexample (a non-empty set of numbers has a least element) and so
within the prover's reach.

It also proves `WalksAreComplete` (`[]WalkComplete`), for every size of a page and
cap of an export, every filter, and any number of rows written and pruned during
the walk. The rank of a row is the number of newer ones that the filter selects,
and a page holds the rows with the next `Limit` ranks (`NewestRows`, `PageRows`).
`WalkInv` says that whatever the walk has not seen has a rank at or beyond its
offset: appended rows only raise ranks, pruned ones are older than what is still
owed (`RankKept`). An empty page therefore means that nothing is owed.

`WebhooksProofs` proves `NotificationsAreKept` (`[]NoSilentLoss`),
`DuplicatesAreBounded` (`[]DuplicatesAccounted`) and `LettersAreHandled`
(`[]ResolvedMeansHandled`), for any number of events, webhooks and operators.
What may still reach a receiver is paid for in advance (`CountInv`): a delivery
still to come counts as one, and so does each resend that has not been sent. A
resend that was answered has delivered (`ResendInv`), so the letter it closes was
received.

`DaemonProofs` proves `StopStopsTheDaemon` (`[]StopLeavesNoDaemon`), for any
number of restarts, boots and deaths. `Stop` may hold a process that the monitor
has meanwhile replaced; `StopInv` says that then the monitor has ended, and
`MonitorInv` that a monitor which has ended, or is between two children, has none
that runs.

`FederationProofs` proves, for any number of users, clients, groups, tokens,
providers and requests, with the requests of all clients interleaved at every
statement: `FederationInvariant` (`[]FedInv`), `BootSeedsOneAdmin`
(`[]SeedsOneAdmin`), `LoginsHold` (`[]LoginHolds`), `TokensAreRevoked`
(`[]AutoRevocation`), `IdentitiesAreClaimed` (`[]NeverLinkedByEmail`) and
`DeletionsDropIdentities` (`[]DeletionDropsIdentities`). They are about behaviours
that start with an empty database or on an instance that is set up, the two
beginnings of the run. `FedInv` adds what a request holds between two statements
(`ClientInv`: its user exists, the password it has read is not newer than the
row's, the subject it is about to link is claimed), that whoever a token, link,
cookie or identity belongs to exists (`OwnerInv`), that a session which knows the
current password is no older than it (`SessionInv`), and that a doomed token is
revoked or has a request about to revoke it (`DoomInv`). Most steps move one
client and keep or advance the rows: `ClientStep`, `RowsMove` and `NoDeletion`
state this once. `SeedInv` is a second invariant, for the time before the first
request: there is at most one row, the administrator's, and it has its permission
or the replica that made it is about to grant it.

`CatalogProofs` proves, for any number of users, groups, departments, uploads,
quotas, tags, rules, collections and requests:

* `QuotasHold` (`[]QuotaHolds`). What makes it inductive is about rows and
  requests: an attempt that runs has a row in processing, unless its owner
  cancelled it (`RowsInv`), a request between its check and its insert carries a
  file and a kind (`RequestsInv`), and whoever was let in has a quota in force
  (`QuotasInv`). `RowsFollow` says that no step but a passed check makes a row
  hold more, and a passed check has just compared the whole usage with the limit.
* `DefaultWallets` (`[]OneDefaultWallet`). `WalletsInv` adds what requests about
  wallets know: a deletion under way is of a plain wallet, unless `raced` says that
  it became the default meanwhile, a creation that counted no wallet finds none
  still, unless another one overlapped it, and a request past the wallet gate, like
  a row it made, has a default wallet behind it.
* `TagsOfOwner` (`[]UserTagsSurvive`). `TagsInv` adds that a request which has begun
  to replace the tags of an undisputed upload knows all that was asked for
  (`PendingInv`: a creation nothing, since nothing was asked for before it; a bulk
  change the list it has read), and that nothing is asked for an upload that is not
  there (`GoneInv`), since ids are not reused.

The inductive invariants are checked only by the proofs; the runs check what
follows from them.

Only model-checked, and why:

* liveness (`Settles`, `OrphansReclaimed`, `Erased`, `OptOutErases`,
  `DisabledDrains`, `Answered`, `DeliverySettles`, `StopReturns`,
  `GateFollows`): fairness is out of the prover's reach.

Every invariant and every action property of a passing run is proved, under the
conditions named above.

## 5. Plan

Done: the modules of section 2, the abstract life cycle and its refinement, and
the proofs of section 4.

Worth proving next: the types of `Admission` and `Catalog` in full.

Worth modelling next: idempotency keys under concurrent requests, the settings
cache, an interrupted key rotation.

## 6. Observations

What reading the code for these models turned up, beside the violation run. None
of these contradicts a property of section 3; where one would, the run's instance
or the property's wording excludes it, as said there.

Uploads and payments:

* A shutdown while a payment receipt is awaited ends the wait with the context's
  error, not with `ErrConfirmationTimeout` (`evm/signer.go:404`): the attempt is
  classified as unpaid, abandoned, and its source deleted although the
  transaction is on its way. `worker/upload.go:382` says that the source is
  preserved "when money or chunks may be committed".
* `clearActive` deletes the registry entry by upload id
  (`worker/upload_inflight.go:34`). A retry and a claim between the outcome and
  `clearActive` register a second goroutine that the first one then unregisters,
  and the sweep requeues a live upload (`EagerRetry = TRUE`).
* The error of `HasByUpload` is ignored (`worker/upload.go:361`): a failed read
  counts as "unpaid", and a paid source is deleted.
* A failed or completed upload with a ledger row cannot be deleted: the ledger's
  foreign key refuses it (`services/upload.go:634`).
* An outcome whose UPDATE fails leaves a processing row that the sweep requeues;
  the upload may be paid for again, which `PaymentsAuthorized` allows once for
  each such write. `already_stored` does not mean that nothing was paid, since
  merkle plans pay first.
* Cancelling an upload in progress frees its quota although the attempt may
  still complete. `RetryUpload` does not look at `max_queued_uploads`, and the
  depth is checked before, not together with, the insert.

Cache and downloads:

* On PostgreSQL two delete transactions may commit in the opposite order of their
  log ids, and the sweep's mark passes the lower one before it is visible
  (`worker/cache_sweep.go:279`). A reconciliation started by the opt-out whose
  unlink failed is not repeated at the next tick (`cache_sweep.go:219`). In both
  cases the next twelve-hour reconciliation removes the copy (`Erased`).
* The take-back of a late promotion is not retried by the purge log when its
  entry has been consumed. After a failed boot scan the reconciliation sees only
  what was indexed.
* The gate reads its limit outside the mutex; raising it wakes nobody until the
  next release.

Audit log and webhooks:

* `AuditChainHead` reads the head and the count in two statements: a row written
  in between gives an anchor whose count and head do not belong together.
* On SQLite the since and until filters compare text.

Daemon and gates:

* A restarted daemon gets a new port, but `cfg.AntdURL` is set once.
* `Stop` cancels the context before it interrupts: the child is killed. An exit
  on a listener failure leaves the daemon running.
* The flags are read once at boot and a failed read counts as "false"
  (`system_monitor.go:106`, `disk_alert.go:74`). If "true" is stored, a healthy
  daemon or disk is no transition for the worker, the flag is not written, and
  uploads are refused until the next failure and recovery or restart; the comment at
  `system_monitor.go:101` says that a stale value "self-corrects on the first
  fast-check tick".
* While the disk's usage cannot be determined `uploads_paused` stays as it is
  (`disk_alert.go:112`); the runs let this happen finitely often.
* After a hard failure turns into a soft one, `antd_unavailable` stays set while
  the alert drops to a warning. A failed write of a flag, or an import that
  overwrites it, leaves the gate until the next transition or restart.

Accounts and federation:

* `UserService.Update` and `GroupService.Update` write `is_active` back as they
  read it, over a deactivation in between; `AdminUpdateUser` decides about the
  revocation from a row it read earlier, and returns before the revocation, the
  user already deactivated, when upload restrictions come with the request and
  cannot be read back or written (`admin_users.go:353`). The tokens come to life
  again with a reactivation.
* A replica that dies between creating the administrator and granting the
  permission leaves a fleet that does not boot.
* The last-administrator check is check-then-act, and deactivation, deletion and
  group changes do not make it. `UnlinkIdentity` checks for a last way to sign in
  the same way.
* A token created while its owner is deleted stays live; a callback or a linking
  flow can attach an identity to a user deleted meanwhile.
* SCIM: the direct permission granted by user 0 fails its foreign key without a
  trace, `active: false` is ignored on creation, and a deleted user's external
  id is not freed. A provisioning that fails after the user was created loses
  the default group.

Admission and catalog:

* Two first wallets created at once are both default; deleting a wallet while it
  becomes the default leaves none (`services/wallet.go:53`, `:160`), until the next
  SetDefault. FEATURES.md:214 promises "Exactly one default wallet". Several system
  quotas may exist, since UNIQUE does not compare NULLs.
* `CreateUpload` writes its tags, those of rules included, over any that the owner
  set between its insert and its tagging, and only logs when they cannot be written
  (`handlers/uploads.go:350`). `BulkTagUploads` writes back, for every key, the list
  it has read, so a request of the same owner in between is lost, and it does not
  look at the error of its read: a failed one drops the tags it did not return.
  `UserTagsSurvive` excludes these cases by name.
* `CollectionService.Create` does not compare the owner of the parent, and a
  recursive deletion takes children of other owners with it.

## 7. Not modelled

The parts that `PROJECT.json` lists as `not_modelled`, with the reason there: key
rotation, idempotency and rate limits, backup, analytics, configuration and
plumbing, email and version check. Of modelled parts are left out: the settings
cache, the operator's override of the requeue window, log statistics, upload
listing and its cursor, searches, key lists and facets, wallet balances, the cache-key
backfill. Out of scope: cryptography and ABI encoding, HTTP and SQL plumbing, the
web UI, scripts, and anything inside antd, the identity provider or the chain.
Data races on the breaker's counters are modelled as atomic updates.
