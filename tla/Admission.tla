------------------------------ MODULE Admission ------------------------------
(***************************************************************************)
(* Which uploads are let in: the gates of CreateUpload, the storage quotas *)
(* (services/quota.go), the wallets that must exist before a file is       *)
(* accepted (services/wallet.go), and the part of an upload's life that    *)
(* moves its bytes in and out of the quota totals.                         *)
(*                                                                         *)
(* A quota is checked twice: by the request, against what is stored, and   *)
(* by the worker that starts the upload, against what is stored, queued or *)
(* in progress.  Neither check is in one transaction with the write it     *)
(* allows, and administrators change quotas in between.  UploadWorker has  *)
(* the worker itself; here an attempt is only: not begun, before the quota *)
(* check, after it.  Group membership and the department of an API token   *)
(* do not change (Accounts and Federation have them).                      *)
(***************************************************************************)
EXTENDS Integers, FiniteSets, FiniteSetsExt

CONSTANTS
    Clients,      \* requests in flight at the same time
    Users, Groups, Departments,
    Member,       \* Member[g]: the users of group g
    Files,        \* upload row ids
    Kinds,        \* what may be uploaded: [user, dept, size, attr, tags]
    None,         \* no department, no collection, no value
    QuotaIds,     \* quota row ids
    Limits,       \* max_bytes an administrator may choose
    Wallets,      \* wallet row ids
    MaxQueued,    \* the setting max_queued_uploads
    Budgets       \* bounds: how many steps of each kind of Spendings

\* Uploads created, quotas created, quotas changed, requests about wallets and
\* gates, attempts of workers, requests and failures that move an upload,
\* changes of tag rules, requests about tags and collections, failed reads and
\* writes of tags and rules.
Spendings == {"create", "quota", "requota", "wallet", "pause", "attempt", "move", "rule", "catalog",
              "fault"}
ASSUME BudgetsAssumption == Budgets \subseteq [Spendings -> Nat]

\* Sizes and limits are numbers of bytes, there are finitely many rows and
\* limits (max_bytes is a bounded integer), and None is not a department.
ASSUME AdmissionAssumption ==
    /\ IsFiniteSet(Files) /\ \A k \in Kinds : k.size \in Nat
    /\ IsFiniteSet(Limits) /\ Limits \subseteq Nat
    /\ None \notin Departments

System == "system"
Entities == {System} \cup Users \cup Groups \cup Departments

VARIABLES
    uploads,   \* the table uploads, and the attempt a worker is making on a row
    quotas,    \* the table quotas
    wallets,   \* the table wallets: "none", "plain" or "default"
    raced,     \* requests about wallets that overlapped since the default was last set
    paused,    \* uploads_paused or antd_unavailable (Daemon has their writers)
    req,       \* the request each client has in flight
    vouched,   \* entities an upload was let in for since their quota last changed
    left       \* what is left of the bounds

wvars == <<wallets, raced>>
avars == <<uploads, quotas, wvars, paused, req, vouched, left>>

Completed == {"completed", "already_stored"}
InFlight == Completed \cup {"processing", "queued"}

NoUpload == [st |-> "none", kind |-> None, temp |-> FALSE, paid |-> FALSE,
             run |-> "none", escaped |-> FALSE]
NoQuota == [e |-> None, max |-> 0, on |-> FALSE]
Idle == [k |-> "idle"]

Exists(f) == uploads[f].st # "none"
Row(f, s) == [uploads EXCEPT ![f] = s]
Spend(b) == left[b] > 0 /\ left' = [left EXCEPT ![b] = @ - 1]
Begin(c, b, r) == req[c] = Idle /\ Spend(b) /\ req' = [req EXCEPT ![c] = r]
Become(c, r) == req' = [req EXCEPT ![c] = r]
End(c) == Become(c, Idle)

-----------------------------------------------------------------------------
(* Quotas *)

\* The uploads that count against an entity: a user's own, those of every
\* member of a group, those sent with a token of a department, everyone's.
Counts(e, f) ==
    LET k == uploads[f].kind IN
    \/ e = System
    \/ e \in Users /\ k.user = e
    \/ e \in Groups /\ k.user \in Member[e]
    \/ e \in Departments /\ k.dept = e

Total(fs) == Cardinality(UNION {{f} \X (1..uploads[f].kind.size) : f \in fs})
Used(e, statuses) == Total({f \in Files : Exists(f) /\ uploads[f].st \in statuses /\ Counts(e, f)})

\* lookupQuotaLimit takes the first enabled row.  UNIQUE(entity_type,
\* entity_id) does not apply to the NULL entity_id of a system quota, so there
\* may be several and any of them may come first.
lookupQuotaLimit(e) == {quotas[q].max : q \in {q \in QuotaIds : quotas[q].e = e /\ quotas[q].on}}

\* One tier: no quota, or room for the file under the row that was read.
checkUserTier(u, size, statuses, lim) ==
    lookupQuotaLimit(u) # {} => Used(u, statuses) + size <= lim[u]
checkGroupTier(u, size, statuses, lim) ==
    \A g \in Groups : (u \in Member[g] /\ lookupQuotaLimit(g) # {})
                         => Used(g, statuses) + size <= lim[g]
checkDepartmentTier(d, size, statuses, lim) ==
    (d # None /\ lookupQuotaLimit(d) # {}) => Used(d, statuses) + size <= lim[d]
checkSystemTier(size, statuses, lim) ==
    lookupQuotaLimit(System) # {} => Used(System, statuses) + size <= lim[System]

\* What the lookups may return, one limit for each entity that has any.
Lookups ==
    LET system == lookupQuotaLimit(System) IN
    {[e \in Entities |-> IF e = System THEN m ELSE Max(lookupQuotaLimit(e) \cup {0})] :
        m \in IF system = {} THEN {0} ELSE system}

checkAllTiers(k, statuses, lim) ==
    /\ checkUserTier(k.user, k.size, statuses, lim)
    /\ checkGroupTier(k.user, k.size, statuses, lim)
    /\ checkDepartmentTier(k.dept, k.size, statuses, lim)
    /\ checkSystemTier(k.size, statuses, lim)

CheckUserQuota(k, lim) == checkAllTiers(k, Completed, lim)

\* Mutant: uploads under way are not counted.
MutCheckInFlight(k, lim) == checkAllTiers(k, Completed, lim)

CheckUserQuotaInFlight(k, lim) == checkAllTiers(k, InFlight, lim)

\* QuotaService.Create: validateEntity lets only known users and groups pass; the
\* unique index refuses a second row, except for the system.
CreateQuota(q, e, max) ==
    /\ quotas[q] = NoQuota
    /\ e # System => \A p \in QuotaIds : quotas[p].e # e
    /\ quotas' = [quotas EXCEPT ![q] = [e |-> e, max |-> max, on |-> TRUE]]
    /\ vouched' = vouched \ {e}

\* Update and Delete.
ChangeQuota(q, row) ==
    /\ quotas[q] # NoQuota
    /\ quotas' = [quotas EXCEPT ![q] = row]
    /\ vouched' = vouched \ {quotas[q].e}

AdminCreateQuota(q, e, max) ==
    /\ Spend("quota") /\ CreateQuota(q, e, max)
    /\ UNCHANGED <<uploads, wvars, paused, req>>

AdminUpdateQuota(q, max, on) ==
    /\ Spend("requota") /\ ChangeQuota(q, [quotas[q] EXCEPT !.max = max, !.on = on])
    /\ UNCHANGED <<uploads, wvars, paused, req>>

AdminDeleteQuota(q) ==
    /\ Spend("requota") /\ ChangeQuota(q, NoQuota)
    /\ UNCHANGED <<uploads, wvars, paused, req>>

-----------------------------------------------------------------------------
(* Wallets *)

HasWallet == \E w \in Wallets : wallets[w] # "none"
Counting == \E c \in Clients : req[c].k = "wallet" /\ req[c].first
Deleting(w) == \E c \in Clients : req[c].k = "unwallet" /\ req[c].w = w

\* Create counts the wallets, then inserts: the first one is the default.  Row
\* ids are not given twice.
CreateWalletCount(c, w) ==
    /\ wallets[w] = "none" /\ \A d \in Clients : "w" \in DOMAIN req[d] => req[d].w # w
    /\ Begin(c, "wallet", [k |-> "wallet", w |-> w, first |-> ~HasWallet])
    /\ UNCHANGED <<uploads, quotas, wvars, paused, vouched>>

\* Two creations that both counted no wallet both insert a default one.
CreateWalletInsert(c) ==
    /\ req[c].k = "wallet"
    /\ \/ /\ wallets' = [wallets EXCEPT ![req[c].w] = IF req[c].first THEN "default" ELSE "plain"]
          /\ raced' = raced \cup {r \in {"two firsts"} :
                                    \E d \in Clients \ {c} : req[d].k = "wallet" /\ req[d].first}
       \/ UNCHANGED wvars
    /\ End(c)
    /\ UNCHANGED <<uploads, quotas, paused, vouched, left>>

\* SetDefault moves the flag in one transaction.
SetDefault(w) ==
    /\ wallets[w] # "none"
    /\ wallets' = [v \in Wallets |-> CASE v = w -> "default"
                                       [] v # w /\ wallets[v] # "none" -> "plain"
                                       [] OTHER -> "none"]

\* It leaves one default wallet, unless a creation that counted none or a
\* deletion that found this wallet a plain one is still under way.
AdminSetDefaultWallet(w) ==
    /\ Spend("wallet") /\ SetDefault(w)
    /\ raced' = {r \in {"two firsts", "default deleted"} :
                   (r = "two firsts" /\ Counting) \/ (r = "default deleted" /\ Deleting(w))}
    /\ UNCHANGED <<uploads, quotas, paused, req, vouched>>

\* Mutant: any wallet may be deleted.
MutDeletableWallet(w) == wallets[w] # "none"

DeletableWallet(w) == wallets[w] = "plain"

\* Delete reads is_default, then deletes the row whatever it has become; a wallet
\* with transactions is refused by their foreign key.
DeleteWalletCheck(c, w) ==
    /\ DeletableWallet(w)
    /\ Begin(c, "wallet", [k |-> "unwallet", w |-> w])
    /\ UNCHANGED <<uploads, quotas, wvars, paused, vouched>>

DeleteWalletRow(c) ==
    /\ req[c].k = "unwallet"
    /\ wallets' = [wallets EXCEPT ![req[c].w] = "none"] \/ UNCHANGED wallets
    /\ End(c)
    /\ UNCHANGED <<uploads, quotas, raced, paused, vouched, left>>

GetDefault == \E w \in Wallets : wallets[w] = "default"

-----------------------------------------------------------------------------
(* CreateUpload, up to the row *)

QueueHasRoom ==
    Cardinality({f \in Files : uploads[f].st \in {"queued", "processing"}}) < MaxQueued

\* Row ids are not given twice: not one that a request still names, either.
FreshId(f) ==
    /\ uploads[f] = NoUpload
    /\ \A d \in Clients :
         /\ "f" \in DOMAIN req[d] => req[d].f # f
         /\ "todo" \in DOMAIN req[d] => \A i \in DOMAIN req[d].todo : req[d].todo[i].f # f

\* The gates that are read before the body is: a request passes them once,
\* however long it takes to arrive.
CreateUploadOpen(c, f, k) ==
    /\ GetDefault /\ ~paused /\ QueueHasRoom
    /\ FreshId(f)
    /\ Begin(c, "create", [k |-> "quota", f |-> f, kind |-> k])
    /\ UNCHANGED <<uploads, quotas, wvars, paused, vouched>>

\* The quota is read in a transaction of its own, after the body is on disk.
CreateUploadQuota(c) ==
    /\ req[c].k = "quota"
    /\ \E lim \in Lookups :
         IF CheckUserQuota(req[c].kind, lim)
         THEN Become(c, [req[c] EXCEPT !.k = "insert"])
         ELSE End(c)
    /\ UNCHANGED <<uploads, quotas, wvars, paused, vouched, left>>

CreateUploadInsert(c) ==
    /\ req[c].k = "insert"
    /\ uploads' = Row(req[c].f, [NoUpload EXCEPT !.st = "queued", !.kind = req[c].kind, !.temp = TRUE])
    /\ Become(c, [req[c] EXCEPT !.k = "rules"])
    /\ UNCHANGED <<quotas, wvars, paused, vouched, left>>

-----------------------------------------------------------------------------
(* The worker's side, and the requests that move an upload on *)

DequeueNext(f) ==
    /\ Spend("attempt")
    /\ uploads[f].st = "queued" /\ uploads[f].run = "none"
    /\ uploads' = [uploads EXCEPT ![f].st = "processing", ![f].escaped = FALSE,
                                  ![f].run = IF uploads[f].temp THEN "check" ELSE "bare"]
    /\ UNCHANGED <<quotas, wvars, paused, req, vouched>>

\* finishFailedUpload: the row fails whatever its status was, and gives up its
\* source (MarkFailed) unless the ledger holds a payment for it
\* (MarkFailedPreserveTemp).
finishFailedUpload(f) ==
    Row(f, IF Exists(f)
           THEN [uploads[f] EXCEPT !.st = "failed", !.temp = @ /\ uploads[f].paid, !.run = "none"]
           ELSE NoUpload)

\* The head of processUpload: the source must be there, then the quota is
\* checked again with everything in flight counted, this upload's own row too.
\* The row was read when it was dequeued: a cancel or a delete since then shows
\* only if the source has been collected.
Quotaed(f) == {e \in Entities : lookupQuotaLimit(e) # {} /\ Counts(e, f)}

RecheckOk(f) ==
    /\ uploads[f].run = "check"
    /\ \E lim \in Lookups : CheckUserQuotaInFlight(uploads[f].kind, lim)
    /\ uploads' = [uploads EXCEPT ![f].run = "passed"]
    /\ vouched' = vouched \cup Quotaed(f)
    /\ UNCHANGED <<quotas, wvars, paused, req, left>>

RecheckOver(f) ==
    /\ uploads[f].run = "check"
    /\ \E lim \in Lookups : ~CheckUserQuotaInFlight(uploads[f].kind, lim)
    /\ uploads' = finishFailedUpload(f)
    /\ UNCHANGED <<quotas, wvars, paused, req, vouched, left>>

RecheckNoSource(f) ==
    /\ \/ uploads[f].run = "bare"
       \/ uploads[f].run = "check" /\ ~uploads[f].temp
    /\ uploads' = finishFailedUpload(f)
    /\ UNCHANGED <<quotas, wvars, paused, req, vouched, left>>

\* The ways an attempt ends: stored, stored before, failed (the source kept
\* when money was or may have been spent), put back by gas backoff.  No write
\* looks at the status it replaces, so a cancelled upload may still complete.
AttemptEnds(f, s, paid) ==
    /\ uploads[f].run = "passed"
    /\ uploads' = Row(f, IF Exists(f)
                         THEN [uploads[f] EXCEPT !.st = s, !.run = "none", !.paid = @ \/ paid,
                                                 !.temp = @ /\ s \notin Completed]
                         ELSE NoUpload)
    /\ UNCHANGED <<quotas, wvars, paused, req, vouched>>

Complete(f, s) == s \in Completed /\ AttemptEnds(f, s, TRUE) /\ UNCHANGED left
FailPreserve(f, paid) == AttemptEnds(f, "failed", paid) /\ UNCHANGED left
SetGasBackoff(f) == Spend("move") /\ AttemptEnds(f, "queued", FALSE)
FailAbandon(f) ==
    /\ uploads[f].run = "passed"
    /\ uploads' = finishFailedUpload(f)
    /\ UNCHANGED <<quotas, wvars, paused, req, vouched, left>>

\* A transient error: processOne calls processUpload again, quota check and all.
RetryTransient(f) ==
    /\ uploads[f].run = "passed" /\ Spend("move")
    /\ uploads' = [uploads EXCEPT ![f].run = "check"]
    /\ UNCHANGED <<quotas, wvars, paused, req, vouched>>

\* The worker dies with the attempt, which may have paid; RequeueStuckExcept
\* later finds the row.
WorkerDies(f, paid) ==
    /\ uploads[f].run # "none" /\ Spend("move")
    /\ paid => uploads[f].run = "passed"
    /\ uploads' = Row(f, IF Exists(f) THEN [uploads[f] EXCEPT !.run = "none", !.paid = @ \/ paid]
                         ELSE NoUpload)
    /\ UNCHANGED <<quotas, wvars, paused, req, vouched>>

RequeueStuckExcept(f) ==
    /\ uploads[f].st = "processing" /\ uploads[f].run = "none"
    /\ uploads' = [uploads EXCEPT ![f].st = "queued"]
    /\ UNCHANGED <<quotas, wvars, paused, req, vouched, left>>

\* A cancel does not reach the attempt that is running.
CancelUpload(f) ==
    /\ Spend("move")
    /\ uploads[f].st \in {"queued", "processing"}
    /\ uploads' = [uploads EXCEPT ![f].st = "failed", ![f].temp = FALSE,
                                  ![f].escaped = uploads[f].run # "none"]
    /\ UNCHANGED <<quotas, wvars, paused, req, vouched>>

RetryUpload(f) ==
    /\ Spend("move")
    /\ uploads[f].st = "failed"
    /\ uploads' = [uploads EXCEPT ![f].st = "queued"]
    /\ UNCHANGED <<quotas, wvars, paused, req, vouched>>

Deletable(f) == uploads[f].st \in {"failed"} \cup Completed

\* The row goes; a running attempt goes on without it.
DeleteUpload(f) ==
    /\ Spend("move")
    /\ Deletable(f)
    /\ uploads' = Row(f, IF uploads[f].run = "none" THEN NoUpload
                         ELSE [uploads[f] EXCEPT !.st = "none", !.temp = FALSE])
    /\ UNCHANGED <<quotas, wvars, paused, req, vouched>>

\* The monitors pause and resume uploads.
Pauses == /\ Spend("pause") /\ paused' = ~paused
          /\ UNCHANGED <<uploads, quotas, wvars, req, vouched>>

AdmitInit ==
    /\ uploads = [f \in Files |-> NoUpload]
    /\ quotas = [q \in QuotaIds |-> NoQuota]
    /\ wallets \in {[w \in Wallets |-> "none"]} \cup
                   {[w \in Wallets |-> IF w = v THEN "default" ELSE "none"] : v \in Wallets}
    /\ raced = {} /\ paused = FALSE
    /\ req = [c \in Clients |-> Idle]
    /\ vouched = {}
    /\ left \in Budgets

Work(f) == \/ DequeueNext(f) \/ RecheckOk(f) \/ RecheckOver(f) \/ RecheckNoSource(f)
           \/ \E s \in Completed : Complete(f, s)
           \/ FailAbandon(f) \/ SetGasBackoff(f) \/ RetryTransient(f)
           \/ \E paid \in BOOLEAN : FailPreserve(f, paid) \/ WorkerDies(f, paid)
           \/ RequeueStuckExcept(f)

QuotaAdmin ==
    \E q \in QuotaIds :
        \/ \E e \in Entities, m \in Limits : AdminCreateQuota(q, e, m)
        \/ \E m \in Limits, on \in BOOLEAN : AdminUpdateQuota(q, m, on)
        \/ AdminDeleteQuota(q)

WalletAdmin ==
    \/ \E c \in Clients, w \in Wallets : CreateWalletCount(c, w) \/ DeleteWalletCheck(c, w)
    \/ \E c \in Clients : CreateWalletInsert(c) \/ DeleteWalletRow(c)
    \/ \E w \in Wallets : AdminSetDefaultWallet(w)

-----------------------------------------------------------------------------
(* Properties *)

\* Once an upload has been let in under an entity's present quota, everything
\* of that entity that is stored or being stored fits in it, however many
\* requests were accepted at the same time and however many attempts run (S3
\* in processUpload; checkAllTiers, "so concurrent uploads can't slip past a
\* shared quota by racing").  An upload its owner cancelled under a running
\* attempt is out of every total and may still be stored: it is not counted.
QuotaHolds ==
    \A e \in vouched :
        Total({f \in Files : /\ Exists(f) /\ ~uploads[f].escaped
                             /\ Counts(e, f)
                             /\ uploads[f].st \in Completed \/ uploads[f].run = "passed"})
          <= Max(lookupQuotaLimit(e))

\* "Exactly one default wallet (used for uploads)": wherever there is a wallet, or
\* an upload that was let in on the strength of one, there is a default wallet,
\* and never two.  Creations, deletions and SetDefault read and write in separate
\* statements: the first part may be lost to a deletion that overlaps a SetDefault
\* of the same wallet, the second to two first creations that overlap, and both
\* come back with the next SetDefault (WalletService.Create, SetDefault, Delete).
OneDefaultWallet ==
    /\ "default deleted" \notin raced /\ (HasWallet \/ \E f \in Files : Exists(f)) => GetDefault
    /\ "two firsts" \notin raced =>
         \A v, w \in Wallets : wallets[v] = "default" /\ wallets[w] = "default" => v = w

\* The guide's rule ("uploads are rejected if they would exceed the limit",
\* usage being "the total size of completed uploads"): an upload refused for
\* its quota would have exceeded a limit together with everything stored,
\* being stored or waiting.
RefusedOnlyOverQuota ==
    [][\A f \in Files :
         (uploads[f].run = "check" /\ uploads[f].temp /\ uploads[f].st = "processing"
            /\ uploads'[f].st = "failed")
           => \/ uploads'[f].run # "none"
              \/ \E e \in Quotaed(f) : \E m \in lookupQuotaLimit(e) : Used(e, InFlight) > m]_avars
=============================================================================
