--------------------------- MODULE UploadLifecycle --------------------------
(***************************************************************************)
(* What the upload pipeline promises about one upload, without goroutines,  *)
(* registry, temp files, chain, crashes or restarts: the phases its row     *)
(* goes through, when it may be called stored, how many payments the ledger *)
(* may hold for it, and what a Cancel gives up. UploadWorker implements it. *)
(*                                                                          *)
(* uploads.status and its meaning (internal/services/upload.go,             *)
(* docs/USER-GUIDE.md) and the ledger of internal/services/transaction.go.  *)
(***************************************************************************)
EXTENDS Integers

CONSTANTS Uploads, PlanSize   \* PlanSize: payments in the largest plan

VARIABLES
    phase,      \* of each row
    paid,       \* ledger rows of each upload
    limit,      \* ledger rows its creation or last operator Retry allows
    complete,   \* uploads whose whole content is on the network
    released    \* uploads their owner has cancelled

lifeVars == <<phase, paid, limit, complete, released>>

Phase == {"absent", "waiting", "running", "stored", "failed", "deleted"}

LifeInit ==
    /\ phase = [u \in Uploads |-> "absent"]
    /\ paid = [u \in Uploads |-> 0]
    /\ limit = [u \in Uploads |-> PlanSize]
    /\ complete \subseteq Uploads      \* the same content may be there already
    /\ released = {}

\* The row of u goes from one phase to another; the ledger is left alone.
Moves(u, from, to) == phase[u] \in from /\ phase'[u] = to /\ paid'[u] = paid[u]

\* Neither a new authorization nor a cancellation.
SameTerms(u) == limit'[u] = limit[u] /\ (u \in released' <=> u \in released)

Create(u)  == Moves(u, {"absent"}, "waiting") /\ SameTerms(u)
Claim(u)   == Moves(u, {"waiting"}, "running") /\ SameTerms(u)
\* A gas backoff, the sweep or a restart.
Requeue(u) == Moves(u, {"running"}, "waiting") /\ SameTerms(u)
Store(u)   == u \in complete /\ Moves(u, {"running"}, "stored") /\ SameTerms(u)
Fail(u)    == Moves(u, {"running"}, "failed") /\ SameTerms(u)
\* Only an upload without a payment can go (the ledger's foreign key).
Remove(u)  == paid[u] = 0 /\ Moves(u, {"stored", "failed"}, "deleted") /\ SameTerms(u)

Cancel(u) ==
    /\ Moves(u, {"waiting", "running"}, "failed")
    /\ limit'[u] = limit[u] /\ u \in released'

\* The only step that allows another plan of payments.
Reopen(u) ==
    /\ Moves(u, {"failed"}, "waiting")
    /\ limit'[u] = paid[u] + PlanSize
    /\ u \in released' <=> u \in released

\* A payment is recorded while the upload runs, one at a time, within the limit.
Pay(u) ==
    /\ phase'[u] = phase[u] /\ phase[u] = "running"
    /\ paid'[u] = paid[u] + 1 /\ paid'[u] <= limit[u]
    /\ SameTerms(u)

\* The worker is not told of a Cancel: what it still writes lands in the row and in
\* the ledger, within the limit, and never by calling incomplete content stored.
Straggle(u) ==
    /\ u \in released /\ SameTerms(u)
    /\ phase[u] \notin {"absent", "deleted"}
    /\ phase'[u] \in {"waiting", "running", "stored", "failed"}
    /\ phase'[u] = "stored" => phase[u] = "stored" \/ u \in complete
    /\ paid'[u] \in {paid[u], paid[u] + 1} /\ paid'[u] <= limit[u]

Rests(u) == phase'[u] = phase[u] /\ paid'[u] = paid[u] /\ SameTerms(u)

\* One statement may move many rows (a restart requeues them all).
LifeNext ==
    /\ complete \subseteq complete'    \* content is never lost
    /\ \A u \in Uploads :
        \/ Rests(u) \/ Create(u) \/ Claim(u) \/ Requeue(u) \/ Store(u) \/ Fail(u)
        \/ Remove(u) \/ Cancel(u) \/ Reopen(u) \/ Pay(u) \/ Straggle(u)

LifeSpec == LifeInit /\ [][LifeNext]_lifeVars

=============================================================================
