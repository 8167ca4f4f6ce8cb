---------------------------- MODULE UploadWorker ----------------------------
(***************************************************************************)
(* The upload pipeline: the uploads table, the temp directory, the payment  *)
(* ledger and the worker process that prepares, pays for and finalizes each *)
(* queued file, with the operator actions, the stuck-upload sweep, the temp *)
(* file collector, crashes, graceful shutdowns and restarts around it.      *)
(*                                                                          *)
(* internal/worker/upload.go, upload_inflight.go, upload_finalize_resume.go,*)
(* internal/services/upload.go, transaction.go, internal/evm/signer.go and  *)
(* the upload handlers of internal/handlers/uploads.go.                     *)
(*                                                                          *)
(* One goroutine of the worker is one member of Workers; pc[g] is the point *)
(* of processOne/processUpload it has reached, job[g] its local variables.  *)
(* The antd daemon, the EVM chain and the storage network are external:     *)
(* they are modelled by the answers the code distinguishes.                 *)
(***************************************************************************)
EXTENDS Integers

CONSTANTS
    Uploads,            \* upload rows that may ever be created
    Workers,            \* goroutine slots: max_concurrent_uploads
    MaxRetries,         \* maxTransientRetries (3 in the code)
    MaxBackoff,         \* maxGasBackoffAttempts (10)
    MaxResume,          \* len(finalizeResumeDelays) (5)
    BreakerThreshold,   \* circuitBreakerThreshold (5)
    MaxBatches,         \* largest merkle payment plan
    Chunks,             \* chunks of a file that is not on the network yet
    Faults,             \* the infrastructure faults that may happen
    EagerRetry,         \* an operator may retry before the worker has returned
    MaxOperatorRetries, \* bound on Retry
    MaxRestarts,        \* bound on Crash and Shutdown together
    MaxLostWrites       \* bound on the outcomes the database fails to store

FaultKinds == {"ledgerRead", "ledgerWrite", "rowRead", "sendReply",
               "receiptParse"}

ASSUME ConstantsAssumption ==
    /\ Uploads # {}
    /\ MaxRetries \in Nat /\ MaxBackoff \in Nat /\ MaxResume \in Nat
    /\ BreakerThreshold \in Nat \ {0}
    /\ MaxBatches \in Nat \ {0} /\ Chunks \in Nat \ {0}
    /\ Faults \subseteq FaultKinds
    /\ EagerRetry \in BOOLEAN
    /\ MaxOperatorRetries \in Nat /\ MaxRestarts \in Nat /\ MaxLostWrites \in Nat

VARIABLES
    \* the uploads table
    status,         \* uploads.status; "absent" before the row, "deleted" after
    detail,         \* uploads.status_detail
    tempPath,       \* uploads.temp_path is set
    floor,          \* uploads.payment_floor_txn_id, as a count of ledger rows
    backoffUntil,   \* uploads.backoff_until lies in the future
    backoffAttempt, \* uploads.backoff_attempt
    stale,          \* uploads.processing_at is older than the requeue window
    before,         \* <<u, v>>: u's queued_at precedes v's
    \* the rest of the durable state
    file,           \* the temp source exists on disk
    txns,           \* transactions rows recorded for the upload
    \* the outside world
    broadcast,      \* payment transactions sent and not known to be reverted
    unstored,       \* chunks of the content that the network lacks
    \* the process
    up, draining,   \* running; its context is cancelled
    staging,        \* uploads whose POST handler holds a temp file without a row
    active,         \* UploadWorker.active
    prepareFailures, circuitOpen,
    pc, job,
    \* bounds and history
    operatorRetries, restarts, lostWrites,
    cancelled       \* uploads a user has cancelled

rowVars  == <<status, detail, tempPath, floor, backoffUntil, backoffAttempt,
              stale, before>>
diskVars == <<file, txns>>
netVars  == <<broadcast, unstored>>
procVars == <<up, draining, staging, active, prepareFailures, circuitOpen>>
envVars  == <<operatorRetries, restarts, lostWrites, cancelled>>
vars     == <<rowVars, diskVars, netVars, procVars, pc, job, envVars>>

-----------------------------------------------------------------------------
(* Types and reading aids.                                                  *)

Status   == {"absent", "queued", "processing", "completed", "already_stored",
             "failed", "deleted"}
Settled  == {"completed", "already_stored", "failed"}
Stored   == {"completed", "already_stored"}
Recoverable == {"paid_unfinalized", "payment_unconfirmed"}
Detail   == {"none", "gas_backoff"} \cup Recoverable
Outcome  == {"none", "abandon", "preservePaid", "preserveUnconfirmed"}
ErrKind  == {"none", "plain", "transient", "timeout", "paidNoRetry",
             "finalizeFailed"}
Location == {"idle", "check", "prepare", "cost", "refuse", "send", "receipt",
             "record", "salvage", "finalize", "complete", "failed", "finish",
             "delay", "cleanup", "return"}

Job == [u: Uploads,             \* the upload this goroutine was given
        tp: BOOLEAN,            \* its TempPath was valid when it was dequeued
        bo: Nat,                \* its BackoffAttempt when it was dequeued
        attempt: Nat,           \* loop variable of processOne
        kind: {"wave", "merkle"}, \* prepared.PaymentType
        batches: Nat,           \* payments the plan needs
        winners: Nat,           \* payments of the plan confirmed so far
        unrec: BOOLEAN,         \* a confirmed payment could not be recorded
        err: ErrKind,           \* what processUpload returned
        resume: Nat,            \* finalize repeats made
        lastFailed: Nat,        \* ChunksFailed of the previous partial store
        new: BOOLEAN,           \* result.ChunksStored > 0
        outcome: Outcome]       \* classifyFailure's decision

RowExists(u) == status[u] \notin {"absent", "deleted"}
Holds(g, u)  == pc[g] # "idle" /\ job[g].u = u
Working(g, u) == Holds(g, u) /\ pc[g] # "return"
Fault(k)     == k \in Faults

\* The local variables of an attempt: processUpload declares them afresh.
AttemptOf(u, tp, bo, n) ==
    [u |-> u, tp |-> tp, bo |-> bo, attempt |-> n, kind |-> "wave",
     batches |-> 0, winners |-> 0, unrec |-> FALSE, err |-> "none",
     resume |-> 0, lastFailed |-> Chunks + 1, new |-> FALSE,
     outcome |-> "none"]

NoJob == AttemptOf(CHOOSE u \in Uploads : TRUE, FALSE, 0, 0)

\* Mutants. The collector forgets the recoverable rows; it spares every row.
ActiveTempPathQueueOnly(u) == tempPath[u] /\ status[u] \in {"queued", "processing"}
ActiveTempPathAnyRow(u)    == RowExists(u)

\* ListActiveTempPaths: the rows whose temp file the collector must keep.
ActiveTempPath(u) ==
    /\ tempPath[u]
    /\ \/ status[u] \in {"queued", "processing"}
       \/ RowExists(u) /\ detail[u] \in Recoverable

\* HasPaymentSinceQueued: a ledger row above the floor of an existing row.
HasPaymentSinceQueued(u) == RowExists(u) /\ txns[u] > floor[u]

\* The retry gap: between writing the row's outcome and clearActive a
\* goroutine is still registered. Operators and backoff timers (five minutes
\* or more) act after it unless EagerRetry.
GapClosed(u) ==
    EagerRetry \/ ~\E g \in Workers : pc[g] = "return" /\ job[g].u = u

TypeOK ==
    /\ status \in [Uploads -> Status]
    /\ detail \in [Uploads -> Detail]
    /\ tempPath \in [Uploads -> BOOLEAN]
    /\ floor \in [Uploads -> Nat]
    /\ backoffUntil \in [Uploads -> BOOLEAN]
    /\ backoffAttempt \in [Uploads -> Nat]
    /\ stale \in [Uploads -> BOOLEAN]
    /\ before \subseteq Uploads \X Uploads
    /\ file \in [Uploads -> BOOLEAN]
    /\ txns \in [Uploads -> Nat]
    /\ broadcast \in [Uploads -> Int]
    /\ unstored \in [Uploads -> 0..Chunks]
    /\ up \in BOOLEAN /\ draining \in BOOLEAN
    /\ staging \subseteq Uploads /\ active \subseteq Uploads
    /\ prepareFailures \in 0..BreakerThreshold /\ circuitOpen \in BOOLEAN
    /\ pc \in [Workers -> Location] /\ job \in [Workers -> Job]
    /\ operatorRetries \in Nat /\ restarts \in Nat /\ lostWrites \in Nat
    /\ cancelled \subseteq Uploads

Init ==
    /\ status = [u \in Uploads |-> "absent"]
    /\ detail = [u \in Uploads |-> "none"]
    /\ tempPath = [u \in Uploads |-> FALSE]
    /\ floor = [u \in Uploads |-> 0]
    /\ backoffUntil = [u \in Uploads |-> FALSE]
    /\ backoffAttempt = [u \in Uploads |-> 0]
    /\ stale = [u \in Uploads |-> FALSE]
    /\ before = {}
    /\ file = [u \in Uploads |-> FALSE]
    /\ txns = [u \in Uploads |-> 0]
    /\ broadcast = [u \in Uploads |-> 0]
    /\ unstored \in [Uploads -> {0, Chunks}]   \* content addressed: maybe stored before
    /\ up = TRUE /\ draining = FALSE
    /\ staging = {} /\ active = {}
    /\ prepareFailures = 0 /\ circuitOpen = FALSE
    /\ pc = [g \in Workers |-> "idle"] /\ job = [g \in Workers |-> NoJob]
    /\ operatorRetries = 0 /\ restarts = 0 /\ lostWrites = 0
    /\ cancelled = {}

-----------------------------------------------------------------------------
(* Building blocks of the steps.                                            *)

\* Goroutine g moves to location l with the local variables j.
Move(g, l, j) == pc' = [pc EXCEPT ![g] = l] /\ job' = [job EXCEPT ![g] = j]
Goto(g, l)    == Move(g, l, job[g])

\* processOne is over; its local variables are dead.
Leave(g)      == Move(g, "return", AttemptOf(job[g].u, job[g].tp, 0, 0))

\* Mutant: an unrecorded payment does not change the error.
FailAsIs(g, e) == Move(g, "failed", [job[g] EXCEPT !.err = e])

\* processUpload returns an error: its deferred paidNoRetryIfUnrecorded has the
\* last word, except that a confirmation timeout stays recognisable.
Fail(g, e) ==
    LET paidNoRetryIfUnrecorded ==
            IF job[g].unrec /\ e # "timeout" THEN "paidNoRetry" ELSE e
    IN  Move(g, "failed", [job[g] EXCEPT !.err = paidNoRetryIfUnrecorded])

\* TouchProcessing: only a row still in processing is touched.
heartbeat(u) == stale' = [stale EXCEPT ![u] = FALSE]

\* An UPDATE by id of status (and of processing_at, which only matters while
\* processing). No WHERE on the old status: a deleted row is left alone.
SetStatus(u, s) ==
    /\ status' = IF RowExists(u) THEN [status EXCEPT ![u] = s] ELSE status
    /\ stale' = [stale EXCEPT ![u] = FALSE]

SetRow(f, u, v) == IF RowExists(u) THEN [f EXCEPT ![u] = v] ELSE f

\* queued_at := now
ToTheEnd(u) ==
    {p \in before : p[1] # u} \cup {<<v, u>> : v \in {w \in Uploads \ {u} : RowExists(w)}}

-----------------------------------------------------------------------------
(* POST /uploads: the body is staged in the temp directory, then validated, *)
(* then the row is inserted.                                                *)

StageFile(u) ==
    /\ up /\ status[u] = "absent" /\ u \notin staging /\ ~file[u]
    /\ file' = [file EXCEPT ![u] = TRUE]
    /\ staging' = staging \cup {u}
    /\ UNCHANGED <<rowVars, txns, netVars, up, draining, active,
                   prepareFailures, circuitOpen, pc, job, envVars>>

\* Create inserts the row and reads it back. When the read fails, the handler
\* removes the file and reports an error, and the row stays in the queue.
AcceptUpload(u, readBack) ==
    /\ u \in staging
    /\ readBack \/ Fault("rowRead")
    /\ status' = [status EXCEPT ![u] = "queued"]
    /\ tempPath' = [tempPath EXCEPT ![u] = TRUE]
    /\ before' = ToTheEnd(u)
    /\ staging' = staging \ {u}
    /\ file' = [file EXCEPT ![u] = readBack]
    /\ UNCHANGED <<detail, floor, backoffUntil, backoffAttempt, stale, txns, netVars,
                   up, draining, active, prepareFailures, circuitOpen, pc, job, envVars>>

\* Too large, over quota, or the INSERT failed: the handler removes the file.
RejectUpload(u) ==
    /\ u \in staging
    /\ file' = [file EXCEPT ![u] = FALSE]
    /\ staging' = staging \ {u}
    /\ UNCHANGED <<rowVars, txns, netVars, up, draining, active,
                   prepareFailures, circuitOpen, pc, job, envVars>>

-----------------------------------------------------------------------------
(* processLoop: DequeueNext, markActive, go processOne.                     *)

Eligible(u) == status[u] = "queued" /\ ~backoffUntil[u]

\* The guard of DequeueNext, with the breaker and the semaphore of processLoop.
CanDequeue(u) ==
    /\ up /\ ~draining /\ ~circuitOpen
    /\ Eligible(u)
    /\ \A v \in Uploads : Eligible(v) => <<v, u>> \notin before

ClaimRow(u) ==
    /\ status' = [status EXCEPT ![u] = "processing"]
    /\ stale' = [stale EXCEPT ![u] = FALSE]
    /\ UNCHANGED <<detail, tempPath, floor, backoffUntil, backoffAttempt, before>>

\* Mutant: markActive is missing.
DequeueUnmarked(g, u) ==
    /\ pc[g] = "idle" /\ CanDequeue(u)
    /\ ClaimRow(u)
    /\ Move(g, "check", AttemptOf(u, tempPath[u], backoffAttempt[u], 0))
    /\ UNCHANGED <<diskVars, netVars, procVars, envVars>>

Dequeue(g, u) ==
    /\ pc[g] = "idle" /\ CanDequeue(u)
    /\ ClaimRow(u)
    /\ active' = active \cup {u}
    /\ Move(g, "check", AttemptOf(u, tempPath[u], backoffAttempt[u], 0))
    /\ UNCHANGED <<diskVars, netVars, up, draining, staging, prepareFailures,
                   circuitOpen, envVars>>

\* The claim commits and the GetByID after it fails: no goroutine is started.
DequeueLost(g, u) ==
    /\ Fault("rowRead")
    /\ pc[g] = "idle" /\ CanDequeue(u)
    /\ ClaimRow(u)
    /\ UNCHANGED <<diskVars, netVars, procVars, pc, job, envVars>>

-----------------------------------------------------------------------------
(* processUpload, up to the payment.                                        *)

CheckOk(g) ==
    /\ pc[g] = "check"
    /\ job[g].tp /\ file[job[g].u]
    /\ Goto(g, "prepare")
    /\ UNCHANGED <<rowVars, diskVars, netVars, procVars, envVars>>

\* No temp path, no file, over quota, no wallet, or an undecryptable key.
CheckFail(g) ==
    /\ pc[g] = "check"
    /\ Fail(g, "plain")
    /\ UNCHANGED <<rowVars, diskVars, netVars, procVars, envVars>>

\* antd prepare: quotes only for chunks the network lacks, or a merkle plan.
PrepareOk(g, kind, n) ==
    LET u == job[g].u IN
    /\ pc[g] = "prepare" /\ file[u]
    /\ IF kind = "wave" THEN n = (IF unstored[u] > 0 THEN 1 ELSE 0)
                        ELSE n \in 1..MaxBatches
    /\ Move(g, "cost", [job[g] EXCEPT !.kind = kind, !.batches = n])
    /\ heartbeat(u)
    /\ UNCHANGED <<status, detail, tempPath, floor, backoffUntil, backoffAttempt,
                   before, diskVars, netVars, procVars, envVars>>

PrepareFail(g, e) ==
    /\ pc[g] = "prepare"
    /\ e \in {"plain", "transient"}
    /\ Fail(g, e)
    /\ UNCHANGED <<rowVars, diskVars, netVars, procVars, envVars>>

\* Over max_gas_fee with attempts left: SetGasBackoff and return. The UPDATE
\* does not look at the status it overwrites.
CostBackoff(g) ==
    LET u == job[g].u IN
    /\ pc[g] = "cost"
    /\ job[g].bo + 1 <= MaxBackoff
    /\ SetStatus(u, "queued")
    /\ detail' = SetRow(detail, u, "gas_backoff")
    /\ backoffUntil' = SetRow(backoffUntil, u, TRUE)
    /\ backoffAttempt' = SetRow(backoffAttempt, u, job[g].bo + 1)
    /\ Leave(g)
    /\ UNCHANGED <<tempPath, floor, before, diskVars, netVars, procVars, envVars>>

\* Affordable, or no ceiling set (then ClearBackoff is not reached).
CostOk(g, clear) ==
    LET u == job[g].u IN
    /\ pc[g] = "cost"
    /\ clear => job[g].bo > 0
    /\ detail' = IF clear THEN SetRow(detail, u, "none") ELSE detail
    /\ backoffUntil' = IF clear THEN SetRow(backoffUntil, u, FALSE) ELSE backoffUntil
    /\ IF job[g].batches > 0 THEN Goto(g, "refuse") /\ UNCHANGED stale
                             ELSE Goto(g, "finalize") /\ heartbeat(u)
    /\ UNCHANGED <<status, tempPath, floor, backoffAttempt, before, diskVars,
                   netVars, procVars, envVars>>

\* Too many backoffs, SetGasBackoff failed, no EVM RPC, or a malformed plan.
CostFail(g) ==
    /\ pc[g] = "cost"
    /\ Fail(g, "plain")
    /\ UNCHANGED <<rowVars, diskVars, netVars, procVars, envVars>>

\* Mutant: pays without looking at the ledger.
RefuseCheckSkipped(g) ==
    /\ pc[g] = "refuse"
    /\ Goto(g, "send")
    /\ UNCHANGED <<rowVars, diskVars, netVars, procVars, envVars>>

\* refuseRepayment
RefuseCheck(g) ==
    /\ pc[g] = "refuse"
    /\ IF HasPaymentSinceQueued(job[g].u) THEN Fail(g, "paidNoRetry")
                                         ELSE Goto(g, "send")
    /\ UNCHANGED <<rowVars, diskVars, netVars, procVars, envVars>>

RefuseReadError(g) ==
    /\ Fault("ledgerRead")
    /\ pc[g] = "refuse"
    /\ Fail(g, "plain")
    /\ UNCHANGED <<rowVars, diskVars, netVars, procVars, envVars>>

-----------------------------------------------------------------------------
(* Payment: one transaction for a wave batch, one per batch of a merkle     *)
(* plan (PayForQuotes, payMerkleBatches, sendTxWithReceipt).                *)

\* The caller's reaction to a failed payment: a merkle plan that has paid
\* something is salvaged unless the failing transaction may still mine.
PayFailed(g, e) ==
    IF job[g].kind = "merkle" /\ job[g].winners > 0 /\ e # "timeout"
    THEN Goto(g, "salvage")
    ELSE Fail(g, e)

\* Nonce, gas, approval or send failed and nothing was broadcast; the wait for
\* the approval's receipt can time out as well.
SendFail(g, e) ==
    /\ pc[g] = "send"
    /\ e = "plain" \/ (e = "timeout" /\ ~draining)
    /\ PayFailed(g, e)
    /\ UNCHANGED <<rowVars, diskVars, netVars, procVars, envVars>>

SendOk(g) ==
    /\ pc[g] = "send"
    /\ broadcast' = [broadcast EXCEPT ![job[g].u] = @ + 1]
    /\ Goto(g, "receipt")
    /\ UNCHANGED <<rowVars, diskVars, unstored, procVars, envVars>>

\* The node accepted the transaction but its answer was lost.
SendLost(g) ==
    /\ Fault("sendReply")
    /\ pc[g] = "send"
    /\ broadcast' = [broadcast EXCEPT ![job[g].u] = @ + 1]
    /\ PayFailed(g, "plain")
    /\ UNCHANGED <<rowVars, diskVars, unstored, procVars, envVars>>

ReceiptOk(g) ==
    /\ pc[g] = "receipt"
    /\ Goto(g, "record")
    /\ UNCHANGED <<rowVars, diskVars, netVars, procVars, envVars>>

\* The signer's own deadline, with the worker's context still live.
ReceiptTimeout(g) ==
    /\ pc[g] = "receipt" /\ ~draining
    /\ PayFailed(g, "timeout")
    /\ UNCHANGED <<rowVars, diskVars, netVars, procVars, envVars>>

ReceiptReverted(g) ==
    /\ pc[g] = "receipt"
    /\ broadcast' = [broadcast EXCEPT ![job[g].u] = @ - 1]
    /\ PayFailed(g, "plain")
    /\ UNCHANGED <<rowVars, diskVars, unstored, procVars, envVars>>

\* The worker is shutting down, or a mined merkle receipt cannot be parsed:
\* an ordinary error for a transaction that is on its way.
ReceiptCancelled(g) ==
    /\ pc[g] = "receipt"
    /\ draining \/ (Fault("receiptParse") /\ job[g].kind = "merkle")
    /\ PayFailed(g, "plain")
    /\ UNCHANGED <<rowVars, diskVars, netVars, procVars, envVars>>

AfterPayment(g, unrecorded) ==
    LET j == [job[g] EXCEPT !.winners = @ + 1, !.unrec = @ \/ unrecorded]
    IN  Move(g, IF j.winners < j.batches THEN "send" ELSE "finalize", j)

\* recordPayment; transactions.upload_id references uploads(id).
RecordOk(g) ==
    LET u == job[g].u IN
    /\ pc[g] = "record" /\ RowExists(u)
    /\ txns' = [txns EXCEPT ![u] = @ + 1]
    /\ AfterPayment(g, FALSE)
    /\ heartbeat(u)
    /\ UNCHANGED <<status, detail, tempPath, floor, backoffUntil, backoffAttempt,
                   before, file, netVars, procVars, envVars>>

\* The INSERT failed, or it succeeded and reading the row back failed.
RecordFail(g, inserted) ==
    LET u == job[g].u IN
    /\ pc[g] = "record"
    /\ Fault("ledgerWrite") \/ ~RowExists(u)
    /\ inserted => RowExists(u)
    /\ txns' = IF inserted THEN [txns EXCEPT ![u] = @ + 1] ELSE txns
    /\ AfterPayment(g, TRUE)
    /\ heartbeat(u)
    /\ UNCHANGED <<status, detail, tempPath, floor, backoffUntil, backoffAttempt,
                   before, file, netVars, procVars, envVars>>

\* Mutant: a partial store of the salvaged batches counts as success.
SalvagePartial(g, n) ==
    LET u == job[g].u IN
    /\ pc[g] = "salvage"
    /\ n <= unstored[u]
    /\ unstored' = [unstored EXCEPT ![u] = n]
    /\ \/ Move(g, "complete", [job[g] EXCEPT !.new = TRUE])
       \/ Fail(g, "paidNoRetry")
    /\ UNCHANGED <<rowVars, diskVars, broadcast, procVars, envVars>>

\* salvageMerkleFinalize: n chunks are still missing afterwards.
Salvage(g, n) ==
    LET u == job[g].u IN
    /\ pc[g] = "salvage"
    /\ n <= unstored[u]
    /\ unstored' = [unstored EXCEPT ![u] = n]
    /\ \/ n = 0 /\ Move(g, "complete", [job[g] EXCEPT !.new = unstored[u] > 0])
       \/ Fail(g, "paidNoRetry")
    /\ UNCHANGED <<rowVars, diskVars, broadcast, procVars, envVars>>

-----------------------------------------------------------------------------
(* finalizeWithResume and the end of processUpload.                         *)

FinalizeOk(g) ==
    LET u == job[g].u IN
    /\ pc[g] = "finalize"
    /\ unstored' = [unstored EXCEPT ![u] = 0]
    /\ Move(g, "complete", [job[g] EXCEPT !.new = unstored[u] > 0])
    /\ UNCHANGED <<rowVars, diskVars, broadcast, procVars, envVars>>

\* waveFinalizeError, and the merkle branch's errPaidNoRetry.
FinalizeError(g, retentionKnown) ==
    Fail(g, IF job[g].kind = "wave" /\ retentionKnown THEN "finalizeFailed"
                                                      ELSE "paidNoRetry")

\* A retryable partial store leaving n chunks: wait and call finalize again
\* while repeats are left and the number of failed chunks shrinks.
FinalizePartial(g, n) ==
    LET u == job[g].u IN
    /\ pc[g] = "finalize"
    /\ n \in 1..unstored[u]
    /\ unstored' = [unstored EXCEPT ![u] = n]
    /\ IF job[g].resume < MaxResume /\ n < job[g].lastFailed /\ ~draining
       THEN /\ Move(g, "finalize", [job[g] EXCEPT !.resume = @ + 1, !.lastFailed = n])
            /\ heartbeat(u)
       ELSE FinalizeError(g, TRUE) /\ UNCHANGED stale
    /\ UNCHANGED <<status, detail, tempPath, floor, backoffUntil, backoffAttempt,
                   before, diskVars, broadcast, procVars, envVars>>

\* Any other error, after which n chunks are missing (none: the reply was lost).
FinalizeFail(g, n, retentionKnown) ==
    LET u == job[g].u IN
    /\ pc[g] = "finalize"
    /\ n <= unstored[u]
    /\ unstored' = [unstored EXCEPT ![u] = n]
    /\ FinalizeError(g, retentionKnown)
    /\ UNCHANGED <<rowVars, diskVars, broadcast, procVars, envVars>>

\* MarkCompleted / MarkAlreadyStored: temp_path goes with the status.
CompleteOk(g) ==
    LET u == job[g].u IN
    /\ pc[g] = "complete"
    /\ SetStatus(u, IF job[g].new THEN "completed" ELSE "already_stored")
    /\ tempPath' = SetRow(tempPath, u, FALSE)
    /\ Goto(g, "cleanup")
    /\ UNCHANGED <<detail, floor, backoffUntil, backoffAttempt, before, diskVars,
                   netVars, procVars, envVars>>

\* The daemon returned no data_map_address, or the UPDATE failed.
CompleteFail(g) ==
    /\ pc[g] = "complete"
    /\ Fail(g, "plain")
    /\ UNCHANGED <<rowVars, diskVars, netVars, procVars, envVars>>

\* processOne after a success.
Cleanup(g) ==
    /\ pc[g] = "cleanup"
    /\ prepareFailures' = 0
    /\ file' = [file EXCEPT ![job[g].u] = FALSE]
    /\ Leave(g)
    /\ UNCHANGED <<rowVars, txns, netVars, up, draining, staging, active,
                   circuitOpen, envVars>>

-----------------------------------------------------------------------------
(* processOne after a failure.                                              *)

classifyFailure(e, paid, canRetry) ==
    CASE e = "timeout" -> "preserveUnconfirmed"
      [] e = "paidNoRetry" -> "preservePaid"
      [] e = "finalizeFailed" /\ canRetry -> "retry"
      [] e = "transient" /\ canRetry /\ ~paid -> "retry"
      [] OTHER -> IF paid THEN "preservePaid" ELSE "abandon"

\* A failed HasByUpload reads as "nothing paid".
Classify(g, paid) ==
    LET outcome == classifyFailure(job[g].err, paid, job[g].attempt < MaxRetries) IN
    /\ pc[g] = "failed"
    /\ paid = (txns[job[g].u] > 0) \/ (~paid /\ Fault("ledgerRead"))
    /\ IF outcome = "retry" THEN Goto(g, "delay")
       ELSE Move(g, "finish", [job[g] EXCEPT !.outcome = outcome])
    /\ UNCHANGED <<rowVars, diskVars, netVars, procVars, envVars>>

DelayElapsed(g) ==
    /\ pc[g] = "delay"
    /\ Move(g, "check",
            AttemptOf(job[g].u, job[g].tp, job[g].bo, job[g].attempt + 1))
    /\ UNCHANGED <<rowVars, diskVars, netVars, procVars, envVars>>

\* ctx.Done(): the row stays in processing for the next start.
DelayCancelled(g) ==
    /\ pc[g] = "delay" /\ draining
    /\ Leave(g)
    /\ UNCHANGED <<rowVars, diskVars, netVars, procVars, envVars>>

DetailOf(outcome) ==
    IF outcome = "preservePaid" THEN "paid_unfinalized" ELSE "payment_unconfirmed"

\* finishFailedUpload ignores the error of a status UPDATE.
Written(written) ==
    /\ written \/ lostWrites < MaxLostWrites
    /\ lostWrites' = IF written THEN lostWrites ELSE lostWrites + 1
    /\ UNCHANGED <<operatorRetries, restarts, cancelled>>

\* MarkFailedPreserveTemp
FinishPreserve(g, written) ==
    LET u == job[g].u IN
    /\ pc[g] = "finish" /\ job[g].outcome # "abandon"
    /\ Written(written)
    /\ IF written
       THEN /\ SetStatus(u, "failed")
            /\ detail' = SetRow(detail, u, DetailOf(job[g].outcome))
       ELSE UNCHANGED <<status, stale, detail>>
    /\ Leave(g)
    /\ UNCHANGED <<tempPath, floor, backoffUntil, backoffAttempt, before, diskVars,
                   netVars, procVars>>

\* Breaker bookkeeping, MarkFailed, cleanupTempFile. The error under a failed
\* finalize may be transient as well.
FinishAbandon(g, written, transient) ==
    LET u == job[g].u IN
    /\ pc[g] = "finish" /\ job[g].outcome = "abandon"
    /\ transient = (job[g].err = "transient") \/ job[g].err = "finalizeFailed"
    /\ Written(written)
    /\ prepareFailures' = IF transient /\ prepareFailures < BreakerThreshold
                          THEN prepareFailures + 1 ELSE prepareFailures
    /\ circuitOpen' = (circuitOpen \/ (transient /\ prepareFailures' = BreakerThreshold))
    /\ IF written
       THEN /\ SetStatus(u, "failed")
            /\ tempPath' = SetRow(tempPath, u, FALSE)
       ELSE UNCHANGED <<status, stale, tempPath>>
    /\ file' = IF job[g].tp THEN [file EXCEPT ![u] = FALSE] ELSE file
    /\ Leave(g)
    /\ UNCHANGED <<detail, floor, backoffUntil, backoffAttempt, before, txns,
                   netVars, up, draining, staging, active>>

\* The deferred clearActive(u.ID) and the semaphore. The entry is found by
\* upload id, whoever put it there.
Return(g) ==
    /\ pc[g] = "return"
    /\ active' = active \ {job[g].u}
    /\ Move(g, "idle", NoJob)
    /\ UNCHANGED <<rowVars, diskVars, netVars, up, draining, staging,
                   prepareFailures, circuitOpen, envVars>>

-----------------------------------------------------------------------------
(* Loops beside the goroutines, and the life of the process.                *)

CircuitCloses ==
    /\ circuitOpen
    /\ circuitOpen' = FALSE
    /\ UNCHANGED <<rowVars, diskVars, netVars, up, draining, staging, active,
                   prepareFailures, pc, job, envVars>>

\* processing_at falls behind the requeue window.
Ages(u) ==
    /\ status[u] = "processing" /\ ~stale[u]
    /\ stale' = [stale EXCEPT ![u] = TRUE]
    /\ UNCHANGED <<status, detail, tempPath, floor, backoffUntil, backoffAttempt,
                   before, diskVars, netVars, procVars, pc, job, envVars>>

BackoffElapses(u) ==
    /\ backoffUntil[u] /\ GapClosed(u)
    /\ backoffUntil' = [backoffUntil EXCEPT ![u] = FALSE]
    /\ UNCHANGED <<status, detail, tempPath, floor, backoffAttempt, stale, before,
                   diskVars, netVars, procVars, pc, job, envVars>>

\* RequeueStuckExcept of a set of rows.
Requeue(us) ==
    /\ status' = [u \in Uploads |-> IF u \in us THEN "queued" ELSE status[u]]
    /\ stale' = [u \in Uploads |-> stale[u] /\ u \notin us]
    /\ UNCHANGED <<detail, tempPath, floor, backoffUntil, backoffAttempt, before>>

\* Mutants. The exclusion is dropped; NOT IN with an empty list finds nothing.
StuckAll(exclude) == {u \in Uploads : status[u] = "processing" /\ stale[u]}
StuckNotInEmpty(exclude) ==
    {u \in Uploads : status[u] = "processing" /\ stale[u] /\ exclude # {} /\ u \notin exclude}

StuckExcept(exclude) ==
    {u \in Uploads : status[u] = "processing" /\ stale[u] /\ u \notin exclude}

\* sweepStuck
Sweep ==
    /\ up /\ ~draining
    /\ StuckExcept(active) # {}
    /\ Requeue(StuckExcept(active))
    /\ UNCHANGED <<diskVars, netVars, procVars, pc, job, envVars>>

\* cleanOrphanedTempFiles; a file being staged is younger than ten minutes.
GC(u) ==
    /\ up /\ ~draining
    /\ file[u] /\ u \notin staging /\ ~ActiveTempPath(u)
    /\ file' = [file EXCEPT ![u] = FALSE]
    /\ UNCHANGED <<rowVars, txns, netVars, procVars, pc, job, envVars>>

\* Stop: the context is cancelled and the goroutines are waited for.
Shutdown ==
    /\ up /\ ~draining /\ restarts < MaxRestarts
    /\ draining' = TRUE
    /\ restarts' = restarts + 1
    /\ UNCHANGED <<rowVars, diskVars, netVars, up, staging, active, prepareFailures,
                   circuitOpen, pc, job, operatorRetries, lostWrites, cancelled>>

Exit ==
    /\ up /\ draining /\ \A g \in Workers : pc[g] = "idle"
    /\ up' = FALSE /\ staging' = {} /\ active' = {}
    /\ UNCHANGED <<rowVars, diskVars, netVars, draining, prepareFailures,
                   circuitOpen, pc, job, envVars>>

Crash ==
    /\ up /\ restarts < MaxRestarts
    /\ up' = FALSE /\ staging' = {} /\ active' = {}
    /\ restarts' = restarts + 1
    /\ pc' = [g \in Workers |-> "idle"] /\ job' = [g \in Workers |-> NoJob]
    /\ UNCHANGED <<rowVars, diskVars, netVars, draining, prepareFailures,
                   circuitOpen, operatorRetries, lostWrites, cancelled>>

\* Start: RequeueStuck(0) takes every row still processing, except one whose
\* processing_at is in the current second; when its UPDATE fails, none. What is
\* spared is left to the sweep.
Start(spared) ==
    LET stuck == {u \in Uploads : status[u] = "processing"} IN
    /\ ~up
    /\ spared \subseteq {u \in stuck : ~stale[u]} \/ spared = stuck
    /\ Requeue(stuck \ spared)
    /\ up' = TRUE /\ draining' = FALSE
    /\ prepareFailures' = 0 /\ circuitOpen' = FALSE
    /\ UNCHANGED <<diskVars, netVars, staging, active, pc, job, envVars>>

-----------------------------------------------------------------------------
(* What an operator or the owner may ask for.                               *)

\* The temp file is left to the collector; a running goroutine is not told.
Cancel(u) ==
    /\ up /\ status[u] \in {"queued", "processing"}
    /\ SetStatus(u, "failed")
    /\ detail' = [detail EXCEPT ![u] = "none"]
    /\ backoffUntil' = [backoffUntil EXCEPT ![u] = FALSE]
    /\ tempPath' = [tempPath EXCEPT ![u] = FALSE]
    /\ cancelled' = cancelled \cup {u}
    /\ UNCHANGED <<floor, backoffAttempt, before, diskVars, netVars, procVars,
                   pc, job, operatorRetries, restarts, lostWrites>>

Retry(u) ==
    /\ up /\ status[u] = "failed" /\ GapClosed(u)
    /\ operatorRetries < MaxOperatorRetries
    /\ SetStatus(u, "queued")
    /\ detail' = [detail EXCEPT ![u] = "none"]
    /\ backoffUntil' = [backoffUntil EXCEPT ![u] = FALSE]
    /\ backoffAttempt' = [backoffAttempt EXCEPT ![u] = 0]
    /\ floor' = [floor EXCEPT ![u] = txns[u]]
    /\ before' = ToTheEnd(u)
    /\ operatorRetries' = operatorRetries + 1
    /\ UNCHANGED <<tempPath, diskVars, netVars, procVars, pc, job, restarts,
                   lostWrites, cancelled>>

ForceRetry(u) ==
    /\ up /\ status[u] = "queued" /\ detail[u] = "gas_backoff" /\ GapClosed(u)
    /\ detail' = [detail EXCEPT ![u] = "none"]
    /\ backoffUntil' = [backoffUntil EXCEPT ![u] = FALSE]
    /\ UNCHANGED <<status, tempPath, floor, backoffAttempt, stale, before, diskVars,
                   netVars, procVars, pc, job, envVars>>

\* The ledger's foreign key has no ON DELETE: a row with payments stays.
Delete(u) ==
    /\ up /\ status[u] \in Settled
    /\ txns[u] = 0
    /\ SetStatus(u, "deleted")
    /\ tempPath' = [tempPath EXCEPT ![u] = FALSE]
    /\ before' = {p \in before : u \notin {p[1], p[2]}}
    /\ UNCHANGED <<detail, floor, backoffUntil, backoffAttempt, diskVars, netVars,
                   procVars, pc, job, envVars>>

-----------------------------------------------------------------------------
(* The specification.                                                       *)

Prepare(g) ==
    \/ CheckOk(g) \/ CheckFail(g)
    \/ \E kind \in {"wave", "merkle"}, n \in 0..MaxBatches : PrepareOk(g, kind, n)
    \/ \E e \in ErrKind : PrepareFail(g, e)
    \/ CostBackoff(g) \/ CostFail(g) \/ \E clear \in BOOLEAN : CostOk(g, clear)

Pay(g) ==
    \/ RefuseCheck(g) \/ RefuseReadError(g)
    \/ \E e \in ErrKind : SendFail(g, e)
    \/ SendOk(g) \/ SendLost(g)
    \/ ReceiptOk(g) \/ ReceiptTimeout(g) \/ ReceiptReverted(g) \/ ReceiptCancelled(g)
    \/ RecordOk(g) \/ \E inserted \in BOOLEAN : RecordFail(g, inserted)
    \/ \E n \in 0..Chunks : Salvage(g, n)

Finalize(g) ==
    \/ FinalizeOk(g) \/ \E n \in 1..Chunks : FinalizePartial(g, n)
    \/ \E n \in 0..Chunks, known \in BOOLEAN : FinalizeFail(g, n, known)
    \/ CompleteOk(g) \/ CompleteFail(g) \/ Cleanup(g)

Resolve(g) ==
    \/ \E paid \in BOOLEAN : Classify(g, paid)
    \/ DelayElapsed(g) \/ DelayCancelled(g)
    \/ \E written \in BOOLEAN : FinishPreserve(g, written)
    \/ \E written, transient \in BOOLEAN : FinishAbandon(g, written, transient)
    \/ Return(g)

Step(g) == Prepare(g) \/ Pay(g) \/ Finalize(g) \/ Resolve(g)

Handler(u) ==
    \/ StageFile(u) \/ RejectUpload(u)
    \/ \E readBack \in BOOLEAN : AcceptUpload(u, readBack)

Operator(u) == Cancel(u) \/ Retry(u) \/ ForceRetry(u) \/ Delete(u)

Process == Sweep \/ Shutdown \/ Exit \/ Crash \/ \E spared \in SUBSET Uploads : Start(spared)

Time == CircuitCloses \/ \E u \in Uploads : Ages(u) \/ BackoffElapses(u)

Next ==
    \/ \E g \in Workers : Step(g)
    \/ \E g \in Workers, u \in Uploads : Dequeue(g, u) \/ DequeueLost(g, u)
    \/ \E u \in Uploads : Handler(u) \/ Operator(u) \/ GC(u)
    \/ Process \/ Time

Spec == Init /\ [][Next]_vars

\* Goroutines, tickers and timers run; the daemon and the chain answer; a
\* stopped process is started again. Requests, crashes and stops need not happen.
Fairness ==
    /\ \A g \in Workers : WF_vars(Step(g))
    /\ WF_vars(\E g \in Workers, u \in Uploads : Dequeue(g, u))
    /\ \A u \in Uploads : /\ WF_vars(AcceptUpload(u, TRUE) \/ RejectUpload(u))
                          /\ WF_vars(Ages(u)) /\ WF_vars(BackoffElapses(u))
                          /\ WF_vars(GC(u))
    /\ WF_vars(CircuitCloses) /\ WF_vars(Sweep) /\ WF_vars(Exit)
    /\ WF_vars(\E spared \in SUBSET Uploads : Start(spared))

FairSpec == Spec /\ Fairness

-----------------------------------------------------------------------------
(* Properties.                                                              *)

\* One upload is paid for by at most one goroutine at a time, whatever the
\* sweep, restarts, cancellations and retries do (V2-1773).
Paying == {"refuse", "send", "receipt", "record", "salvage", "finalize"}
OnePayer ==
    \A g, h \in Workers :
        (g # h /\ pc[g] \in Paying /\ pc[h] \in Paying) => job[g].u # job[h].u

\* Since its creation or its last operator Retry, the ledger holds at most one
\* plan's payments for an upload: an automatic re-run never pays for it again
\* (refuseRepayment).
LedgerOnePlan ==
    \A u \in Uploads : txns[u] <= floor[u] + MaxBatches

\* The number of payments put on the chain is bounded by what was authorized:
\* the upload itself, each operator Retry, each restart (the gap between
\* confirmation and ledger row) and each lost outcome may cost one plan.
PaymentsAuthorized ==
    \A u \in Uploads :
        broadcast[u] <= MaxBatches * (1 + operatorRetries + restarts + lostWrites)

\* While an upload with a recorded payment is unfinished, its source is on disk
\* and the row points to it, so that its DataMap can be regenerated; only the
\* owner's Cancel gives that up (finishFailedUpload, ListActiveTempPaths).
PaidSourceKept ==
    \A u \in Uploads \ cancelled :
        (txns[u] > 0 /\ status[u] \in {"queued", "processing", "failed"})
            => tempPath[u] /\ file[u]

\* A row whose upload a goroutine of this process works on goes from processing
\* back to queued only by that goroutine's own gas backoff; the sweep spares it
\* (requeue_window.go), unless its owner has cancelled it.
SweepSparesLive ==
    [][\A u \in Uploads \ cancelled, g \in Workers :
          (Working(g, u) /\ status[u] = "processing" /\ status'[u] = "queued")
              => pc[g] = "cost" /\ pc'[g] = "return"]_vars

\* A finished upload stays finished: no late goroutine, sweep or retry brings it
\* back or declares it failed, unless its owner had cancelled it.
CompletedIsFinal ==
    [][\A u \in Uploads \ cancelled' :
          status[u] \in Stored => status'[u] \in {status[u], "deleted"}]_vars

\* Every accepted upload is eventually settled (processLoop, reconcileLoop).
Settles ==
    \A u \in Uploads :
        status[u] \in {"queued", "processing"} ~> status[u] \in Settled \cup {"deleted"}

\* The temp source of a finished upload is eventually gone, even when the
\* process dies between the row update and cleanupTempFile.
OrphansReclaimed ==
    \A u \in Uploads : (status[u] \in Stored /\ file[u]) ~> ~file[u]

-----------------------------------------------------------------------------
(* The inductive invariant behind the safety properties (without EagerRetry).*)

\* Locations that only a goroutine with a temp path reaches.
Sourced == {"prepare", "cost", "complete", "cleanup"} \cup Paying

\* Two goroutines meet on one upload only after a Cancel, and then at most one
\* of them has a source to work from.
SoleHolder ==
    \A g, h \in Workers :
        (g # h /\ pc[g] # "idle" /\ pc[h] # "idle" /\ job[g].u = job[h].u)
            => job[g].u \in cancelled /\ ~(job[g].tp /\ job[h].tp)

\* What a goroutine knows of the row it works on: it is registered, and the row
\* is in processing until the goroutine itself writes its outcome.
RowOfHolder(g) ==
    LET u == job[g].u IN
    /\ u \in active
    /\ \/ status[u] = "processing" /\ pc[g] # "cleanup"
       \/ pc[g] \in {"cleanup", "return"} /\ status[u] \in Stored \cup {"deleted"}
       \/ pc[g] = "return" /\ status[u] = "failed"
       \/ pc[g] = "return" /\ status[u] = "queued" /\ backoffUntil[u]

HoldersRegistered ==
    \A g \in Workers :
        (pc[g] # "idle" /\ job[g].u \notin cancelled) => RowOfHolder(g)

Lifecycle ==
    /\ ~up => \A g \in Workers : pc[g] = "idle"
    /\ \A u \in staging : status[u] = "absent"
    /\ \A u \in cancelled : status[u] # "absent" /\ ~tempPath[u]
    /\ \A g \in Workers :
          /\ pc[g] # "idle" => status[job[g].u] # "absent"
          /\ pc[g] \in Sourced => job[g].tp

\* The payments in the ledger above the floor are the paying goroutine's own:
\* at location l with the local variables j it has made j.winners of them.
PlanAt(l, j) ==
    /\ l \in {"check", "prepare", "cost", "refuse"} => j.winners = 0
    /\ l \in {"cost", "refuse", "send", "receipt", "record"} => j.batches <= MaxBatches
    /\ l \in {"refuse", "send", "receipt", "record"} => j.winners < j.batches
    /\ l \in {"send", "receipt", "record"} => txns[j.u] <= floor[j.u] + j.winners

PlanProgress ==
    /\ \A u \in Uploads : status[u] \in {"absent", "deleted"} => txns[u] = 0
    /\ \A g \in Workers : PlanAt(pc[g], job[g])

IInv == /\ TypeOK /\ SoleHolder /\ HoldersRegistered /\ Lifecycle
        /\ PlanProgress /\ LedgerOnePlan

-----------------------------------------------------------------------------
(* The pipeline implements the life cycle of UploadLifecycle.               *)

\* The phase of a row, as its owner sees it.
PhaseOf(s) ==
    CASE s = "queued" -> "waiting"
      [] s = "processing" -> "running"
      [] s \in Stored -> "stored"
      [] OTHER -> s

Life == INSTANCE UploadLifecycle WITH
            PlanSize <- MaxBatches,
            phase    <- [u \in Uploads |-> PhaseOf(status[u])],
            paid     <- txns,
            limit    <- [u \in Uploads |-> floor[u] + MaxBatches],
            complete <- {u \in Uploads : unstored[u] = 0},
            released <- cancelled

\* Whatever goroutines, sweeps, crashes and restarts do, each row only takes the steps
\* of the life cycle: it is stored only when all its content is on the network, paid
\* for only while it runs and within one plan per authorization, and reopened only by
\* an operator's Retry (processUpload, salvageMerkleFinalize, refuseRepayment).
ImplementsLifecycle == Life!LifeSpec

=============================================================================
