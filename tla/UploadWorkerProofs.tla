------------------------- MODULE UploadWorkerProofs -------------------------
(***************************************************************************)
(* Proofs about UploadWorker, for every number of uploads, goroutines,      *)
(* batches, chunks, retries and restarts and every set of faults.           *)
(***************************************************************************)
EXTENDS UploadWorker, TLAPS

-----------------------------------------------------------------------------
(* Types.                                                                   *)

\* The local variables of a fresh attempt are well typed.
LEMMA AttemptType ==
    ASSUME NEW u \in Uploads, NEW tp \in BOOLEAN, NEW bo \in Nat, NEW n \in Nat
    PROVE  AttemptOf(u, tp, bo, n) \in Job
BY ConstantsAssumption DEF AttemptOf, Job, ErrKind, Outcome

\* An idle slot holds a well-typed record.
LEMMA NoJobType == NoJob \in Job
<1>1. (CHOOSE u \in Uploads : TRUE) \in Uploads
  BY ConstantsAssumption
<1>2. QED
  BY <1>1, AttemptType DEF NoJob

\* A goroutine's move to a known location with well-typed local variables.
LEMMA MoveType ==
    ASSUME TypeOK, NEW g \in Workers, NEW l \in Location, NEW j \in Job, Move(g, l, j)
    PROVE  /\ pc' \in [Workers -> Location] /\ job' \in [Workers -> Job]
           /\ \A h \in Workers \ {g} : pc'[h] = pc[h] /\ job'[h] = job[h]
           /\ pc'[g] = l /\ job'[g] = j
BY DEF TypeOK, Move

\* The fields of the local variables, and the updates that are more than one
\* field or that compute the new value.
LEMMA JobFields ==
    ASSUME NEW j \in Job
    PROVE  /\ j.u \in Uploads /\ j.tp \in BOOLEAN /\ j.bo \in Nat /\ j.attempt \in Nat
           /\ j.batches \in Nat /\ j.winners \in Nat /\ j.unrec \in BOOLEAN
           /\ j.err \in ErrKind /\ j.resume \in Nat /\ j.outcome \in Outcome
BY DEF Job

\* The job updates the actions make stay within Job.
LEMMA JobUpdates ==
    ASSUME NEW j \in Job, NEW b \in BOOLEAN, NEW c \in BOOLEAN, NEW n \in Nat, NEW m \in Nat
    PROVE  /\ [j EXCEPT !.new = b] \in Job
           /\ [j EXCEPT !.winners = n, !.unrec = b] \in Job
           /\ [j EXCEPT !.resume = n, !.lastFailed = m] \in Job
BY DEF Job

\* Leaving processUpload with an error keeps the types of pc and job.
LEMMA FailType ==
    ASSUME TypeOK, NEW g \in Workers, NEW e \in ErrKind, Fail(g, e)
    PROVE  pc' \in [Workers -> Location] /\ job' \in [Workers -> Job]
<1>1. job[g] \in Job
  BY DEF TypeOK
<1>2. \A x \in ErrKind : [job[g] EXCEPT !.err = x] \in Job
  BY <1>1 DEF Job
<1>3. "failed" \in Location /\ "paidNoRetry" \in ErrKind
  BY DEF Location, ErrKind
<1>4. QED
  BY <1>2, <1>3, MoveType DEF Fail

\* Going to the end of processOne keeps the types of pc and job.
LEMMA LeaveType ==
    ASSUME TypeOK, NEW g \in Workers, Leave(g)
    PROVE  pc' \in [Workers -> Location] /\ job' \in [Workers -> Job]
<1>1. job[g].u \in Uploads /\ job[g].tp \in BOOLEAN
  BY DEF TypeOK, Job
<1>2. AttemptOf(job[g].u, job[g].tp, 0, 0) \in Job
  BY <1>1, AttemptType
<1>3. QED
  BY <1>2, MoveType DEF Leave, Location

\* The steps before the first payment (checks, prepare, price check) keep TypeOK.
LEMMA TypePrepare ==
    ASSUME TypeOK, NEW g \in Workers, Prepare(g)
    PROVE  TypeOK'
<1> USE DEF rowVars, diskVars, netVars, procVars, envVars
<1>0. job[g] \in Job /\ job[g].u \in Uploads
  BY DEF TypeOK, Job
<1>1. CASE CheckOk(g)
  BY <1>0, <1>1, MoveType DEF CheckOk, Goto, TypeOK, Location
<1>2. CASE CheckFail(g)
  BY <1>0, <1>2, FailType DEF CheckFail, TypeOK, ErrKind
<1>3. ASSUME NEW kind \in {"wave", "merkle"}, NEW n \in 0..MaxBatches, PrepareOk(g, kind, n)
      PROVE  TypeOK'
  <2>0. n \in Nat
    BY ConstantsAssumption
  <2>1. [job[g] EXCEPT !.kind = kind, !.batches = n] \in Job
    BY <1>0, <2>0 DEF Job
  <2>2. QED
    BY <1>0, <1>3, <2>1, MoveType DEF PrepareOk, heartbeat, TypeOK, Location
<1>4. ASSUME NEW e \in ErrKind, PrepareFail(g, e)
      PROVE  TypeOK'
  BY <1>0, <1>4, FailType DEF PrepareFail, TypeOK
<1>5. CASE CostBackoff(g)
  <2>1. job[g].bo + 1 \in Nat
    BY <1>0 DEF Job
  <2>2. QED
    BY <1>0, <1>5, <2>1, LeaveType DEF CostBackoff, SetStatus, SetRow, TypeOK, Status, Detail
<1>6. CASE CostFail(g)
  BY <1>0, <1>6, FailType DEF CostFail, TypeOK, ErrKind
<1>7. ASSUME NEW clear \in BOOLEAN, CostOk(g, clear)
      PROVE  TypeOK'
  BY <1>0, <1>7, MoveType DEF CostOk, SetRow, Goto, heartbeat, TypeOK, Detail, Location
<1>8. QED
  BY <1>1, <1>2, <1>3, <1>4, <1>5, <1>6, <1>7 DEF Prepare

\* A failed payment keeps the types of pc and job.
LEMMA PayFailedType ==
    ASSUME TypeOK, NEW g \in Workers, NEW e \in ErrKind, PayFailed(g, e)
    PROVE  pc' \in [Workers -> Location] /\ job' \in [Workers -> Job]
<1>1. job[g] \in Job /\ "salvage" \in Location
  BY DEF TypeOK, Location
<1>2. QED
  BY <1>1, FailType, MoveType DEF PayFailed, Goto

\* Counting a confirmed payment keeps the types of pc and job.
LEMMA AfterPaymentType ==
    ASSUME TypeOK, NEW g \in Workers, NEW b \in BOOLEAN, AfterPayment(g, b)
    PROVE  pc' \in [Workers -> Location] /\ job' \in [Workers -> Job]
<1> DEFINE j == [job[g] EXCEPT !.winners = @ + 1, !.unrec = @ \/ b]
<1>1. j \in Job
  <2>1. job[g] \in Job /\ job[g].winners + 1 \in Nat /\ (job[g].unrec \/ b) \in BOOLEAN
    BY JobFields DEF TypeOK
  <2>2. j = [job[g] EXCEPT !.winners = job[g].winners + 1, !.unrec = job[g].unrec \/ b]
    OBVIOUS
  <2>3. QED
    BY <2>1, <2>2, JobUpdates
<1>2. "send" \in Location /\ "finalize" \in Location
  BY DEF Location
<1>3. QED
  BY <1>1, <1>2, MoveType DEF AfterPayment

\* The payment steps (refusal check, send, receipt, record, salvage) keep TypeOK.
LEMMA TypePay ==
    ASSUME TypeOK, NEW g \in Workers, Pay(g)
    PROVE  TypeOK'
<1> USE DEF rowVars, diskVars, netVars, procVars, envVars
<1>0. /\ job[g] \in Job /\ job[g].u \in Uploads
      /\ "plain" \in ErrKind /\ "timeout" \in ErrKind /\ "paidNoRetry" \in ErrKind
  BY DEF TypeOK, Job, ErrKind
<1>1. CASE RefuseCheck(g)
  BY <1>0, <1>1, FailType, MoveType DEF RefuseCheck, Goto, TypeOK, Location
<1>2. CASE RefuseReadError(g)
  BY <1>0, <1>2, FailType DEF RefuseReadError, TypeOK
<1>3. ASSUME NEW e \in ErrKind, SendFail(g, e)
      PROVE  TypeOK'
  BY <1>3, PayFailedType DEF SendFail, TypeOK
<1>4. CASE SendOk(g)
  BY <1>0, <1>4, MoveType DEF SendOk, Goto, TypeOK, Location
<1>5. CASE SendLost(g)
  BY <1>0, <1>5, PayFailedType DEF SendLost, TypeOK
<1>6. CASE ReceiptOk(g)
  BY <1>0, <1>6, MoveType DEF ReceiptOk, Goto, TypeOK, Location
<1>7. CASE ReceiptTimeout(g)
  BY <1>0, <1>7, PayFailedType DEF ReceiptTimeout, TypeOK
<1>8. CASE ReceiptReverted(g)
  BY <1>0, <1>8, PayFailedType DEF ReceiptReverted, TypeOK
<1>9. CASE ReceiptCancelled(g)
  BY <1>0, <1>9, PayFailedType DEF ReceiptCancelled, TypeOK
<1>10. CASE RecordOk(g)
  <2>1. pc' \in [Workers -> Location] /\ job' \in [Workers -> Job]
    BY <1>10, AfterPaymentType DEF RecordOk
  <2>2. QED
    BY <1>0, <1>10, <2>1 DEF RecordOk, heartbeat, TypeOK
<1>11. ASSUME NEW inserted \in BOOLEAN, RecordFail(g, inserted)
       PROVE  TypeOK'
  <2>1. pc' \in [Workers -> Location] /\ job' \in [Workers -> Job]
    BY <1>11, AfterPaymentType DEF RecordFail
  <2>2. txns' \in [Uploads -> Nat] /\ stale' \in [Uploads -> BOOLEAN]
    BY <1>0, <1>11 DEF RecordFail, heartbeat, TypeOK
  <2>3. QED
    BY <1>11, <2>1, <2>2 DEF RecordFail, TypeOK
<1>12. ASSUME NEW n \in 0..Chunks, Salvage(g, n)
       PROVE  TypeOK'
  <2>1. [job[g] EXCEPT !.new = unstored[job[g].u] > 0] \in Job
    <3>1. (unstored[job[g].u] > 0) \in BOOLEAN
      OBVIOUS
    <3>2. QED
      BY <1>0, <3>1 DEF Job
  <2>2. QED
    BY <1>0, <1>12, <2>1, FailType, MoveType DEF Salvage, TypeOK, Location
<1>13. QED
  BY <1>1, <1>2, <1>3, <1>4, <1>5, <1>6, <1>7, <1>8, <1>9, <1>10, <1>11, <1>12 DEF Pay

\* A failed finalize keeps the types of pc and job.
LEMMA FinalizeErrorType ==
    ASSUME TypeOK, NEW g \in Workers, NEW b \in BOOLEAN, FinalizeError(g, b)
    PROVE  pc' \in [Workers -> Location] /\ job' \in [Workers -> Job]
<1>1. "finalizeFailed" \in ErrKind /\ "paidNoRetry" \in ErrKind
  BY DEF ErrKind
<1>2. QED
  BY <1>1, FailType DEF FinalizeError

\* The finalize and completion steps keep TypeOK.
LEMMA TypeFinalize ==
    ASSUME TypeOK, NEW g \in Workers, Finalize(g)
    PROVE  TypeOK'
<1> USE DEF rowVars, diskVars, netVars, procVars, envVars
<1>0. job[g] \in Job /\ job[g].u \in Uploads /\ 0 \in 0..Chunks
  BY JobFields, ConstantsAssumption DEF TypeOK
<1>a. [job[g] EXCEPT !.new = unstored[job[g].u] > 0] \in Job
  <2>1. (unstored[job[g].u] > 0) \in BOOLEAN
    OBVIOUS
  <2>2. QED
    BY <1>0, <2>1 DEF Job
<1>1. CASE FinalizeOk(g)
  BY <1>0, <1>a, <1>1, MoveType DEF FinalizeOk, TypeOK, Location
<1>2. ASSUME NEW n \in 1..Chunks, FinalizePartial(g, n)
      PROVE  TypeOK'
  <2>1. n \in Nat /\ n \in 0..Chunks
    BY ConstantsAssumption
  <2>2. [job[g] EXCEPT !.resume = @ + 1, !.lastFailed = n] \in Job
    <3>1. job[g].resume + 1 \in Nat
      BY <1>0, JobFields
    <3>2. QED
      BY <1>0, <2>1, <3>1 DEF Job
  <2>3. pc' \in [Workers -> Location] /\ job' \in [Workers -> Job]
    BY <1>2, <2>2, FinalizeErrorType, MoveType DEF FinalizePartial, Location
  <2>4. stale' \in [Uploads -> BOOLEAN] /\ unstored' \in [Uploads -> 0..Chunks]
    BY <1>0, <1>2, <2>1 DEF FinalizePartial, heartbeat, TypeOK
  <2>5. QED
    BY <1>2, <2>3, <2>4 DEF FinalizePartial, TypeOK
<1>3. ASSUME NEW n \in 0..Chunks, NEW known \in BOOLEAN, FinalizeFail(g, n, known)
      PROVE  TypeOK'
  BY <1>0, <1>3, FinalizeErrorType DEF FinalizeFail, TypeOK
<1>4. CASE CompleteOk(g)
  BY <1>0, <1>4, MoveType DEF CompleteOk, SetStatus, SetRow, Goto, TypeOK, Status, Location
<1>5. CASE CompleteFail(g)
  BY <1>0, <1>5, FailType DEF CompleteFail, TypeOK, ErrKind
<1>6. CASE Cleanup(g)
  BY <1>0, <1>6, LeaveType, ConstantsAssumption DEF Cleanup, TypeOK
<1>7. QED
  BY <1>1, <1>2, <1>3, <1>4, <1>5, <1>6 DEF Finalize

\* The steps of processOne after an attempt (classify, delay, finish, return) keep TypeOK.
LEMMA TypeResolve ==
    ASSUME TypeOK, NEW g \in Workers, Resolve(g)
    PROVE  TypeOK'
<1> USE DEF rowVars, diskVars, netVars, procVars, envVars
<1>0. job[g] \in Job /\ job[g].u \in Uploads
  BY DEF TypeOK, Job
<1>1. ASSUME NEW paid \in BOOLEAN, Classify(g, paid)
      PROVE  TypeOK'
  <2> DEFINE o == classifyFailure(job[g].err, paid, job[g].attempt < MaxRetries)
  <2>1. o # "retry" => o \in Outcome
    BY DEF classifyFailure, Outcome
  <2>2. o # "retry" => [job[g] EXCEPT !.outcome = o] \in Job
    BY <1>0, <2>1 DEF Job
  <2> HIDE DEF o
  <2>3. pc' \in [Workers -> Location] /\ job' \in [Workers -> Job]
    BY <1>0, <1>1, <2>2, MoveType DEF Classify, Goto, Location, o
  <2>4. QED
    BY <1>1, <2>3 DEF Classify, TypeOK
<1>2. CASE DelayElapsed(g)
  <2>1. AttemptOf(job[g].u, job[g].tp, job[g].bo, job[g].attempt + 1) \in Job
    <3>1. /\ job[g].u \in Uploads /\ job[g].tp \in BOOLEAN /\ job[g].bo \in Nat
          /\ job[g].attempt + 1 \in Nat
      BY <1>0, JobFields
    <3>2. QED
      BY <3>1, AttemptType
  <2>2. QED
    BY <1>2, <2>1, MoveType DEF DelayElapsed, TypeOK, Location
<1>3. CASE DelayCancelled(g)
  BY <1>3, LeaveType DEF DelayCancelled, TypeOK
<1>4. ASSUME NEW written \in BOOLEAN, FinishPreserve(g, written)
      PROVE  TypeOK'
  <2>1. pc' \in [Workers -> Location] /\ job' \in [Workers -> Job]
    BY <1>4, LeaveType DEF FinishPreserve
  <2>2. lostWrites' \in Nat
    BY <1>4 DEF FinishPreserve, Written, TypeOK
  <2>3. DetailOf(job[g].outcome) \in Detail /\ "failed" \in Status
    BY DEF DetailOf, Detail, Recoverable, Status
  <2>4. /\ status' \in [Uploads -> Status] /\ stale' \in [Uploads -> BOOLEAN]
        /\ detail' \in [Uploads -> Detail]
    BY <1>0, <1>4, <2>3 DEF FinishPreserve, SetStatus, SetRow, TypeOK
  <2>5. QED
    BY <1>4, <2>1, <2>2, <2>4 DEF FinishPreserve, Written, TypeOK
<1>5. ASSUME NEW written \in BOOLEAN, NEW transient \in BOOLEAN,
             FinishAbandon(g, written, transient)
      PROVE  TypeOK'
  <2>1. pc' \in [Workers -> Location] /\ job' \in [Workers -> Job]
    BY <1>5, LeaveType DEF FinishAbandon
  <2>2. lostWrites' \in Nat /\ prepareFailures' \in 0..BreakerThreshold
    BY <1>5, ConstantsAssumption DEF FinishAbandon, Written, TypeOK
  <2>3. circuitOpen' \in BOOLEAN
    BY <1>5 DEF FinishAbandon
  <2>4. /\ status' \in [Uploads -> Status] /\ stale' \in [Uploads -> BOOLEAN]
        /\ tempPath' \in [Uploads -> BOOLEAN] /\ file' \in [Uploads -> BOOLEAN]
    BY <1>0, <1>5 DEF FinishAbandon, SetStatus, SetRow, TypeOK, Status
  <2>5. QED
    BY <1>5, <2>1, <2>2, <2>3, <2>4 DEF FinishAbandon, Written, TypeOK
<1>6. CASE Return(g)
  BY <1>6, NoJobType, MoveType DEF Return, TypeOK, Location
<1>7. QED
  BY <1>1, <1>2, <1>3, <1>4, <1>5, <1>6 DEF Resolve

\* The steps on one row (accept, operator requests, temp GC, dequeue) keep TypeOK.
LEMMA TypeQueue ==
    ASSUME TypeOK, NEW u \in Uploads,
           \/ Handler(u) \/ Operator(u) \/ GC(u)
           \/ \E g \in Workers : Dequeue(g, u) \/ DequeueLost(g, u)
    PROVE  TypeOK'
<1> USE DEF rowVars, diskVars, netVars, procVars, envVars
<1>0. ToTheEnd(u) \subseteq Uploads \X Uploads
  BY DEF ToTheEnd, TypeOK
<1>1. CASE StageFile(u)
  BY <1>1 DEF StageFile, TypeOK
<1>2. ASSUME NEW readBack \in BOOLEAN, AcceptUpload(u, readBack)
      PROVE  TypeOK'
  BY <1>0, <1>2 DEF AcceptUpload, TypeOK, Status
<1>3. CASE RejectUpload(u)
  BY <1>3 DEF RejectUpload, TypeOK
<1>4. CASE Cancel(u)
  BY <1>4 DEF Cancel, SetStatus, TypeOK, Status, Detail
<1>5. CASE Retry(u)
  BY <1>0, <1>5 DEF Retry, SetStatus, TypeOK, Status, Detail
<1>6. CASE ForceRetry(u)
  BY <1>6 DEF ForceRetry, TypeOK, Detail
<1>7. CASE Delete(u)
  <2>1. before' \subseteq Uploads \X Uploads
    BY <1>7 DEF Delete, TypeOK
  <2>2. QED
    BY <1>7, <2>1 DEF Delete, SetStatus, TypeOK, Status
<1>8. CASE GC(u)
  BY <1>8 DEF GC, TypeOK
<1>9. ASSUME NEW g \in Workers, Dequeue(g, u)
      PROVE  TypeOK'
  <2>1. AttemptOf(u, tempPath[u], backoffAttempt[u], 0) \in Job
    <3>1. tempPath[u] \in BOOLEAN /\ backoffAttempt[u] \in Nat
      BY DEF TypeOK
    <3>2. QED
      BY <3>1, AttemptType
  <2>2. pc' \in [Workers -> Location] /\ job' \in [Workers -> Job]
    BY <1>9, <2>1, MoveType DEF Dequeue, Location
  <2>3. QED
    BY <1>9, <2>2 DEF Dequeue, ClaimRow, TypeOK, Status
<1>10. ASSUME NEW g \in Workers, DequeueLost(g, u)
       PROVE  TypeOK'
  BY <1>10 DEF DequeueLost, ClaimRow, TypeOK, Status
<1>11. QED
  BY <1>1, <1>2, <1>3, <1>4, <1>5, <1>6, <1>7, <1>8, <1>9, <1>10 DEF Handler, Operator

\* The sweep, the timers and the stop, crash and start of the process keep TypeOK.
LEMMA TypeProcess ==
    ASSUME TypeOK, Process \/ Time
    PROVE  TypeOK'
<1> USE DEF rowVars, diskVars, netVars, procVars, envVars
<1>1. CASE Sweep
  BY <1>1 DEF Sweep, Requeue, TypeOK, Status
<1>2. CASE Shutdown
  BY <1>2 DEF Shutdown, TypeOK
<1>3. CASE Exit
  BY <1>3 DEF Exit, TypeOK
<1>4. CASE Crash
  <2>1. pc' \in [Workers -> Location]
    BY <1>4 DEF Crash, Location
  <2>2. job' \in [Workers -> Job]
    BY <1>4, NoJobType DEF Crash
  <2>a. up' \in BOOLEAN /\ staging' \subseteq Uploads /\ active' \subseteq Uploads
    BY <1>4, Zenon DEF Crash
  <2>3. /\ restarts' \in Nat
        /\ UNCHANGED <<rowVars, diskVars, netVars, draining, prepareFailures,
                       circuitOpen, operatorRetries, lostWrites, cancelled>>
    BY <1>4 DEF Crash, TypeOK
  <2>4. QED
    BY <2>1, <2>2, <2>a, <2>3 DEF TypeOK
<1>5. ASSUME NEW spared \in SUBSET Uploads, Start(spared)
      PROVE  TypeOK'
  <2>1. status' \in [Uploads -> Status] /\ stale' \in [Uploads -> BOOLEAN]
    BY <1>5 DEF Start, Requeue, TypeOK, Status
  <2>2. prepareFailures' \in 0..BreakerThreshold
    BY <1>5, ConstantsAssumption DEF Start
  <2>3. QED
    BY <1>5, <2>1, <2>2 DEF Start, Requeue, TypeOK
<1>6. CASE CircuitCloses
  BY <1>6 DEF CircuitCloses, TypeOK
<1>7. ASSUME NEW u \in Uploads, Ages(u)
      PROVE  TypeOK'
  BY <1>7 DEF Ages, TypeOK
<1>8. ASSUME NEW u \in Uploads, BackoffElapses(u)
      PROVE  TypeOK'
  BY <1>8 DEF BackoffElapses, TypeOK
<1>9. QED
  BY <1>1, <1>2, <1>3, <1>4, <1>5, <1>6, <1>7, <1>8 DEF Process, Time

\* The initial states have their types.
LEMMA TypeInit == Init => TypeOK
<1>1. 0 \in 0..BreakerThreshold /\ {0, Chunks} \subseteq 0..Chunks
  BY ConstantsAssumption
<1>2. "absent" \in Status /\ "none" \in Detail /\ "idle" \in Location
  BY DEF Status, Detail, Location
<1>3. Init => unstored \in [Uploads -> 0..Chunks]
  BY <1>1 DEF Init
<1>4. Init => job \in [Workers -> Job]
  BY NoJobType DEF Init
<1>5. Init => /\ status \in [Uploads -> Status] /\ detail \in [Uploads -> Detail]
              /\ pc \in [Workers -> Location]
  BY <1>2 DEF Init
<1>6. Init => /\ tempPath \in [Uploads -> BOOLEAN] /\ backoffUntil \in [Uploads -> BOOLEAN]
              /\ stale \in [Uploads -> BOOLEAN] /\ file \in [Uploads -> BOOLEAN]
  BY DEF Init
<1>7. Init => /\ floor \in [Uploads -> Nat] /\ backoffAttempt \in [Uploads -> Nat]
              /\ txns \in [Uploads -> Nat] /\ broadcast \in [Uploads -> Int]
  BY DEF Init
<1>8. Init => /\ before \subseteq Uploads \X Uploads /\ staging \subseteq Uploads
              /\ active \subseteq Uploads /\ cancelled \subseteq Uploads
              /\ up \in BOOLEAN /\ draining \in BOOLEAN /\ circuitOpen \in BOOLEAN
  BY Zenon DEF Init
<1>a. Init => /\ prepareFailures \in 0..BreakerThreshold
              /\ operatorRetries \in Nat /\ restarts \in Nat /\ lostWrites \in Nat
  BY <1>1 DEF Init
<1>9. QED
  BY <1>3, <1>4, <1>5, <1>6, <1>7, <1>8, <1>a DEF TypeOK

\* Every step of the system keeps TypeOK.
LEMMA TypeStep == TypeOK /\ [Next]_vars => TypeOK'
<1> SUFFICES ASSUME TypeOK, [Next]_vars PROVE TypeOK'
  OBVIOUS
<1>1. CASE UNCHANGED vars
  BY <1>1 DEF vars, rowVars, diskVars, netVars, procVars, envVars, TypeOK
<1>2. ASSUME NEW g \in Workers, Step(g)
      PROVE  TypeOK'
  BY <1>2, TypePrepare, TypePay, TypeFinalize, TypeResolve DEF Step
<1>3. QED
  BY <1>1, <1>2, TypeQueue, TypeProcess DEF Next

\* Every reachable state of the upload pipeline is well typed: statuses,
\* details, counters and the goroutines' local variables stay in their ranges.
THEOREM TypeCorrect == Spec => []TypeOK
BY TypeInit, TypeStep, PTL DEF Spec

-----------------------------------------------------------------------------
(* The inductive invariant. Nearly every step of a goroutine g moves g, may *)
(* write the row of g's own upload, and leaves the registry and the ledger  *)
(* alone: Local(g) says so once, and LocalStep shows that such a step keeps *)
(* the invariant.                                                           *)

Local(g) ==
    LET u == job[g].u IN
    /\ pc[g] # "idle" /\ pc'[g] # "idle"
    /\ job'[g].u = u /\ job'[g].tp = job[g].tp
    /\ \A h \in Workers \ {g} : pc'[h] = pc[h] /\ job'[h] = job[h]
    /\ UNCHANGED <<up, staging, active, cancelled, txns, floor>>
    /\ \A v \in Uploads : /\ (status'[v] = "absent") <=> (status[v] = "absent")
                          /\ (status'[v] = "deleted") <=> (status[v] = "deleted")
                          /\ tempPath'[v] => tempPath[v]
    /\ \A v \in Uploads \ {u} : /\ status'[v] = status[v]
                                /\ backoffUntil'[v] = backoffUntil[v]
    /\ pc'[g] \in Sourced => job[g].tp
    /\ PlanAt(pc'[g], job'[g])
    /\ u \notin cancelled => RowOfHolder(g)'

\* A step that moves one goroutine and writes only its own row keeps IInv.
LEMMA LocalStep ==
    ASSUME IInv, TypeOK', NEW g \in Workers, Local(g)
    PROVE  IInv'
<1>0. TypeOK /\ SoleHolder /\ HoldersRegistered /\ Lifecycle /\ PlanProgress /\ LedgerOnePlan
  BY DEF IInv
<1>1. SoleHolder'
  BY <1>0 DEF Local, SoleHolder
<1>2. HoldersRegistered'
  <2> SUFFICES ASSUME NEW h \in Workers, pc'[h] # "idle", job'[h].u \notin cancelled'
               PROVE  RowOfHolder(h)'
    BY DEF HoldersRegistered
  <2>1. CASE h = g
    BY <2>1 DEF Local
  <2>2. CASE h # g
    <3>1. pc[h] # "idle" /\ job[h].u \notin cancelled /\ pc'[h] = pc[h] /\ job'[h] = job[h]
      BY <2>2 DEF Local
    <3>2. RowOfHolder(h)
      BY <1>0, <3>1 DEF HoldersRegistered
    <3>3. job[h].u \in Uploads \ {job[g].u}
      BY <1>0, <2>2, <3>1, JobFields DEF Local, SoleHolder, TypeOK
    <3>4. QED
      BY <3>1, <3>2, <3>3 DEF Local, RowOfHolder
  <2>3. QED
    BY <2>1, <2>2
<1>3. Lifecycle'
  <2>1. up
    BY <1>0 DEF Local, Lifecycle
  <2>2. \A u \in staging' : status'[u] = "absent"
    BY <1>0 DEF Local, Lifecycle, TypeOK
  <2>3. \A u \in cancelled' : status'[u] # "absent" /\ ~tempPath'[u]
    BY <1>0 DEF Local, Lifecycle, TypeOK
  <2>4. \A h \in Workers : /\ pc'[h] # "idle" => status'[job'[h].u] # "absent"
                           /\ pc'[h] \in Sourced => job'[h].tp
    BY <1>0, JobFields DEF Local, Lifecycle, TypeOK
  <2>5. QED
    BY <2>1, <2>2, <2>3, <2>4 DEF Local, Lifecycle
<1>4. PlanProgress'
  BY <1>0, JobFields DEF Local, PlanProgress, PlanAt, TypeOK
<1>5. LedgerOnePlan'
  BY <1>0 DEF Local, LedgerOnePlan
<1>6. QED
  BY <1>1, <1>2, <1>3, <1>4, <1>5 DEF IInv

\* What the invariant says of a goroutine in the middle of processOne.
LEMMA HolderFacts ==
    ASSUME IInv, NEW g \in Workers, pc[g] # "idle"
    PROVE  /\ TypeOK /\ up /\ job[g] \in Job /\ job[g].u \in Uploads
           /\ status[job[g].u] # "absent"
           /\ pc[g] \in Sourced => job[g].tp
           /\ PlanAt(pc[g], job[g])
           /\ job[g].u \notin cancelled => RowOfHolder(g)
BY JobFields DEF IInv, TypeOK, Lifecycle, HoldersRegistered, PlanProgress

\* A step that writes no row: g moves to l with the local variables j.
Silent(g, l, j) ==
    /\ Move(g, l, j)
    /\ pc[g] \notin {"idle", "cleanup", "return"} /\ l \notin {"idle", "cleanup"}
    /\ j.u = job[g].u /\ j.tp = job[g].tp
    /\ UNCHANGED <<status, tempPath, txns, floor, up, staging, active, cancelled>>
    /\ \A v \in Uploads \ {job[g].u} : backoffUntil'[v] = backoffUntil[v]
    /\ l \in Sourced => pc[g] \in Sourced \/ job[g].tp
    /\ PlanAt(l, j)

\* A step that only moves a goroutine, without touching its row, keeps IInv.
LEMMA SilentStep ==
    ASSUME IInv, TypeOK', NEW g \in Workers, NEW l, NEW j, Silent(g, l, j)
    PROVE  IInv'
<1>1. /\ pc[g] # "idle" /\ TypeOK /\ job[g].u \in Uploads
      /\ pc[g] \in Sourced => job[g].tp
      /\ job[g].u \notin cancelled => RowOfHolder(g)
  BY HolderFacts DEF Silent
<1>2. /\ pc'[g] = l /\ job'[g] = j
      /\ \A h \in Workers \ {g} : pc'[h] = pc[h] /\ job'[h] = job[h]
  BY <1>1 DEF Silent, Move, TypeOK
<1>3. job[g].u \notin cancelled => RowOfHolder(g)'
  BY <1>1, <1>2 DEF Silent, RowOfHolder
<1>4. Local(g)
  BY <1>1, <1>2, <1>3 DEF Silent, Local
<1>5. QED
  BY <1>4, LocalStep

\* Locations with no claim about the payment plan.
LEMMA PlanElsewhere ==
    ASSUME NEW j, NEW l \in {"salvage", "finalize", "complete", "cleanup", "failed",
                            "finish", "delay", "return", "idle"}
    PROVE  PlanAt(l, j)
BY DEF PlanAt

\* The rows and the registry that Silent leaves alone.
QuietVars == <<status, tempPath, txns, floor, up, staging, active, cancelled, backoffUntil>>

\* Leaving processUpload with an error keeps IInv.
LEMMA FailStep ==
    ASSUME IInv, TypeOK', NEW g \in Workers, NEW e, Fail(g, e), UNCHANGED QuietVars,
           pc[g] \notin {"idle", "cleanup", "return"}
    PROVE  IInv'
<1>1. PICK x : Move(g, "failed", [job[g] EXCEPT !.err = x])
  BY DEF Fail
<1> DEFINE j == [job[g] EXCEPT !.err = x]
<1>2. job[g] \in Job
  BY HolderFacts
<1>3. j.u = job[g].u /\ j.tp = job[g].tp
  BY <1>2 DEF Job
<1>4. PlanAt("failed", j)
  BY PlanElsewhere
<1> HIDE DEF j
<1>5. Silent(g, "failed", j)
  BY <1>1, <1>3, <1>4 DEF Silent, QuietVars, Sourced, Paying, j
<1>6. QED
  BY <1>5, SilentStep

\* A failed payment keeps IInv.
LEMMA PayFailedStep ==
    ASSUME IInv, TypeOK', NEW g \in Workers, NEW e, PayFailed(g, e), UNCHANGED QuietVars,
           pc[g] \in Paying
    PROVE  IInv'
<1>1. pc[g] \notin {"idle", "cleanup", "return"}
  BY DEF Paying
<1>2. CASE Goto(g, "salvage")
  <2>1. PlanAt("salvage", job[g])
    BY PlanElsewhere
  <2>2. Silent(g, "salvage", job[g])
    BY <1>1, <1>2, <2>1 DEF Silent, Goto, QuietVars, Sourced
  <2>3. QED
    BY <2>2, SilentStep
<1>3. CASE Fail(g, e)
  BY <1>1, <1>3, FailStep
<1>4. QED
  BY <1>2, <1>3 DEF PayFailed

\* The steps before the first payment keep IInv.
LEMMA InvPrepare ==
    ASSUME IInv, TypeOK', NEW g \in Workers, Prepare(g)
    PROVE  IInv'
<1> USE DEF rowVars, diskVars, netVars, procVars, envVars
<1>0. pc[g] # "idle" /\ pc[g] \notin {"cleanup", "return"}
  BY DEF Prepare, CheckOk, CheckFail, PrepareOk, PrepareFail, CostBackoff, CostFail, CostOk
<1>a. /\ TypeOK /\ job[g] \in Job /\ job[g].u \in Uploads
      /\ status[job[g].u] # "absent"
      /\ pc[g] \in Sourced => job[g].tp
      /\ PlanAt(pc[g], job[g])
      /\ job[g].u \notin cancelled => RowOfHolder(g)
  BY <1>0, HolderFacts
<1>1. CASE CheckOk(g)
  <2>1. PlanAt("prepare", job[g])
    BY <1>a, <1>1 DEF CheckOk, PlanAt
  <2>2. Silent(g, "prepare", job[g])
    BY <1>0, <1>1, <2>1 DEF CheckOk, Goto, Silent
  <2>3. QED
    BY <2>2, SilentStep
<1>2. CASE CheckFail(g)
  BY <1>0, <1>2, FailStep DEF CheckFail, QuietVars
<1>3. ASSUME NEW kind \in {"wave", "merkle"}, NEW n \in 0..MaxBatches, PrepareOk(g, kind, n)
      PROVE  IInv'
  <2> DEFINE j == [job[g] EXCEPT !.kind = kind, !.batches = n]
  <2>1. j.u = job[g].u /\ j.tp = job[g].tp /\ j.winners = job[g].winners /\ j.batches = n
    BY <1>a DEF Job
  <2>2. n <= MaxBatches
    BY ConstantsAssumption
  <2>3. PlanAt("cost", j)
    BY <1>a, <1>3, <2>1, <2>2 DEF PrepareOk, PlanAt
  <2> HIDE DEF j
  <2>4. Silent(g, "cost", j)
    BY <1>0, <1>3, <2>1, <2>3 DEF PrepareOk, heartbeat, Silent, Sourced, j
  <2>5. QED
    BY <2>4, SilentStep
<1>4. ASSUME NEW e \in ErrKind, PrepareFail(g, e)
      PROVE  IInv'
  BY <1>0, <1>4, FailStep DEF PrepareFail, QuietVars
<1>5. CASE CostBackoff(g)
  <2> DEFINE u == job[g].u
  <2>1. /\ pc'[g] = "return" /\ job'[g].u = u /\ job'[g].tp = job[g].tp
        /\ \A h \in Workers \ {g} : pc'[h] = pc[h] /\ job'[h] = job[h]
    BY <1>a, <1>5 DEF CostBackoff, Leave, Move, AttemptOf, TypeOK
  <2>2. PlanAt(pc'[g], job'[g])
    BY <2>1, PlanElsewhere
  <2>3. /\ \A v \in Uploads \ {u} : status'[v] = status[v] /\ backoffUntil'[v] = backoffUntil[v]
        /\ status[u] = "deleted" => status'[u] = "deleted"
        /\ status[u] # "deleted" => status'[u] = "queued" /\ backoffUntil'[u]
        /\ UNCHANGED <<tempPath, up, staging, active, cancelled, txns, floor>>
    <3>1. CASE RowExists(u)
      <4>1. status' = [status EXCEPT ![u] = "queued"] /\ backoffUntil' = [backoffUntil EXCEPT ![u] = TRUE]
        BY <1>5, <3>1 DEF CostBackoff, SetStatus, SetRow
      <4>2. QED
        BY <1>a, <1>5, <3>1, <4>1 DEF CostBackoff, RowExists, TypeOK
    <3>2. CASE ~RowExists(u)
      <4>1. status' = status /\ backoffUntil' = backoffUntil
        BY <1>5, <3>2 DEF CostBackoff, SetStatus, SetRow
      <4>2. QED
        BY <1>a, <1>5, <3>2, <4>1 DEF CostBackoff, RowExists
    <3>3. QED
      BY <3>1, <3>2
  <2>4. u \notin cancelled => RowOfHolder(g)'
    BY <1>0, <1>a, <2>1, <2>3 DEF RowOfHolder
  <2>5. Local(g)
    BY <1>0, <1>a, <2>1, <2>2, <2>3, <2>4 DEF Local, Sourced, Paying
  <2>6. QED
    BY <2>5, LocalStep
<1>6. CASE CostFail(g)
  BY <1>0, <1>6, FailStep DEF CostFail, QuietVars
<1>7. ASSUME NEW clear \in BOOLEAN, CostOk(g, clear)
      PROVE  IInv'
  <2> DEFINE l == IF job[g].batches > 0 THEN "refuse" ELSE "finalize"
  <2>1. PlanAt(l, job[g])
    BY <1>a, <1>7, JobFields DEF CostOk, PlanAt
  <2>2. \A v \in Uploads \ {job[g].u} : backoffUntil'[v] = backoffUntil[v]
    BY <1>7, <1>a DEF CostOk, SetRow, TypeOK
  <2>3. l \notin {"idle", "cleanup"} /\ pc[g] \in Sourced /\ Move(g, l, job[g])
    BY <1>7 DEF CostOk, Goto, Sourced
  <2> HIDE DEF l
  <2>4. Silent(g, l, job[g])
    BY <1>0, <1>7, <2>1, <2>2, <2>3 DEF CostOk, Silent
  <2>5. QED
    BY <2>4, SilentStep
<1>8. QED
  BY <1>1, <1>2, <1>3, <1>4, <1>5, <1>6, <1>7 DEF Prepare

\* The payment steps keep IInv: the refusal check is where PlanProgress starts to hold.
LEMMA InvPay ==
    ASSUME IInv, TypeOK', NEW g \in Workers, Pay(g)
    PROVE  IInv'
<1> USE DEF rowVars, diskVars, netVars, procVars, envVars
<1>0. pc[g] \in Paying
  BY DEF Pay, RefuseCheck, RefuseReadError, SendFail, SendOk, SendLost, ReceiptOk,
         ReceiptTimeout, ReceiptReverted, ReceiptCancelled, RecordOk, RecordFail,
         Salvage, Paying
<1>1. pc[g] \in Sourced /\ pc[g] \notin {"idle", "cleanup", "return"}
  BY <1>0 DEF Paying, Sourced
<1>a. /\ TypeOK /\ job[g] \in Job /\ job[g].u \in Uploads
      /\ status[job[g].u] # "absent" /\ job[g].tp
      /\ PlanAt(pc[g], job[g])
      /\ job[g].u \notin cancelled => RowOfHolder(g)
  BY <1>1, HolderFacts
<1>2. CASE RefuseCheck(g)
  <2>1. CASE HasPaymentSinceQueued(job[g].u)
    BY <1>1, <1>2, <2>1, FailStep DEF RefuseCheck, QuietVars
  <2>2. CASE ~HasPaymentSinceQueued(job[g].u)
    <3>1. txns[job[g].u] <= floor[job[g].u]
      <4>1. CASE status[job[g].u] = "deleted"
        BY <1>a, <4>1 DEF IInv, PlanProgress, TypeOK
      <4>2. CASE status[job[g].u] # "deleted"
        BY <1>a, <2>2, <4>2 DEF HasPaymentSinceQueued, RowExists, TypeOK
      <4>3. QED
        BY <4>1, <4>2
    <3>2. PlanAt("send", job[g])
      BY <1>a, <1>2, <3>1 DEF RefuseCheck, PlanAt, TypeOK
    <3>3. Silent(g, "send", job[g])
      BY <1>1, <1>2, <2>2, <3>2 DEF RefuseCheck, Goto, Silent
    <3>4. QED
      BY <3>3, SilentStep
  <2>3. QED
    BY <2>1, <2>2
<1>3. CASE RefuseReadError(g)
  BY <1>1, <1>3, FailStep DEF RefuseReadError, QuietVars
<1>4. ASSUME NEW e \in ErrKind, SendFail(g, e)
      PROVE  IInv'
  BY <1>0, <1>4, PayFailedStep DEF SendFail, QuietVars
<1>5. CASE SendOk(g)
  <2>1. PlanAt("receipt", job[g])
    BY <1>a, <1>5 DEF SendOk, PlanAt
  <2>2. Silent(g, "receipt", job[g])
    BY <1>1, <1>5, <2>1 DEF SendOk, Goto, Silent
  <2>3. QED
    BY <2>2, SilentStep
<1>6. CASE SendLost(g)
  BY <1>0, <1>6, PayFailedStep DEF SendLost, QuietVars
<1>7. CASE ReceiptOk(g)
  <2>1. PlanAt("record", job[g])
    BY <1>a, <1>7 DEF ReceiptOk, PlanAt
  <2>2. Silent(g, "record", job[g])
    BY <1>1, <1>7, <2>1 DEF ReceiptOk, Goto, Silent
  <2>3. QED
    BY <2>2, SilentStep
<1>8. CASE ReceiptTimeout(g)
  BY <1>0, <1>8, PayFailedStep DEF ReceiptTimeout, QuietVars
<1>9. CASE ReceiptReverted(g)
  BY <1>0, <1>9, PayFailedStep DEF ReceiptReverted, QuietVars
<1>10. CASE ReceiptCancelled(g)
  BY <1>0, <1>10, PayFailedStep DEF ReceiptCancelled, QuietVars
<1>11. ASSUME NEW b \in BOOLEAN, pc[g] = "record", AfterPayment(g, b),
              UNCHANGED <<status, tempPath, floor, backoffUntil, up, staging, active, cancelled>>,
              \/ txns' = txns
              \/ RowExists(job[g].u) /\ txns' = [txns EXCEPT ![job[g].u] = @ + 1]
       PROVE  IInv'
  <2> DEFINE u == job[g].u
             j == [job[g] EXCEPT !.winners = @ + 1, !.unrec = @ \/ b]
             l == IF j.winners < j.batches THEN "send" ELSE "finalize"
  <2>1. /\ j.u = u /\ j.tp = job[g].tp /\ j.batches = job[g].batches
        /\ j.winners = job[g].winners + 1
    BY <1>a DEF Job
  <2>2. Move(g, l, j)
    BY <1>11 DEF AfterPayment
  <2>3. job[g].batches \in Nat /\ job[g].winners \in Nat
    BY <1>a, JobFields
  <2>4. /\ job[g].winners < job[g].batches /\ job[g].batches <= MaxBatches
        /\ txns[u] <= floor[u] + job[g].winners
    BY <1>a, <1>11 DEF PlanAt
  <2> HIDE DEF j
  <2>5. l \in {"send", "finalize"} /\ (l = "send" => j.winners < j.batches)
    OBVIOUS
  <2> HIDE DEF l
  <2>6. CASE txns' = txns
    <3>1. PlanAt(l, j)
      BY <1>a, <2>1, <2>3, <2>4, <2>5 DEF PlanAt, TypeOK
    <3>2. Silent(g, l, j)
      BY <1>1, <1>11, <2>1, <2>2, <2>5, <2>6, <3>1 DEF Silent
    <3>3. QED
      BY <3>2, SilentStep
  <2>7. CASE RowExists(u) /\ txns' = [txns EXCEPT ![u] = @ + 1]
    <3>1. /\ pc'[g] = l /\ job'[g] = j
          /\ \A h \in Workers \ {g} : pc'[h] = pc[h] /\ job'[h] = job[h]
      BY <1>a, <2>2 DEF Move, TypeOK
    <3>2. txns'[u] = txns[u] + 1 /\ \A v \in Uploads \ {u} : txns'[v] = txns[v]
      BY <1>a, <2>7 DEF TypeOK
    <3>3. l # "idle" /\ l \in Sourced /\ l \notin {"cleanup", "return"}
      BY <2>5 DEF Sourced, Paying
    <3>4. SoleHolder'
      BY <1>1, <1>11, <2>1, <3>1, <3>3 DEF IInv, SoleHolder
    <3>5. HoldersRegistered'
      <4>1. u \notin cancelled => RowOfHolder(g)'
        BY <1>1, <1>a, <1>11, <2>1, <3>1, <3>3 DEF RowOfHolder
      <4>2. \A h \in Workers \ {g} :
              (pc[h] # "idle" /\ job[h].u \notin cancelled) => RowOfHolder(h)'
        BY <1>11, <3>1 DEF IInv, HoldersRegistered, RowOfHolder
      <4>3. QED
        BY <1>11, <2>1, <3>1, <4>1, <4>2 DEF HoldersRegistered
    <3>6. Lifecycle'
      BY <1>1, <1>a, <1>11, <2>1, <3>1, <3>3 DEF IInv, Lifecycle
    <3>7. PlanProgress'
      <4>1. \A v \in Uploads : status'[v] \in {"absent", "deleted"} => txns'[v] = 0
        BY <1>11, <2>7, <3>2 DEF IInv, PlanProgress, RowExists
      <4>2. PlanAt(pc[g], job[g])'
        BY <1>a, <1>11, <2>1, <2>3, <2>4, <2>5, <3>1, <3>2 DEF PlanAt, TypeOK
      <4>3. ASSUME NEW h \in Workers \ {g} PROVE PlanAt(pc[h], job[h])'
        <5>1. PlanAt(pc[h], job[h]) /\ job[h].u \in Uploads
          BY <1>a, JobFields DEF IInv, PlanProgress, TypeOK
        <5>2. pc[h] \in {"send", "receipt", "record"} => job[h].u # u
          BY <1>1, <1>a DEF IInv, SoleHolder, Lifecycle, Sourced, Paying
        <5>3. QED
          BY <1>11, <3>1, <3>2, <5>1, <5>2 DEF PlanAt
      <4>4. QED
        BY <4>1, <4>2, <4>3 DEF PlanProgress
    <3>8. LedgerOnePlan'
      <4>1. txns[u] + 1 <= floor[u] + MaxBatches
        BY <1>a, <2>3, <2>4, ConstantsAssumption DEF TypeOK
      <4>2. QED
        BY <1>11, <3>2, <4>1 DEF IInv, LedgerOnePlan
    <3>9. QED
      BY <3>4, <3>5, <3>6, <3>7, <3>8 DEF IInv
  <2>8. QED
    BY <1>11, <2>6, <2>7
<1>12. CASE RecordOk(g)
  BY <1>11, <1>12 DEF RecordOk, heartbeat
<1>13. ASSUME NEW inserted \in BOOLEAN, RecordFail(g, inserted)
       PROVE  IInv'
  BY <1>11, <1>13 DEF RecordFail, heartbeat
<1>14. ASSUME NEW n \in 0..Chunks, Salvage(g, n)
       PROVE  IInv'
  <2> DEFINE j == [job[g] EXCEPT !.new = unstored[job[g].u] > 0]
  <2>1. CASE Move(g, "complete", j)
    <3>1. j.u = job[g].u /\ j.tp = job[g].tp
      BY <1>a DEF Job
    <3> HIDE DEF j
    <3>2. PlanAt("complete", j)
      BY PlanElsewhere
    <3>3. Silent(g, "complete", j)
      BY <1>1, <1>14, <2>1, <3>1, <3>2 DEF Salvage, Silent
    <3>4. QED
      BY <3>3, SilentStep
  <2>2. CASE Fail(g, "paidNoRetry")
    BY <1>1, <1>14, <2>2, FailStep DEF Salvage, QuietVars
  <2>3. QED
    BY <1>14, <2>1, <2>2 DEF Salvage
<1>15. QED
  BY <1>2, <1>3, <1>4, <1>5, <1>6, <1>7, <1>8, <1>9, <1>10, <1>12, <1>13, <1>14 DEF Pay

\* The finalize and completion steps keep IInv.
LEMMA InvFinalize ==
    ASSUME IInv, TypeOK', NEW g \in Workers, Finalize(g)
    PROVE  IInv'
<1> USE DEF rowVars, diskVars, netVars, procVars, envVars
<1>0. pc[g] \in {"finalize", "complete", "cleanup"}
  BY DEF Finalize, FinalizeOk, FinalizePartial, FinalizeFail, CompleteOk, CompleteFail, Cleanup
<1>1. pc[g] \in Sourced /\ pc[g] # "idle"
  BY <1>0 DEF Sourced, Paying
<1>a. /\ TypeOK /\ job[g] \in Job /\ job[g].u \in Uploads
      /\ status[job[g].u] # "absent" /\ job[g].tp
      /\ job[g].u \notin cancelled => RowOfHolder(g)
  BY <1>1, HolderFacts
<1>2. CASE FinalizeOk(g)
  <2> DEFINE j == [job[g] EXCEPT !.new = unstored[job[g].u] > 0]
  <2>1. j.u = job[g].u /\ j.tp = job[g].tp
    BY <1>a DEF Job
  <2>2. Move(g, "complete", j)
    BY <1>2 DEF FinalizeOk
  <2> HIDE DEF j
  <2>3. PlanAt("complete", j)
    BY PlanElsewhere
  <2>4. Silent(g, "complete", j)
    BY <1>1, <1>2, <2>1, <2>2, <2>3 DEF FinalizeOk, Silent
  <2>5. QED
    BY <2>4, SilentStep
<1>3. ASSUME NEW n \in 1..Chunks, FinalizePartial(g, n)
      PROVE  IInv'
  <2> DEFINE j == [job[g] EXCEPT !.resume = @ + 1, !.lastFailed = n]
  <2>1. CASE Move(g, "finalize", j)
    <3>1. j.u = job[g].u /\ j.tp = job[g].tp
      BY <1>a DEF Job
    <3> HIDE DEF j
    <3>2. PlanAt("finalize", j)
      BY PlanElsewhere
    <3>3. Silent(g, "finalize", j)
      BY <1>1, <1>3, <2>1, <3>1, <3>2 DEF FinalizePartial, Silent
    <3>4. QED
      BY <3>3, SilentStep
  <2>2. CASE FinalizeError(g, TRUE)
    BY <1>1, <1>3, <2>2, FailStep DEF FinalizePartial, FinalizeError, QuietVars
  <2>3. QED
    BY <1>3, <2>1, <2>2 DEF FinalizePartial
<1>4. ASSUME NEW n \in 0..Chunks, NEW known \in BOOLEAN, FinalizeFail(g, n, known)
      PROVE  IInv'
  BY <1>1, <1>4, FailStep DEF FinalizeFail, FinalizeError, QuietVars
<1>5. CASE CompleteOk(g)
  <2> DEFINE u == job[g].u
  <2>1. /\ pc'[g] = "cleanup" /\ job'[g] = job[g]
        /\ \A h \in Workers \ {g} : pc'[h] = pc[h] /\ job'[h] = job[h]
    BY <1>a, <1>5 DEF CompleteOk, Goto, Move, TypeOK
  <2>2. PlanAt(pc'[g], job'[g])
    BY <2>1, PlanElsewhere
  <2>3. /\ \A v \in Uploads \ {u} : status'[v] = status[v] /\ tempPath'[v] = tempPath[v]
        /\ status[u] = "deleted" => status'[u] = "deleted"
        /\ status[u] # "deleted" => status'[u] \in Stored
        /\ tempPath'[u] => tempPath[u]
        /\ UNCHANGED <<backoffUntil, up, staging, active, cancelled, txns, floor>>
    BY <1>a, <1>5 DEF CompleteOk, SetStatus, SetRow, RowExists, Stored, TypeOK
  <2>4. u \notin cancelled => RowOfHolder(g)'
    BY <1>a, <2>1, <2>3 DEF RowOfHolder, Stored
  <2>5. Local(g)
    BY <1>1, <1>a, <2>1, <2>2, <2>3, <2>4 DEF Local, Stored
  <2>6. QED
    BY <2>5, LocalStep
<1>6. CASE CompleteFail(g)
  BY <1>1, <1>6, FailStep DEF CompleteFail, QuietVars
<1>7. CASE Cleanup(g)
  <2>1. /\ pc'[g] = "return" /\ job'[g].u = job[g].u /\ job'[g].tp = job[g].tp
        /\ \A h \in Workers \ {g} : pc'[h] = pc[h] /\ job'[h] = job[h]
    BY <1>a, <1>7 DEF Cleanup, Leave, Move, AttemptOf, TypeOK
  <2>2. PlanAt(pc'[g], job'[g])
    BY <2>1, PlanElsewhere
  <2>3. job[g].u \notin cancelled => RowOfHolder(g)'
    BY <1>a, <1>7, <2>1 DEF Cleanup, RowOfHolder
  <2>4. Local(g)
    BY <1>1, <1>a, <1>7, <2>1, <2>2, <2>3 DEF Cleanup, Local
  <2>5. QED
    BY <2>4, LocalStep
<1>8. QED
  BY <1>2, <1>3, <1>4, <1>5, <1>6, <1>7 DEF Finalize

\* The steps of processOne after an attempt keep IInv.
LEMMA InvResolve ==
    ASSUME IInv, TypeOK', NEW g \in Workers, Resolve(g)
    PROVE  IInv'
<1> USE DEF rowVars, diskVars, netVars, procVars, envVars
<1>0. pc[g] \in {"failed", "delay", "finish", "return"}
  BY DEF Resolve, Classify, DelayElapsed, DelayCancelled, FinishPreserve, FinishAbandon, Return
<1>a. /\ pc[g] # "idle" /\ TypeOK /\ job[g] \in Job /\ job[g].u \in Uploads
      /\ status[job[g].u] # "absent"
      /\ job[g].u \notin cancelled => RowOfHolder(g)
  BY <1>0, HolderFacts
<1>1. ASSUME NEW paid \in BOOLEAN, Classify(g, paid)
      PROVE  IInv'
  <2>1. PICK l, j : /\ l \in {"delay", "finish"} /\ Move(g, l, j)
                   /\ j.u = job[g].u /\ j.tp = job[g].tp
    BY <1>a, <1>1 DEF Classify, Goto, Job
  <2>2. PlanAt(l, j)
    BY <2>1, PlanElsewhere
  <2>3. Silent(g, l, j)
    BY <1>1, <2>1, <2>2 DEF Classify, Silent, Sourced, Paying
  <2>4. QED
    BY <2>3, SilentStep
<1>2. CASE DelayElapsed(g)
  <2> DEFINE j == AttemptOf(job[g].u, job[g].tp, job[g].bo, job[g].attempt + 1)
  <2>1. j.u = job[g].u /\ j.tp = job[g].tp /\ PlanAt("check", j)
    BY DEF AttemptOf, PlanAt
  <2>2. Move(g, "check", j)
    BY <1>2 DEF DelayElapsed
  <2> HIDE DEF j
  <2>3. Silent(g, "check", j)
    BY <1>2, <2>1, <2>2 DEF DelayElapsed, Silent, Sourced, Paying
  <2>4. QED
    BY <2>3, SilentStep
<1> DEFINE j == AttemptOf(job[g].u, job[g].tp, 0, 0)
<1>3. /\ j.u = job[g].u /\ j.tp = job[g].tp /\ PlanAt("return", j)
      /\ Leave(g) => Move(g, "return", j)
  BY PlanElsewhere DEF AttemptOf, Leave
<1> HIDE DEF j
<1>4. ASSUME Leave(g), pc[g] \in {"delay", "finish"}, UNCHANGED QuietVars
      PROVE  IInv'
  <2>1. Silent(g, "return", j)
    BY <1>3, <1>4 DEF Silent, QuietVars, Sourced, Paying
  <2>2. QED
    BY <2>1, SilentStep
<1>5. CASE DelayCancelled(g)
  BY <1>4, <1>5 DEF DelayCancelled, QuietVars
<1>6. ASSUME Leave(g), pc[g] = "finish", SetStatus(job[g].u, "failed"),
             \A v \in Uploads : tempPath'[v] => tempPath[v],
             UNCHANGED <<backoffUntil, up, staging, active, cancelled, txns, floor>>
      PROVE  IInv'
  <2>1. /\ pc'[g] = "return" /\ job'[g] = j
        /\ \A h \in Workers \ {g} : pc'[h] = pc[h] /\ job'[h] = job[h]
    BY <1>a, <1>3, <1>6 DEF Move, TypeOK
  <2>2. /\ \A v \in Uploads \ {job[g].u} : status'[v] = status[v]
        /\ status[job[g].u] = "deleted" => status'[job[g].u] = "deleted"
        /\ status[job[g].u] # "deleted" => status'[job[g].u] = "failed"
    BY <1>a, <1>6 DEF SetStatus, RowExists, TypeOK
  <2>3. job[g].u \notin cancelled => RowOfHolder(g)'
    BY <1>a, <1>3, <1>6, <2>1, <2>2 DEF RowOfHolder
  <2>4. Local(g)
    BY <1>a, <1>3, <1>6, <2>1, <2>2, <2>3 DEF Local, Sourced, Paying
  <2>5. QED
    BY <2>4, LocalStep
<1>7. ASSUME NEW written \in BOOLEAN, FinishPreserve(g, written)
      PROVE  IInv'
  <2>1. CASE written
    BY <1>6, <1>7, <2>1 DEF FinishPreserve, Written
  <2>2. CASE ~written
    BY <1>4, <1>7, <2>2 DEF FinishPreserve, Written, QuietVars
  <2>3. QED
    BY <2>1, <2>2
<1>8. ASSUME NEW written \in BOOLEAN, NEW transient \in BOOLEAN,
             FinishAbandon(g, written, transient)
      PROVE  IInv'
  <2>1. CASE written
    <3>1. \A v \in Uploads : tempPath'[v] => tempPath[v]
      BY <1>a, <1>8, <2>1 DEF FinishAbandon, SetRow, TypeOK
    <3>2. QED
      BY <1>6, <1>8, <2>1, <3>1 DEF FinishAbandon, Written
  <2>2. CASE ~written
    BY <1>4, <1>8, <2>2 DEF FinishAbandon, Written, QuietVars
  <2>3. QED
    BY <2>1, <2>2
<1>9. CASE Return(g)
  <2>1. /\ pc'[g] = "idle"
        /\ \A h \in Workers \ {g} : pc'[h] = pc[h] /\ job'[h] = job[h]
    BY <1>a, <1>9 DEF Return, Move, TypeOK
  <2>2. SoleHolder'
    BY <1>9, <2>1 DEF IInv, SoleHolder, Return
  <2>3. HoldersRegistered'
    BY <1>9, <1>a, <2>1 DEF IInv, SoleHolder, HoldersRegistered, RowOfHolder, Return
  <2>4. Lifecycle'
    BY <1>9, <2>1 DEF IInv, Lifecycle, Return, Sourced, Paying
  <2>5. PlanProgress'
    <3>1. PlanAt(pc[g], job[g])'
      BY <2>1 DEF PlanAt
    <3>2. \A h \in Workers \ {g} : PlanAt(pc[h], job[h])'
      BY <1>9, <2>1 DEF IInv, PlanProgress, PlanAt, Return
    <3>3. QED
      BY <1>9, <3>1, <3>2 DEF IInv, PlanProgress, Return
  <2>6. LedgerOnePlan'
    BY <1>9 DEF IInv, LedgerOnePlan, Return
  <2>7. QED
    BY <2>2, <2>3, <2>4, <2>5, <2>6 DEF IInv
<1>10. QED
  BY <1>1, <1>2, <1>5, <1>7, <1>8, <1>9 DEF Resolve

\* Steps that move no goroutine: it is enough that the row of an upload some
\* goroutine works on still fits, and that the ledger only gains floors.
LEMMA OutsideStep ==
    ASSUME IInv, TypeOK', UNCHANGED <<pc, job, txns>>,
           cancelled \subseteq cancelled', up => up',
           \A g \in Workers :
              (pc[g] # "idle" /\ job[g].u \notin cancelled') => RowOfHolder(g)',
           \A u \in Uploads : floor'[u] = floor[u] \/ floor'[u] = txns[u],
           \A u \in Uploads : /\ status[u] # "absent" => status'[u] # "absent"
                              /\ status'[u] \in {"absent", "deleted"} => txns[u] = 0,
           \A u \in staging' : status'[u] = "absent",
           \A u \in cancelled' : status'[u] # "absent" /\ ~tempPath'[u]
    PROVE  IInv'
<1>0. TypeOK /\ SoleHolder /\ HoldersRegistered /\ Lifecycle /\ PlanProgress /\ LedgerOnePlan
  BY DEF IInv
<1>1. SoleHolder'
  BY <1>0 DEF SoleHolder
<1>2. HoldersRegistered'
  BY DEF HoldersRegistered
<1>3. Lifecycle'
  <2>1. ~up' => \A g \in Workers : pc'[g] = "idle"
    BY <1>0 DEF Lifecycle
  <2>2. \A g \in Workers : /\ pc'[g] # "idle" => status'[job'[g].u] # "absent"
                           /\ pc'[g] \in Sourced => job'[g].tp
    BY <1>0, JobFields DEF Lifecycle, TypeOK
  <2>3. QED
    BY <2>1, <2>2 DEF Lifecycle
<1>4. PlanProgress'
  <2>1. ASSUME NEW g \in Workers PROVE PlanAt(pc[g], job[g])'
    <3>1. PlanAt(pc[g], job[g]) /\ job[g].u \in Uploads /\ job[g].winners \in Nat
      BY <1>0, JobFields DEF PlanProgress, TypeOK
    <3>2. QED
      BY <1>0, <3>1 DEF PlanAt, TypeOK
  <2>2. \A u \in Uploads : status'[u] \in {"absent", "deleted"} => txns'[u] = 0
    OBVIOUS
  <2>3. QED
    BY <2>1, <2>2, Zenon DEF PlanProgress
<1>5. LedgerOnePlan'
  <2>1. \A u \in Uploads : txns[u] <= txns[u] + MaxBatches
    BY <1>0, ConstantsAssumption DEF TypeOK
  <2>2. QED
    BY <1>0, <2>1 DEF LedgerOnePlan
<1>6. QED
  BY <1>1, <1>2, <1>3, <1>4, <1>5 DEF IInv

\* A queued, eligible row is nobody's: a goroutine on it means a Cancel.
LEMMA EligibleUnheld ==
    ASSUME IInv, NEW u \in Uploads, Eligible(u), NEW h \in Workers, pc[h] # "idle",
           job[h].u = u
    PROVE  u \in cancelled
BY HolderFacts DEF Eligible, RowOfHolder, Stored

\* Claiming a row keeps IInv: an eligible row has no goroutine unless it was cancelled.
LEMMA InvDequeue ==
    ASSUME IInv, TypeOK', NEW g \in Workers, NEW u \in Uploads,
           Dequeue(g, u) \/ DequeueLost(g, u)
    PROVE  IInv'
<1> USE DEF rowVars, diskVars, netVars, procVars, envVars
<1>0. TypeOK /\ SoleHolder /\ HoldersRegistered /\ Lifecycle /\ PlanProgress /\ LedgerOnePlan
  BY DEF IInv
<1>1. /\ pc[g] = "idle" /\ Eligible(u) /\ up
      /\ status'[u] = "processing" /\ \A v \in Uploads \ {u} : status'[v] = status[v]
      /\ UNCHANGED <<tempPath, floor, backoffUntil, txns, up, staging, cancelled>>
  BY <1>0 DEF Dequeue, DequeueLost, CanDequeue, ClaimRow, TypeOK
<1>2. \A h \in Workers : (pc[h] # "idle" /\ job[h].u = u) => u \in cancelled
  BY <1>1, EligibleUnheld
<1>3. \A v \in staging : status'[v] = "absent"
  BY <1>0, <1>1 DEF Lifecycle, Eligible, TypeOK
<1>4. \A v \in cancelled : status'[v] # "absent" /\ ~tempPath'[v]
  BY <1>0, <1>1 DEF Lifecycle, TypeOK
<1>5. \A v \in Uploads : status'[v] \in {"absent", "deleted"} => txns[v] = 0
  BY <1>0, <1>1 DEF PlanProgress
<1>6. CASE DequeueLost(g, u)
  <2>1. UNCHANGED <<pc, job, active>>
    BY <1>6 DEF DequeueLost
  <2>2. \A h \in Workers :
          (pc[h] # "idle" /\ job[h].u \notin cancelled) => RowOfHolder(h)'
    BY <1>0, <1>1, <1>2, <2>1, JobFields DEF HoldersRegistered, RowOfHolder, TypeOK
  <2>3. \A v \in Uploads : status[v] # "absent" => status'[v] # "absent"
    BY <1>1
  <2>4. QED
    BY <1>1, <1>3, <1>4, <1>5, <2>1, <2>2, <2>3, OutsideStep
<1>7. CASE Dequeue(g, u)
  <2> DEFINE j == AttemptOf(u, tempPath[u], backoffAttempt[u], 0)
  <2>1. /\ pc'[g] = "check" /\ job'[g] = j /\ active' = active \cup {u}
        /\ \A h \in Workers \ {g} : pc'[h] = pc[h] /\ job'[h] = job[h]
    BY <1>0, <1>7 DEF Dequeue, Move, TypeOK
  <2>2. j.u = u /\ j.tp = tempPath[u] /\ j.winners = 0
    BY DEF AttemptOf
  <2> HIDE DEF j
  <2>3. SoleHolder'
    BY <1>0, <1>1, <1>2, <2>1, <2>2 DEF SoleHolder, Lifecycle
  <2>4. HoldersRegistered'
    <3>1. RowOfHolder(g)'
      BY <1>1, <2>1, <2>2 DEF RowOfHolder
    <3>2. \A h \in Workers \ {g} :
            (pc[h] # "idle" /\ job[h].u \notin cancelled) => RowOfHolder(h)'
      BY <1>0, <1>1, <1>2, <2>1, JobFields DEF HoldersRegistered, RowOfHolder, TypeOK
    <3>3. QED
      BY <1>1, <2>1, <3>1, <3>2 DEF HoldersRegistered
  <2>5. Lifecycle'
    <3>1. \A h \in Workers : /\ pc'[h] # "idle" => status'[job'[h].u] # "absent"
                             /\ pc'[h] \in Sourced => job'[h].tp
      BY <1>0, <1>1, <2>1, <2>2, JobFields DEF Lifecycle, TypeOK, Sourced, Paying
    <3>2. QED
      BY <1>1, <1>3, <1>4, <3>1 DEF Lifecycle
  <2>6. PlanProgress'
    <3>1. PlanAt(pc[g], job[g])'
      BY <2>1, <2>2 DEF PlanAt
    <3>2. \A h \in Workers \ {g} : PlanAt(pc[h], job[h])'
      BY <1>0, <1>1, <2>1 DEF PlanProgress, PlanAt
    <3>3. QED
      BY <1>1, <1>5, <3>1, <3>2 DEF PlanProgress
  <2>7. LedgerOnePlan'
    BY <1>0, <1>1 DEF LedgerOnePlan
  <2>8. QED
    BY <2>3, <2>4, <2>5, <2>6, <2>7 DEF IInv
<1>8. QED
  BY <1>6, <1>7

\* Accept, operator requests and the temp GC keep IInv.
LEMMA InvQueue ==
    ASSUME IInv, TypeOK', ~EagerRetry, NEW u \in Uploads,
           Handler(u) \/ Operator(u) \/ GC(u)
    PROVE  IInv'
<1> USE DEF rowVars, diskVars, netVars, procVars, envVars
<1>0. TypeOK /\ SoleHolder /\ HoldersRegistered /\ Lifecycle /\ PlanProgress
  BY DEF IInv
<1>1. \A g \in Workers : pc[g] # "idle" => /\ job[g].u \in Uploads
                                           /\ status[job[g].u] # "absent"
                                           /\ job[g].u \notin cancelled => RowOfHolder(g)
  BY HolderFacts
<1>2. \A g \in Workers : (GapClosed(u) /\ job[g].u = u) => pc[g] # "return"
  BY DEF GapClosed
<1>3. ASSUME UNCHANGED <<pc, job, txns, status, tempPath, floor, backoffUntil, up, active,
                         cancelled>>,
             \A v \in staging' : v \in staging \/ status[v] = "absent"
      PROVE  IInv'
  <2>1. \A g \in Workers : (pc[g] # "idle" /\ job[g].u \notin cancelled) => RowOfHolder(g)'
    BY <1>1, <1>3 DEF RowOfHolder
  <2>2. \A v \in staging' : status'[v] = "absent"
    BY <1>0, <1>3 DEF Lifecycle
  <2>3. \A v \in cancelled' : status'[v] # "absent" /\ ~tempPath'[v]
    BY <1>0, <1>3 DEF Lifecycle
  <2>4. \A v \in Uploads : status'[v] \in {"absent", "deleted"} => txns[v] = 0
    BY <1>0, <1>3 DEF PlanProgress
  <2>5. QED
    BY <1>3, <2>1, <2>2, <2>3, <2>4, OutsideStep
<1>4. CASE StageFile(u)
  BY <1>3, <1>4 DEF StageFile
<1>5. CASE RejectUpload(u)
  BY <1>3, <1>5 DEF RejectUpload
<1>6. CASE GC(u)
  BY <1>3, <1>6 DEF GC
\* What is left writes the row of u, and of u alone.
<1>7. ASSUME UNCHANGED <<pc, job, txns, up, active>>, cancelled \subseteq cancelled',
             \A v \in Uploads \ {u} : /\ status'[v] = status[v] /\ tempPath'[v] = tempPath[v]
                                      /\ floor'[v] = floor[v]
                                      /\ backoffUntil'[v] = backoffUntil[v],
             floor'[u] = floor[u] \/ floor'[u] = txns[u],
             status'[u] # "absent", status'[u] = "deleted" => txns[u] = 0,
             staging' \subseteq staging \ {u}, cancelled' \subseteq cancelled \cup {u},
             u \in cancelled' => ~tempPath'[u],
             \A g \in Workers :
                (pc[g] # "idle" /\ job[g].u = u /\ u \notin cancelled') => RowOfHolder(g)'
      PROVE  IInv'
  <2>1. \A g \in Workers : (pc[g] # "idle" /\ job[g].u \notin cancelled') => RowOfHolder(g)'
    BY <1>1, <1>7 DEF RowOfHolder
  <2>2. \A v \in staging' : status'[v] = "absent"
    BY <1>0, <1>7 DEF Lifecycle, TypeOK
  <2>3. \A v \in cancelled' : status'[v] # "absent" /\ ~tempPath'[v]
    BY <1>0, <1>7 DEF Lifecycle, TypeOK
  <2>4. \A v \in Uploads : /\ status[v] # "absent" => status'[v] # "absent"
                           /\ status'[v] \in {"absent", "deleted"} => txns[v] = 0
    BY <1>0, <1>7 DEF PlanProgress
  <2>5. \A v \in Uploads : floor'[v] = floor[v] \/ floor'[v] = txns[v]
    BY <1>7
  <2>6. QED
    BY <1>7, <2>1, <2>2, <2>3, <2>4, <2>5, OutsideStep
<1>8. ASSUME NEW readBack \in BOOLEAN, AcceptUpload(u, readBack)
      PROVE  IInv'
  <2>1. status[u] = "absent" /\ u \notin cancelled
    BY <1>0, <1>8 DEF AcceptUpload, Lifecycle
  <2>2. \A g \in Workers : pc[g] # "idle" => job[g].u # u
    BY <1>1, <2>1
  <2>3. /\ status'[u] = "queued" /\ staging' \subseteq staging \ {u}
        /\ \A v \in Uploads \ {u} : status'[v] = status[v] /\ tempPath'[v] = tempPath[v]
        /\ UNCHANGED <<pc, job, txns, up, active, floor, backoffUntil, cancelled>>
    BY <1>0, <1>8 DEF AcceptUpload, TypeOK
  <2>4. QED
    BY <1>7, <2>1, <2>2, <2>3
<1>9. u \in staging => status[u] = "absent"
  BY <1>0 DEF Lifecycle
<1>10. CASE Cancel(u)
  <2>1. /\ status[u] # "absent" /\ status'[u] = "failed" /\ ~tempPath'[u]
        /\ \A v \in Uploads \ {u} : /\ status'[v] = status[v] /\ tempPath'[v] = tempPath[v]
                                    /\ backoffUntil'[v] = backoffUntil[v]
        /\ cancelled' = cancelled \cup {u}
        /\ UNCHANGED <<pc, job, txns, up, active, floor, staging>>
    BY <1>0, <1>10 DEF Cancel, SetStatus, RowExists, TypeOK
  <2>2. QED
    BY <1>7, <1>9, <2>1
<1>11. CASE Retry(u)
  <2>1. /\ status[u] = "failed" /\ status'[u] = "queued" /\ floor'[u] = txns[u]
        /\ \A v \in Uploads \ {u} : /\ status'[v] = status[v] /\ floor'[v] = floor[v]
                                    /\ backoffUntil'[v] = backoffUntil[v]
        /\ UNCHANGED <<pc, job, txns, up, active, tempPath, staging, cancelled>>
    BY <1>0, <1>11 DEF Retry, SetStatus, RowExists, TypeOK
  <2>2. \A g \in Workers : (pc[g] # "idle" /\ job[g].u = u) => u \in cancelled
    BY <1>1, <1>2, <1>11, <2>1 DEF Retry, RowOfHolder, Stored
  <2>3. u \in cancelled => ~tempPath[u]
    BY <1>0 DEF Lifecycle
  <2>4. QED
    BY <1>7, <1>9, <2>1, <2>2, <2>3
<1>12. CASE ForceRetry(u)
  <2>1. /\ status[u] = "queued"
        /\ \A v \in Uploads \ {u} : backoffUntil'[v] = backoffUntil[v]
        /\ UNCHANGED <<pc, job, txns, status, up, active, tempPath, floor, staging, cancelled>>
    BY <1>0, <1>12 DEF ForceRetry, TypeOK
  <2>2. \A g \in Workers : (pc[g] # "idle" /\ job[g].u = u) => u \in cancelled
    BY <1>1, <1>2, <1>12, <2>1 DEF ForceRetry, RowOfHolder, Stored
  <2>3. u \in cancelled => ~tempPath[u]
    BY <1>0 DEF Lifecycle
  <2>4. QED
    BY <1>7, <1>9, <2>1, <2>2, <2>3
<1>13. CASE Delete(u)
  <2>1. /\ status[u] \in Settled /\ status'[u] = "deleted" /\ txns[u] = 0 /\ ~tempPath'[u]
        /\ \A v \in Uploads \ {u} : status'[v] = status[v] /\ tempPath'[v] = tempPath[v]
        /\ UNCHANGED <<pc, job, txns, up, active, floor, backoffUntil, staging, cancelled>>
    BY <1>0, <1>13 DEF Delete, SetStatus, RowExists, Settled, TypeOK
  <2>2. \A g \in Workers :
          (pc[g] # "idle" /\ job[g].u = u /\ u \notin cancelled) => RowOfHolder(g)'
    BY <1>1, <2>1 DEF RowOfHolder, Settled
  <2>3. QED
    BY <1>7, <1>9, <2>1, <2>2 DEF Settled
<1>14. QED
  BY <1>4, <1>5, <1>6, <1>8, <1>10, <1>11, <1>12, <1>13 DEF Handler, Operator

\* The sweep, the timers and the stop, crash and start of the process keep IInv.
LEMMA InvProcess ==
    ASSUME IInv, TypeOK', ~EagerRetry, Process \/ Time
    PROVE  IInv'
<1> USE DEF rowVars, diskVars, netVars, procVars, envVars
<1>0. TypeOK /\ SoleHolder /\ HoldersRegistered /\ Lifecycle /\ PlanProgress /\ LedgerOnePlan
  BY DEF IInv
<1>1. \A g \in Workers : pc[g] # "idle" => /\ job[g].u \in Uploads
                                           /\ job[g].u \notin cancelled => RowOfHolder(g)
  BY HolderFacts
\* Rows move only from processing to queued, and only rows nobody works on.
<1>2. ASSUME UNCHANGED <<pc, job, txns, tempPath, floor, staging, cancelled>>, up => up',
             \A v \in Uploads : \/ status'[v] = status[v]
                                \/ status[v] = "processing" /\ status'[v] = "queued",
             \A g \in Workers :
                (pc[g] # "idle" /\ job[g].u \notin cancelled) => RowOfHolder(g)'
      PROVE  IInv'
  <2>1. \A v \in staging' : status'[v] = "absent"
    BY <1>0, <1>2 DEF Lifecycle, TypeOK
  <2>2. \A v \in cancelled' : status'[v] # "absent" /\ ~tempPath'[v]
    BY <1>0, <1>2 DEF Lifecycle, TypeOK
  <2>3. \A v \in Uploads : /\ status[v] # "absent" => status'[v] # "absent"
                           /\ status'[v] \in {"absent", "deleted"} => txns[v] = 0
    BY <1>0, <1>2 DEF PlanProgress
  <2>4. QED
    BY <1>2, <2>1, <2>2, <2>3, OutsideStep
<1>3. CASE Sweep
  <2>1. /\ \A v \in Uploads : IF v \in StuckExcept(active) THEN status'[v] = "queued"
                                                          ELSE status'[v] = status[v]
        /\ UNCHANGED <<pc, job, txns, tempPath, floor, backoffUntil, up, active, staging, cancelled>>
    BY <1>3 DEF Sweep, Requeue
  <2>2. \A v \in StuckExcept(active) : status[v] = "processing" /\ v \notin active
    BY DEF StuckExcept
  <2>3. \A g \in Workers : (pc[g] # "idle" /\ job[g].u \notin cancelled) => RowOfHolder(g)'
    BY <1>1, <2>1, <2>2 DEF RowOfHolder
  <2>4. QED
    BY <1>2, <2>1, <2>2, <2>3
<1>4. CASE Shutdown
  <2>1. UNCHANGED <<pc, job, txns, tempPath, floor, status, backoffUntil, up, active, staging, cancelled>>
    BY <1>4 DEF Shutdown
  <2>2. \A g \in Workers : (pc[g] # "idle" /\ job[g].u \notin cancelled) => RowOfHolder(g)'
    BY <1>1, <2>1 DEF RowOfHolder
  <2>3. QED
    BY <1>2, <2>1, <2>2
\* With every slot idle the invariant speaks of the rows only.
<1>5. ASSUME \A g \in Workers : pc'[g] = "idle",
             UNCHANGED <<status, tempPath, floor, txns, cancelled>>, staging' \subseteq staging
      PROVE  IInv'
  <2>1. SoleHolder' /\ HoldersRegistered'
    BY <1>5 DEF SoleHolder, HoldersRegistered
  <2>2. Lifecycle'
    BY <1>0, <1>5 DEF Lifecycle, Sourced, Paying
  <2>3. PlanProgress'
    BY <1>0, <1>5 DEF PlanProgress, PlanAt
  <2>4. LedgerOnePlan'
    BY <1>0, <1>5 DEF LedgerOnePlan
  <2>5. QED
    BY <2>1, <2>2, <2>3, <2>4 DEF IInv
<1>6. CASE Exit
  BY <1>5, <1>6 DEF Exit
<1>7. CASE Crash
  <2>1. \A g \in Workers : pc'[g] = "idle"
    BY <1>7 DEF Crash
  <2>2. QED
    BY <1>5, <1>7, <2>1 DEF Crash
<1>8. ASSUME NEW spared \in SUBSET Uploads, Start(spared)
      PROVE  IInv'
  <2> DEFINE us == {v \in Uploads : status[v] = "processing"} \ spared
  <2>1. \A g \in Workers : pc[g] = "idle"
    BY <1>0, <1>8 DEF Start, Lifecycle
  <2>2. /\ \A v \in Uploads : IF v \in us THEN status'[v] = "queued" ELSE status'[v] = status[v]
        /\ UNCHANGED <<pc, job, txns, tempPath, floor, staging, cancelled>>
        /\ up'
    BY <1>8 DEF Start, Requeue
  <2>3. QED
    BY <1>2, <2>1, <2>2
<1>9. CASE CircuitCloses
  <2>1. UNCHANGED <<pc, job, txns, tempPath, floor, status, backoffUntil, up, active, staging, cancelled>>
    BY <1>9 DEF CircuitCloses
  <2>2. \A g \in Workers : (pc[g] # "idle" /\ job[g].u \notin cancelled) => RowOfHolder(g)'
    BY <1>1, <2>1 DEF RowOfHolder
  <2>3. QED
    BY <1>2, <2>1, <2>2
<1>10. ASSUME NEW u \in Uploads, Ages(u)
       PROVE  IInv'
  <2>1. UNCHANGED <<pc, job, txns, tempPath, floor, status, backoffUntil, up, active, staging, cancelled>>
    BY <1>10 DEF Ages
  <2>2. \A g \in Workers : (pc[g] # "idle" /\ job[g].u \notin cancelled) => RowOfHolder(g)'
    BY <1>1, <2>1 DEF RowOfHolder
  <2>3. QED
    BY <1>2, <2>1, <2>2
<1>11. ASSUME NEW u \in Uploads, BackoffElapses(u)
       PROVE  IInv'
  <2>1. /\ UNCHANGED <<pc, job, txns, tempPath, floor, status, up, active, staging, cancelled>>
        /\ \A v \in Uploads \ {u} : backoffUntil'[v] = backoffUntil[v]
    BY <1>0, <1>11 DEF BackoffElapses, TypeOK
  <2>2. \A g \in Workers : job[g].u = u => pc[g] # "return"
    BY <1>11 DEF BackoffElapses, GapClosed
  <2>3. \A g \in Workers : (pc[g] # "idle" /\ job[g].u \notin cancelled) => RowOfHolder(g)'
    BY <1>1, <2>1, <2>2 DEF RowOfHolder
  <2>4. QED
    BY <1>2, <2>1, <2>3
<1>12. QED
  BY <1>3, <1>4, <1>6, <1>7, <1>8, <1>9, <1>10, <1>11 DEF Process, Time

\* The initial states satisfy IInv.
LEMMA InvInit == Init => IInv
<1> SUFFICES ASSUME Init PROVE IInv
  OBVIOUS
<1>1. /\ TypeOK
      /\ \A g \in Workers : pc[g] = "idle"
      /\ \A u \in Uploads : status[u] = "absent" /\ txns[u] = 0 /\ floor[u] = 0
      /\ staging = {} /\ cancelled = {}
  BY TypeInit DEF Init
<1>2. SoleHolder /\ HoldersRegistered
  BY <1>1 DEF SoleHolder, HoldersRegistered
<1>3. Lifecycle
  BY <1>1 DEF Lifecycle, Sourced, Paying
<1>4. PlanProgress
  BY <1>1 DEF PlanProgress, PlanAt
<1>5. LedgerOnePlan
  <2>1. MaxBatches \in Nat
    BY ConstantsAssumption
  <2>2. SUFFICES ASSUME NEW u \in Uploads PROVE txns[u] <= floor[u] + MaxBatches
    BY Zenon DEF LedgerOnePlan
  <2>3. QED
    BY <1>1, <2>1
<1>6. QED
  BY <1>1, <1>2, <1>3, <1>4, <1>5 DEF IInv

\* Every step keeps the invariant when operators respect the retry gap.
LEMMA InvStep ==
    ASSUME ~EagerRetry
    PROVE  IInv /\ [Next]_vars => IInv'
<1> SUFFICES ASSUME IInv, [Next]_vars PROVE IInv'
  OBVIOUS
<1>1. TypeOK'
  BY TypeStep DEF IInv
<1>2. CASE UNCHANGED vars
  <2>1. UNCHANGED <<pc, job, txns, status, tempPath, floor, backoffUntil, up, active, staging,
                   cancelled>>
    BY <1>2 DEF vars, rowVars, diskVars, procVars, envVars
  <2>2. SoleHolder' /\ HoldersRegistered'
    BY <2>1 DEF IInv, SoleHolder, HoldersRegistered, RowOfHolder
  <2>3. Lifecycle' /\ PlanProgress' /\ LedgerOnePlan'
    BY <2>1 DEF IInv, Lifecycle, PlanProgress, PlanAt, LedgerOnePlan
  <2>4. QED
    BY <1>1, <2>2, <2>3 DEF IInv
<1>3. ASSUME NEW g \in Workers, Step(g) PROVE IInv'
  BY <1>1, <1>3, InvPrepare, InvPay, InvFinalize, InvResolve DEF Step
<1>4. ASSUME NEW g \in Workers, NEW u \in Uploads, Dequeue(g, u) \/ DequeueLost(g, u)
      PROVE  IInv'
  BY <1>1, <1>4, InvDequeue
<1>5. ASSUME NEW u \in Uploads, Handler(u) \/ Operator(u) \/ GC(u) PROVE IInv'
  BY <1>1, <1>5, InvQueue
<1>6. CASE Process \/ Time
  BY <1>1, <1>6, InvProcess
<1>7. QED
  BY <1>2, <1>3, <1>4, <1>5, <1>6 DEF Next

\* IInv is an invariant of the specification, for operators that retry an
\* upload only after its goroutine has returned.
THEOREM InvariantHolds ==
    ASSUME ~EagerRetry
    PROVE  Spec => []IInv
BY InvInit, InvStep, PTL DEF Spec

\* Since an upload's creation or its last operator Retry the ledger never holds
\* more than one plan's payments for it (refuseRepayment).
THEOREM OnePlanPerAuthorization ==
    ASSUME ~EagerRetry
    PROVE  Spec => []LedgerOnePlan
<1>1. IInv => LedgerOnePlan
  BY DEF IInv
<1>2. QED
  BY <1>1, InvariantHolds, PTL

\* No two goroutines ever pay for the same upload at the same time, whatever
\* sweeps, crashes, cancellations and retries happen.
THEOREM NoConcurrentPayers ==
    ASSUME ~EagerRetry
    PROVE  Spec => []OnePayer
<1>1. IInv => OnePayer
  BY DEF IInv, OnePayer, SoleHolder, Lifecycle, Sourced, Paying
<1>2. QED
  BY <1>1, InvariantHolds, PTL

-----------------------------------------------------------------------------
(* Action properties. StatusMoves lists the ways a row changes its status;  *)
(* with the invariant each of the two properties is a look at that list.    *)

StatusMove(u) ==
    \/ status'[u] = status[u]
    \/ status[u] \in {"absent", "failed"}
    \/ status'[u] = "deleted"
    \/ u \in cancelled' /\ status'[u] = "failed"
    \/ status[u] = "queued" /\ status'[u] = "processing"
    \/ status[u] = "processing" /\ status'[u] = "queued" /\ (u \notin active \/ ~up)
    \/ \E g \in Workers : /\ pc[g] \in {"cost", "complete", "finish"} /\ job[g].u = u
                          /\ status'[u] = "queued" => pc[g] = "cost" /\ pc'[g] = "return"

\* Only these moves happen.
LEMMA StatusMoves ==
    ASSUME TypeOK, Lifecycle, [Next]_vars, NEW u \in Uploads
    PROVE  StatusMove(u)
<1> USE DEF rowVars, diskVars, netVars, procVars, envVars
<1>1. CASE status'[u] = status[u]
  BY <1>1 DEF StatusMove
<1>2. ASSUME status'[u] # status[u], NEW g \in Workers, Step(g)
      PROVE  StatusMove(u)
  <2>1. ~Pay(g)
    BY <1>2 DEF Pay, RefuseCheck, RefuseReadError, SendFail, SendOk, SendLost, ReceiptOk,
         ReceiptTimeout, ReceiptReverted, ReceiptCancelled, RecordOk, RecordFail, Salvage
  <2>2. Prepare(g) => CostBackoff(g)
    <3>1. ~CheckOk(g) /\ ~CheckFail(g) /\ ~CostFail(g) /\ \A e \in ErrKind : ~PrepareFail(g, e)
      BY <1>2 DEF CheckOk, CheckFail, PrepareFail, CostFail
    <3>2. \A kind, n : ~PrepareOk(g, kind, n)
      BY <1>2 DEF PrepareOk
    <3>3. \A clear : ~CostOk(g, clear)
      BY <1>2 DEF CostOk
    <3>4. QED
      BY <3>1, <3>2, <3>3 DEF Prepare
  <2>3. Finalize(g) => CompleteOk(g)
    <3>1. ~FinalizeOk(g) /\ ~CompleteFail(g) /\ ~Cleanup(g)
      BY <1>2 DEF FinalizeOk, CompleteFail, Cleanup
    <3>2. \A n : ~FinalizePartial(g, n)
      BY <1>2 DEF FinalizePartial
    <3>3. \A n, known : ~FinalizeFail(g, n, known)
      BY <1>2 DEF FinalizeFail
    <3>4. QED
      BY <3>1, <3>2, <3>3 DEF Finalize
  <2>4. Resolve(g) => \E w, t \in BOOLEAN : FinishPreserve(g, w) \/ FinishAbandon(g, w, t)
    BY <1>2 DEF Resolve, Classify, DelayElapsed, DelayCancelled, Return
  <2>5. CASE CostBackoff(g)
    <3>1. pc'[g] = "return" /\ pc[g] = "cost" /\ job[g].u = u
      BY <1>2, <2>5 DEF CostBackoff, SetStatus, Leave, Move, TypeOK
    <3>2. QED
      BY <3>1 DEF StatusMove
  <2>6. CASE CompleteOk(g)
    <3>1. pc[g] = "complete" /\ job[g].u = u /\ status'[u] # "queued"
      BY <1>2, <2>6 DEF CompleteOk, SetStatus, TypeOK
    <3>2. QED
      BY <3>1 DEF StatusMove
  <2>7. ASSUME NEW w \in BOOLEAN, NEW t \in BOOLEAN,
               FinishPreserve(g, w) \/ FinishAbandon(g, w, t)
        PROVE  StatusMove(u)
    <3>1. pc[g] = "finish" /\ job[g].u = u /\ status'[u] # "queued"
      BY <1>2, <2>7 DEF FinishPreserve, FinishAbandon, SetStatus, TypeOK
    <3>2. QED
      BY <3>1 DEF StatusMove
  <2>8. QED
    BY <1>2, <2>1, <2>2, <2>3, <2>4, <2>5, <2>6, <2>7 DEF Step
<1>3. ASSUME status'[u] # status[u], NEW v \in Uploads,
             \/ Handler(v) \/ Operator(v) \/ GC(v)
             \/ \E g \in Workers : Dequeue(g, v) \/ DequeueLost(g, v)
      PROVE  StatusMove(u)
  <2>1. CASE Handler(v)
    <3>1. v \in staging /\ u = v
      BY <1>3, <2>1 DEF Handler, StageFile, AcceptUpload, RejectUpload, TypeOK
    <3>2. QED
      BY <3>1 DEF Lifecycle, StatusMove
  <2>2. CASE Operator(v)
    <3>1. CASE Cancel(v)
      <4>1. u = v /\ v \in cancelled' /\ status'[v] = "failed"
        BY <1>3, <3>1 DEF Cancel, SetStatus, RowExists, TypeOK
      <4>2. QED
        BY <4>1 DEF StatusMove
    <3>2. CASE Retry(v)
      BY <1>3, <3>2 DEF Retry, SetStatus, TypeOK, StatusMove
    <3>3. CASE Delete(v)
      <4>1. u = v /\ status'[v] = "deleted"
        BY <1>3, <3>3 DEF Delete, SetStatus, TypeOK
      <4>2. QED
        BY <4>1 DEF StatusMove
    <3>4. ~ForceRetry(v)
      BY <1>3 DEF ForceRetry
    <3>5. QED
      BY <2>2, <3>1, <3>2, <3>3, <3>4 DEF Operator
  <2>3. ~GC(v)
    BY <1>3 DEF GC
  <2>4. ASSUME NEW g \in Workers, Dequeue(g, v) \/ DequeueLost(g, v)
        PROVE  StatusMove(u)
    <3>1. status[u] = "queued" /\ status'[u] = "processing"
      BY <1>3, <2>4 DEF Dequeue, DequeueLost, CanDequeue, Eligible, ClaimRow, TypeOK
    <3>2. QED
      BY <3>1 DEF StatusMove
  <2>5. QED
    BY <1>3, <2>1, <2>2, <2>3, <2>4
<1>4. ASSUME status'[u] # status[u], Process \/ Time
      PROVE  StatusMove(u)
  <2>1. ~Time
    BY <1>4 DEF Time, CircuitCloses, Ages, BackoffElapses
  <2>2. CASE Sweep
    <3>1. status[u] = "processing" /\ status'[u] = "queued" /\ u \notin active
      BY <1>4, <2>2 DEF Sweep, Requeue, StuckExcept
    <3>2. QED
      BY <3>1 DEF StatusMove
  <2>3. ASSUME NEW spared \in SUBSET Uploads, Start(spared)
        PROVE  StatusMove(u)
    <3>1. status[u] = "processing" /\ status'[u] = "queued" /\ ~up
      BY <1>4, <2>3 DEF Start, Requeue
    <3>2. QED
      BY <3>1 DEF StatusMove
  <2>4. ~Shutdown /\ ~Exit /\ ~Crash
    BY <1>4 DEF Shutdown, Exit, Crash
  <2>5. QED
    BY <1>4, <2>1, <2>2, <2>3, <2>4 DEF Process
<1>5. UNCHANGED vars => status'[u] = status[u]
  BY DEF vars
<1>6. QED
  BY <1>1, <1>2, <1>3, <1>4, <1>5 DEF Next

\* The row of an upload in progress goes back to the queue only by its own
\* goroutine's gas backoff: neither the sweep nor a start takes it.
THEOREM SweepSparesLiveUploads ==
    ASSUME ~EagerRetry
    PROVE  Spec => SweepSparesLive
<1> DEFINE Spared == \A u \in Uploads \ cancelled, g \in Workers :
                        (Working(g, u) /\ status[u] = "processing" /\ status'[u] = "queued")
                            => pc[g] = "cost" /\ pc'[g] = "return"
<1>1. IInv /\ [Next]_vars => [Spared]_vars
  <2> SUFFICES ASSUME IInv, [Next]_vars, NEW u \in Uploads \ cancelled, NEW g \in Workers,
                      Working(g, u), status[u] = "processing", status'[u] = "queued"
               PROVE  pc[g] = "cost" /\ pc'[g] = "return"
    OBVIOUS
  <2>1. pc[g] # "idle" /\ job[g].u = u /\ pc[g] # "return"
    BY DEF Working, Holds
  <2>2. u \in active /\ up
    BY <2>1 DEF IInv, HoldersRegistered, RowOfHolder, Lifecycle
  <2>3. PICK h \in Workers : /\ pc[h] \in {"cost", "complete", "finish"} /\ job[h].u = u
                             /\ pc[h] = "cost" /\ pc'[h] = "return"
    BY <2>2, StatusMoves DEF IInv, StatusMove
  <2>4. QED
    BY <2>1, <2>3 DEF IInv, SoleHolder
<1>2. QED
  BY <1>1, InvariantHolds, PTL DEF Spec, SweepSparesLive

\* A cancellation is never forgotten.
LEMMA CancelledGrows ==
    ASSUME [Next]_vars
    PROVE  cancelled \subseteq cancelled'
<1> USE DEF rowVars, diskVars, netVars, procVars, envVars
<1>1. ASSUME NEW g \in Workers, Step(g) PROVE cancelled' = cancelled
  <2>1. Prepare(g) => cancelled' = cancelled
    <3>1. \/ CheckOk(g) \/ CheckFail(g) \/ CostFail(g) \/ CostBackoff(g)
          \/ \E e \in ErrKind : PrepareFail(g, e)
          => cancelled' = cancelled
      BY DEF CheckOk, CheckFail, PrepareFail, CostFail, CostBackoff
    <3>2. \A kind, n : PrepareOk(g, kind, n) => cancelled' = cancelled
      BY DEF PrepareOk
    <3>3. \A clear : CostOk(g, clear) => cancelled' = cancelled
      BY DEF CostOk
    <3>4. QED
      BY <3>1, <3>2, <3>3 DEF Prepare
  <2>2. Pay(g) => cancelled' = cancelled
    BY DEF Pay, RefuseCheck, RefuseReadError, SendFail, SendOk, SendLost, ReceiptOk,
         ReceiptTimeout, ReceiptReverted, ReceiptCancelled, RecordOk, RecordFail, Salvage
  <2>3. Finalize(g) => cancelled' = cancelled
    <3>1. FinalizeOk(g) \/ CompleteOk(g) \/ CompleteFail(g) \/ Cleanup(g) => cancelled' = cancelled
      BY DEF FinalizeOk, CompleteOk, CompleteFail, Cleanup
    <3>2. \A n : FinalizePartial(g, n) => cancelled' = cancelled
      BY DEF FinalizePartial
    <3>3. \A n, known : FinalizeFail(g, n, known) => cancelled' = cancelled
      BY DEF FinalizeFail
    <3>4. QED
      BY <3>1, <3>2, <3>3 DEF Finalize
  <2>4. Resolve(g) => cancelled' = cancelled
    BY DEF Resolve, Classify, DelayElapsed, DelayCancelled, FinishPreserve, FinishAbandon,
         Written, Return
  <2>5. QED
    BY <1>1, <2>1, <2>2, <2>3, <2>4 DEF Step
<1>2. ASSUME NEW u \in Uploads, \/ Handler(u) \/ Operator(u) \/ GC(u)
                                \/ \E g \in Workers : Dequeue(g, u) \/ DequeueLost(g, u)
      PROVE  cancelled \subseteq cancelled'
  BY <1>2 DEF Handler, StageFile, AcceptUpload, RejectUpload, Operator, Cancel, Retry,
       ForceRetry, Delete, GC, Dequeue, DequeueLost
<1>3. ASSUME Process \/ Time PROVE cancelled' = cancelled
  BY <1>3 DEF Process, Sweep, Shutdown, Exit, Crash, Start, Time, CircuitCloses, Ages,
       BackoffElapses
<1>4. QED
  BY <1>1, <1>2, <1>3 DEF Next, vars

\* A finished upload stays finished until it is deleted: no late goroutine,
\* sweep, start or retry brings it back, unless its owner had cancelled it.
THEOREM CompletedStaysCompleted ==
    ASSUME ~EagerRetry
    PROVE  Spec => CompletedIsFinal
<1> DEFINE Final == \A u \in Uploads \ cancelled' :
                       status[u] \in Stored => status'[u] \in {status[u], "deleted"}
<1>1. IInv /\ [Next]_vars => [Final]_vars
  <2> SUFFICES ASSUME IInv, [Next]_vars, NEW u \in Uploads \ cancelled', status[u] \in Stored
               PROVE  status'[u] \in {status[u], "deleted"}
    OBVIOUS
  <2>1. u \notin cancelled
    <3>1. cancelled \subseteq cancelled'
      BY CancelledGrows
    <3>2. QED
      BY <3>1
  <2>2. \A g \in Workers : pc[g] \in {"cost", "complete", "finish"} => job[g].u # u
    BY <2>1 DEF IInv, HoldersRegistered, RowOfHolder, Stored
  <2>3. StatusMove(u)
    BY StatusMoves DEF IInv
  <2>4. QED
    BY <2>2, <2>3 DEF StatusMove, Stored
<1>2. QED
  BY <1>1, InvariantHolds, PTL DEF Spec, CompletedIsFinal

-----------------------------------------------------------------------------
(* What the upload pipeline guarantees its owner: it implements the life     *)
(* cycle of UploadLifecycle, it keeps the source of a paid upload, and it    *)
(* pays no more than was authorized.  Each part strengthens the inductive    *)
(* invariant above.                                                          *)

-----------------------------------------------------------------------------
(* Content.                                                                 *)

\* A goroutine about to write MarkCompleted has all of its content on the network.
ContentKnown == \A g \in Workers : pc[g] = "complete" => unstored[job[g].u] = 0

\* What a step may do to content: chunks are never lost, and a goroutine that has
\* arrived at "complete" has the content of its upload stored.
ContentStep ==
    /\ \A v \in Uploads : unstored'[v] <= unstored[v]
    /\ \A g \in Workers :
          pc'[g] = "complete" => \/ pc[g] = "complete" /\ job'[g].u = job[g].u
                                 \/ unstored'[job'[g].u] = 0

\* The failure paths never lead to "complete", and move no other goroutine.
LEMMA FailAway ==
    ASSUME TypeOK, NEW g \in Workers, NEW e, Fail(g, e) \/ PayFailed(g, e)
    PROVE  /\ pc'[g] # "complete"
           /\ \A h \in Workers \ {g} : pc'[h] = pc[h] /\ job'[h] = job[h]
BY DEF TypeOK, PayFailed, Fail, Goto, Move

\* Every step of a goroutine keeps the content.
LEMMA ContentWorker ==
    ASSUME TypeOK, NEW g \in Workers, Step(g)
    PROVE  ContentStep
<1> USE DEF rowVars, diskVars, netVars, procVars, envVars
<1>0. job[g].u \in Uploads /\ \A v \in Uploads : unstored[v] \in 0..Chunks /\ unstored[v] <= unstored[v]
  BY ConstantsAssumption, JobFields DEF TypeOK
<1>1. ASSUME unstored' = unstored, pc'[g] # "complete",
             \A h \in Workers \ {g} : pc'[h] = pc[h] /\ job'[h] = job[h]
      PROVE  ContentStep
  BY <1>0, <1>1 DEF ContentStep
<1>2. ASSUME NEW n \in 0..Chunks, n <= unstored[job[g].u],
             unstored' = [unstored EXCEPT ![job[g].u] = n],
             pc'[g] = "complete" => n = 0 /\ job'[g].u = job[g].u,
             \A h \in Workers \ {g} : pc'[h] = pc[h] /\ job'[h] = job[h]
      PROVE  ContentStep
  <2>1. \A v \in Uploads : unstored'[v] = IF v = job[g].u THEN n ELSE unstored[v]
    BY <1>2 DEF TypeOK
  <2>2. QED
    BY <1>0, <1>2, <2>1 DEF ContentStep
<1>3. CASE Prepare(g)
  <2>1. CASE CheckOk(g) \/ CheckFail(g) \/ CostFail(g) \/ CostBackoff(g) \/ \E e \in ErrKind : PrepareFail(g, e)
    BY <1>1, <2>1, FailAway DEF CheckOk, CheckFail, CostFail, CostBackoff, PrepareFail, Goto, Move, Leave, TypeOK
  <2>2. ASSUME NEW kind, NEW n, PrepareOk(g, kind, n) PROVE ContentStep
    BY <1>1, <2>2 DEF PrepareOk, Move, TypeOK
  <2>3. ASSUME NEW clear, CostOk(g, clear) PROVE ContentStep
    BY <1>1, <2>3 DEF CostOk, Goto, Move, TypeOK
  <2>4. QED
    BY <1>3, <2>1, <2>2, <2>3 DEF Prepare
<1>4. CASE Pay(g)
  <2>1. CASE \/ RefuseCheck(g) \/ RefuseReadError(g) \/ \E e \in ErrKind : SendFail(g, e)
             \/ SendLost(g) \/ ReceiptTimeout(g) \/ ReceiptReverted(g) \/ ReceiptCancelled(g)
    BY <1>1, <2>1, FailAway DEF RefuseCheck, RefuseReadError, SendFail, SendLost, ReceiptTimeout,
         ReceiptReverted, ReceiptCancelled, Goto, Move, TypeOK
  <2>2. CASE SendOk(g) \/ ReceiptOk(g)
    BY <1>1, <2>2 DEF SendOk, ReceiptOk, Goto, Move, TypeOK
  <2>3. CASE RecordOk(g) \/ \E inserted \in BOOLEAN : RecordFail(g, inserted)
    BY <1>1, <2>3 DEF RecordOk, RecordFail, AfterPayment, Move, TypeOK
  <2>4. ASSUME NEW n \in 0..Chunks, Salvage(g, n) PROVE ContentStep
    <3>1. /\ pc'[g] = "complete" => n = 0 /\ job'[g].u = job[g].u
          /\ \A h \in Workers \ {g} : pc'[h] = pc[h] /\ job'[h] = job[h]
      BY <2>4, FailAway DEF Salvage, Move, TypeOK, Job
    <3>2. QED
      BY <1>2, <2>4, <3>1 DEF Salvage
  <2>5. QED
    BY <1>4, <2>1, <2>2, <2>3, <2>4 DEF Pay
<1>5. CASE Finalize(g)
  <2>1. CASE FinalizeOk(g)
    <3>1. /\ pc'[g] = "complete" => job'[g].u = job[g].u
          /\ \A h \in Workers \ {g} : pc'[h] = pc[h] /\ job'[h] = job[h]
      BY <2>1 DEF FinalizeOk, Move, TypeOK, Job
    <3>2. 0 \in 0..Chunks /\ 0 <= unstored[job[g].u]
      BY <1>0, ConstantsAssumption
    <3>3. QED
      BY <1>2, <2>1, <3>1, <3>2 DEF FinalizeOk
  <2>2. ASSUME NEW n \in 1..Chunks, FinalizePartial(g, n) PROVE ContentStep
    <3>1. /\ pc'[g] # "complete" /\ n \in 0..Chunks /\ n <= unstored[job[g].u]
          /\ \A h \in Workers \ {g} : pc'[h] = pc[h] /\ job'[h] = job[h]
      BY <1>0, <2>2, FailAway, ConstantsAssumption DEF FinalizePartial, FinalizeError, Move, TypeOK
    <3>2. QED
      BY <1>2, <2>2, <3>1 DEF FinalizePartial
  <2>3. ASSUME NEW n \in 0..Chunks, NEW known, FinalizeFail(g, n, known) PROVE ContentStep
    <3>1. /\ pc'[g] # "complete"
          /\ \A h \in Workers \ {g} : pc'[h] = pc[h] /\ job'[h] = job[h]
      BY <2>3, FailAway DEF FinalizeFail, FinalizeError
    <3>2. QED
      BY <1>2, <2>3, <3>1 DEF FinalizeFail
  <2>4. CASE CompleteOk(g) \/ CompleteFail(g) \/ Cleanup(g)
    BY <1>1, <2>4, FailAway DEF CompleteOk, CompleteFail, Cleanup, Leave, Goto, Move, TypeOK
  <2>5. QED
    BY <1>5, <2>1, <2>2, <2>3, <2>4 DEF Finalize
<1>6. CASE Resolve(g)
  BY <1>1, <1>6 DEF Resolve, Classify, DelayElapsed, DelayCancelled, FinishPreserve,
       FinishAbandon, Return, Leave, Goto, Move, TypeOK
<1>7. QED
  BY <1>3, <1>4, <1>5, <1>6 DEF Step

\* No step loses content.
LEMMA ContentSteps ==
    ASSUME TypeOK, [Next]_vars
    PROVE  ContentStep
<1> USE DEF rowVars, diskVars, netVars, procVars, envVars
<1>0. \A v \in Uploads : unstored[v] <= unstored[v]
  BY ConstantsAssumption DEF TypeOK
<1>1. ASSUME NEW g \in Workers, NEW u \in Uploads, Dequeue(g, u) \/ DequeueLost(g, u)
      PROVE  ContentStep
  BY <1>0, <1>1 DEF Dequeue, DequeueLost, Move, TypeOK, ContentStep
<1>2. ASSUME NEW u \in Uploads, Handler(u) \/ Operator(u) \/ GC(u) PROVE ContentStep
  <2>1. unstored' = unstored /\ pc' = pc /\ job' = job
    BY <1>2 DEF Handler, StageFile, AcceptUpload, RejectUpload, Operator, Cancel, Retry,
         ForceRetry, Delete, GC
  <2>2. QED
    BY <1>0, <2>1 DEF ContentStep
<1>3. CASE Process \/ Time
  BY <1>0, <1>3 DEF Process, Sweep, Shutdown, Exit, Crash, Start, Time, CircuitCloses, Ages,
       BackoffElapses, ContentStep
<1>4. CASE UNCHANGED vars
  BY <1>0, <1>4 DEF vars, ContentStep
<1>5. QED
  BY <1>1, <1>2, <1>3, <1>4, ContentWorker DEF Next

\* ContentKnown is preserved.
LEMMA ContentKept ==
    ASSUME TypeOK, TypeOK', ContentKnown, [Next]_vars
    PROVE  ContentKnown'
<1>1. ContentStep
  BY ContentSteps
<1> SUFFICES ASSUME NEW g \in Workers, pc'[g] = "complete"
             PROVE  unstored'[job'[g].u] = 0
  BY DEF ContentKnown
<1>2. /\ job'[g].u \in Uploads /\ unstored'[job'[g].u] \in 0..Chunks
      /\ job[g].u \in Uploads /\ unstored[job[g].u] \in 0..Chunks
  BY JobFields, ConstantsAssumption DEF TypeOK
<1>3. QED
  BY <1>1, <1>2, ConstantsAssumption DEF ContentStep, ContentKnown

-----------------------------------------------------------------------------
(* The refinement mapping, one row at a time.                               *)

\* The phases of the statuses.
LEMMA PhaseTable ==
    /\ PhaseOf("absent") = "absent" /\ PhaseOf("queued") = "waiting"
    /\ PhaseOf("processing") = "running" /\ PhaseOf("failed") = "failed"
    /\ PhaseOf("completed") = "stored" /\ PhaseOf("already_stored") = "stored"
    /\ PhaseOf("deleted") = "deleted"
BY DEF PhaseOf, Stored

\* The step of the life cycle that one row takes.
RowStep(u) ==
    \/ Life!Rests(u) \/ Life!Create(u) \/ Life!Claim(u) \/ Life!Requeue(u) \/ Life!Store(u)
    \/ Life!Fail(u) \/ Life!Remove(u) \/ Life!Cancel(u) \/ Life!Reopen(u) \/ Life!Pay(u)
    \/ Life!Straggle(u)

\* The ledger, the authorization and the cancellation of a row are left alone.
SameTerms(u) ==
    /\ txns'[u] = txns[u] /\ floor'[u] = floor[u]
    /\ u \in cancelled' <=> u \in cancelled

\* A row that is left alone rests.
LEMMA RowRests ==
    ASSUME NEW u \in Uploads, status'[u] = status[u], SameTerms(u)
    PROVE  RowStep(u)
BY DEF RowStep, SameTerms, Life!Rests, Life!SameTerms

\* The status of a row moves along the life cycle, its terms unchanged.
LEMMA RowMoves ==
    ASSUME NEW u \in Uploads, SameTerms(u),
           \/ status[u] = "absent" /\ status'[u] = "queued"
           \/ status[u] = "queued" /\ status'[u] = "processing"
           \/ status[u] = "processing" /\ status'[u] \in {"queued", "failed"}
           \/ status[u] = "processing" /\ status'[u] \in Stored /\ unstored[u] = 0
           \/ status[u] \in Settled /\ status'[u] = "deleted" /\ txns[u] = 0
    PROVE  RowStep(u)
BY PhaseTable DEF RowStep, SameTerms, Settled, Stored, Life!SameTerms, Life!Moves, Life!Create,
     Life!Claim, Life!Requeue, Life!Store, Life!Fail, Life!Remove

\* The row of a cancelled upload, under the goroutine that was not told.
LEMMA RowStraggles ==
    ASSUME NEW u \in Uploads, TypeOK, TypeOK', u \in cancelled, u \in cancelled', RowExists(u),
           status'[u] \notin {"absent", "deleted"},
           status'[u] \in Stored => status[u] \in Stored \/ unstored[u] = 0,
           txns'[u] \in {txns[u], txns[u] + 1}, floor'[u] = floor[u],
           txns'[u] <= floor[u] + MaxBatches
    PROVE  RowStep(u)
<1>1. Life!SameTerms(u)
  BY DEF Life!SameTerms
<1>2. status[u] \in Status /\ status'[u] \in Status
  BY DEF TypeOK
<1>3. /\ PhaseOf(status[u]) \notin {"absent", "deleted"}
      /\ PhaseOf(status'[u]) \in {"waiting", "running", "stored", "failed"}
      /\ PhaseOf(status'[u]) = "stored" => PhaseOf(status[u]) = "stored" \/ unstored[u] = 0
  BY <1>2, PhaseTable DEF RowExists, Status, Stored
<1>4. Life!Straggle(u)
  BY <1>1, <1>3 DEF Life!Straggle
<1>5. QED
  BY <1>4 DEF RowStep

\* The owner's Cancel.
LEMMA RowCancelled ==
    ASSUME NEW u \in Uploads, status[u] \in {"queued", "processing"}, status'[u] = "failed",
           txns'[u] = txns[u], floor'[u] = floor[u], u \in cancelled'
    PROVE  RowStep(u)
BY PhaseTable DEF RowStep, Life!Cancel, Life!Moves

\* The operator's Retry authorizes one more plan.
LEMMA RowReopened ==
    ASSUME NEW u \in Uploads, status[u] = "failed", status'[u] = "queued",
           txns'[u] = txns[u], floor'[u] = txns[u], u \in cancelled' <=> u \in cancelled
    PROVE  RowStep(u)
BY PhaseTable DEF RowStep, Life!Reopen, Life!Moves

\* A payment reaches the ledger while the row is in processing.
LEMMA RowPaid ==
    ASSUME NEW u \in Uploads, status[u] = "processing", status'[u] = status[u],
           txns'[u] = txns[u] + 1, txns'[u] <= floor[u] + MaxBatches, floor'[u] = floor[u],
           u \in cancelled' <=> u \in cancelled
    PROVE  RowStep(u)
BY PhaseTable DEF RowStep, Life!Pay, Life!SameTerms

-----------------------------------------------------------------------------
(* Every step is a step of the life cycle for every row.                    *)

\* The outcome that a goroutine writes into its row: back to the queue, failed, or
\* stored when the content is.
LEMMA RowOutcome ==
    ASSUME IInv, TypeOK', NEW g \in Workers,
           pc[g] \notin {"idle", "cleanup", "return"},
           \A v \in Uploads : SameTerms(v),
           NEW s, s \in {"queued", "failed"} \/ (s \in Stored /\ unstored[job[g].u] = 0),
           SetStatus(job[g].u, s), NEW v \in Uploads
    PROVE  RowStep(v)
<1> DEFINE u == job[g].u
<1>1. /\ TypeOK /\ u \in Uploads /\ status[u] # "absent"
      /\ u \notin cancelled => status[u] = "processing"
  BY HolderFacts DEF RowOfHolder
<1>2. CASE status'[v] = status[v]
  BY <1>2, RowRests
<1>3. CASE status'[v] # status[v]
  <2>1. v = u /\ RowExists(u) /\ status'[u] = s
    BY <1>1, <1>3 DEF SetStatus, TypeOK
  <2>2. CASE u \notin cancelled
    BY <1>1, <2>1, <2>2, RowMoves
  <2>3. CASE u \in cancelled
    <3>1. u \in cancelled' /\ txns'[u] = txns[u] /\ floor'[u] = floor[u]
      BY <1>1, <2>3 DEF SameTerms
    <3>2. txns'[u] <= floor[u] + MaxBatches
      BY <1>1, <3>1 DEF IInv, LedgerOnePlan
    <3>3. status'[u] \notin {"absent", "deleted"}
      BY <2>1 DEF Stored
    <3>4. status'[u] \in Stored => unstored[u] = 0
      BY <2>1 DEF Stored
    <3>5. QED
      BY <1>1, <2>1, <2>3, <3>1, <3>2, <3>3, <3>4, RowStraggles
  <2>4. QED
    BY <2>2, <2>3
<1>4. QED
  BY <1>2, <1>3

\* Recording a payment.
LEMMA RowRecorded ==
    ASSUME IInv, TypeOK', NEW g \in Workers, pc[g] = "record", RowExists(job[g].u),
           txns' = [txns EXCEPT ![job[g].u] = @ + 1],
           UNCHANGED <<status, floor, cancelled>>, NEW v \in Uploads
    PROVE  RowStep(v)
<1> DEFINE u == job[g].u
<1>1. /\ TypeOK /\ u \in Uploads /\ job[g] \in Job /\ PlanAt(pc[g], job[g])
      /\ u \notin cancelled => status[u] = "processing"
  BY HolderFacts DEF RowOfHolder
<1>2. CASE v # u
  BY <1>1, <1>2, RowRests DEF SameTerms, TypeOK
<1>3. CASE v = u
  <2>1. txns'[u] = txns[u] + 1
    BY <1>1 DEF TypeOK
  <2>2. txns'[u] <= floor[u] + MaxBatches
    <3>1. /\ job[g].winners \in Nat /\ job[g].batches \in Nat
          /\ txns[u] \in Nat /\ floor[u] \in Nat
      BY <1>1, JobFields DEF TypeOK
    <3>2. /\ job[g].batches <= MaxBatches /\ job[g].winners < job[g].batches
          /\ txns[u] <= floor[u] + job[g].winners
      BY <1>1 DEF PlanAt
    <3>3. QED
      BY <2>1, <3>1, <3>2, ConstantsAssumption
  <2>3. CASE u \notin cancelled
    BY <1>1, <1>3, <2>1, <2>2, <2>3, RowPaid
  <2>4. CASE u \in cancelled
    <3>1. status'[u] \notin {"absent", "deleted"} /\ (status'[u] \in Stored => status[u] \in Stored)
      BY DEF RowExists
    <3>2. QED
      BY <1>1, <1>3, <2>1, <2>2, <2>4, <3>1, RowStraggles
  <2>5. QED
    BY <2>3, <2>4
<1>4. QED
  BY <1>2, <1>3

\* The steps of a goroutine.
LEMMA RowWorker ==
    ASSUME IInv, ContentKnown, TypeOK', NEW g \in Workers, Step(g), NEW v \in Uploads
    PROVE  RowStep(v)
<1> USE DEF rowVars, diskVars, netVars, procVars, envVars
<1>0. TypeOK
  BY DEF IInv
<1>1. ASSUME UNCHANGED <<status, txns, floor, cancelled>>
      PROVE  RowStep(v)
  BY <1>1, RowRests DEF SameTerms
<1>2. CASE Prepare(g)
  <2>1. CASE CheckOk(g) \/ CheckFail(g) \/ CostFail(g) \/ \E e \in ErrKind : PrepareFail(g, e)
    BY <1>1, <2>1 DEF CheckOk, CheckFail, CostFail, PrepareFail
  <2>2. ASSUME NEW kind, NEW n, PrepareOk(g, kind, n) PROVE RowStep(v)
    BY <1>1, <2>2 DEF PrepareOk
  <2>3. ASSUME NEW clear, CostOk(g, clear) PROVE RowStep(v)
    BY <1>1, <2>3 DEF CostOk
  <2>4. CASE CostBackoff(g)
    <3>1. /\ pc[g] \notin {"idle", "cleanup", "return"} /\ \A w \in Uploads : SameTerms(w)
          /\ SetStatus(job[g].u, "queued")
      BY <2>4 DEF CostBackoff, SameTerms
    <3>2. QED
      BY <3>1, RowOutcome
  <2>5. QED
    BY <1>2, <2>1, <2>2, <2>3, <2>4 DEF Prepare
<1>3. CASE Pay(g)
  <2>1. CASE \/ RefuseCheck(g) \/ RefuseReadError(g) \/ \E e \in ErrKind : SendFail(g, e)
             \/ SendOk(g) \/ SendLost(g) \/ ReceiptOk(g) \/ ReceiptTimeout(g)
             \/ ReceiptReverted(g) \/ ReceiptCancelled(g) \/ \E n \in 0..Chunks : Salvage(g, n)
    BY <1>1, <2>1 DEF RefuseCheck, RefuseReadError, SendFail, SendOk, SendLost, ReceiptOk,
         ReceiptTimeout, ReceiptReverted, ReceiptCancelled, Salvage
  <2>2. CASE RecordOk(g)
    BY <2>2, RowRecorded DEF RecordOk
  <2>3. ASSUME NEW inserted \in BOOLEAN, RecordFail(g, inserted) PROVE RowStep(v)
    <3>1. CASE inserted
      BY <2>3, <3>1, RowRecorded DEF RecordFail
    <3>2. CASE ~inserted
      BY <1>1, <2>3, <3>2 DEF RecordFail
    <3>3. QED
      BY <3>1, <3>2
  <2>4. QED
    BY <1>3, <2>1, <2>2, <2>3 DEF Pay
<1>4. CASE Finalize(g)
  <2>1. CASE \/ FinalizeOk(g) \/ CompleteFail(g) \/ Cleanup(g)
             \/ \E n \in 1..Chunks : FinalizePartial(g, n)
             \/ \E n \in 0..Chunks, known \in BOOLEAN : FinalizeFail(g, n, known)
    BY <1>1, <2>1 DEF FinalizeOk, CompleteFail, Cleanup, FinalizePartial, FinalizeFail
  <2>2. CASE CompleteOk(g)
    <3> DEFINE s == IF job[g].new THEN "completed" ELSE "already_stored"
    <3>1. /\ pc[g] \notin {"idle", "cleanup", "return"} /\ \A w \in Uploads : SameTerms(w)
          /\ s \in Stored /\ SetStatus(job[g].u, s)
      BY <2>2 DEF CompleteOk, SameTerms, Stored
    <3>2. unstored[job[g].u] = 0
      BY <2>2 DEF CompleteOk, ContentKnown
    <3>3. QED
      BY <3>1, <3>2, RowOutcome
  <2>3. QED
    BY <1>4, <2>1, <2>2 DEF Finalize
<1>5. CASE Resolve(g)
  <2>1. CASE \E paid \in BOOLEAN : Classify(g, paid)
    BY <1>1, <2>1 DEF Classify
  <2>2. CASE DelayElapsed(g) \/ DelayCancelled(g) \/ Return(g)
    BY <1>1, <2>2 DEF DelayElapsed, DelayCancelled, Return
  <2>3. ASSUME NEW written \in BOOLEAN, NEW transient \in BOOLEAN,
               FinishPreserve(g, written) \/ FinishAbandon(g, written, transient)
        PROVE  RowStep(v)
    <3>1. /\ pc[g] \notin {"idle", "cleanup", "return"} /\ \A w \in Uploads : SameTerms(w)
          /\ written => SetStatus(job[g].u, "failed")
          /\ ~written => UNCHANGED <<status, txns, floor, cancelled>>
      BY <2>3 DEF FinishPreserve, FinishAbandon, Written, SameTerms
    <3>2. QED
      BY <1>1, <3>1, RowOutcome
  <2>4. QED
    BY <1>5, <2>1, <2>2, <2>3 DEF Resolve
<1>6. QED
  BY <1>2, <1>3, <1>4, <1>5 DEF Step

\* The steps of the handlers, the operators, the queue and the collector.
LEMMA RowRequest ==
    ASSUME IInv, TypeOK', NEW u \in Uploads,
           \/ Handler(u) \/ Operator(u) \/ GC(u)
           \/ \E g \in Workers : Dequeue(g, u) \/ DequeueLost(g, u),
           NEW v \in Uploads
    PROVE  RowStep(v)
<1> USE DEF rowVars, diskVars, netVars, procVars, envVars
<1>0. TypeOK
  BY DEF IInv
<1>1. ASSUME UNCHANGED <<status, txns, floor, cancelled>>
      PROVE  RowStep(v)
  BY <1>1, RowRests DEF SameTerms
<1>2. ASSUME NEW s, status' = [status EXCEPT ![u] = s], \A w \in Uploads : SameTerms(w),
             \/ status[u] = "absent" /\ s = "queued"
             \/ status[u] = "queued" /\ s = "processing"
             \/ status[u] \in Settled /\ s = "deleted" /\ txns[u] = 0
      PROVE  RowStep(v)
  <2>1. status'[u] = s /\ (v # u => status'[v] = status[v])
    BY <1>0, <1>2 DEF TypeOK
  <2>2. QED
    BY <1>2, <2>1, RowMoves, RowRests
<1>3. CASE StageFile(u) \/ RejectUpload(u) \/ ForceRetry(u) \/ GC(u)
  BY <1>1, <1>3 DEF StageFile, RejectUpload, ForceRetry, GC
<1>4. ASSUME NEW readBack \in BOOLEAN, AcceptUpload(u, readBack) PROVE RowStep(v)
  <2>1. status[u] = "absent"
    BY <1>4 DEF AcceptUpload, IInv, Lifecycle
  <2>2. status' = [status EXCEPT ![u] = "queued"] /\ \A w \in Uploads : SameTerms(w)
    BY <1>4 DEF AcceptUpload, SameTerms
  <2>3. QED
    BY <1>2, <2>1, <2>2
<1>5. CASE Delete(u)
  <2>1. /\ status[u] \in Settled /\ txns[u] = 0 /\ \A w \in Uploads : SameTerms(w)
        /\ status' = [status EXCEPT ![u] = "deleted"]
    BY <1>5 DEF Delete, SetStatus, RowExists, Settled, SameTerms
  <2>2. QED
    BY <1>2, <2>1
<1>6. ASSUME NEW g \in Workers, Dequeue(g, u) \/ DequeueLost(g, u) PROVE RowStep(v)
  <2>1. /\ status[u] = "queued" /\ status' = [status EXCEPT ![u] = "processing"]
        /\ \A w \in Uploads : SameTerms(w)
    BY <1>6 DEF Dequeue, DequeueLost, CanDequeue, Eligible, ClaimRow, SameTerms
  <2>2. QED
    BY <1>2, <2>1
<1>7. CASE Cancel(u)
  <2>1. /\ status[u] \in {"queued", "processing"} /\ status'[u] = "failed"
        /\ v # u => status'[v] = status[v]
        /\ txns' = txns /\ floor' = floor /\ cancelled' = cancelled \cup {u}
    BY <1>0, <1>7 DEF Cancel, SetStatus, RowExists, TypeOK
  <2>2. QED
    BY <2>1, RowCancelled, RowRests DEF SameTerms
<1>8. CASE Retry(u)
  <2>1. /\ status[u] = "failed" /\ status'[u] = "queued" /\ floor'[u] = txns[u]
        /\ v # u => status'[v] = status[v] /\ floor'[v] = floor[v]
        /\ txns' = txns /\ cancelled' = cancelled
    BY <1>0, <1>8 DEF Retry, SetStatus, RowExists, TypeOK
  <2>2. QED
    BY <2>1, RowReopened, RowRests DEF SameTerms
<1>9. QED
  BY <1>3, <1>4, <1>5, <1>6, <1>7, <1>8 DEF Handler, Operator

\* The loops, the life of the process and the passing of time.
LEMMA RowProcess ==
    ASSUME TypeOK, Process \/ Time, NEW v \in Uploads
    PROVE  RowStep(v)
<1> USE DEF rowVars, diskVars, netVars, procVars, envVars
<1>1. SameTerms(v)
  BY DEF Process, Sweep, Shutdown, Exit, Crash, Start, Requeue, Time, CircuitCloses, Ages,
       BackoffElapses, SameTerms
<1>2. status'[v] = status[v] \/ (status[v] = "processing" /\ status'[v] = "queued")
  BY DEF Process, Sweep, StuckExcept, Shutdown, Exit, Crash, Start, Requeue, Time,
       CircuitCloses, Ages, BackoffElapses
<1>3. QED
  BY <1>1, <1>2, RowRests, RowMoves

\* Every step of the pipeline is a step of the life cycle.
LEMMA LifeStep ==
    ASSUME IInv, ContentKnown, TypeOK', [Next]_vars
    PROVE  Life!LifeNext
<1>1. \A v \in Uploads : RowStep(v)
  <2>1. CASE UNCHANGED vars
    BY <2>1, RowRests DEF SameTerms, vars, rowVars, diskVars, envVars
  <2>2. CASE Next
    BY <2>2, RowWorker, RowRequest, RowProcess DEF Next, IInv
  <2>3. QED
    BY <2>1, <2>2
<1>2. \A v \in Uploads : unstored[v] = 0 => unstored'[v] = 0
  <2>1. ContentStep
    BY ContentSteps DEF IInv
  <2>2. \A v \in Uploads : unstored[v] \in 0..Chunks /\ unstored'[v] \in 0..Chunks
    BY DEF IInv, TypeOK
  <2>3. QED
    BY <2>1, <2>2, ConstantsAssumption DEF ContentStep
<1>3. {v \in Uploads : unstored[v] = 0} \subseteq {v \in Uploads : unstored'[v] = 0}
  BY <1>2
<1>4. QED
  BY <1>1, <1>3 DEF Life!LifeNext, RowStep

\* The initial states are initial states of the life cycle.
LEMMA LifeInitially == Init => Life!LifeInit
<1> SUFFICES ASSUME Init PROVE Life!LifeInit
  OBVIOUS
<1>1. [u \in Uploads |-> PhaseOf(status[u])] = [u \in Uploads |-> "absent"]
  BY PhaseTable DEF Init
<1>2. [u \in Uploads |-> floor[u] + MaxBatches] = [u \in Uploads |-> MaxBatches]
  BY ConstantsAssumption DEF Init
<1>3. QED
  BY <1>1, <1>2 DEF Init, Life!LifeInit

\* The pipeline implements the life cycle: whatever goroutines, sweeps, crashes,
\* restarts and lost writes do, each row only takes the steps of UploadLifecycle. It is
\* stored only with all of its content on the network, paid for only while it runs and
\* within one plan per authorization, and reopened only by an operator's Retry.
THEOREM PipelineImplementsLifecycle ==
    ASSUME ~EagerRetry
    PROVE  Spec => ImplementsLifecycle
<1>1. Init => ContentKnown
  BY DEF Init, ContentKnown
<1>2. IInv /\ IInv' /\ ContentKnown /\ [Next]_vars => ContentKnown'
  BY ContentKept DEF IInv
<1>3. IInv /\ IInv' /\ ContentKnown /\ [Next]_vars => [Life!LifeNext]_(Life!lifeVars)
  BY LifeStep DEF IInv
<1>4. QED
  BY <1>1, <1>2, <1>3, LifeInitially, InvariantHolds, PTL
     DEF Spec, ImplementsLifecycle, Life!LifeSpec

-----------------------------------------------------------------------------
(* How one goroutine moves.                                                 *)

\* Only g moves, and it keeps its upload.
Alone(g) ==
    /\ job'[g].u = job[g].u /\ job'[g].tp = job[g].tp
    /\ \A h \in Workers \ {g} : pc'[h] = pc[h] /\ job'[h] = job[h]

\* The failure paths: the error is e or paidNoRetry, and an unrecorded payment is
\* never mistaken for an error that may be retried.
LEMMA FailMoves ==
    ASSUME TypeOK, NEW g \in Workers, NEW e, Fail(g, e) \/ PayFailed(g, e)
    PROVE  /\ Alone(g) /\ pc'[g] \in {"failed", "salvage"}
           /\ pc'[g] = "failed" => job'[g].err \in {e, "paidNoRetry"}
           /\ (pc'[g] = "failed" /\ job[g].unrec) => job'[g].err \in {"timeout", "paidNoRetry"}
<1>1. job[g] \in Job
  BY DEF TypeOK
<1>2. ASSUME Fail(g, e)
      PROVE  /\ Alone(g) /\ pc'[g] = "failed" /\ job'[g].err \in {e, "paidNoRetry"}
             /\ job[g].unrec => job'[g].err \in {"timeout", "paidNoRetry"}
  <2> DEFINE x == IF job[g].unrec /\ e # "timeout" THEN "paidNoRetry" ELSE e
  <2>1. Move(g, "failed", [job[g] EXCEPT !.err = x])
    BY <1>2 DEF Fail
  <2>2. /\ x \in {e, "paidNoRetry"}
        /\ job[g].unrec => x \in {"timeout", "paidNoRetry"}
    OBVIOUS
  <2> HIDE DEF x
  <2>3. /\ pc'[g] = "failed" /\ job'[g] = [job[g] EXCEPT !.err = x]
        /\ \A h \in Workers \ {g} : pc'[h] = pc[h] /\ job'[h] = job[h]
    BY <2>1 DEF Move, TypeOK
  <2>4. job'[g].u = job[g].u /\ job'[g].tp = job[g].tp /\ job'[g].err = x
    BY <1>1, <2>3 DEF Job
  <2>5. QED
    BY <2>2, <2>3, <2>4 DEF Alone
<1>3. ASSUME Goto(g, "salvage") PROVE Alone(g) /\ pc'[g] = "salvage"
  BY <1>3 DEF Goto, Move, TypeOK, Alone
<1>4. QED
  BY <1>2, <1>3 DEF PayFailed

\* The end of processOne and the plain changes of location.
LEMMA PlainMoves ==
    ASSUME TypeOK, NEW g \in Workers
    PROVE  /\ \A l : Goto(g, l) => Alone(g) /\ pc'[g] = l /\ job'[g] = job[g]
           /\ Leave(g) => Alone(g) /\ pc'[g] = "return"
<1>1. \A l : Goto(g, l) => Alone(g) /\ pc'[g] = l /\ job'[g] = job[g]
  BY DEF Goto, Move, Alone, TypeOK
<1>2. ASSUME Leave(g) PROVE Alone(g) /\ pc'[g] = "return"
  BY <1>2 DEF Leave, Move, AttemptOf, Alone, TypeOK
<1>3. QED
  BY <1>1, <1>2

\* A move with other local variables that belong to the same upload.
LEMMA UpdateMoves ==
    ASSUME TypeOK, NEW g \in Workers, NEW l, NEW j, Move(g, l, j),
           j.u = job[g].u, j.tp = job[g].tp
    PROVE  Alone(g) /\ pc'[g] = l /\ job'[g] = j
BY DEF Move, Alone, TypeOK

\* A confirmed payment: the next batch, or the finalize step.
LEMMA PaymentMoves ==
    ASSUME TypeOK, NEW g \in Workers, NEW unrecorded \in BOOLEAN, AfterPayment(g, unrecorded)
    PROVE  /\ Alone(g) /\ pc'[g] \in {"send", "finalize"}
           /\ job'[g].winners = job[g].winners + 1
           /\ job'[g].unrec = (job[g].unrec \/ unrecorded)
<1>1. job[g] \in Job
  BY DEF TypeOK
<1> DEFINE j == [job[g] EXCEPT !.winners = @ + 1, !.unrec = @ \/ unrecorded]
           l == IF j.winners < j.batches THEN "send" ELSE "finalize"
<1>2. /\ j.u = job[g].u /\ j.tp = job[g].tp /\ j.winners = job[g].winners + 1
      /\ j.unrec = (job[g].unrec \/ unrecorded)
  BY <1>1 DEF Job
<1>3. Move(g, l, j)
  BY DEF AfterPayment
<1>4. l \in {"send", "finalize"}
  OBVIOUS
<1> HIDE DEF j, l
<1>5. QED
  BY <1>2, <1>3, <1>4 DEF Move, Alone, TypeOK

-----------------------------------------------------------------------------
(* The source of a paid upload.                                             *)

\* At location l with the local variables j a goroutine that has a temp path finds it
\* in its row, has seen the file, and gives up only an upload without a payment.
SourceAt(l, j) ==
    (l \notin {"idle", "cleanup", "return"} /\ j.u \notin cancelled) =>
        /\ j.tp => tempPath[j.u]
        /\ l \in Sourced => file[j.u]
        /\ (l = "finish" /\ j.outcome = "abandon") => txns[j.u] = 0

\* A paid row points to its file, and the collector spares it once it has failed.
RowSource(u) ==
    (u \notin cancelled /\ txns[u] > 0) =>
        /\ status[u] \in {"queued", "processing", "failed"} => tempPath[u] /\ file[u]
        /\ status[u] = "failed" => detail[u] \in Recoverable

SourceInv ==
    /\ \A g \in Workers : SourceAt(pc[g], job[g])
    /\ \A u \in Uploads : RowSource(u)

\* What SourceInv reads of a row.
SameSource(v) ==
    /\ status'[v] = status[v] /\ detail'[v] = detail[v] /\ tempPath'[v] = tempPath[v]
    /\ file'[v] = file[v] /\ txns'[v] = txns[v]

\* A goroutine's step on its own row keeps SourceInv when its row does.
LEMMA SourceLocal ==
    ASSUME IInv, SourceInv, NEW g \in Workers, pc[g] # "idle", Alone(g), cancelled' = cancelled,
           \A v \in Uploads \ {job[g].u} : SameSource(v),
           job[g].u \notin cancelled => RowSource(job[g].u)' /\ SourceAt(pc[g], job[g])'
    PROVE  SourceInv'
<1>1. job[g].u \in Uploads /\ \A h \in Workers : job[h].u \in Uploads
  BY JobFields DEF IInv, TypeOK
<1>2. ASSUME NEW h \in Workers PROVE SourceAt(pc[h], job[h])'
  <2>1. CASE h = g
    BY <2>1 DEF SourceAt, Alone
  <2>2. CASE h # g
    <3>1. pc'[h] = pc[h] /\ job'[h] = job[h] /\ SourceAt(pc[h], job[h])
      BY <2>2 DEF Alone, SourceInv
    <3>2. pc[h] = "idle" \/ job[h].u \in cancelled \/ job[h].u # job[g].u
      BY <2>2 DEF IInv, SoleHolder
    <3>3. QED
      BY <1>1, <3>1, <3>2 DEF SourceAt, SameSource
  <2>3. QED
    BY <2>1, <2>2
<1>3. ASSUME NEW v \in Uploads PROVE RowSource(v)'
  <2>1. CASE v = job[g].u
    BY <2>1 DEF RowSource, Alone
  <2>2. CASE v # job[g].u
    BY <2>2 DEF SameSource, RowSource, SourceInv
  <2>3. QED
    BY <2>1, <2>2
<1>4. QED
  BY <1>2, <1>3 DEF SourceInv

\* A step that leaves the row, the file and the ledger alone, but for the detail of a
\* row in progress.
LEMMA SourceSilent ==
    ASSUME IInv, SourceInv, NEW g \in Workers, pc[g] \notin {"idle", "cleanup", "return"},
           Alone(g), UNCHANGED <<status, tempPath, file, txns, cancelled>>,
           \A v \in Uploads \ {job[g].u} : detail'[v] = detail[v],
           pc'[g] \in Sourced => pc[g] \in Sourced \/ file[job[g].u],
           (pc'[g] = "finish" /\ job'[g].outcome = "abandon") => txns[job[g].u] = 0
    PROVE  SourceInv'
<1> DEFINE u == job[g].u
<1>1. u \in Uploads /\ (u \notin cancelled => status[u] = "processing")
  BY HolderFacts DEF RowOfHolder
<1>2. ASSUME u \notin cancelled PROVE RowSource(u)' /\ SourceAt(pc[g], job[g])'
  <2>1. SourceAt(pc[g], job[g]) /\ RowSource(u)
    BY <1>1 DEF SourceInv
  <2>2. RowSource(u)'
    BY <1>1, <1>2, <2>1 DEF RowSource, Alone
  <2>3. SourceAt(pc[g], job[g])'
    BY <1>2, <2>1 DEF SourceAt, Alone
  <2>4. QED
    BY <2>2, <2>3
<1>3. \A v \in Uploads \ {u} : SameSource(v)
  BY DEF SameSource
<1>4. QED
  BY <1>2, <1>3, SourceLocal

\* The failure paths.
LEMMA SourceFails ==
    ASSUME IInv, SourceInv, NEW g \in Workers, pc[g] \notin {"idle", "cleanup", "return"},
           NEW e, Fail(g, e) \/ (pc[g] \in Paying /\ PayFailed(g, e)),
           UNCHANGED <<status, tempPath, detail, file, txns, cancelled>>
    PROVE  SourceInv'
<1>1. Alone(g) /\ pc'[g] \in {"failed", "salvage"} /\ (pc'[g] = "salvage" => pc[g] \in Sourced)
  <2>1. TypeOK
    BY DEF IInv
  <2>2. CASE Fail(g, e)
    BY <2>1, <2>2, FailMoves DEF Fail, Move, TypeOK
  <2>3. CASE pc[g] \in Paying /\ PayFailed(g, e)
    BY <2>1, <2>3, FailMoves DEF Sourced
  <2>4. QED
    BY <2>2, <2>3
<1>2. QED
  BY <1>1, SourceSilent DEF Sourced, Paying

\* The steps before the payment and the payment itself keep the source.
LEMMA SourcePay ==
    ASSUME IInv, SourceInv, NEW g \in Workers, Prepare(g) \/ Pay(g)
    PROVE  SourceInv'
<1> USE DEF rowVars, diskVars, netVars, procVars, envVars
<1>0. TypeOK
  BY DEF IInv
<1>1. CASE CheckOk(g) \/ ReceiptOk(g) \/ SendOk(g)
  <2>1. Alone(g) /\ (pc'[g] \in Sourced => pc[g] \in Sourced \/ file[job[g].u]) /\ pc'[g] # "finish"
    BY <1>0, <1>1, PlainMoves DEF CheckOk, ReceiptOk, SendOk, Sourced, Paying
  <2>2. /\ pc[g] \notin {"idle", "cleanup", "return"}
        /\ UNCHANGED <<status, tempPath, detail, file, txns, cancelled>>
    BY <1>1 DEF CheckOk, ReceiptOk, SendOk
  <2>3. QED
    BY <2>1, <2>2, SourceSilent
<1>2. CASE CheckFail(g) \/ CostFail(g) \/ RefuseReadError(g) \/ \E e \in ErrKind : PrepareFail(g, e)
  <2>1. /\ pc[g] \notin {"idle", "cleanup", "return"} /\ \E e : Fail(g, e)
        /\ UNCHANGED <<status, tempPath, detail, file, txns, cancelled>>
    BY <1>2 DEF CheckFail, CostFail, RefuseReadError, PrepareFail
  <2>2. QED
    BY <2>1, SourceFails
<1>3. CASE RefuseCheck(g)
  <2>1. /\ pc[g] = "refuse" /\ UNCHANGED <<status, tempPath, detail, file, txns, cancelled>>
        /\ Fail(g, "paidNoRetry") \/ Goto(g, "send")
    BY <1>3 DEF RefuseCheck
  <2>2. CASE Fail(g, "paidNoRetry")
    BY <2>1, <2>2, SourceFails
  <2>3. CASE Goto(g, "send")
    BY <1>0, <2>1, <2>3, PlainMoves, SourceSilent DEF Sourced, Paying
  <2>4. QED
    BY <2>1, <2>2, <2>3
<1>4. CASE \/ \E e \in ErrKind : SendFail(g, e)
           \/ SendLost(g) \/ ReceiptTimeout(g) \/ ReceiptReverted(g) \/ ReceiptCancelled(g)
  <2>1. /\ pc[g] \in {"send", "receipt"} /\ \E e : PayFailed(g, e)
        /\ UNCHANGED <<status, tempPath, detail, file, txns, cancelled>>
    BY <1>4 DEF SendFail, SendLost, ReceiptTimeout, ReceiptReverted, ReceiptCancelled
  <2>2. pc[g] \notin {"idle", "cleanup", "return"} /\ pc[g] \in Paying
    BY <2>1 DEF Paying
  <2>3. QED
    BY <2>1, <2>2, SourceFails
<1>5. ASSUME NEW kind, NEW n, PrepareOk(g, kind, n) PROVE SourceInv'
  <2> DEFINE j == [job[g] EXCEPT !.kind = kind, !.batches = n]
  <2>0. Move(g, "cost", j) /\ j.u = job[g].u /\ j.tp = job[g].tp
    BY <1>0, <1>5 DEF PrepareOk, TypeOK, Job
  <2> HIDE DEF j
  <2>1. Alone(g) /\ pc'[g] = "cost"
    BY <1>0, <2>0, UpdateMoves
  <2>2. pc[g] = "prepare" /\ UNCHANGED <<status, tempPath, detail, file, txns, cancelled>>
    BY <1>5 DEF PrepareOk
  <2>3. QED
    BY <2>1, <2>2, SourceSilent DEF Sourced
<1>6. ASSUME NEW clear \in BOOLEAN, CostOk(g, clear) PROVE SourceInv'
  <2>1. Alone(g) /\ pc'[g] \in {"refuse", "finalize"}
    BY <1>0, <1>6, PlainMoves DEF CostOk
  <2>2. pc[g] = "cost" /\ UNCHANGED <<status, tempPath, file, txns, cancelled>>
    BY <1>6 DEF CostOk
  <2>3. \A v \in Uploads \ {job[g].u} : detail'[v] = detail[v]
    BY <1>0, <1>6 DEF CostOk, SetRow, TypeOK
  <2>4. QED
    BY <2>1, <2>2, <2>3, SourceSilent DEF Sourced
<1>7. CASE CostBackoff(g)
  <2> DEFINE u == job[g].u
  <2>1. Alone(g) /\ pc'[g] = "return" /\ pc[g] = "cost"
    BY <1>0, <1>7, PlainMoves DEF CostBackoff
  <2>2. u \in Uploads /\ (u \notin cancelled => status[u] = "processing")
    BY <2>1, HolderFacts DEF RowOfHolder
  <2>3. /\ \A v \in Uploads \ {u} : status'[v] = status[v] /\ detail'[v] = detail[v]
        /\ u \notin cancelled => status'[u] = "queued"
        /\ UNCHANGED <<tempPath, file, txns, cancelled>>
    BY <1>0, <1>7, <2>2 DEF CostBackoff, SetStatus, SetRow, RowExists, TypeOK
  <2>4. u \notin cancelled => RowSource(u)' /\ SourceAt(pc[g], job[g])'
    BY <2>1, <2>2, <2>3 DEF SourceInv, RowSource, SourceAt, Alone
  <2>5. QED
    BY <2>1, <2>3, <2>4, SourceLocal DEF SameSource
<1>8. ASSUME RecordOk(g) \/ \E inserted \in BOOLEAN : RecordFail(g, inserted)
      PROVE  SourceInv'
  <2> DEFINE u == job[g].u
  <2>1. /\ Alone(g) /\ pc'[g] \in {"send", "finalize"} /\ pc[g] = "record"
    BY <1>0, <1>8, PaymentMoves DEF RecordOk, RecordFail
  <2>2. /\ u \in Uploads /\ job[g].tp /\ SourceAt(pc[g], job[g])
        /\ u \notin cancelled => status[u] = "processing"
    BY <2>1, HolderFacts DEF RowOfHolder, SourceInv, Sourced, Paying
  <2>3. /\ UNCHANGED <<status, detail, tempPath, file, cancelled>>
        /\ \A v \in Uploads \ {u} : txns'[v] = txns[v]
    BY <1>0, <1>8 DEF RecordOk, RecordFail, TypeOK
  <2>4. u \notin cancelled => tempPath'[u] /\ file'[u] /\ status'[u] = "processing"
    BY <2>1, <2>2, <2>3 DEF SourceAt, Sourced, Paying
  <2>5. u \notin cancelled => RowSource(u)' /\ SourceAt(pc[g], job[g])'
    BY <2>1, <2>4 DEF RowSource, SourceAt, Alone
  <2>6. QED
    BY <2>1, <2>3, <2>5, SourceLocal DEF SameSource
<1>9. ASSUME NEW n \in 0..Chunks, Salvage(g, n) PROVE SourceInv'
  <2>1. pc[g] = "salvage" /\ UNCHANGED <<status, tempPath, detail, file, txns, cancelled>>
    BY <1>9 DEF Salvage
  <2>2. CASE Fail(g, "paidNoRetry")
    BY <2>1, <2>2, SourceFails
  <2>3. CASE Move(g, "complete", [job[g] EXCEPT !.new = unstored[job[g].u] > 0])
    <3> DEFINE j == [job[g] EXCEPT !.new = unstored[job[g].u] > 0]
    <3>0. Move(g, "complete", j) /\ j.u = job[g].u /\ j.tp = job[g].tp
      BY <1>0, <2>3 DEF TypeOK, Job
    <3> HIDE DEF j
    <3>1. Alone(g) /\ pc'[g] = "complete"
      BY <1>0, <3>0, UpdateMoves
    <3>2. QED
      BY <2>1, <3>1, SourceSilent DEF Sourced, Paying
  <2>4. QED
    BY <1>9, <2>2, <2>3 DEF Salvage
<1>10. QED
  BY <1>1, <1>2, <1>3, <1>4, <1>5, <1>6, <1>7, <1>8, <1>9 DEF Prepare, Pay

\* Finalizing and completing keep the source until the row is marked stored.
LEMMA SourceFinalize ==
    ASSUME IInv, SourceInv, NEW g \in Workers, Finalize(g)
    PROVE  SourceInv'
<1> USE DEF rowVars, diskVars, netVars, procVars, envVars
<1>0. TypeOK
  BY DEF IInv
<1>1. CASE FinalizeOk(g)
  <2> DEFINE j == [job[g] EXCEPT !.new = unstored[job[g].u] > 0]
  <2>1. Move(g, "complete", j) /\ j.u = job[g].u /\ j.tp = job[g].tp
    BY <1>0, <1>1 DEF FinalizeOk, TypeOK, Job
  <2>2. pc[g] = "finalize" /\ UNCHANGED <<status, tempPath, detail, file, txns, cancelled>>
    BY <1>1 DEF FinalizeOk
  <2> HIDE DEF j
  <2>3. Alone(g) /\ pc'[g] = "complete"
    BY <1>0, <2>1, UpdateMoves
  <2>4. QED
    BY <2>2, <2>3, SourceSilent DEF Sourced, Paying
<1>2. ASSUME NEW n, FinalizePartial(g, n) PROVE SourceInv'
  <2>1. pc[g] = "finalize" /\ UNCHANGED <<status, tempPath, detail, file, txns, cancelled>>
    BY <1>2 DEF FinalizePartial
  <2>2. CASE FinalizeError(g, TRUE)
    BY <2>1, <2>2, SourceFails DEF FinalizeError
  <2>3. CASE Move(g, "finalize", [job[g] EXCEPT !.resume = @ + 1, !.lastFailed = n])
    <3> DEFINE j == [job[g] EXCEPT !.resume = @ + 1, !.lastFailed = n]
    <3>1. Move(g, "finalize", j) /\ j.u = job[g].u /\ j.tp = job[g].tp
      BY <1>0, <2>3 DEF TypeOK, Job
    <3> HIDE DEF j
    <3>2. Alone(g) /\ pc'[g] = "finalize"
      BY <1>0, <3>1, UpdateMoves
    <3>3. QED
      BY <2>1, <3>2, SourceSilent DEF Sourced, Paying
  <2>4. QED
    BY <1>2, <2>2, <2>3 DEF FinalizePartial
<1>3. ASSUME NEW n, NEW known, FinalizeFail(g, n, known) PROVE SourceInv'
  <2>1. /\ pc[g] = "finalize" /\ UNCHANGED <<status, tempPath, detail, file, txns, cancelled>>
        /\ \E e : Fail(g, e)
    BY <1>3 DEF FinalizeFail, FinalizeError
  <2>2. QED
    BY <2>1, SourceFails
<1>4. CASE CompleteFail(g)
  BY <1>4, SourceFails DEF CompleteFail
<1>5. CASE CompleteOk(g) \/ Cleanup(g)
  <2> DEFINE u == job[g].u
  <2>1. /\ Alone(g) /\ pc'[g] \in {"cleanup", "return"} /\ pc[g] \in {"complete", "cleanup"}
        /\ cancelled' = cancelled /\ txns' = txns
    BY <1>0, <1>5, PlainMoves DEF CompleteOk, Cleanup
  <2>2. u \in Uploads /\ (u \notin cancelled => RowOfHolder(g))
    BY <2>1, HolderFacts
  <2>3. \A v \in Uploads \ {u} : SameSource(v)
    <3>1. CASE CompleteOk(g)
      BY <1>0, <3>1 DEF CompleteOk, SetStatus, SetRow, TypeOK, SameSource
    <3>2. CASE Cleanup(g)
      BY <1>0, <3>2 DEF Cleanup, TypeOK, SameSource
    <3>3. QED
      BY <1>5, <3>1, <3>2
  <2>4. u \notin cancelled => status'[u] \in Stored \cup {"deleted"}
    <3>1. CASE Cleanup(g)
      BY <2>2, <3>1 DEF Cleanup, RowOfHolder
    <3>2. CASE CompleteOk(g)
      <4>1. u \notin cancelled => RowExists(u)
        BY <2>2, <3>2 DEF CompleteOk, RowOfHolder, RowExists
      <4>2. QED
        BY <1>0, <2>2, <3>2, <4>1 DEF CompleteOk, SetStatus, Stored, TypeOK
    <3>3. QED
      BY <1>5, <3>1, <3>2
  <2>5. u \notin cancelled => RowSource(u)' /\ SourceAt(pc[g], job[g])'
    BY <2>1, <2>4 DEF RowSource, SourceAt, Alone, Stored
  <2>6. QED
    BY <2>1, <2>3, <2>5, SourceLocal
<1>6. QED
  BY <1>1, <1>2, <1>3, <1>4, <1>5 DEF Finalize

\* What processOne does with an error: only an upload without a payment is abandoned,
\* as long as the ledger can be read.
LEMMA SourceResolve ==
    ASSUME IInv, SourceInv, "ledgerRead" \notin Faults, NEW g \in Workers, Resolve(g)
    PROVE  SourceInv'
<1> USE DEF rowVars, diskVars, netVars, procVars, envVars
<1>0. TypeOK
  BY DEF IInv
<1>1. ASSUME NEW paid \in BOOLEAN, Classify(g, paid) PROVE SourceInv'
  <2> DEFINE o == classifyFailure(job[g].err, paid, job[g].attempt < MaxRetries)
  <2>1. pc[g] = "failed" /\ UNCHANGED <<status, tempPath, detail, file, txns, cancelled>>
    BY <1>1 DEF Classify
  <2>2. ~paid => ~(txns[job[g].u] > 0)
    BY <1>1 DEF Classify, Fault
  <2>3. o = "abandon" => ~paid
    BY DEF classifyFailure
  <2>4. job[g].u \in Uploads /\ txns[job[g].u] \in Nat
    BY <1>0, JobFields DEF TypeOK
  <2> HIDE DEF o
  <2>5. o = "abandon" => txns[job[g].u] = 0
    BY <2>2, <2>3, <2>4
  <2>6. CASE Goto(g, "delay")
    BY <1>0, <2>1, <2>6, PlainMoves, SourceSilent DEF Sourced, Paying
  <2>7. CASE Move(g, "finish", [job[g] EXCEPT !.outcome = o])
    <3> DEFINE j == [job[g] EXCEPT !.outcome = o]
    <3>1. Move(g, "finish", j) /\ j.u = job[g].u /\ j.tp = job[g].tp /\ j.outcome = o
      BY <1>0, <2>7 DEF TypeOK, Job
    <3> HIDE DEF j
    <3>2. Alone(g) /\ pc'[g] = "finish" /\ job'[g].outcome = o
      BY <1>0, <3>1, UpdateMoves
    <3>3. QED
      BY <2>1, <2>5, <3>2, SourceSilent DEF Sourced, Paying
  <2>8. QED
    BY <1>1, <2>6, <2>7 DEF Classify, o
<1>2. CASE DelayElapsed(g) \/ DelayCancelled(g)
  <2>1. Alone(g) /\ pc'[g] \in {"check", "return"} /\ pc[g] = "delay"
    BY <1>0, <1>2, PlainMoves DEF DelayElapsed, DelayCancelled, Move, AttemptOf, Alone, TypeOK
  <2>2. UNCHANGED <<status, tempPath, detail, file, txns, cancelled>>
    BY <1>2 DEF DelayElapsed, DelayCancelled
  <2>3. QED
    BY <2>1, <2>2, SourceSilent DEF Sourced, Paying
<1>3. ASSUME NEW written \in BOOLEAN, FinishPreserve(g, written) PROVE SourceInv'
  <2> DEFINE u == job[g].u
  <2>1. /\ Alone(g) /\ pc'[g] = "return" /\ pc[g] = "finish"
        /\ UNCHANGED <<tempPath, file, txns, cancelled>>
    BY <1>0, <1>3, PlainMoves DEF FinishPreserve, Written
  <2>2. u \in Uploads /\ (u \notin cancelled => status[u] = "processing")
    BY <2>1, HolderFacts DEF RowOfHolder
  <2>3. \A v \in Uploads \ {u} : SameSource(v)
    BY <1>0, <1>3, <2>1 DEF FinishPreserve, SetStatus, SetRow, TypeOK, SameSource
  <2>4. u \notin cancelled => \/ status'[u] = "processing"
                              \/ status'[u] = "failed" /\ detail'[u] \in Recoverable
    BY <1>0, <1>3, <2>2 DEF FinishPreserve, SetStatus, SetRow, RowExists, DetailOf,
         Recoverable, TypeOK
  <2>5. u \notin cancelled => RowSource(u)' /\ SourceAt(pc[g], job[g])'
    BY <2>1, <2>2, <2>4 DEF SourceInv, RowSource, SourceAt, Alone
  <2>6. QED
    BY <2>1, <2>3, <2>5, SourceLocal
<1>4. ASSUME NEW written \in BOOLEAN, NEW transient \in BOOLEAN,
             FinishAbandon(g, written, transient)
      PROVE  SourceInv'
  <2> DEFINE u == job[g].u
  <2>1. /\ Alone(g) /\ pc'[g] = "return" /\ pc[g] = "finish" /\ job[g].outcome = "abandon"
        /\ UNCHANGED <<txns, cancelled>>
    BY <1>0, <1>4, PlainMoves DEF FinishAbandon, Written
  <2>2. u \in Uploads /\ (u \notin cancelled => txns[u] = 0)
    BY <1>0, <2>1, JobFields DEF SourceInv, SourceAt, TypeOK
  <2>3. \A v \in Uploads \ {u} : SameSource(v)
    BY <1>0, <1>4 DEF FinishAbandon, SetStatus, SetRow, TypeOK, SameSource
  <2>4. u \notin cancelled => RowSource(u)' /\ SourceAt(pc[g], job[g])'
    BY <2>1, <2>2 DEF RowSource, SourceAt, Alone
  <2>5. QED
    BY <2>1, <2>3, <2>4, SourceLocal
<1>5. CASE Return(g)
  <2>1. /\ pc'[g] = "idle" /\ \A h \in Workers \ {g} : pc'[h] = pc[h] /\ job'[h] = job[h]
        /\ UNCHANGED <<status, tempPath, detail, file, txns, cancelled>>
    BY <1>0, <1>5 DEF Return, Move, TypeOK
  <2>2. QED
    BY <2>1 DEF SourceInv, SourceAt, RowSource
<1>6. QED
  BY <1>1, <1>2, <1>3, <1>4, <1>5 DEF Resolve

\* A step of nobody's goroutine, when it keeps every row and what the goroutines use.
LEMMA SourceOutside ==
    ASSUME IInv, SourceInv, UNCHANGED <<pc, job, txns>>, cancelled \subseteq cancelled',
           \A v \in Uploads : RowSource(v)',
           \A v \in Uploads \ cancelled' :
              status[v] = "processing" => /\ tempPath[v] => tempPath'[v]
                                          /\ file[v] => file'[v]
    PROVE  SourceInv'
<1>1. ASSUME NEW g \in Workers PROVE SourceAt(pc[g], job[g])'
  <2> SUFFICES ASSUME pc[g] \notin {"idle", "cleanup", "return"}, job[g].u \notin cancelled'
               PROVE  SourceAt(pc[g], job[g])'
    BY DEF SourceAt
  <2>1. job[g].u \in Uploads /\ status[job[g].u] = "processing" /\ job[g].u \notin cancelled
    BY HolderFacts DEF RowOfHolder
  <2>2. SourceAt(pc[g], job[g])
    BY DEF SourceInv
  <2>3. QED
    BY <2>1, <2>2 DEF SourceAt
<1>2. QED
  BY <1>1 DEF SourceInv

\* Handlers, operators and the collector keep the source.
LEMMA SourceRequest ==
    ASSUME IInv, SourceInv, NEW u \in Uploads, Handler(u) \/ Operator(u) \/ GC(u)
    PROVE  SourceInv'
<1> USE DEF rowVars, diskVars, netVars, procVars, envVars
<1>0. TypeOK /\ PlanProgress /\ Lifecycle
  BY DEF IInv
<1>1. UNCHANGED <<pc, job, txns>> /\ cancelled \subseteq cancelled'
  BY DEF Handler, StageFile, AcceptUpload, RejectUpload, Operator, Cancel, Retry,
       ForceRetry, Delete, GC
<1>2. ASSUME \A v \in Uploads \ {u} : SameSource(v), RowSource(u)',
             u \notin cancelled' /\ status[u] = "processing" =>
                 (tempPath[u] => tempPath'[u]) /\ (file[u] => file'[u])
      PROVE  SourceInv'
  <2>1. \A v \in Uploads : RowSource(v)'
    BY <1>1, <1>2 DEF SourceInv, RowSource, SameSource
  <2>2. QED
    BY <1>1, <1>2, <2>1, SourceOutside DEF SameSource
<1>3. CASE Handler(u)
  <2>1. status[u] = "absent" /\ txns[u] = 0
    BY <1>0, <1>3 DEF Handler, StageFile, AcceptUpload, RejectUpload, Lifecycle, PlanProgress
  <2>2. \A v \in Uploads \ {u} : SameSource(v)
    BY <1>0, <1>3 DEF Handler, StageFile, AcceptUpload, RejectUpload, SameSource, TypeOK
  <2>3. QED
    BY <1>1, <1>2, <2>1, <2>2 DEF RowSource
<1>4. CASE GC(u)
  <2>1. /\ ~ActiveTempPath(u) /\ \A v \in Uploads \ {u} : SameSource(v)
        /\ UNCHANGED <<status, detail, tempPath, cancelled>>
    BY <1>0, <1>4 DEF GC, SameSource, TypeOK
  <2>2. RowSource(u)
    BY DEF SourceInv
  <2>3. u \notin cancelled /\ txns[u] > 0 => status[u] \notin {"queued", "processing", "failed"}
    BY <2>1, <2>2 DEF RowSource, ActiveTempPath, RowExists
  <2>4. status[u] = "processing" => ~tempPath[u]
    BY <2>1 DEF ActiveTempPath
  <2>5. RowSource(u)'
    BY <1>1, <2>1, <2>3 DEF RowSource
  <2>6. CASE u \notin cancelled /\ status[u] = "processing"
    \* a file without a path in its row: no goroutine with a source works on it
    <3>1. \A v \in Uploads : RowSource(v)'
      BY <1>1, <2>1, <2>5 DEF SourceInv, RowSource, SameSource
    <3>2. ASSUME NEW g \in Workers PROVE SourceAt(pc[g], job[g])'
      <4>1. SourceAt(pc[g], job[g]) /\ job[g].u \in Uploads /\ (pc[g] \in Sourced => job[g].tp)
        BY <1>0, JobFields DEF SourceInv, TypeOK, Lifecycle
      <4>2. QED
        BY <1>1, <2>1, <2>4, <2>6, <4>1 DEF SourceAt, SameSource
    <3>3. QED
      BY <3>1, <3>2 DEF SourceInv
  <2>7. QED
    BY <1>2, <2>1, <2>5, <2>6
<1>5. CASE Cancel(u)
  <2>1. u \in cancelled' /\ \A v \in Uploads \ {u} : SameSource(v)
    BY <1>0, <1>5 DEF Cancel, SetStatus, SameSource, TypeOK
  <2>2. QED
    BY <1>2, <2>1 DEF RowSource
<1>6. CASE Retry(u) \/ ForceRetry(u)
  <2>1. /\ status[u] \in {"failed", "queued"} /\ status'[u] = "queued"
        /\ \A v \in Uploads \ {u} : SameSource(v)
        /\ UNCHANGED <<tempPath, file, txns, cancelled>>
    BY <1>0, <1>6 DEF Retry, ForceRetry, SetStatus, RowExists, SameSource, TypeOK
  <2>2. RowSource(u)'
    BY <2>1 DEF SourceInv, RowSource
  <2>3. QED
    BY <1>2, <2>1, <2>2
<1>7. CASE Delete(u)
  <2>1. /\ status[u] \in Settled /\ txns[u] = 0 /\ \A v \in Uploads \ {u} : SameSource(v)
    BY <1>0, <1>7 DEF Delete, SetStatus, RowExists, SameSource, TypeOK
  <2>2. QED
    BY <1>1, <1>2, <2>1 DEF RowSource, Settled
<1>8. QED
  BY <1>3, <1>4, <1>5, <1>6, <1>7 DEF Operator

\* Claims, sweeps, crashes and restarts keep the source.
LEMMA SourceProcess ==
    ASSUME IInv, SourceInv,
           \/ Process \/ Time
           \/ \E g \in Workers, u \in Uploads : Dequeue(g, u) \/ DequeueLost(g, u)
    PROVE  SourceInv'
<1> USE DEF rowVars, diskVars, netVars, procVars, envVars
<1>0. TypeOK
  BY DEF IInv
<1>1. ASSUME \A v \in Uploads :
                /\ status'[v] = status[v] \/ (status[v] \in {"queued", "processing"}
                                              /\ status'[v] \in {"queued", "processing"}),
             UNCHANGED <<detail, tempPath, file, txns, cancelled>>
      PROVE  \A v \in Uploads : RowSource(v)'
  BY <1>1 DEF SourceInv, RowSource
<1>2. CASE Process \/ Time
  <2>1. /\ \A v \in Uploads : \/ status'[v] = status[v]
                              \/ status[v] = "processing" /\ status'[v] = "queued"
        /\ UNCHANGED <<detail, tempPath, file, txns, cancelled>>
        /\ UNCHANGED <<pc, job>> \/ \A g \in Workers : pc'[g] = "idle"
    BY <1>2 DEF Process, Sweep, StuckExcept, Shutdown, Exit, Crash, Start, Requeue, Time,
         CircuitCloses, Ages, BackoffElapses
  <2>2. \A v \in Uploads : RowSource(v)'
    BY <1>1, <2>1
  <2>3. CASE UNCHANGED <<pc, job>>
    BY <2>1, <2>2, <2>3, SourceOutside
  <2>4. CASE \A g \in Workers : pc'[g] = "idle"
    BY <2>2, <2>4 DEF SourceInv, SourceAt
  <2>5. QED
    BY <2>1, <2>3, <2>4
<1>3. ASSUME NEW g \in Workers, NEW u \in Uploads, Dequeue(g, u) \/ DequeueLost(g, u)
      PROVE  SourceInv'
  <2>1. /\ status[u] = "queued" /\ status' = [status EXCEPT ![u] = "processing"]
        /\ UNCHANGED <<detail, tempPath, file, txns, cancelled>>
    BY <1>3 DEF Dequeue, DequeueLost, CanDequeue, Eligible, ClaimRow
  <2>2. \A v \in Uploads : RowSource(v)'
    BY <1>0, <1>1, <2>1 DEF TypeOK
  <2>3. CASE DequeueLost(g, u)
    BY <2>1, <2>2, <2>3, SourceOutside DEF DequeueLost
  <2>4. CASE Dequeue(g, u)
    <3>1. /\ pc'[g] = "check" /\ job'[g].u = u /\ job'[g].tp = tempPath[u]
          /\ \A h \in Workers \ {g} : pc'[h] = pc[h] /\ job'[h] = job[h]
      BY <1>0, <2>4 DEF Dequeue, Move, AttemptOf, TypeOK
    <3>2. SourceAt(pc[g], job[g])'
      BY <2>1, <3>1 DEF SourceAt, Sourced, Paying
    <3>3. \A h \in Workers \ {g} : SourceAt(pc[h], job[h])'
      BY <2>1, <3>1 DEF SourceInv, SourceAt
    <3>4. QED
      BY <2>2, <3>2, <3>3 DEF SourceInv
  <2>5. QED
    BY <1>3, <2>3, <2>4
<1>4. QED
  BY <1>2, <1>3

\* The source of an upload with a recorded payment stays on disk, with the row pointing
\* to it, until the upload is stored or its owner cancels it: no failure path, sweep,
\* collector run, crash or restart takes it. Only a ledger that cannot be read when a
\* failure is classified could make processOne give a paid upload up.
THEOREM PaidSourceIsKept ==
    ASSUME ~EagerRetry, "ledgerRead" \notin Faults
    PROVE  Spec => []PaidSourceKept
<1>1. Init => SourceInv
  BY DEF Init, SourceInv, SourceAt, RowSource
<1>2. IInv /\ SourceInv /\ [Next]_vars => SourceInv'
  <2> SUFFICES ASSUME IInv, SourceInv, [Next]_vars PROVE SourceInv'
    OBVIOUS
  <2>1. CASE Next
    BY <2>1, SourcePay, SourceFinalize, SourceResolve, SourceRequest, SourceProcess DEF Next, Step
  <2>2. CASE UNCHANGED vars
    <3>1. /\ UNCHANGED <<pc, job, status, detail, tempPath, file, txns, cancelled>>
      BY <2>2 DEF vars, rowVars, diskVars, envVars
    <3>2. QED
      BY <3>1 DEF SourceInv, SourceAt, RowSource
  <2>3. QED
    BY <2>1, <2>2
<1>3. SourceInv => PaidSourceKept
  BY DEF SourceInv, RowSource, PaidSourceKept
<1>4. QED
  BY <1>1, <1>2, <1>3, InvariantHolds, PTL DEF Spec

-----------------------------------------------------------------------------
(* The payments put on the chain.                                           *)

\* The payments covered by the grants beyond the first plan: one plan for each
\* operator Retry, restart and lost outcome.
Granted == MaxBatches * (operatorRetries + restarts + lostWrites)

\* Where refuseRepayment would let a plan start, the payments made so far are covered:
\* one more plan stays within the bound.
Covered(u) == ~HasPaymentSinceQueued(u) => broadcast[u] <= Granted

\* Locations from which a goroutine can still come to refuseRepayment.
MayPay(l, j) ==
    \/ l \in {"check", "prepare", "cost", "refuse", "delay"}
    \/ l = "failed" /\ j.err \in {"transient", "finalizeFailed"}
    \/ l = "finalize" /\ j.kind = "wave" /\ ~j.unrec

\* What a goroutine at location l with the local variables j may have spent.
SpendAt(l, j) ==
    /\ (MayPay(l, j) /\ (j.tp \/ j.u \notin cancelled)) => Covered(j.u)
    /\ l = "send" => broadcast[j.u] <= Granted + j.winners
    /\ l \in {"receipt", "record"} => broadcast[j.u] <= Granted + j.winners + 1
    /\ (l = "return" /\ j.u \notin cancelled /\ status[j.u] = "processing") => Covered(j.u)

\* What has been spent on a row, and on a row that waits for its next goroutine.
RowSpend(u) ==
    /\ floor[u] <= txns[u]
    /\ broadcast[u] <= Granted + MaxBatches
    /\ status[u] = "absent" => broadcast[u] <= 0
    /\ (u \notin cancelled /\ status[u] = "queued") => Covered(u)
    /\ (u \notin cancelled /\ status[u] = "processing" /\ ~\E g \in Workers : Holds(g, u))
          => Covered(u)

SpendInv ==
    /\ \A g \in Workers : SpendAt(pc[g], job[g])
    /\ \A u \in Uploads : RowSpend(u)

grants == <<operatorRetries, restarts, lostWrites>>

\* The budget is a natural number.
LEMMA GrantedType == TypeOK => Granted \in Nat
<1>1. \A m, n \in Nat : m * n \in Nat
  OBVIOUS
<1>2. QED
  BY <1>1, ConstantsAssumption DEF TypeOK, Granted

\* It grows by one plan with each grant.
LEMMA GrantedGrows ==
    ASSUME TypeOK, TypeOK',
           operatorRetries' + restarts' + lostWrites' = operatorRetries + restarts + lostWrites + 1
    PROVE  Granted' = Granted + MaxBatches
<1>1. \A m, n \in Nat : m * (n + 1) = m * n + m
  OBVIOUS
<1>2. MaxBatches \in Nat /\ operatorRetries + restarts + lostWrites \in Nat
  BY ConstantsAssumption DEF TypeOK
<1>3. QED
  BY <1>1, <1>2 DEF Granted

\* The ledger and the chain as refuseRepayment and the budget see them.
SameMoney(v) ==
    /\ txns'[v] = txns[v] /\ floor'[v] = floor[v] /\ broadcast'[v] = broadcast[v]
    /\ RowExists(v)' <=> RowExists(v)

\* A new grant covers whatever was spent before it.
LEMMA SpendGranted ==
    ASSUME TypeOK, TypeOK', SpendInv, Granted' = Granted + MaxBatches, broadcast' = broadcast,
           \A v \in Uploads : floor'[v] <= txns'[v],
           \A v \in Uploads : status'[v] = "absent" => status[v] = "absent"
    PROVE  SpendInv'
<1>1. Granted \in Nat /\ MaxBatches \in Nat
  BY GrantedType, ConstantsAssumption
<1>2. \A v \in Uploads : broadcast'[v] \in Int /\ broadcast'[v] <= Granted'
  BY DEF SpendInv, RowSpend, TypeOK
<1>3. ASSUME NEW v \in Uploads PROVE RowSpend(v)'
  <2>1. broadcast'[v] <= Granted' + MaxBatches
    BY <1>1, <1>2
  <2>2. Covered(v)'
    BY <1>2 DEF Covered
  <2>3. status'[v] = "absent" => broadcast'[v] <= 0
    BY DEF SpendInv, RowSpend
  <2>4. QED
    BY <2>1, <2>2, <2>3 DEF RowSpend
<1>4. ASSUME NEW g \in Workers PROVE SpendAt(pc[g], job[g])'
  <2>1. job'[g].u \in Uploads /\ job'[g].winners \in Nat
    BY JobFields DEF TypeOK
  <2>2. broadcast'[job'[g].u] <= Granted' /\ broadcast'[job'[g].u] \in Int
    BY <1>2, <2>1
  <2>3. Covered(job[g].u)'
    BY <2>2 DEF Covered
  <2>4. /\ broadcast'[job'[g].u] <= Granted' + job'[g].winners
        /\ broadcast'[job'[g].u] <= Granted' + job'[g].winners + 1
    BY <1>1, <2>1, <2>2
  <2>5. QED
    BY <2>3, <2>4 DEF SpendAt
<1>5. QED
  BY <1>3, <1>4 DEF SpendInv

\* A goroutine's step on its own row, without a new grant. Only a goroutine with a
\* source touches the ledger or the chain.
LEMMA SpendLocal ==
    ASSUME IInv, SpendInv, NEW g \in Workers, pc[g] # "idle", pc'[g] # "idle", Alone(g),
           cancelled' = cancelled, UNCHANGED grants,
           \A v \in Uploads \ {job[g].u} : SameMoney(v) /\ status'[v] = status[v],
           job[g].tp \/ SameMoney(job[g].u),
           NEW u \in Uploads, u = job[g].u, status'[u] # "absent",
           floor'[u] <= txns'[u], broadcast'[u] <= Granted + MaxBatches,
           (u \notin cancelled /\ status'[u] = "queued") => Covered(u)',
           SpendAt(pc[g], job[g])'
    PROVE  SpendInv'
<1>1. TypeOK /\ Lifecycle /\ SoleHolder /\ \A h \in Workers : job[h].u \in Uploads
  BY JobFields DEF IInv, TypeOK
<1>2. Granted' = Granted
  BY DEF Granted, grants
<1>3. ASSUME NEW h \in Workers, h # g PROVE SpendAt(pc[h], job[h])'
  <2>1. pc'[h] = pc[h] /\ job'[h] = job[h] /\ SpendAt(pc[h], job[h])
    BY <1>3 DEF Alone, SpendInv
  <2>2. CASE job[h].u # u
    <3>1. SameMoney(job[h].u) /\ status'[job[h].u] = status[job[h].u]
      BY <1>1, <2>2
    <3>2. Covered(job[h].u) => Covered(job[h].u)'
      BY <1>2, <2>1, <3>1 DEF Covered, HasPaymentSinceQueued, SameMoney
    <3>3. QED
      BY <1>2, <2>1, <3>1, <3>2 DEF SpendAt, SameMoney
  <2>3. CASE job[h].u = u /\ pc[h] # "idle"
    <3>1. u \in cancelled /\ ~(job[g].tp /\ job[h].tp)
      BY <1>1, <1>3, <2>3 DEF SoleHolder
    <3>2. CASE ~job[h].tp
      <4>1. pc[h] \notin {"send", "receipt", "record"}
        BY <1>1, <3>2 DEF Lifecycle, Sourced, Paying
      <4>2. QED
        BY <2>1, <2>3, <3>1, <3>2, <4>1 DEF SpendAt
    <3>3. CASE SameMoney(u)
      <4>1. Covered(job[h].u) => Covered(job[h].u)'
        BY <1>2, <2>1, <2>3, <3>3 DEF Covered, HasPaymentSinceQueued, SameMoney
      <4>2. QED
        BY <1>2, <2>1, <2>3, <3>1, <3>3, <4>1 DEF SpendAt, SameMoney
    <3>4. QED
      BY <3>1, <3>2, <3>3
  <2>4. CASE pc[h] = "idle"
    BY <2>1, <2>4 DEF SpendAt, MayPay
  <2>5. QED
    BY <2>2, <2>3, <2>4
<1>4. ASSUME NEW v \in Uploads PROVE RowSpend(v)'
  <2>1. CASE v = u
    <3>1. Holds(g, v)'
      BY <2>1 DEF Holds, Alone
    <3>2. QED
      BY <1>2, <2>1, <3>1 DEF RowSpend
  <2>2. CASE v # u
    <3>1. SameMoney(v) /\ status'[v] = status[v] /\ RowSpend(v)
      BY <2>2 DEF SpendInv
    <3>2. Covered(v) => Covered(v)'
      BY <1>2, <3>1 DEF Covered, HasPaymentSinceQueued, SameMoney
    <3>3. (\E h \in Workers : Holds(h, v)) => \E h \in Workers : Holds(h, v)'
      BY <2>2 DEF Holds, Alone
    <3>4. QED
      BY <1>2, <3>1, <3>2, <3>3 DEF RowSpend, SameMoney
  <2>3. QED
    BY <2>1, <2>2
<1>5. QED
  BY <1>3, <1>4 DEF SpendInv

\* A step that leaves rows, ledger and chain alone: a goroutine that may come to
\* refuseRepayment could do so before.
LEMMA SpendSilent ==
    ASSUME IInv, SpendInv, NEW g \in Workers, pc[g] \notin {"idle", "cleanup", "return"},
           pc'[g] # "idle", Alone(g),
           UNCHANGED <<status, txns, floor, broadcast, cancelled, grants>>,
           MayPay(pc'[g], job'[g]) \/ pc'[g] = "return" => MayPay(pc[g], job[g]),
           pc'[g] \notin {"send", "receipt", "record"}
    PROVE  SpendInv'
<1> DEFINE u == job[g].u
<1>1. u \in Uploads /\ status[u] # "absent" /\ (u \notin cancelled => status[u] = "processing")
  BY HolderFacts DEF RowOfHolder
<1>2. SpendAt(pc[g], job[g]) /\ RowSpend(u)
  BY <1>1 DEF SpendInv
<1>3. Granted' = Granted
  BY DEF Granted, grants
<1>4. SpendAt(pc[g], job[g])'
  <2>1. Covered(u) => Covered(u)'
    BY <1>3 DEF Covered, HasPaymentSinceQueued, RowExists, Alone
  <2>2. QED
    BY <1>2, <2>1 DEF SpendAt, Alone
<1>5. \A v \in Uploads : SameMoney(v) /\ status'[v] = status[v]
  BY DEF SameMoney, RowExists
<1>6. (u \notin cancelled /\ status'[u] = "queued") => FALSE
  BY <1>1
<1>7. floor'[u] <= txns'[u] /\ broadcast'[u] <= Granted + MaxBatches /\ status'[u] # "absent"
  BY <1>1, <1>2 DEF RowSpend, Alone
<1> HIDE DEF u
<1>8. QED
  BY <1>1, <1>4, <1>5, <1>6, <1>7, SpendLocal DEF u

\* The failure paths: only an error that arises before a payment, or from the finalize
\* of a recorded wave payment, may be tried again.
LEMMA SpendFails ==
    ASSUME IInv, SpendInv, NEW g \in Workers, pc[g] \notin {"idle", "cleanup", "return"},
           NEW e, Fail(g, e) \/ PayFailed(g, e),
           UNCHANGED <<status, txns, floor, broadcast, cancelled, grants>>,
           e \in {"transient", "finalizeFailed"} => MayPay(pc[g], job[g]) \/ job[g].unrec
    PROVE  SpendInv'
<1>1. TypeOK
  BY DEF IInv
<1>2. /\ Alone(g) /\ pc'[g] \in {"failed", "salvage"}
      /\ pc'[g] = "failed" => job'[g].err \in {e, "paidNoRetry"}
      /\ (pc'[g] = "failed" /\ job[g].unrec) => job'[g].err \in {"timeout", "paidNoRetry"}
  BY <1>1, FailMoves
<1>3. MayPay(pc'[g], job'[g]) => MayPay(pc[g], job[g])
  BY <1>2 DEF MayPay
<1>4. QED
  BY <1>2, <1>3, SpendSilent

\* The steps up to refuseRepayment.
LEMMA SpendPrepare ==
    ASSUME IInv, SpendInv, NEW g \in Workers, Prepare(g)
    PROVE  SpendInv'
<1> USE DEF rowVars, diskVars, netVars, procVars, envVars, grants
<1>0. TypeOK
  BY DEF IInv
<1>1. CASE CheckOk(g)
  <2>1. Alone(g) /\ pc'[g] = "prepare" /\ pc[g] = "check"
    BY <1>0, <1>1, PlainMoves DEF CheckOk
  <2>2. QED
    BY <1>1, <2>1, SpendSilent DEF CheckOk, MayPay
<1>2. CASE CheckFail(g) \/ CostFail(g)
  <2>1. /\ pc[g] \in {"check", "cost"} /\ Fail(g, "plain")
        /\ UNCHANGED <<status, txns, floor, broadcast, cancelled, grants>>
    BY <1>2 DEF CheckFail, CostFail
  <2>2. QED
    BY <2>1, SpendFails
<1>3. ASSUME NEW e \in ErrKind, PrepareFail(g, e) PROVE SpendInv'
  <2>1. /\ pc[g] = "prepare" /\ Fail(g, e)
        /\ UNCHANGED <<status, txns, floor, broadcast, cancelled, grants>>
    BY <1>3 DEF PrepareFail
  <2>2. QED
    BY <2>1, SpendFails DEF MayPay
<1>4. ASSUME NEW kind, NEW n, PrepareOk(g, kind, n) PROVE SpendInv'
  <2> DEFINE j == [job[g] EXCEPT !.kind = kind, !.batches = n]
  <2>0. Move(g, "cost", j) /\ j.u = job[g].u /\ j.tp = job[g].tp
    BY <1>0, <1>4 DEF PrepareOk, TypeOK, Job
  <2> HIDE DEF j
  <2>1. Alone(g) /\ pc'[g] = "cost"
    BY <1>0, <2>0, UpdateMoves
  <2>2. pc[g] = "prepare" /\ UNCHANGED <<status, txns, floor, broadcast, cancelled, grants>>
    BY <1>4 DEF PrepareOk
  <2>3. QED
    BY <2>1, <2>2, SpendSilent DEF MayPay
<1>5. ASSUME NEW clear \in BOOLEAN, CostOk(g, clear) PROVE SpendInv'
  <2>1. Alone(g) /\ pc'[g] \in {"refuse", "finalize"}
    BY <1>0, <1>5, PlainMoves DEF CostOk
  <2>2. pc[g] = "cost" /\ UNCHANGED <<status, txns, floor, broadcast, cancelled, grants>>
    BY <1>5 DEF CostOk
  <2>3. QED
    BY <2>1, <2>2, SpendSilent DEF MayPay
<1>6. CASE CostBackoff(g)
  <2> DEFINE u == job[g].u
  <2>1. Alone(g) /\ pc'[g] = "return" /\ pc[g] = "cost"
    BY <1>0, <1>6, PlainMoves DEF CostBackoff
  <2>2. /\ u \in Uploads /\ status[u] # "absent" /\ job[g].tp
        /\ SpendAt(pc[g], job[g]) /\ RowSpend(u)
    BY <2>1, HolderFacts DEF SpendInv, Sourced
  <2>3. Covered(u)
    BY <2>1, <2>2 DEF SpendAt, MayPay
  <2>4. /\ \A v \in Uploads \ {u} : status'[v] = status[v]
        /\ status'[u] # "absent" /\ (RowExists(u)' <=> RowExists(u))
        /\ UNCHANGED <<txns, floor, broadcast, cancelled, grants>>
    BY <1>0, <1>6, <2>1, <2>2 DEF CostBackoff, SetStatus, RowExists, TypeOK, Alone
  <2>5. Granted' = Granted
    BY <2>4 DEF Granted
  <2>6. Covered(u)'
    BY <2>1, <2>3, <2>4, <2>5 DEF Covered, HasPaymentSinceQueued, Alone
  <2>7. SpendAt(pc[g], job[g])'
    BY <2>1, <2>6 DEF SpendAt, MayPay, Alone
  <2>8. \A v \in Uploads \ {u} : SameMoney(v) /\ status'[v] = status[v]
    BY <2>4 DEF SameMoney, RowExists
  <2>9. floor'[u] <= txns'[u] /\ broadcast'[u] <= Granted + MaxBatches /\ status'[u] # "absent"
    BY <2>1, <2>2, <2>4 DEF RowSpend, Alone
  <2> HIDE DEF u
  <2>10. QED
    BY <2>1, <2>2, <2>4, <2>6, <2>7, <2>8, <2>9, SpendLocal DEF u, Alone
<1>7. QED
  BY <1>1, <1>2, <1>3, <1>4, <1>5, <1>6 DEF Prepare

\* A payment step of a goroutine that has passed refuseRepayment: it stays within the
\* plan of its authorization.
LEMMA SpendOnPlan ==
    ASSUME IInv, SpendInv, NEW g \in Workers, pc[g] \in Paying, pc'[g] # "idle", Alone(g),
           UNCHANGED <<status, floor, cancelled, grants>>,
           \A v \in Uploads \ {job[g].u} : txns'[v] = txns[v] /\ broadcast'[v] = broadcast[v],
           NEW u \in Uploads, u = job[g].u, floor[u] <= txns'[u],
           broadcast'[u] <= Granted + MaxBatches, SpendAt(pc[g], job[g])'
    PROVE  SpendInv'
<1>1. pc[g] # "idle" /\ job[g].tp /\ status[u] # "absent"
  BY HolderFacts DEF Paying, Sourced
<1>2. u \notin cancelled => status[u] = "processing"
  BY HolderFacts DEF Paying, RowOfHolder
<1>3. \A v \in Uploads \ {job[g].u} : SameMoney(v) /\ status'[v] = status[v]
  BY DEF SameMoney, RowExists
<1>4. QED
  BY <1>1, <1>2, <1>3, SpendLocal

\* The payment steps: each stays within the plan that refuseRepayment let start.
LEMMA SpendPay ==
    ASSUME IInv, SpendInv, TypeOK', NEW g \in Workers, Pay(g)
    PROVE  SpendInv'
<1> USE DEF rowVars, diskVars, netVars, procVars, envVars, grants
<1> DEFINE u == job[g].u
<1>0. TypeOK
  BY DEF IInv
<1>a. pc[g] \in Paying /\ pc[g] \notin {"idle", "cleanup", "return"}
  BY DEF Pay, RefuseCheck, RefuseReadError, SendFail, SendOk, SendLost, ReceiptOk,
       ReceiptTimeout, ReceiptReverted, ReceiptCancelled, RecordOk, RecordFail, Salvage, Paying
<1>b. /\ u \in Uploads /\ job[g].tp /\ PlanAt(pc[g], job[g])
      /\ SpendAt(pc[g], job[g]) /\ RowSpend(u)
  BY <1>a, HolderFacts DEF SpendInv, Sourced
<1>c. /\ job[g].winners \in Nat /\ job[g].batches \in Nat /\ broadcast[u] \in Int
      /\ txns[u] \in Nat /\ floor[u] \in Nat /\ Granted \in Nat /\ MaxBatches \in Nat
  BY <1>0, <1>b, JobFields, GrantedType, ConstantsAssumption DEF TypeOK
<1>d. pc[g] \in {"send", "receipt", "record"} => job[g].winners + 1 <= MaxBatches
  BY <1>b, <1>c DEF PlanAt
<1>1. CASE RefuseCheck(g)
  <2>1. pc[g] = "refuse" /\ UNCHANGED <<status, txns, floor, broadcast, cancelled, grants>>
    BY <1>1 DEF RefuseCheck
  <2>2. CASE HasPaymentSinceQueued(u)
    BY <1>1, <1>a, <2>1, <2>2, SpendFails DEF RefuseCheck
  <2>3. CASE ~HasPaymentSinceQueued(u)
    <3>1. Alone(g) /\ pc'[g] = "send" /\ job'[g] = job[g]
      BY <1>0, <1>1, <2>3, PlainMoves DEF RefuseCheck
    <3>2. broadcast[u] <= Granted /\ job[g].winners = 0
      BY <1>b, <2>1, <2>3 DEF SpendAt, MayPay, Covered, PlanAt
    <3>3. Granted' = Granted
      BY <2>1 DEF Granted
    <3>4. SpendAt(pc[g], job[g])'
      BY <1>c, <2>1, <3>1, <3>2, <3>3 DEF SpendAt, MayPay
    <3>5. floor[u] <= txns'[u] /\ broadcast'[u] <= Granted + MaxBatches
      BY <1>b, <2>1, <3>1 DEF RowSpend
    <3> HIDE DEF u
    <3>6. QED
      BY <1>a, <1>b, <2>1, <3>1, <3>4, <3>5, SpendOnPlan DEF u
  <2>4. QED
    BY <2>2, <2>3
<1>2. CASE RefuseReadError(g)
  BY <1>2, <1>a, SpendFails DEF RefuseReadError
<1>3. CASE ReceiptTimeout(g) \/ ReceiptCancelled(g) \/ \E e \in ErrKind : SendFail(g, e)
  <2>1. /\ UNCHANGED <<status, txns, floor, broadcast, cancelled, grants>>
        /\ PayFailed(g, "plain") \/ PayFailed(g, "timeout")
    BY <1>3 DEF ReceiptTimeout, ReceiptCancelled, SendFail
  <2>2. QED
    BY <1>a, <2>1, SpendFails
<1>4. CASE SendOk(g) \/ SendLost(g) \/ ReceiptOk(g) \/ ReceiptReverted(g)
  <2>1. /\ UNCHANGED <<status, txns, floor, cancelled, grants>>
        /\ \A v \in Uploads \ {u} : broadcast'[v] = broadcast[v]
    BY <1>0, <1>4 DEF SendOk, SendLost, ReceiptOk, ReceiptReverted, TypeOK
  <2>2. Granted' = Granted
    BY <2>1 DEF Granted
  <2>3. /\ Alone(g) /\ broadcast'[u] <= Granted + job[g].winners + 1
        /\ \/ pc'[g] \in {"receipt", "record"} /\ job'[g] = job[g]
           \/ pc'[g] = "failed" /\ job'[g].err \in {"plain", "paidNoRetry"}
           \/ pc'[g] = "salvage"
    <3>1. CASE SendOk(g)
      BY <1>0, <1>b, <1>c, <3>1, PlainMoves DEF SendOk, SpendAt, TypeOK
    <3>2. CASE ReceiptOk(g)
      BY <1>0, <1>b, <1>c, <3>2, PlainMoves DEF ReceiptOk, SpendAt
    <3>3. CASE SendLost(g)
      <4>1. broadcast'[u] <= Granted + job[g].winners + 1
        BY <1>0, <1>b, <1>c, <3>3 DEF SendLost, SpendAt, TypeOK
      <4>2. QED
        BY <1>0, <3>3, <4>1, FailMoves DEF SendLost
    <3>4. CASE ReceiptReverted(g)
      <4>1. broadcast'[u] <= Granted + job[g].winners + 1
        BY <1>0, <1>b, <1>c, <3>4 DEF ReceiptReverted, SpendAt, TypeOK
      <4>2. QED
        BY <1>0, <3>4, <4>1, FailMoves DEF ReceiptReverted
    <3>5. QED
      BY <1>4, <3>1, <3>2, <3>3, <3>4
  <2>4. SpendAt(pc[g], job[g])'
    BY <2>2, <2>3 DEF SpendAt, MayPay, Alone
  <2>5. broadcast'[u] <= Granted + MaxBatches
    <3>1. pc[g] \in {"send", "receipt", "record"} /\ broadcast'[u] \in Int
      BY <1>4, <1>b DEF SendOk, SendLost, ReceiptOk, ReceiptReverted, TypeOK
    <3>2. QED
      BY <1>c, <1>d, <2>3, <3>1
  <2>6. floor[u] <= txns'[u]
    BY <1>b, <2>1, <2>3 DEF RowSpend, Alone
  <2> HIDE DEF u
  <2>7. QED
    BY <1>a, <1>b, <2>1, <2>3, <2>4, <2>5, <2>6, SpendOnPlan DEF u
<1>5. ASSUME RecordOk(g) \/ \E inserted \in BOOLEAN : RecordFail(g, inserted) PROVE SpendInv'
  <2>1. /\ UNCHANGED <<status, broadcast, floor, cancelled, grants>> /\ pc[g] = "record"
        /\ \A v \in Uploads \ {u} : txns'[v] = txns[v]
        /\ txns'[u] \in {txns[u], txns[u] + 1}
    BY <1>0, <1>5, <1>b DEF RecordOk, RecordFail, TypeOK
  <2>2. Granted' = Granted
    BY <2>1 DEF Granted
  <2>3. /\ Alone(g) /\ pc'[g] \in {"send", "finalize"} /\ job'[g].winners = job[g].winners + 1
        /\ job'[g].unrec \/ (RowExists(u) /\ txns'[u] = txns[u] + 1)
    <3>1. CASE RecordOk(g)
      BY <1>0, <1>b, <3>1, PaymentMoves DEF RecordOk, TypeOK
    <3>2. ASSUME NEW inserted \in BOOLEAN, RecordFail(g, inserted)
          PROVE  /\ Alone(g) /\ pc'[g] \in {"send", "finalize"}
                 /\ job'[g].winners = job[g].winners + 1 /\ job'[g].unrec
      BY <1>0, <3>2, PaymentMoves DEF RecordFail
    <3>3. QED
      BY <1>5, <3>1, <3>2
  <2>4. ~job'[g].unrec => Covered(u)'
    BY <1>b, <1>c, <2>1, <2>3 DEF Covered, HasPaymentSinceQueued, RowSpend, RowExists, Alone
  <2>5. broadcast[u] <= Granted + job[g].winners + 1
    BY <1>b, <2>1 DEF SpendAt
  <2>6. SpendAt(pc[g], job[g])'
    <3>1. broadcast'[job'[g].u] <= Granted' + job'[g].winners
      BY <1>c, <2>1, <2>2, <2>3, <2>5 DEF Alone
    <3>2. QED
      BY <2>3, <2>4, <3>1 DEF SpendAt, MayPay, Alone
  <2>7. floor[u] <= txns'[u] /\ broadcast'[u] <= Granted + MaxBatches
    BY <1>b, <1>c, <2>1, <2>3 DEF RowSpend, Alone
  <2> HIDE DEF u
  <2>8. QED
    BY <1>a, <1>b, <2>1, <2>3, <2>6, <2>7, SpendOnPlan DEF u
<1>6. ASSUME NEW n \in 0..Chunks, Salvage(g, n) PROVE SpendInv'
  <2>1. pc[g] = "salvage" /\ UNCHANGED <<status, txns, floor, broadcast, cancelled, grants>>
    BY <1>6 DEF Salvage
  <2>2. CASE Fail(g, "paidNoRetry")
    BY <1>a, <2>1, <2>2, SpendFails
  <2>3. CASE Move(g, "complete", [job[g] EXCEPT !.new = unstored[job[g].u] > 0])
    <3> DEFINE j == [job[g] EXCEPT !.new = unstored[job[g].u] > 0]
    <3>0. Move(g, "complete", j) /\ j.u = job[g].u /\ j.tp = job[g].tp
      BY <1>0, <2>3 DEF TypeOK, Job
    <3> HIDE DEF j
    <3>1. Alone(g) /\ pc'[g] = "complete"
      BY <1>0, <3>0, UpdateMoves
    <3>2. QED
      BY <1>a, <2>1, <3>1, SpendSilent DEF MayPay
  <2>4. QED
    BY <1>6, <2>2, <2>3 DEF Salvage
<1>7. QED
  BY <1>1, <1>2, <1>3, <1>4, <1>5, <1>6 DEF Pay

\* Finalizing: only the error of a recorded wave payment may lead back to the payment.
LEMMA SpendFinalize ==
    ASSUME IInv, SpendInv, NEW g \in Workers, Finalize(g)
    PROVE  SpendInv'
<1> USE DEF rowVars, diskVars, netVars, procVars, envVars, grants
<1>0. TypeOK
  BY DEF IInv
<1>1. CASE FinalizeOk(g)
  <2> DEFINE j == [job[g] EXCEPT !.new = unstored[job[g].u] > 0]
  <2>1. Move(g, "complete", j) /\ j.u = job[g].u /\ j.tp = job[g].tp
    BY <1>0, <1>1 DEF FinalizeOk, TypeOK, Job
  <2>2. pc[g] = "finalize" /\ UNCHANGED <<status, txns, floor, broadcast, cancelled, grants>>
    BY <1>1 DEF FinalizeOk
  <2> HIDE DEF j
  <2>3. Alone(g) /\ pc'[g] = "complete"
    BY <1>0, <2>1, UpdateMoves
  <2>4. QED
    BY <2>2, <2>3, SpendSilent DEF MayPay
<1>2. ASSUME pc[g] = "finalize", NEW known, FinalizeError(g, known),
             UNCHANGED <<status, txns, floor, broadcast, cancelled, grants>>
      PROVE  SpendInv'
  <2>1. CASE job[g].kind = "wave" /\ Fail(g, "finalizeFailed")
    BY <1>2, <2>1, SpendFails DEF MayPay
  <2>2. CASE Fail(g, "paidNoRetry")
    BY <1>2, <2>2, SpendFails
  <2>3. QED
    BY <1>2, <2>1, <2>2 DEF FinalizeError
<1>3. ASSUME NEW n, FinalizePartial(g, n) PROVE SpendInv'
  <2>1. pc[g] = "finalize" /\ UNCHANGED <<status, txns, floor, broadcast, cancelled, grants>>
    BY <1>3 DEF FinalizePartial
  <2>2. CASE FinalizeError(g, TRUE)
    BY <1>2, <2>1, <2>2
  <2>3. CASE Move(g, "finalize", [job[g] EXCEPT !.resume = @ + 1, !.lastFailed = n])
    <3> DEFINE j == [job[g] EXCEPT !.resume = @ + 1, !.lastFailed = n]
    <3>1. /\ Move(g, "finalize", j) /\ j.u = job[g].u /\ j.tp = job[g].tp
          /\ j.kind = job[g].kind /\ j.unrec = job[g].unrec
      BY <1>0, <2>3 DEF TypeOK, Job
    <3> HIDE DEF j
    <3>2. Alone(g) /\ pc'[g] = "finalize" /\ job'[g] = j
      BY <1>0, <3>1, UpdateMoves
    <3>3. QED
      BY <2>1, <3>1, <3>2, SpendSilent DEF MayPay
  <2>4. QED
    BY <1>3, <2>2, <2>3 DEF FinalizePartial
<1>4. ASSUME NEW n, NEW known, FinalizeFail(g, n, known) PROVE SpendInv'
  BY <1>2, <1>4 DEF FinalizeFail
<1>5. CASE CompleteFail(g)
  BY <1>5, SpendFails DEF CompleteFail
<1>6. CASE CompleteOk(g) \/ Cleanup(g)
  <2> DEFINE u == job[g].u
  <2>1. /\ Alone(g) /\ pc'[g] \in {"cleanup", "return"} /\ pc[g] \in {"complete", "cleanup"}
        /\ UNCHANGED <<txns, floor, broadcast, cancelled, grants>>
    BY <1>0, <1>6, PlainMoves DEF CompleteOk, Cleanup
  <2>2. /\ u \in Uploads /\ status[u] # "absent" /\ RowSpend(u)
        /\ u \notin cancelled => RowOfHolder(g)
    BY <2>1, HolderFacts DEF SpendInv
  <2>3. /\ \A v \in Uploads \ {u} : status'[v] = status[v]
        /\ status'[u] # "absent" /\ (RowExists(u)' <=> RowExists(u))
        /\ u \notin cancelled => status'[u] \in Stored \cup {"deleted"}
    <3>1. CASE Cleanup(g)
      BY <2>1, <2>2, <3>1 DEF Cleanup, RowOfHolder, RowExists, Alone
    <3>2. CASE CompleteOk(g)
      <4>1. u \notin cancelled => RowExists(u)
        BY <2>2, <3>2 DEF CompleteOk, RowOfHolder, RowExists
      <4>2. QED
        BY <1>0, <2>1, <2>2, <3>2, <4>1 DEF CompleteOk, SetStatus, Stored, RowExists, TypeOK, Alone
    <3>3. QED
      BY <1>6, <3>1, <3>2
  <2>4. SpendAt(pc[g], job[g])'
    BY <2>1, <2>3 DEF SpendAt, MayPay, Alone, Stored
  <2>5. /\ \A v \in Uploads \ {u} : SameMoney(v) /\ status'[v] = status[v]
        /\ u \notin cancelled => status'[u] # "queued"
        /\ floor'[u] <= txns'[u] /\ broadcast'[u] <= Granted + MaxBatches
    BY <2>1, <2>2, <2>3 DEF SameMoney, RowExists, Stored, RowSpend, Alone
  <2>6. SameMoney(u)
    BY <2>1, <2>3 DEF SameMoney, Alone
  <2> HIDE DEF u
  <2>7. QED
    BY <2>1, <2>2, <2>3, <2>4, <2>5, <2>6, SpendLocal DEF u, Alone
<1>7. QED
  BY <1>1, <1>3, <1>4, <1>5, <1>6 DEF Finalize

\* processOne after an error: a lost outcome is a grant, a written one closes the row.
LEMMA SpendResolve ==
    ASSUME IInv, SpendInv, TypeOK', NEW g \in Workers, Resolve(g)
    PROVE  SpendInv'
<1> USE DEF rowVars, diskVars, netVars, procVars, envVars, grants
<1>0. TypeOK
  BY DEF IInv
<1>1. ASSUME NEW paid \in BOOLEAN, Classify(g, paid) PROVE SpendInv'
  <2> DEFINE o == classifyFailure(job[g].err, paid, job[g].attempt < MaxRetries)
  <2>1. pc[g] = "failed" /\ UNCHANGED <<status, txns, floor, broadcast, cancelled, grants>>
    BY <1>1 DEF Classify
  <2>2. o = "retry" => job[g].err \in {"transient", "finalizeFailed"}
    BY DEF classifyFailure
  <2> HIDE DEF o
  <2>3. CASE o = "retry" /\ Goto(g, "delay")
    BY <1>0, <2>1, <2>2, <2>3, PlainMoves, SpendSilent DEF MayPay
  <2>4. CASE Move(g, "finish", [job[g] EXCEPT !.outcome = o])
    <3> DEFINE j == [job[g] EXCEPT !.outcome = o]
    <3>1. Move(g, "finish", j) /\ j.u = job[g].u /\ j.tp = job[g].tp
      BY <1>0, <2>4 DEF TypeOK, Job
    <3> HIDE DEF j
    <3>2. Alone(g) /\ pc'[g] = "finish"
      BY <1>0, <3>1, UpdateMoves
    <3>3. QED
      BY <2>1, <3>2, SpendSilent DEF MayPay
  <2>5. QED
    BY <1>1, <2>3, <2>4 DEF Classify, o
<1>2. CASE DelayElapsed(g) \/ DelayCancelled(g)
  <2>1. Alone(g) /\ pc'[g] \in {"check", "return"} /\ pc[g] = "delay"
    BY <1>0, <1>2, PlainMoves DEF DelayElapsed, DelayCancelled, Move, AttemptOf, Alone, TypeOK
  <2>2. UNCHANGED <<status, txns, floor, broadcast, cancelled, grants>>
    BY <1>2 DEF DelayElapsed, DelayCancelled
  <2>3. QED
    BY <2>1, <2>2, SpendSilent DEF MayPay
<1>3. ASSUME NEW written \in BOOLEAN, NEW transient \in BOOLEAN,
             FinishPreserve(g, written) \/ FinishAbandon(g, written, transient)
      PROVE  SpendInv'
  <2> DEFINE u == job[g].u
  <2>1. /\ Alone(g) /\ pc'[g] = "return" /\ pc[g] = "finish"
        /\ UNCHANGED <<txns, floor, broadcast, cancelled, operatorRetries, restarts>>
    BY <1>0, <1>3, PlainMoves DEF FinishPreserve, FinishAbandon, Written
  <2>2. /\ u \in Uploads /\ status[u] # "absent" /\ RowSpend(u)
        /\ u \notin cancelled => status[u] = "processing"
    BY <2>1, HolderFacts DEF SpendInv, RowOfHolder
  <2>3. CASE ~written
    <3>1. lostWrites' = lostWrites + 1 /\ status' = status
      BY <1>3, <2>3 DEF FinishPreserve, FinishAbandon, Written
    <3>2. operatorRetries' + restarts' + lostWrites' = operatorRetries + restarts + lostWrites + 1
      BY <1>0, <2>1, <3>1 DEF TypeOK
    <3>3. \A v \in Uploads : floor'[v] <= txns'[v]
      BY <2>1 DEF SpendInv, RowSpend
    <3>4. QED
      BY <1>0, <2>1, <3>1, <3>2, <3>3, GrantedGrows, SpendGranted
  <2>4. CASE written
    <3>1. SetStatus(u, "failed") /\ UNCHANGED grants
      BY <1>3, <2>1, <2>4 DEF FinishPreserve, FinishAbandon, Written
    <3>2. /\ \A v \in Uploads \ {u} : status'[v] = status[v]
          /\ status'[u] # "absent" /\ (RowExists(u)' <=> RowExists(u))
          /\ u \notin cancelled => status'[u] = "failed"
      BY <1>0, <2>1, <2>2, <3>1 DEF SetStatus, RowExists, TypeOK, Alone
    <3>3. SpendAt(pc[g], job[g])'
      BY <2>1, <3>2 DEF SpendAt, MayPay, Alone
    <3>4. /\ \A v \in Uploads \ {u} : SameMoney(v) /\ status'[v] = status[v]
          /\ u \notin cancelled => status'[u] # "queued"
          /\ floor'[u] <= txns'[u] /\ broadcast'[u] <= Granted + MaxBatches
      BY <2>1, <2>2, <3>2 DEF SameMoney, RowExists, RowSpend, Alone
    <3>5. SameMoney(u)
      BY <2>1, <3>2 DEF SameMoney, Alone
    <3> HIDE DEF u
    <3>6. QED
      BY <2>1, <2>2, <3>1, <3>2, <3>3, <3>4, <3>5, SpendLocal DEF u, Alone
  <2>5. QED
    BY <2>3, <2>4
<1>4. CASE Return(g)
  <2> DEFINE u == job[g].u
  <2>1. /\ pc[g] = "return" /\ pc'[g] = "idle"
        /\ \A h \in Workers \ {g} : pc'[h] = pc[h] /\ job'[h] = job[h]
        /\ UNCHANGED <<status, txns, floor, broadcast, cancelled, grants>>
    BY <1>0, <1>4 DEF Return, Move, TypeOK
  <2>2. Granted' = Granted /\ \A v \in Uploads : Covered(v)' <=> Covered(v)
    BY <2>1 DEF Granted, Covered, HasPaymentSinceQueued, RowExists
  <2>3. \A h \in Workers : job[h].u \in Uploads
    BY <1>0, JobFields DEF TypeOK
  <2>4. ASSUME NEW h \in Workers PROVE SpendAt(pc[h], job[h])'
    <3>1. CASE h = g
      BY <2>1, <3>1 DEF SpendAt, MayPay
    <3>2. CASE h # g
      <4>1. SpendAt(pc[h], job[h]) /\ pc'[h] = pc[h] /\ job'[h] = job[h]
        BY <2>1, <3>2 DEF SpendInv
      <4>2. Covered(job[h].u) => Covered(job[h].u)'
        BY <2>1, <2>2, <4>1 DEF Covered, HasPaymentSinceQueued, RowExists
      <4>3. QED
        BY <2>1, <2>2, <4>1, <4>2 DEF SpendAt
    <3>3. QED
      BY <3>1, <3>2
  <2>5. ASSUME NEW v \in Uploads PROVE RowSpend(v)'
    <3>1. RowSpend(v) /\ SpendAt(pc[g], job[g])
      BY DEF SpendInv
    <3>2. (v # u /\ \E h \in Workers : Holds(h, v)) => \E h \in Workers : Holds(h, v)'
      BY <2>1 DEF Holds
    <3>3. (v = u /\ v \notin cancelled /\ status[v] = "processing") => Covered(v)
      BY <2>1, <3>1 DEF SpendAt
    <3> HIDE DEF u
    <3>4. QED
      BY <2>1, <2>2, <3>1, <3>2, <3>3 DEF RowSpend
  <2>6. QED
    BY <2>4, <2>5 DEF SpendInv
<1>5. QED
  BY <1>1, <1>2, <1>3, <1>4 DEF Resolve

\* A step of nobody's goroutine, without a new grant: a row that comes into the queue
\* is covered.
LEMMA SpendOutside ==
    ASSUME TypeOK, SpendInv, UNCHANGED <<pc, job, txns, floor, broadcast, grants>>,
           cancelled \subseteq cancelled',
           \A v \in Uploads : HasPaymentSinceQueued(v) => HasPaymentSinceQueued(v)',
           \A v \in Uploads :
              /\ status'[v] = "absent" => status[v] = "absent"
              /\ (v \notin cancelled' /\ status'[v] = "queued") => Covered(v)
              /\ (v \notin cancelled' /\ status'[v] = "processing") => status[v] = "processing"
    PROVE  SpendInv'
<1>1. Granted' = Granted
  BY DEF Granted, grants
<1>2. \A v \in Uploads : Covered(v) => Covered(v)'
  BY <1>1 DEF Covered
<1>3. ASSUME NEW g \in Workers PROVE SpendAt(pc[g], job[g])'
  <2>1. SpendAt(pc[g], job[g]) /\ job[g].u \in Uploads
    BY JobFields DEF SpendInv, TypeOK
  <2>2. Covered(job[g].u) => Covered(job[g].u)'
    BY <1>1, <2>1 DEF Covered
  <2>3. QED
    BY <1>1, <2>1, <2>2 DEF SpendAt
<1>4. ASSUME NEW v \in Uploads PROVE RowSpend(v)'
  <2>1. RowSpend(v)
    BY DEF SpendInv
  <2>2. (\E h \in Workers : Holds(h, v)) => \E h \in Workers : Holds(h, v)'
    BY DEF Holds
  <2>3. QED
    BY <1>1, <1>2, <2>1, <2>2 DEF RowSpend
<1>5. QED
  BY <1>3, <1>4 DEF SpendInv

\* Handlers, operators and the collector.
LEMMA SpendRequest ==
    ASSUME IInv, SpendInv, TypeOK', NEW u \in Uploads, Handler(u) \/ Operator(u) \/ GC(u)
    PROVE  SpendInv'
<1> USE DEF rowVars, diskVars, netVars, procVars, envVars, grants
<1>0. TypeOK /\ Lifecycle /\ PlanProgress
  BY DEF IInv
<1>a. \A v \in Uploads : RowSpend(v)
  BY DEF SpendInv
<1>1. CASE StageFile(u) \/ RejectUpload(u) \/ GC(u) \/ ForceRetry(u)
  <2>1. UNCHANGED <<status, pc, job, txns, floor, broadcast, cancelled, grants>>
    BY <1>1 DEF StageFile, RejectUpload, GC, ForceRetry
  <2>2. QED
    BY <1>0, <1>a, <2>1, SpendOutside DEF HasPaymentSinceQueued, RowExists, RowSpend
<1>2. ASSUME NEW readBack \in BOOLEAN, AcceptUpload(u, readBack) PROVE SpendInv'
  <2>1. status[u] = "absent" /\ status' = [status EXCEPT ![u] = "queued"]
    BY <1>0, <1>2 DEF AcceptUpload, Lifecycle
  <2>2. UNCHANGED <<pc, job, txns, floor, broadcast, cancelled, grants>>
    BY <1>2 DEF AcceptUpload
  <2>3. Covered(u)
    <3>1. broadcast[u] <= 0 /\ broadcast[u] \in Int /\ Granted \in Nat
      BY <1>0, <1>a, <2>1, GrantedType DEF RowSpend, TypeOK
    <3>2. QED
      BY <3>1 DEF Covered
  <2>4. \A v \in Uploads : status'[v] = IF v = u THEN "queued" ELSE status[v]
    BY <1>0, <2>1 DEF TypeOK
  <2>5. QED
    BY <1>0, <1>a, <2>1, <2>2, <2>3, <2>4, SpendOutside DEF HasPaymentSinceQueued, RowExists, RowSpend
<1>3. CASE Cancel(u)
  <2>1. \A v \in Uploads : status'[v] = IF v = u THEN "failed" ELSE status[v]
    BY <1>0, <1>3 DEF Cancel, SetStatus, RowExists, TypeOK
  <2>2. /\ UNCHANGED <<pc, job, txns, floor, broadcast, grants>>
        /\ status[u] \in {"queued", "processing"} /\ cancelled \subseteq cancelled'
    BY <1>3 DEF Cancel
  <2>3. QED
    BY <1>0, <1>a, <2>1, <2>2, SpendOutside DEF HasPaymentSinceQueued, RowExists, RowSpend
<1>4. CASE Delete(u)
  <2>1. \A v \in Uploads : status'[v] = IF v = u THEN "deleted" ELSE status[v]
    BY <1>0, <1>4 DEF Delete, SetStatus, RowExists, Settled, TypeOK
  <2>2. /\ UNCHANGED <<pc, job, txns, floor, broadcast, cancelled, grants>>
        /\ txns[u] = 0 /\ floor[u] \in Nat
    BY <1>0, <1>4 DEF Delete, TypeOK
  <2>3. ~HasPaymentSinceQueued(u)
    BY <2>2 DEF HasPaymentSinceQueued
  <2>4. QED
    BY <1>0, <1>a, <2>1, <2>2, <2>3, SpendOutside DEF HasPaymentSinceQueued, RowExists, RowSpend
<1>5. CASE Retry(u)
  <2>1. \A v \in Uploads : status'[v] = "absent" => status[v] = "absent"
    BY <1>0, <1>5 DEF Retry, SetStatus, TypeOK
  <2>2. \A v \in Uploads : floor'[v] <= txns'[v]
    <3>1. \A v \in Uploads : floor'[v] = IF v = u THEN txns[u] ELSE floor[v]
      BY <1>0, <1>5 DEF Retry, TypeOK
    <3>2. txns' = txns /\ txns[u] <= txns[u]
      BY <1>0, <1>5 DEF Retry, TypeOK
    <3>3. QED
      BY <1>a, <3>1, <3>2 DEF RowSpend
  <2>3. operatorRetries' + restarts' + lostWrites' = operatorRetries + restarts + lostWrites + 1
    BY <1>0, <1>5 DEF Retry, TypeOK
  <2>4. broadcast' = broadcast
    BY <1>5 DEF Retry
  <2>5. QED
    BY <1>0, <2>1, <2>2, <2>3, <2>4, GrantedGrows, SpendGranted
<1>6. QED
  BY <1>1, <1>2, <1>3, <1>4, <1>5 DEF Handler, Operator

\* Claiming a row hands its cover to the goroutine.
LEMMA SpendDequeue ==
    ASSUME IInv, SpendInv, NEW g \in Workers, NEW u \in Uploads, Dequeue(g, u) \/ DequeueLost(g, u)
    PROVE  SpendInv'
<1> USE DEF rowVars, diskVars, netVars, procVars, envVars, grants
<1>0. TypeOK /\ Lifecycle
  BY DEF IInv
<1>1. /\ Eligible(u) /\ \A v \in Uploads : status'[v] = IF v = u THEN "processing" ELSE status[v]
      /\ UNCHANGED <<txns, floor, broadcast, cancelled, grants>>
  BY <1>0 DEF Dequeue, DequeueLost, CanDequeue, ClaimRow, TypeOK
<1>2. Granted' = Granted
  BY <1>1 DEF Granted
<1>3. \A v \in Uploads : Covered(v) <=> Covered(v)'
  BY <1>1, <1>2 DEF Covered, HasPaymentSinceQueued, RowExists, Eligible
<1>4. u \notin cancelled => Covered(u)
  BY <1>1 DEF Eligible, SpendInv, RowSpend
<1>5. /\ pc[g] = "idle"
      /\ \A h \in Workers \ {g} : pc'[h] = pc[h] /\ job'[h] = job[h]
      /\ \/ pc'[g] = "idle"
         \/ pc'[g] = "check" /\ job'[g].u = u /\ job'[g].tp = tempPath[u]
  BY <1>0 DEF Dequeue, DequeueLost, Move, AttemptOf, TypeOK
<1>6. SpendAt(pc[g], job[g])'
  <2>1. u \in cancelled => ~tempPath[u]
    BY <1>0 DEF Lifecycle
  <2>2. CASE pc'[g] = "idle"
    BY <2>2 DEF SpendAt, MayPay
  <2>3. CASE pc'[g] = "check" /\ job'[g].u = u /\ job'[g].tp = tempPath[u]
    <3>1. (job'[g].tp \/ u \notin cancelled) => Covered(u)'
      BY <1>3, <1>4, <2>1, <2>3
    <3>2. Covered(u)' <=> Covered(job[g].u)'
      BY <2>3 DEF Covered, HasPaymentSinceQueued, RowExists
    <3>3. QED
      BY <1>1, <2>3, <3>1, <3>2 DEF SpendAt
  <2>4. QED
    BY <1>5, <2>2, <2>3
<1>7. ASSUME NEW h \in Workers, h # g PROVE SpendAt(pc[h], job[h])'
  <2>1. SpendAt(pc[h], job[h]) /\ pc'[h] = pc[h] /\ job'[h] = job[h] /\ job[h].u \in Uploads
    BY <1>0, <1>5, <1>7, JobFields DEF SpendInv, TypeOK
  <2>2. pc[h] = "return" /\ job[h].u \notin cancelled => job[h].u # u
    BY <1>1, EligibleUnheld
  <2>3. Covered(job[h].u) => Covered(job[h].u)'
    BY <1>1, <1>2, <1>3, <2>1 DEF Covered, HasPaymentSinceQueued, RowExists
  <2>4. QED
    BY <1>1, <1>2, <2>1, <2>2, <2>3 DEF SpendAt
<1>8. ASSUME NEW v \in Uploads PROVE RowSpend(v)'
  <2>1. RowSpend(v)
    BY DEF SpendInv
  <2>2. (\E h \in Workers : Holds(h, v)) => \E h \in Workers : Holds(h, v)'
    BY <1>5 DEF Holds
  <2>3. QED
    BY <1>1, <1>2, <1>3, <1>4, <2>1, <2>2 DEF RowSpend
<1>9. QED
  BY <1>6, <1>7, <1>8 DEF SpendInv

\* The loops, crashes and restarts.
LEMMA SpendProcess ==
    ASSUME IInv, SpendInv, TypeOK', Process \/ Time
    PROVE  SpendInv'
<1> USE DEF rowVars, diskVars, netVars, procVars, envVars, grants
<1>0. TypeOK /\ Lifecycle /\ HoldersRegistered
  BY DEF IInv
<1>a. \A v \in Uploads : RowSpend(v)
  BY DEF SpendInv
<1>1. CASE Time \/ Exit
  <2>1. UNCHANGED <<status, pc, job, txns, floor, broadcast, cancelled, grants>>
    BY <1>1 DEF Time, CircuitCloses, Ages, BackoffElapses, Exit
  <2>2. QED
    BY <1>0, <1>a, <2>1, SpendOutside DEF HasPaymentSinceQueued, RowExists, RowSpend
<1>2. CASE Shutdown \/ Crash
  <2>1. /\ operatorRetries' + restarts' + lostWrites' = operatorRetries + restarts + lostWrites + 1
        /\ UNCHANGED <<status, txns, floor, broadcast>>
    <3>1. /\ restarts' = restarts + 1 /\ operatorRetries' = operatorRetries
          /\ lostWrites' = lostWrites /\ UNCHANGED <<status, txns, floor, broadcast>>
      BY <1>2 DEF Shutdown, Crash
    <3>2. restarts \in Nat /\ operatorRetries \in Nat /\ lostWrites \in Nat
      BY <1>0 DEF TypeOK
    <3>3. QED
      BY <3>1, <3>2
  <2>2. \A v \in Uploads : floor'[v] <= txns'[v]
    BY <1>a, <2>1 DEF RowSpend
  <2>3. QED
    BY <1>0, <2>1, <2>2, GrantedGrows, SpendGranted
<1>3. ASSUME Sweep \/ \E spared \in SUBSET Uploads : Start(spared) PROVE SpendInv'
  <2>1. /\ UNCHANGED <<pc, job, txns, floor, broadcast, cancelled, grants>>
        /\ \A v \in Uploads : \/ status'[v] = status[v]
                              \/ /\ status[v] = "processing" /\ status'[v] = "queued"
                                 /\ v \notin active \/ ~up
    BY <1>3 DEF Sweep, StuckExcept, Start, Requeue
  <2>2. ASSUME NEW v \in Uploads \ cancelled, status[v] = "processing", v \notin active \/ ~up
        PROVE  Covered(v)
    <3>1. ~\E g \in Workers : Holds(g, v)
      BY <1>0, <2>2 DEF Holds, HoldersRegistered, RowOfHolder, Lifecycle
    <3>2. QED
      BY <1>a, <2>2, <3>1 DEF RowSpend
  <2>3. \A v \in Uploads : HasPaymentSinceQueued(v) => HasPaymentSinceQueued(v)'
    BY <2>1 DEF HasPaymentSinceQueued, RowExists
  <2>4. \A v \in Uploads :
           /\ status'[v] = "absent" => status[v] = "absent"
           /\ (v \notin cancelled' /\ status'[v] = "queued") => Covered(v)
           /\ (v \notin cancelled' /\ status'[v] = "processing") => status[v] = "processing"
    BY <1>a, <2>1, <2>2 DEF RowSpend
  <2>5. QED
    BY <1>0, <2>1, <2>3, <2>4, SpendOutside
<1>4. QED
  BY <1>1, <1>2, <1>3 DEF Process

\* However often goroutines fail, writes are lost, the process dies or operators retry,
\* the payments on the chain for one upload stay within one plan for the upload itself
\* and one for each operator Retry, restart and lost outcome, for every kind of fault:
\* refuseRepayment and classifyFailure let no automatic re-run pay again.
THEOREM PaymentsAreAuthorized ==
    ASSUME ~EagerRetry
    PROVE  Spec => []PaymentsAuthorized
<1>1. Init => SpendInv
  <2> SUFFICES ASSUME Init PROVE SpendInv
    OBVIOUS
  <2>1. TypeOK
    BY TypeInit
  <2>2. Granted \in Nat /\ MaxBatches \in Nat
    BY <2>1, GrantedType, ConstantsAssumption
  <2>3. ASSUME NEW u \in Uploads PROVE RowSpend(u)
    <3>1. status[u] = "absent" /\ floor[u] = 0 /\ txns[u] = 0 /\ broadcast[u] = 0
      BY DEF Init
    <3>2. QED
      BY <2>2, <3>1 DEF RowSpend
  <2>4. \A g \in Workers : SpendAt(pc[g], job[g])
    BY DEF Init, SpendAt, MayPay
  <2>5. QED
    BY <2>3, <2>4 DEF SpendInv
<1>2. IInv /\ IInv' /\ SpendInv /\ [Next]_vars => SpendInv'
  <2> SUFFICES ASSUME IInv, TypeOK', SpendInv, [Next]_vars PROVE SpendInv'
    BY DEF IInv
  <2>1. CASE Next
    BY <2>1, SpendPrepare, SpendPay, SpendFinalize, SpendResolve, SpendRequest, SpendDequeue,
       SpendProcess DEF Next, Step
  <2>2. CASE UNCHANGED vars
    <3>1. UNCHANGED <<status, pc, job, txns, floor, broadcast, cancelled, grants>>
      BY <2>2 DEF vars, rowVars, diskVars, netVars, envVars, grants
    <3>2. QED
      BY <3>1, SpendOutside DEF IInv, HasPaymentSinceQueued, RowExists, SpendInv, RowSpend
  <2>3. QED
    BY <2>1, <2>2
<1>3. IInv /\ SpendInv => PaymentsAuthorized
  <2> SUFFICES ASSUME IInv, SpendInv, NEW u \in Uploads
               PROVE  broadcast[u] <= MaxBatches * (1 + operatorRetries + restarts + lostWrites)
    BY DEF PaymentsAuthorized
  <2>1. \A m, n \in Nat : m * (n + 1) = m * n + m
    OBVIOUS
  <2>2. /\ MaxBatches \in Nat /\ operatorRetries + restarts + lostWrites \in Nat
        /\ 1 + operatorRetries + restarts + lostWrites
              = (operatorRetries + restarts + lostWrites) + 1
    BY ConstantsAssumption DEF IInv, TypeOK
  <2>3. broadcast[u] <= Granted + MaxBatches
    BY DEF SpendInv, RowSpend
  <2>4. QED
    BY <2>1, <2>2, <2>3 DEF Granted
<1>4. QED
  BY <1>1, <1>2, <1>3, InvariantHolds, PTL DEF Spec

=============================================================================
