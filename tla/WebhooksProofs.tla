--------------------------- MODULE WebhooksProofs ---------------------------
(***************************************************************************)
(* That notifications are accounted for (Webhooks), for any number of      *)
(* events, webhooks, operators, faults and stops.                          *)
(*                                                                         *)
(* Two facts carry the proof.  An operator whose resend was answered 2xx   *)
(* has raised the receiver's count before the letter is resolved, so a     *)
(* letter closed by it was delivered.  And what may still reach the        *)
(* receiver is paid for in advance: a delivery that is still to come       *)
(* counts as one, and each resend under way as the one that `resent` was   *)
(* raised for.                                                             *)
(***************************************************************************)
EXTENDS Webhooks, FiniteSetTheorems, TLAPS

HookRow == [present : BOOLEAN, enabled : BOOLEAN, topics : SUBSET Topics]
Letter  == [st : {"none", "open", "resolved"}, day : 0 .. MaxDay]
Task    == [pc : {"none", "send", "exhausted", "record"}, n : 0 .. MaxAttempts]
Op      == [pc : {"idle", "send", "update"}, pair : Pairs, ok : BOOLEAN]

\* The database's part of the types, and the rest.
DbOK ==
    /\ hook \in [Hooks -> HookRow]
    /\ dlog \subseteq [ev : Events \cup {"test_ping"}, hk : Hooks, day : 0 .. MaxDay]
    /\ dead \in [Pairs -> Letter]
    /\ syslog \subseteq [ev : AuthEvents, hk : Hooks, day : 0 .. MaxDay]

ActorsOK ==
    /\ task \in [Pairs -> Task] /\ op \in [Operators -> Op]
    /\ ret \in {"idle", "delivery", "dead"} /\ day \in 0 .. MaxDay

HistoryOK ==
    /\ sent \subseteq Pairs /\ lost \subseteq Pairs /\ dismissed \subseteq Pairs
    /\ redelivered \subseteq Pairs
    /\ got \in [Pairs -> Nat] /\ replyLost \in [Pairs -> Nat] /\ resent \in [Pairs -> Nat]
    /\ configs \in 0 .. MaxConfigs /\ faults \in 0 .. MaxFaults /\ crashes \in 0 .. MaxCrashes

\* TypeOK, as the database, the actors and the history.
LEMMA TypeParts == TypeOK <=> DbOK /\ ActorsOK /\ HistoryOK
  BY DEF TypeOK, DbOK, ActorsOK, HistoryOK, HookRow, Letter, Task, Op

\* A resend that was answered 2xx has delivered its letter.
ResendInv ==
    \A o \in Operators :
        (op[o].pc = "update" /\ op[o].ok) => got[op[o].pair] > 0 /\ op[o].pair \in redelivered

\* The resends of a pair whose attempt is still to be made, and whether its delivery is.
Sending(p) == {o \in Operators : op[o].pc = "send" /\ op[o].pair = p}
Pending(p) == IF p \in sent /\ task[p].pc = "none" THEN 0 ELSE 1

CountInv ==
    \A p \in Pairs : got[p] + Pending(p) + Cardinality(Sending(p)) <= 1 + replyLost[p] + resent[p]

\* Only what was started is under way, and an attempt is one of the first three.
StartedInv ==
    \A p \in Pairs : /\ task[p].pc # "none" => p \in sent
                     /\ task[p].pc = "send" => task[p].n < MaxAttempts

WebhookInv == StartedInv /\ TypeOK /\ NoSilentLoss /\ ResolvedMeansHandled /\ ResendInv /\ CountInv

-----------------------------------------------------------------------------
(* Rows and records *)

\* The records of idle actors and of a missing webhook are well typed.
LEMMA RestTypes ==
    /\ NoHook \in HookRow /\ NoLetter \in Letter /\ NoLetter.st = "none"
    /\ NoTask \in Task /\ NoTask.pc = "none" /\ NoResend \in Op /\ NoResend.pc = "idle"
<1>1. (CHOOSE p \in Pairs : TRUE) \in Pairs
  <2>1. PICK e \in Events, h \in Hooks : TRUE  BY WebhookAssumption
  <2>2. <<e, h>> \in Pairs  BY DEF Pairs
  <2> QED  BY <2>2
<1> QED
  BY <1>1, WebhookAssumption
     DEF NoHook, NoLetter, NoTask, NoResend, HookRow, Letter, Task, Op, MaxAttempts

\* A row of the delivery log has its type.
LEMMA LogType ==
    ASSUME DbOK, ActorsOK, NEW h \in Hooks, NEW e \in Events \cup {"test_ping"}, logDelivery(h, e)
    PROVE  dlog' \subseteq [ev : Events \cup {"test_ping"}, hk : Hooks, day : 0 .. MaxDay]
  BY DEF DbOK, ActorsOK, logDelivery

\* A pair of an event and a webhook is made of them.
LEMMA PairParts == \A p \in Pairs : p[1] \in Events /\ p[2] \in Hooks /\ p = <<p[1], p[2]>>
  BY DEF Pairs

\* The resends under way are finitely many.
LEMMA SendingFinite == \A p : IsFiniteSet(Sending(p)) /\ Cardinality(Sending(p)) \in Nat
  BY WebhookAssumption, FS_Subset, FS_CardinalityType DEF Sending

\* The initial state.
LEMMA WebhookInit == Init => WebhookInv
<1> SUFFICES ASSUME Init PROVE WebhookInv  OBVIOUS
<1> USE DEF Init
<1>1. TypeOK
  <2>1. DbOK  BY RestTypes DEF DbOK
  <2>2. ActorsOK  BY RestTypes, WebhookAssumption DEF ActorsOK
  <2>3. HistoryOK  BY WebhookAssumption DEF HistoryOK
  <2> QED  BY <2>1, <2>2, <2>3, TypeParts
<1>2. NoSilentLoss  BY DEF NoSilentLoss
<1>3. ResolvedMeansHandled  BY RestTypes DEF ResolvedMeansHandled
<1>4. ResendInv  BY RestTypes DEF ResendInv
<1>5. ASSUME NEW p \in Pairs
      PROVE  got[p] + Pending(p) + Cardinality(Sending(p)) <= 1 + replyLost[p] + resent[p]
  <2>1. Sending(p) = {}  BY RestTypes DEF Sending
  <2>2. Cardinality(Sending(p)) = 0  BY <2>1, FS_EmptySet
  <2>3. Pending(p) = 1  BY DEF Pending
  <2> QED  BY <2>2, <2>3
<1>6. StartedInv  BY RestTypes DEF StartedInv
<1> QED  BY <1>1, <1>2, <1>3, <1>4, <1>5, <1>6 DEF WebhookInv, CountInv

\* The counts of a pair that a step leaves alone.
LEMMA CountKept ==
    ASSUME NEW p \in Pairs, got'[p] = got[p], Pending(p)' = Pending(p), Sending(p)' = Sending(p),
           replyLost'[p] = replyLost[p], resent'[p] = resent[p], CountInv
    PROVE  got'[p] + Pending(p)' + Cardinality(Sending(p)')  <= 1 + replyLost'[p] + resent'[p]
  BY DEF CountInv

\* A step that touches neither deliveries nor operators nor what they have done.
LEMMA AsideStep ==
    ASSUME WebhookInv, DbOK', ActorsOK', HistoryOK', UNCHANGED <<task, op, sent, got, dismissed,
               redelivered, replyLost, resent>>,
           lost \subseteq lost',
           \A p \in Pairs : /\ dead[p].st = "open" => dead'[p].st = "open" \/ p \in lost'
                            /\ dead'[p].st = "resolved" => dead[p].st = "resolved"
    PROVE  WebhookInv'
<1> USE DEF WebhookInv
<1>1. TypeOK'  BY TypeParts DEF TypeOK, DbOK, ActorsOK, HistoryOK, HookRow, Letter, Task, Op
<1>2. NoSilentLoss'
  <2>1. sent \subseteq Pairs  BY DEF TypeOK
  <2> QED  BY <2>1 DEF NoSilentLoss
<1>3. ResolvedMeansHandled'  BY DEF ResolvedMeansHandled
<1>4. ResendInv'  BY DEF ResendInv
<1>5. \A p \in Pairs : Sending(p)' = Sending(p) /\ Pending(p)' = Pending(p)
  BY DEF Sending, Pending
<1>6. CountInv'  BY <1>5 DEF CountInv
<1>7. StartedInv'  BY DEF StartedInv
<1> QED  BY <1>1, <1>2, <1>3, <1>4, <1>6, <1>7

-----------------------------------------------------------------------------
(* Configuration, retention, the clock *)

\* An administrator's changes of a webhook.
LEMMA ConfigSteps ==
    ASSUME WebhookInv, NEW h \in Hooks,
           \/ \E t \in TopicLists : \/ AdminCreateWebhook(h, t)
                                    \/ \E b \in BOOLEAN : AdminUpdateWebhook(h, b, t)
           \/ AdminDeleteWebhook(h) \/ AdminTestWebhook(h)
    PROVE  WebhookInv'
<1>0. DbOK /\ ActorsOK /\ HistoryOK  BY TypeParts DEF WebhookInv
<1>1. ASSUME NEW row \in HookRow, Configure(h, row)
      PROVE  hook' \in [Hooks -> HookRow] /\ configs' \in 0 .. MaxConfigs
  BY <1>0, <1>1, WebhookAssumption DEF Configure, DbOK, HistoryOK
<1>2. ASSUME NEW t \in TopicLists, AdminCreateWebhook(h, t)  PROVE WebhookInv'
  <2> DEFINE row == [present |-> TRUE, enabled |-> TRUE,
                     topics |-> IF t = {} THEN {"other"} ELSE t]
  <2>1. row \in HookRow  BY WebhookAssumption DEF HookRow, Topics
  <2>2. Configure(h, row)  BY <1>2 DEF AdminCreateWebhook, Create
  <2> HIDE DEF row
  <2>3. DbOK' /\ ActorsOK' /\ HistoryOK'
    BY <1>0, <1>1, <1>2, <2>1, <2>2 DEF AdminCreateWebhook, DbOK, ActorsOK, HistoryOK, histVars
  <2> QED  BY <1>2, <2>3, AsideStep DEF AdminCreateWebhook, histVars
<1>3. ASSUME NEW t \in TopicLists, NEW b \in BOOLEAN, AdminUpdateWebhook(h, b, t)
      PROVE  WebhookInv'
  <2> DEFINE row == [present |-> TRUE, enabled |-> b, topics |-> t]
  <2>1. row \in HookRow  BY WebhookAssumption DEF HookRow, Topics
  <2>2. Configure(h, row)  BY <1>3 DEF AdminUpdateWebhook
  <2> HIDE DEF row
  <2>3. DbOK' /\ ActorsOK' /\ HistoryOK'
    BY <1>0, <1>1, <1>3, <2>1, <2>2 DEF AdminUpdateWebhook, DbOK, ActorsOK, HistoryOK, histVars
  <2> QED  BY <1>3, <2>3, AsideStep DEF AdminUpdateWebhook, histVars
<1>4. CASE AdminDeleteWebhook(h)
  <2> USE DEF AdminDeleteWebhook, Delete
  <2>1. hook' \in [Hooks -> HookRow] /\ configs' \in 0 .. MaxConfigs
    BY <1>1, <1>4, RestTypes
  <2>2. dead' \in [Pairs -> Letter]  BY <1>0, <1>4, RestTypes DEF DbOK
  <2>3. DbOK'  BY <1>0, <1>4, <2>1, <2>2 DEF DbOK
  <2>4. ActorsOK' /\ HistoryOK'  BY <1>0, <1>4, <2>1 DEF ActorsOK, HistoryOK
  <2>5. \A p \in Pairs : /\ dead[p].st = "open" => dead'[p].st = "open" \/ p \in lost'
                         /\ dead'[p].st = "resolved" => dead[p].st = "resolved"
    BY <1>4, RestTypes
  <2> QED  BY <1>4, <2>3, <2>4, <2>5, AsideStep
<1>5. CASE AdminTestWebhook(h)
  <2> USE DEF AdminTestWebhook
  <2>1. DbOK'  BY <1>0, <1>5, LogType DEF DbOK
  <2>2. configs' \in 0 .. MaxConfigs  BY <1>0, <1>5, WebhookAssumption DEF HistoryOK
  <2>3. ActorsOK' /\ HistoryOK'  BY <1>0, <1>5, <2>2 DEF ActorsOK, HistoryOK, histVars
  <2> QED  BY <1>5, <2>1, <2>3, AsideStep DEF histVars
<1> QED  BY <1>2, <1>3, <1>4, <1>5

\* Retention of both logs and of dead letters, and the day that passes.
LEMMA RetentionSteps ==
    ASSUME WebhookInv, RetentionStep \/ RetentionFails \/ NextDay
    PROVE  WebhookInv'
<1>0. DbOK /\ ActorsOK /\ HistoryOK  BY TypeParts DEF WebhookInv
<1> USE DEF dbVars, histVars, bounds
<1>1. CASE CleanupOldLogs
  <2>1. DbOK' /\ ActorsOK' /\ HistoryOK'
    BY <1>0, <1>1 DEF CleanupOldLogs, DbOK, ActorsOK, HistoryOK
  <2> QED  BY <1>1, <2>1, AsideStep DEF CleanupOldLogs
<1>2. CASE PruneDeliveryLog
  <2>1. DbOK' /\ ActorsOK' /\ HistoryOK'
    BY <1>0, <1>2 DEF PruneDeliveryLog, DbOK, ActorsOK, HistoryOK
  <2> QED  BY <1>2, <2>1, AsideStep DEF PruneDeliveryLog
<1>3. CASE PruneDeadLetters
  <2>1. dead' \in [Pairs -> Letter]  BY <1>0, <1>3, RestTypes DEF PruneDeadLetters, DbOK
  <2>2. DbOK' /\ ActorsOK' /\ HistoryOK'
    BY <1>0, <1>3, <2>1 DEF PruneDeadLetters, DbOK, ActorsOK, HistoryOK
  <2>3. \A p \in Pairs : /\ dead[p].st = "open" => dead'[p].st = "open"
                         /\ dead'[p].st = "resolved" => dead[p].st = "resolved"
    BY <1>3, RestTypes DEF PruneDeadLetters
  <2> QED  BY <1>3, <2>2, <2>3, AsideStep DEF PruneDeadLetters
<1>4. CASE RetentionFails
  <2>1. faults' \in 0 .. MaxFaults  BY <1>0, <1>4, WebhookAssumption DEF RetentionFails, Fault, HistoryOK
  <2>2. DbOK' /\ ActorsOK' /\ HistoryOK'
    BY <1>0, <1>4, <2>1 DEF RetentionFails, DbOK, ActorsOK, HistoryOK
  <2> QED  BY <1>4, <2>2, AsideStep DEF RetentionFails
<1>5. CASE NextDay
  <2>1. day' \in 0 .. MaxDay  BY <1>0, <1>5, WebhookAssumption DEF NextDay, ActorsOK
  <2>2. DbOK' /\ ActorsOK' /\ HistoryOK'
    BY <1>0, <1>5, <2>1 DEF NextDay, DbOK, ActorsOK, HistoryOK
  <2> QED  BY <1>5, <2>2, AsideStep DEF NextDay
<1> QED  BY <1>1, <1>2, <1>3, <1>4, <1>5 DEF RetentionStep

-----------------------------------------------------------------------------
(* Deliveries *)

\* One goroutine per subscribed webhook.
LEMMA FireStep ==
    ASSUME WebhookInv, NEW e \in Events, FireEvent(e)
    PROVE  WebhookInv'
<1> DEFINE to == {<<e, h>> : h \in {k \in GetEnabled : webhookSubscribedTo(k, e)}}
<1> USE DEF WebhookInv, dbVars, bounds
<1>0. DbOK /\ ActorsOK /\ HistoryOK  BY TypeParts
<1>1. to \subseteq Pairs /\ \A p \in to : p \notin sent
  BY DEF FireEvent, GetEnabled, Pairs
<1>2. /\ task' = [p \in Pairs |-> IF p \in to THEN [pc |-> "send", n |-> 0] ELSE task[p]]
      /\ sent' = sent \cup to
  BY DEF FireEvent
<1> HIDE DEF to
<1>3. UNCHANGED <<hook, dlog, dead, syslog, op, ret, day, got, lost, dismissed, redelivered,
                  replyLost, resent, configs, faults, crashes>>
  BY DEF FireEvent
<1>4. task' \in [Pairs -> Task] /\ \A p \in to : task'[p].pc = "send"
  BY <1>0, <1>1, <1>2, WebhookAssumption DEF ActorsOK, Task, MaxAttempts
<1>5. DbOK' /\ ActorsOK' /\ HistoryOK'
  BY <1>0, <1>1, <1>2, <1>3, <1>4 DEF DbOK, ActorsOK, HistoryOK
<1>6. TypeOK'  BY <1>5, TypeParts DEF TypeOK, DbOK, ActorsOK, HistoryOK, HookRow, Letter, Task, Op
<1>7. \A p \in Pairs : p \notin to => task'[p] = task[p]  BY <1>2
<1>8. NoSilentLoss'
  <2> SUFFICES ASSUME NEW p \in sent'
               PROVE  \/ task'[p].pc # "none" \/ got'[p] > 0 \/ dead'[p].st = "open"
                      \/ p \in dismissed' \cup lost'
    BY DEF NoSilentLoss
  <2>1. CASE p \in to  BY <1>4, <2>1
  <2>2. CASE p \notin to
    <3>1. p \in sent /\ p \in Pairs  BY <1>0, <1>2, <2>2 DEF HistoryOK
    <3> QED  BY <1>3, <1>7, <2>2, <3>1 DEF NoSilentLoss
  <2> QED  BY <2>1, <2>2
<1>9. ResolvedMeansHandled'  BY <1>3 DEF ResolvedMeansHandled
<1>10. ResendInv'  BY <1>3 DEF ResendInv
<1>11. \A p \in Pairs : Sending(p)' = Sending(p) /\ Pending(p)' = Pending(p)
  BY <1>1, <1>2, <1>3, <1>4, <1>7 DEF Sending, Pending
<1>12. CountInv'  BY <1>3, <1>11 DEF CountInv
<1>13. StartedInv'
  <2>1. \A p \in to : task'[p].n < MaxAttempts  BY <1>1, <1>2 DEF MaxAttempts
  <2> QED  BY <1>2, <1>7, <2>1 DEF StartedInv
<1> QED  BY <1>6, <1>8, <1>9, <1>10, <1>12, <1>13

\* A step of one delivery: its task moves, and its receiver may get it.
LEMMA TaskStep ==
    ASSUME WebhookInv, DbOK', HistoryOK', NEW p \in Pairs, NEW t \in Task, task[p].pc # "none",
           t.pc = "send" => t.n < MaxAttempts,
           task' = [task EXCEPT ![p] = t], UNCHANGED <<op, ret, day, sent, dismissed, redelivered, resent>>,
           \A q \in Pairs : q # p => /\ got'[q] = got[q] /\ replyLost'[q] = replyLost[q]
                                     /\ dead'[q] = dead[q],
           lost \subseteq lost', got'[p] >= got[p], dead'[p].st = "resolved" => dead[p].st = "resolved",
           \/ t.pc # "none" \/ got'[p] > 0 \/ dead'[p].st = "open" \/ p \in lost',
           got'[p] - got[p] + (IF t.pc = "none" THEN 0 ELSE 1) <= 1 + replyLost'[p] - replyLost[p]
    PROVE  WebhookInv'
<1> USE DEF WebhookInv
<1>0. DbOK /\ ActorsOK /\ HistoryOK  BY TypeParts
<1>1. task' \in [Pairs -> Task] /\ task'[p] = t /\ \A q \in Pairs : q # p => task'[q] = task[q]
  BY <1>0 DEF ActorsOK
<1>2. ActorsOK'  BY <1>0, <1>1 DEF ActorsOK
<1>3. TypeOK'  BY <1>2, TypeParts DEF TypeOK, DbOK, ActorsOK, HistoryOK, HookRow, Letter, Task, Op
<1>4. NoSilentLoss'
  <2> SUFFICES ASSUME NEW q \in sent
               PROVE  \/ task'[q].pc # "none" \/ got'[q] > 0 \/ dead'[q].st = "open"
                      \/ q \in dismissed' \cup lost'
    BY DEF NoSilentLoss
  <2>1. CASE q = p  BY <1>1, <2>1
  <2>2. CASE q # p
    <3>1. q \in Pairs  BY <1>0 DEF HistoryOK
    <3> QED  BY <1>1, <2>2, <3>1 DEF NoSilentLoss
  <2> QED  BY <2>1, <2>2
<1>5. ResolvedMeansHandled'  BY DEF ResolvedMeansHandled
<1>6. ResendInv'
  <2>1. \A q \in Pairs : got[q] > 0 => got'[q] > 0
    BY <1>0 DEF HistoryOK
  <2>2. \A o \in Operators : op[o].pair \in Pairs  BY <1>0 DEF ActorsOK, Op
  <2> QED  BY <2>1, <2>2 DEF ResendInv
<1>7. \A q \in Pairs : Sending(q)' = Sending(q)  BY DEF Sending
<1>8. ASSUME NEW q \in Pairs
      PROVE  got'[q] + Pending(q)' + Cardinality(Sending(q)') <= 1 + replyLost'[q] + resent'[q]
  <2>1. CASE q = p
    <3>1. Pending(p) = 1  BY DEF Pending
    <3>2. p \in sent  BY DEF StartedInv
    <3>3. Pending(p)' = IF t.pc = "none" THEN 0 ELSE 1  BY <1>1, <3>2 DEF Pending
    <3>4. got[p] + 1 + Cardinality(Sending(p)) <= 1 + replyLost[p] + resent[p]
      BY <3>1 DEF CountInv
    <3>5. /\ got[p] \in Nat /\ got'[p] \in Nat /\ replyLost[p] \in Nat /\ replyLost'[p] \in Nat
          /\ resent[p] \in Nat /\ Cardinality(Sending(p)) \in Nat
      BY <1>0, SendingFinite DEF HistoryOK
    <3> QED  BY <1>7, <2>1, <3>3, <3>4, <3>5
  <2>2. CASE q # p
    <3>1. Pending(q)' = Pending(q)  BY <1>1, <2>2 DEF Pending
    <3> QED  BY <1>7, <2>2, <3>1 DEF CountInv
  <2> QED  BY <2>1, <2>2
<1>9. CountInv'  BY <1>8 DEF CountInv
<1>10. StartedInv'  BY <1>1 DEF StartedInv
<1> QED  BY <1>3, <1>4, <1>5, <1>6, <1>9, <1>10

\* A failed attempt leaves the delivery under way.
LEMMA FailureTask ==
    ASSUME ActorsOK, NEW p \in Pairs, task[p].pc = "send", task[p].n < MaxAttempts, AfterFailure(p)
    PROVE  \E t \in Task : /\ t.pc # "none" /\ (t.pc = "send" => t.n < MaxAttempts)
                           /\ task' = [task EXCEPT ![p] = t]
<1> DEFINE n == task[p].n + 1
           t == [pc |-> IF n < MaxAttempts THEN "send" ELSE "exhausted", n |-> n]
<1>1. n \in 0 .. MaxAttempts  BY DEF ActorsOK, Task, MaxAttempts
<1>2. t \in Task /\ t.pc # "none" /\ (t.pc = "send" => t.n < MaxAttempts)  BY <1>1 DEF Task
<1>3. task' = [task EXCEPT ![p] = t]  BY DEF AfterFailure
<1> QED  BY <1>2, <1>3

\* The attempts of a delivery, with and without their reply.
LEMMA DeliverySteps ==
    ASSUME WebhookInv, NEW p \in Pairs, DeliverStep(p) \/ DeliverReplyLost(p)
    PROVE  WebhookInv'
<1> USE DEF WebhookInv, dbVars, histVars, bounds
<1>0. DbOK /\ ActorsOK /\ HistoryOK /\ p[1] \in Events /\ p[2] \in Hooks
  BY TypeParts, PairParts
<1>a. /\ got \in [Pairs -> Nat] /\ got[p] \in Nat
      /\ replyLost \in [Pairs -> Nat] /\ replyLost[p] \in Nat
  BY <1>0 DEF HistoryOK
<1>1. CASE DeliverOk(p)
  <2> USE DEF DeliverOk
  <2>1. DbOK'  BY <1>0, <1>1, LogType DEF DbOK
  <2>2. /\ got' \in [Pairs -> Nat] /\ got'[p] = got[p] + 1
        /\ \A q \in Pairs : q # p => got'[q] = got[q]
    BY <1>1, <1>a
  <2>3. HistoryOK'  BY <1>0, <1>1, <2>2 DEF HistoryOK
  <2>4. /\ UNCHANGED <<op, ret, day, sent, dismissed, redelivered, resent, lost, replyLost, dead>>
        /\ task[p].pc # "none" /\ task' = [task EXCEPT ![p] = NoTask]
    BY <1>1
  <2>5. /\ got'[p] >= got[p] /\ got'[p] > 0
        /\ got'[p] - got[p] + (IF NoTask.pc = "none" THEN 0 ELSE 1) <= 1 + replyLost'[p] - replyLost[p]
    BY <1>a, <2>2, <2>4, RestTypes
  <2> QED  BY <2>1, <2>2, <2>3, <2>4, <2>5, RestTypes, TaskStep
<1>2. CASE DeliverFails(p)
  <2> USE DEF DeliverFails
  <2>1. PICK t \in Task : /\ t.pc # "none" /\ (t.pc = "send" => t.n < MaxAttempts)
                          /\ task' = [task EXCEPT ![p] = t]
    BY <1>0, <1>2, FailureTask DEF StartedInv, DeliverFails, DeliverReplyLost
  <2>2. DbOK' /\ HistoryOK'  BY <1>0, <1>2 DEF DbOK, HistoryOK
  <2>3. UNCHANGED <<op, ret, day, histVars, dead>> /\ task[p].pc # "none"  BY <1>2
  <2>4. got'[p] >= got[p] /\ got'[p] - got[p] + 1 <= 1 + replyLost'[p] - replyLost[p]
    BY <1>a, <2>3
  <2> QED  BY <2>1, <2>2, <2>3, <2>4, TaskStep
<1>3. CASE DeliverReplyLost(p)
  <2> USE DEF DeliverReplyLost
  <2>1. PICK t \in Task : /\ t.pc # "none" /\ (t.pc = "send" => t.n < MaxAttempts)
                          /\ task' = [task EXCEPT ![p] = t]
    BY <1>0, <1>3, FailureTask DEF StartedInv, DeliverFails, DeliverReplyLost
  <2>2. DbOK'  BY <1>0, <1>3 DEF DbOK
  <2>3. /\ got' \in [Pairs -> Nat] /\ got'[p] = got[p] + 1
        /\ replyLost' \in [Pairs -> Nat] /\ replyLost'[p] = replyLost[p] + 1
        /\ \A q \in Pairs : q # p => got'[q] = got[q] /\ replyLost'[q] = replyLost[q]
    BY <1>3, <1>a
  <2>4. faults' \in 0 .. MaxFaults  BY <1>0, <1>3, WebhookAssumption DEF Fault, HistoryOK
  <2>5. HistoryOK'  BY <1>0, <1>3, <2>3, <2>4 DEF HistoryOK
  <2>6. UNCHANGED <<op, ret, day, sent, dismissed, redelivered, resent, lost, dead>> /\ task[p].pc # "none"
    BY <1>3
  <2>7. got'[p] >= got[p] /\ got'[p] - got[p] + 1 <= 1 + replyLost'[p] - replyLost[p]
    BY <1>a, <2>3
  <2> QED  BY <2>1, <2>2, <2>3, <2>5, <2>6, <2>7, TaskStep
<1>4. CASE deliver(p)
  <2> USE DEF deliver
  <2> DEFINE t == [task[p] EXCEPT !.pc = "record"]
  <2>1. t \in Task /\ t.pc = "record" /\ task' = [task EXCEPT ![p] = t]
    BY <1>0, <1>4 DEF ActorsOK, Task
  <2> HIDE DEF t
  <2>2. DbOK'  BY <1>0, <1>4, LogType DEF DbOK
  <2>3. HistoryOK'  BY <1>0, <1>4 DEF HistoryOK
  <2>4. UNCHANGED <<op, ret, day, histVars, dead>> /\ task[p].pc # "none"  BY <1>4
  <2>5. got'[p] >= got[p] /\ got'[p] - got[p] + 1 <= 1 + replyLost'[p] - replyLost[p]
    BY <1>a, <2>4
  <2> QED  BY <2>1, <2>2, <2>3, <2>4, <2>5, TaskStep
<1>5. CASE recordDeadLetter(p)
  <2> USE DEF recordDeadLetter
  <2> DEFINE d == [st |-> "open", day |-> day]
  <2>1. d \in Letter /\ d.st = "open"  BY <1>0 DEF ActorsOK, Letter
  <2>2. dead' = [dead EXCEPT ![p] = d]  BY <1>5
  <2> HIDE DEF d
  <2>3. /\ dead' \in [Pairs -> Letter] /\ dead'[p].st = "open"
        /\ \A q \in Pairs : q # p => dead'[q] = dead[q]
    BY <1>0, <2>1, <2>2 DEF DbOK
  <2>4. syslog' \subseteq [ev : AuthEvents, hk : Hooks, day : 0 .. MaxDay]
    BY <1>0, <1>5 DEF DbOK, ActorsOK
  <2>5. DbOK'  BY <1>0, <1>5, <2>3, <2>4 DEF DbOK
  <2>6. HistoryOK'  BY <1>0, <1>5 DEF HistoryOK
  <2>7. /\ UNCHANGED <<op, ret, day, histVars>> /\ task[p].pc # "none"
        /\ task' = [task EXCEPT ![p] = NoTask]
    BY <1>5
  <2>8. /\ got'[p] >= got[p]
        /\ got'[p] - got[p] + (IF NoTask.pc = "none" THEN 0 ELSE 1) <= 1 + replyLost'[p] - replyLost[p]
    BY <1>a, <2>7, RestTypes
  <2> QED  BY <2>3, <2>5, <2>6, <2>7, <2>8, RestTypes, TaskStep
<1>6. CASE RecordFails(p)
  <2> USE DEF RecordFails
  <2>1. DbOK'  BY <1>0, <1>6 DEF DbOK
  <2>2. faults' \in 0 .. MaxFaults  BY <1>0, <1>6, WebhookAssumption DEF Fault, HistoryOK
  <2>3. HistoryOK'  BY <1>0, <1>6, <2>2 DEF HistoryOK
  <2>4. /\ UNCHANGED <<op, ret, day, sent, got, dismissed, redelivered, replyLost, resent, dead>>
        /\ task[p].pc # "none" /\ task' = [task EXCEPT ![p] = NoTask] /\ lost' = lost \cup {p}
    BY <1>6
  <2>5. /\ got'[p] >= got[p]
        /\ got'[p] - got[p] + (IF NoTask.pc = "none" THEN 0 ELSE 1) <= 1 + replyLost'[p] - replyLost[p]
    BY <1>a, <2>4, RestTypes
  <2> QED  BY <2>1, <2>3, <2>4, <2>5, RestTypes, TaskStep
<1> QED  BY <1>1, <1>2, <1>3, <1>4, <1>5, <1>6 DEF DeliverStep

-----------------------------------------------------------------------------
(* Operators, and a process that stops *)

\* A resend begins: what it may deliver is counted at once.
LEMMA ResendBegins ==
    ASSUME WebhookInv, NEW o \in Operators, NEW p \in Pairs, AdminResendWebhookDeadLetter(o, p)
    PROVE  WebhookInv'
<1> USE DEF WebhookInv, AdminResendWebhookDeadLetter, dbVars, bounds
<1>0. DbOK /\ ActorsOK /\ HistoryOK  BY TypeParts
<1> DEFINE j == [pc |-> "send", pair |-> p, ok |-> FALSE]
<1>1. /\ op' \in [Operators -> Op] /\ op'[o].pc = "send" /\ op'[o].pair = p
      /\ \A v \in Operators : v # o => op'[v] = op[v]
  BY <1>0 DEF ActorsOK, Op
<1>2. /\ resent' \in [Pairs -> Nat] /\ resent'[p] = resent[p] + 1
      /\ \A q \in Pairs : q # p => resent'[q] = resent[q]
  BY <1>0 DEF HistoryOK
<1>3. DbOK' /\ ActorsOK' /\ HistoryOK'
  BY <1>0, <1>1, <1>2 DEF DbOK, ActorsOK, HistoryOK
<1>4. TypeOK'  BY <1>3, TypeParts DEF TypeOK, DbOK, ActorsOK, HistoryOK, HookRow, Letter, Task, Op
<1>5. NoSilentLoss' /\ ResolvedMeansHandled' /\ StartedInv'
  BY DEF NoSilentLoss, ResolvedMeansHandled, StartedInv
<1>6. ResendInv'  BY <1>1 DEF ResendInv
<1>7. ASSUME NEW q \in Pairs
      PROVE  got'[q] + Pending(q)' + Cardinality(Sending(q)') <= 1 + replyLost'[q] + resent'[q]
  <2>0. Pending(q)' = Pending(q)  BY DEF Pending
  <2>1. CASE q = p
    <3>1. Sending(p)' = Sending(p) \cup {o} /\ o \notin Sending(p)
      BY <1>1 DEF Sending
    <3>2. Cardinality(Sending(p)') = Cardinality(Sending(p)) + 1
      BY <3>1, SendingFinite, FS_AddElement
    <3>3. /\ got[p] \in Nat /\ replyLost[p] \in Nat /\ resent[p] \in Nat
          /\ Cardinality(Sending(p)) \in Nat /\ Pending(p) \in Nat
      BY <1>0, SendingFinite DEF HistoryOK, Pending
    <3> QED  BY <1>2, <2>0, <2>1, <3>2, <3>3 DEF CountInv
  <2>2. CASE q # p
    <3>1. Sending(q)' = Sending(q)  BY <1>1, <2>2 DEF Sending
    <3> QED  BY <1>2, <2>0, <2>2, <3>1 DEF CountInv
  <2> QED  BY <2>1, <2>2
<1> QED  BY <1>4, <1>5, <1>6, <1>7 DEF CountInv

\* The attempt of a resend.
LEMMA ResendSends ==
    ASSUME WebhookInv, NEW o \in Operators, NEW ok \in BOOLEAN, ResendSend(o, ok)
    PROVE  WebhookInv'
<1> USE DEF WebhookInv, bounds
<1>t. DbOK /\ ActorsOK /\ HistoryOK  BY TypeParts
<1>p. PICK p \in Pairs : p = op[o].pair  BY <1>t DEF ActorsOK, Op
<1>0. /\ DbOK /\ ActorsOK /\ HistoryOK /\ p[1] \in Events /\ p[2] \in Hooks
      /\ op[o].pc = "send" /\ op[o].pair = p
  BY <1>t, <1>p, PairParts DEF ResendSend
<1>1. /\ op' \in [Operators -> Op] /\ op'[o].pc = "update" /\ op'[o].pair = p /\ op'[o].ok = ok
      /\ \A v \in Operators : v # o => op'[v] = op[v]
  <2> DEFINE j == [op[o] EXCEPT !.pc = "update", !.ok = ok]
  <2>1. op' = [op EXCEPT ![o] = j]  BY <1>0 DEF ResendSend, ActorsOK, Op
  <2>2. j \in Op /\ j.pc = "update" /\ j.pair = p /\ j.ok = ok  BY <1>0 DEF ActorsOK, Op
  <2> HIDE DEF j
  <2> QED  BY <1>0, <2>1, <2>2 DEF ActorsOK
<1>2. /\ logDelivery(p[2], p[1])
      /\ got' = [got EXCEPT ![p] = IF ok THEN got[p] + 1 ELSE got[p]]
      /\ redelivered' = IF ok THEN redelivered \cup {p} ELSE redelivered
      /\ UNCHANGED <<hook, dead, syslog, task, ret, day, sent, lost, dismissed, replyLost, resent,
                     configs, faults, crashes>>
  BY <1>0 DEF ResendSend
<1>3. /\ got' \in [Pairs -> Nat] /\ got'[p] = (IF ok THEN got[p] + 1 ELSE got[p])
      /\ \A q \in Pairs : q # p => got'[q] = got[q]
  BY <1>0, <1>2 DEF HistoryOK
<1>4. DbOK'  BY <1>0, <1>2, LogType DEF DbOK
<1>5. ActorsOK' /\ HistoryOK'  BY <1>0, <1>1, <1>2, <1>3 DEF ActorsOK, HistoryOK
<1>6. TypeOK'  BY <1>4, <1>5, TypeParts DEF TypeOK, DbOK, ActorsOK, HistoryOK, HookRow, Letter, Task, Op
<1>7. \A q \in Pairs : got[q] > 0 => got'[q] > 0  BY <1>0, <1>3 DEF HistoryOK
<1>8. NoSilentLoss'
  <2>1. sent \subseteq Pairs  BY <1>0 DEF HistoryOK
  <2> QED  BY <1>2, <1>7, <2>1 DEF NoSilentLoss
<1>9. ResolvedMeansHandled' /\ StartedInv'
  BY <1>2 DEF ResolvedMeansHandled, StartedInv
<1>10. ASSUME NEW v \in Operators, op'[v].pc = "update", op'[v].ok
       PROVE  got'[op'[v].pair] > 0 /\ op'[v].pair \in redelivered'
  <2>1. CASE v = o
    <3>1. ok  BY <1>1, <1>10, <2>1
    <3>2. got[p] \in Nat  BY <1>0 DEF HistoryOK
    <3> QED  BY <1>1, <1>2, <1>3, <2>1, <3>1, <3>2
  <2>2. CASE v # o
    <3>1. op'[v] = op[v] /\ op[v].pair \in Pairs  BY <1>0, <1>1, <2>2 DEF ActorsOK, Op
    <3>2. got[op[v].pair] > 0 /\ op[v].pair \in redelivered  BY <1>10, <3>1 DEF ResendInv
    <3> QED  BY <1>2, <1>7, <3>1, <3>2
  <2> QED  BY <2>1, <2>2
<1>11. ASSUME NEW q \in Pairs
       PROVE  got'[q] + Pending(q)' + Cardinality(Sending(q)') <= 1 + replyLost'[q] + resent'[q]
  <2>0. Pending(q)' = Pending(q)  BY <1>2 DEF Pending
  <2>1. CASE q = p
    <3>1. Sending(p)' = Sending(p) \ {o} /\ o \in Sending(p)
      BY <1>0, <1>1 DEF Sending
    <3>2. Cardinality(Sending(p)') = Cardinality(Sending(p)) - 1
      BY <3>1, SendingFinite, FS_RemoveElement
    <3>3. /\ got[p] \in Nat /\ replyLost[p] \in Nat /\ resent[p] \in Nat
          /\ Cardinality(Sending(p)) \in Nat /\ Pending(p) \in Nat
      BY <1>0, SendingFinite DEF HistoryOK, Pending
    <3>4. got'[p] <= got[p] + 1 /\ got'[p] \in Nat  BY <1>0, <1>3, <3>3
    <3>5. got[p] + Pending(p) + Cardinality(Sending(p)) <= 1 + replyLost[p] + resent[p]
      BY DEF CountInv
    <3> QED  BY <1>2, <2>0, <2>1, <3>2, <3>3, <3>4, <3>5
  <2>2. CASE q # p
    <3>1. Sending(q)' = Sending(q)  BY <1>0, <1>1, <2>2 DEF Sending
    <3> QED  BY <1>2, <1>3, <2>0, <2>2, <3>1 DEF CountInv
  <2> QED  BY <2>1, <2>2
<1> QED  BY <1>6, <1>8, <1>9, <1>10, <1>11 DEF CountInv, ResendInv

\* The UPDATE after a resend, and a dismissal.
LEMMA ResolveSteps ==
    ASSUME WebhookInv,
           \/ \E o \in Operators : Resend(o)
           \/ \E p \in Pairs : AdminDismissWebhookDeadLetter(p)
    PROVE  WebhookInv'
<1> USE DEF WebhookInv, bounds, histVars
<1>0. DbOK /\ ActorsOK /\ HistoryOK  BY TypeParts
<1>d. [st |-> "resolved", day |-> day] \in Letter  BY <1>0 DEF ActorsOK, Letter
<1>1. ASSUME NEW o \in Operators, Resend(o)  PROVE WebhookInv'
  <2>1. PICK p \in Pairs : p = op[o].pair  BY <1>0 DEF ActorsOK, Op
  <2>2. /\ op[o].pc = "update" /\ op' = [op EXCEPT ![o] = NoResend]
        /\ dead' = IF op[o].ok /\ dead[p].st # "none"
                   THEN [dead EXCEPT ![p] = [st |-> "resolved", day |-> day]] ELSE dead
        /\ UNCHANGED <<hook, dlog, syslog, task, ret, day, histVars, configs, faults, crashes>>
    BY <1>1, <2>1 DEF Resend
  <2>3. /\ op' \in [Operators -> Op] /\ op'[o].pc = "idle"
        /\ \A v \in Operators : v # o => op'[v] = op[v]
    BY <1>0, <2>2, RestTypes DEF ActorsOK
  <2>4. /\ dead' \in [Pairs -> Letter] /\ \A q \in Pairs : q # p => dead'[q] = dead[q]
        /\ dead'[p] = dead[p] \/ (op[o].ok /\ dead'[p].st = "resolved")
    BY <1>0, <1>d, <2>2 DEF DbOK
  <2>5. DbOK' /\ ActorsOK' /\ HistoryOK'
    BY <1>0, <2>2, <2>3, <2>4 DEF DbOK, ActorsOK, HistoryOK
  <2>6. TypeOK'
    BY <2>5, TypeParts DEF TypeOK, DbOK, ActorsOK, HistoryOK, HookRow, Letter, Task, Op
  <2>7. op[o].ok => got[p] > 0 /\ p \in redelivered  BY <2>1, <2>2 DEF ResendInv
  <2>8. NoSilentLoss'
    <3>1. sent \subseteq Pairs  BY <1>0 DEF HistoryOK
    <3> QED  BY <2>2, <2>4, <2>7, <3>1 DEF NoSilentLoss
  <2>9. ResolvedMeansHandled'  BY <2>2, <2>4, <2>7 DEF ResolvedMeansHandled
  <2>10. ResendInv'  BY <2>2, <2>3 DEF ResendInv
  <2>11. StartedInv'  BY <2>2 DEF StartedInv
  <2>12. \A q \in Pairs : Sending(q)' = Sending(q) /\ Pending(q)' = Pending(q)
    BY <2>2, <2>3 DEF Sending, Pending
  <2>13. CountInv'  BY <2>2, <2>12 DEF CountInv
  <2> QED  BY <2>6, <2>8, <2>9, <2>10, <2>11, <2>13
<1>2. ASSUME NEW p \in Pairs, AdminDismissWebhookDeadLetter(p)  PROVE WebhookInv'
  <2> USE DEF AdminDismissWebhookDeadLetter, ResolveDeadLetter
  <2>1. /\ dead' \in [Pairs -> Letter] /\ \A q \in Pairs : q # p => dead'[q] = dead[q]
        /\ dismissed' = dismissed \cup {p}
    BY <1>0, <1>2, <1>d DEF DbOK
  <2>2. DbOK' /\ ActorsOK' /\ HistoryOK'
    BY <1>0, <1>2, <2>1 DEF DbOK, ActorsOK, HistoryOK
  <2>3. TypeOK'
    BY <2>2, TypeParts DEF TypeOK, DbOK, ActorsOK, HistoryOK, HookRow, Letter, Task, Op
  <2>4. NoSilentLoss'
    <3>1. sent \subseteq Pairs  BY <1>0 DEF HistoryOK
    <3> QED  BY <1>2, <2>1, <3>1 DEF NoSilentLoss
  <2>5. ResolvedMeansHandled'  BY <1>2, <2>1 DEF ResolvedMeansHandled
  <2>6. ResendInv' /\ StartedInv'  BY <1>2 DEF ResendInv, StartedInv
  <2>7. \A q \in Pairs : Sending(q)' = Sending(q) /\ Pending(q)' = Pending(q)
    BY <1>2 DEF Sending, Pending
  <2>8. CountInv'  BY <1>2, <2>7 DEF CountInv
  <2> QED  BY <2>3, <2>4, <2>5, <2>6, <2>8
<1> QED  BY <1>1, <1>2

\* The process stops and takes deliveries and resends with it.
LEMMA StopStep ==
    ASSUME WebhookInv, Stop
    PROVE  WebhookInv'
<1> USE DEF WebhookInv, Stop, dbVars
<1>0. DbOK /\ ActorsOK /\ HistoryOK  BY TypeParts
<1>1. crashes' \in 0 .. MaxCrashes  BY <1>0, WebhookAssumption DEF HistoryOK
<1>2. DbOK' /\ ActorsOK' /\ HistoryOK'
  BY <1>0, <1>1, RestTypes DEF DbOK, ActorsOK, HistoryOK
<1>3. TypeOK'  BY <1>2, TypeParts DEF TypeOK, DbOK, ActorsOK, HistoryOK, HookRow, Letter, Task, Op
<1>4. NoSilentLoss'
  <2>1. sent \subseteq Pairs  BY <1>0 DEF HistoryOK
  <2> QED  BY <2>1 DEF NoSilentLoss
<1>5. ResolvedMeansHandled'  BY DEF ResolvedMeansHandled
<1>6. ResendInv' /\ StartedInv'  BY RestTypes DEF ResendInv, StartedInv
<1>7. ASSUME NEW q \in Pairs
      PROVE  got'[q] + Pending(q)' + Cardinality(Sending(q)') <= 1 + replyLost'[q] + resent'[q]
  <2>1. Sending(q)' = {}  BY RestTypes DEF Sending
  <2>2. Cardinality(Sending(q)') = 0  BY <2>1, FS_EmptySet
  <2>3. Pending(q)' <= Pending(q) /\ Pending(q)' \in Nat /\ Pending(q) \in Nat
    BY RestTypes DEF Pending
  <2>4. /\ got[q] \in Nat /\ replyLost[q] \in Nat /\ resent[q] \in Nat
        /\ Cardinality(Sending(q)) \in Nat
    BY <1>0, SendingFinite DEF HistoryOK
  <2>5. got[q] + Pending(q) + Cardinality(Sending(q)) <= 1 + replyLost[q] + resent[q]
    BY DEF CountInv
  <2>6. got'[q] = got[q] /\ replyLost'[q] = replyLost[q] /\ resent'[q] = resent[q]  OBVIOUS
  <2> QED  BY <2>2, <2>3, <2>4, <2>5, <2>6
<1> QED  BY <1>3, <1>4, <1>5, <1>6, <1>7 DEF CountInv

-----------------------------------------------------------------------------
\* WebhookInv is inductive.
LEMMA WebhookNext == WebhookInv /\ [Next]_vars => WebhookInv'
<1> SUFFICES ASSUME WebhookInv, [Next]_vars PROVE WebhookInv'  OBVIOUS
<1>1. ASSUME NEW h \in Hooks,
             \/ \E t \in TopicLists : \/ AdminCreateWebhook(h, t)
                                      \/ \E b \in BOOLEAN : AdminUpdateWebhook(h, b, t)
             \/ AdminDeleteWebhook(h) \/ AdminTestWebhook(h)
      PROVE  WebhookInv'
  BY <1>1, ConfigSteps
<1>2. ASSUME NEW e \in Events, FireEvent(e)  PROVE WebhookInv'
  BY <1>2, FireStep
<1>3. ASSUME NEW p \in Pairs, DeliverStep(p) \/ DeliverReplyLost(p)  PROVE WebhookInv'
  BY <1>3, DeliverySteps
<1>4. ASSUME NEW p \in Pairs, AdminDismissWebhookDeadLetter(p)  PROVE WebhookInv'
  BY <1>4, ResolveSteps
<1>5. ASSUME NEW p \in Pairs, NEW o \in Operators, AdminResendWebhookDeadLetter(o, p)
      PROVE  WebhookInv'
  BY <1>5, ResendBegins
<1>6. ASSUME NEW o \in Operators, Resend(o)  PROVE WebhookInv'
  BY <1>6, ResolveSteps
<1>7. ASSUME NEW o \in Operators, NEW ok \in BOOLEAN, ResendSend(o, ok)  PROVE WebhookInv'
  BY <1>7, ResendSends
<1>8. CASE RetentionStep \/ RetentionFails \/ NextDay  BY <1>8, RetentionSteps
<1>9. CASE Stop  BY <1>9, StopStep
<1>10. CASE UNCHANGED vars
  <2>1. DbOK /\ ActorsOK /\ HistoryOK  BY TypeParts DEF WebhookInv
  <2>2. UNCHANGED <<hook, dlog, dead, syslog, task, op, ret, day, sent, got, lost, dismissed,
                    redelivered, replyLost, resent, configs, faults, crashes>>
    BY <1>10 DEF vars, dbVars, histVars, bounds
  <2>3. DbOK' /\ ActorsOK' /\ HistoryOK'  BY <2>1, <2>2 DEF DbOK, ActorsOK, HistoryOK
  <2> QED  BY <2>2, <2>3, AsideStep
<1> QED
  BY <1>1, <1>2, <1>3, <1>4, <1>5, <1>6, <1>7, <1>8, <1>9, <1>10 DEF Next

\* The inductive invariant holds in every behaviour.
THEOREM WebhookInvariant == Spec => []WebhookInv
  BY WebhookInit, WebhookNext, PTL DEF Spec

\* A notification that was started is under way, delivered, kept as an open dead
\* letter or accounted for (deliver, recordDeadLetter, PruneDeadLetters, Resend).
THEOREM NotificationsAreKept == Spec => []NoSilentLoss
<1>1. WebhookInv => NoSilentLoss  BY DEF WebhookInv
<1> QED  BY <1>1, WebhookInvariant, PTL

\* A receiver gets a notification at most once, and once more for each lost reply
\* and each resend (deliver's loop, Resend).
THEOREM DuplicatesAreBounded == Spec => []DuplicatesAccounted
<1>1. WebhookInv => DuplicatesAccounted
  <2> SUFFICES ASSUME WebhookInv, NEW p \in Pairs
               PROVE  got[p] <= 1 + replyLost[p] + resent[p]
    BY DEF DuplicatesAccounted
  <2>1. got[p] + Pending(p) + Cardinality(Sending(p)) <= 1 + replyLost[p] + resent[p]
    BY DEF WebhookInv, CountInv
  <2>2. /\ got[p] \in Nat /\ replyLost[p] \in Nat /\ resent[p] \in Nat
        /\ Cardinality(Sending(p)) \in Nat /\ Pending(p) \in Nat
    BY SendingFinite DEF WebhookInv, TypeOK, Pending
  <2> QED  BY <2>1, <2>2
<1> QED  BY <1>1, WebhookInvariant, PTL

\* A dead letter is closed only by a resend that was delivered or by a dismissal.
THEOREM LettersAreHandled == Spec => []ResolvedMeansHandled
<1>1. WebhookInv => ResolvedMeansHandled  BY DEF WebhookInv
<1> QED  BY <1>1, WebhookInvariant, PTL

=============================================================================
