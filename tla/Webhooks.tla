----------------------------- MODULE Webhooks -----------------------------
(***************************************************************************)
(* Webhook notifications: an event starts one delivery goroutine for each   *)
(* enabled, subscribed webhook; a delivery is tried three times, logged,    *)
(* and dead-lettered when every attempt failed; operators resend or dismiss *)
(* dead letters; administrators change and delete webhooks; the retention   *)
(* worker prunes what is old.  Deliveries live in memory: a process that    *)
(* stops takes them with it.                                                *)
(*                                                                          *)
(* internal/services/webhook_delivery.go, internal/services/webhook.go,     *)
(* internal/handlers/admin_webhooks.go, internal/worker/log_retention.go.   *)
(***************************************************************************)
EXTENDS Integers, FiniteSets

CONSTANTS
    Events,         \* events that may be raised, each at most once
    AuthEvents,     \* those whose type starts with "auth."
    Hooks,          \* ids of webhook_config
    TopicLists,     \* lists of events that a request may carry
    Operators,      \* administrators that resend dead letters
    Retention,      \* log_retention_days
    MaxDay,         \* bound on the clock, in days
    MaxConfigs,     \* bound on changes of the configuration
    MaxFaults,      \* bound on lost replies and failed database writes
    MaxResends,     \* bound on resends
    MaxCrashes      \* bound on crashes

MaxAttempts == 3

ASSUME WebhookAssumption ==
    /\ Events # {} /\ Hooks # {} /\ IsFiniteSet(Operators)
    /\ AuthEvents \subseteq Events /\ TopicLists \subseteq SUBSET {"auth", "other"}
    /\ Retention \in Nat /\ MaxDay \in Nat /\ MaxConfigs \in Nat
    /\ MaxFaults \in Nat /\ MaxResends \in Nat /\ MaxCrashes \in Nat

VARIABLES
    \* the database
    hook,       \* webhook_config: [present, enabled, topics]
    dlog,       \* webhook_delivery_log: [ev, hk, day]
    dead,       \* webhook_dead_letter of each <<event, hook>>: [st, day]
    syslog,     \* system_log rows of component "webhook": [ev, hk, day]
    \* the actors
    task,       \* deliver of each <<event, hook>>: [pc, n], n attempts made
    op,         \* Resend of each operator: [pc, pair, ok]
    ret,        \* where the retention pass is
    day,
    \* history and bounds
    sent,       \* pairs for which a delivery was started
    got,        \* how often the receiver got it
    lost,       \* pairs whose delivery ended in a crash, a failed write or with its webhook
    dismissed,  \* pairs whose dead letter an operator dismissed
    redelivered,\* pairs that a resend delivered
    replyLost,  \* attempts whose 2xx reply never arrived, by pair
    resent,     \* resends started, by pair
    configs, faults, crashes

Pairs   == Events \X Hooks
dbVars  == <<hook, dlog, dead, syslog>>
histVars == <<sent, got, lost, dismissed, redelivered, replyLost, resent>>
bounds  == <<configs, faults, crashes>>
vars    == <<dbVars, task, op, ret, day, histVars, bounds>>

Topics   == {"auth", "other"}
TopicOf(e) == IF e \in AuthEvents THEN "auth" ELSE "other"
NoHook   == [present |-> FALSE, enabled |-> FALSE, topics |-> {}]
NoLetter == [st |-> "none", day |-> 0]
NoTask   == [pc |-> "none", n |-> 0]
NoResend == [pc |-> "idle", pair |-> CHOOSE p \in Pairs : TRUE, ok |-> FALSE]

Init ==
    /\ hook = [h \in Hooks |-> NoHook] /\ dlog = {} /\ dead = [p \in Pairs |-> NoLetter]
    /\ syslog = {} /\ task = [p \in Pairs |-> NoTask] /\ op = [o \in Operators |-> NoResend]
    /\ ret = "idle" /\ day = 0
    /\ sent = {} /\ lost = {} /\ dismissed = {} /\ redelivered = {}
    /\ got = [p \in Pairs |-> 0] /\ replyLost = [p \in Pairs |-> 0]
    /\ resent = [p \in Pairs |-> 0]
    /\ configs = 0 /\ faults = 0 /\ crashes = 0

Fault == faults < MaxFaults /\ faults' = faults + 1

-----------------------------------------------------------------------------
(* Configuration.                                                           *)

Configure(h, row) ==
    /\ configs < MaxConfigs /\ configs' = configs + 1
    /\ hook' = [hook EXCEPT ![h] = row]

\* Create: enabled, and without a list of events subscribed to uploads only.
Create(h, topics) ==
    Configure(h, [present |-> TRUE, enabled |-> TRUE, topics |-> IF topics = {} THEN {"other"} ELSE topics])

AdminCreateWebhook(h, topics) ==
    /\ ~hook[h].present /\ Create(h, topics)
    /\ UNCHANGED <<dlog, dead, syslog, task, op, ret, day, histVars, faults, crashes>>

\* Update: deliveries under way keep the row they were started with.
AdminUpdateWebhook(h, enabled, topics) ==
    /\ hook[h].present
    /\ Configure(h, [present |-> TRUE, enabled |-> enabled, topics |-> topics])
    /\ UNCHANGED <<dlog, dead, syslog, task, op, ret, day, histVars, faults, crashes>>

\* Delete: the delivery log and the dead letters go with the row (ON DELETE CASCADE).
Delete(h) ==
    /\ hook[h].present /\ Configure(h, NoHook)
    /\ dlog' = {r \in dlog : r.hk # h}
    /\ dead' = [p \in Pairs |-> IF p[2] = h THEN NoLetter ELSE dead[p]]

AdminDeleteWebhook(h) ==
    /\ Delete(h)
    /\ lost' = lost \cup {p \in Pairs : p[2] = h /\ dead[p].st = "open"}
    /\ UNCHANGED <<syslog, task, op, ret, day, sent, got, dismissed, redelivered, replyLost,
                   resent, faults, crashes>>

-----------------------------------------------------------------------------
(* Deliveries.                                                              *)

webhookSubscribedTo(h, e) == TopicOf(e) \in hook[h].topics

GetEnabled == {h \in Hooks : hook[h].present /\ hook[h].enabled}

\* FireUploadEvent, FireSystemEvent, FireTagEvent, FireCollectionEvent, FireAuthEvent:
\* one goroutine for each enabled webhook that subscribed.
FireEvent(e) ==
    /\ \A h \in Hooks : <<e, h>> \notin sent
    /\ LET to == {<<e, h>> : h \in {k \in GetEnabled : webhookSubscribedTo(k, e)}}
       IN  /\ to # {}
           /\ task' = [p \in Pairs |-> IF p \in to THEN [pc |-> "send", n |-> 0] ELSE task[p]]
           /\ sent' = sent \cup to
    /\ UNCHANGED <<dbVars, op, ret, day, got, lost, dismissed, redelivered, replyLost, resent, bounds>>

\* logDelivery: the row refers to the webhook, and an error is only logged.
logDelivery(h, e) ==
    dlog' = IF hook[h].present THEN dlog \cup {[ev |-> e, hk |-> h, day |-> day]} ELSE dlog

\* Mutant: the loop goes on after a 2xx answer.
MutDeliverOk(p) ==
    /\ task[p].pc = "send"
    /\ got' = [got EXCEPT ![p] = @ + 1]
    /\ logDelivery(p[2], p[1])
    /\ task' = [task EXCEPT ![p] = IF @.n + 1 < MaxAttempts THEN [@ EXCEPT !.n = @ + 1] ELSE NoTask]
    /\ UNCHANGED <<hook, dead, syslog, op, ret, day, sent, lost, dismissed, redelivered,
                   replyLost, resent, bounds>>

\* An attempt is answered 2xx.
DeliverOk(p) ==
    /\ task[p].pc = "send"
    /\ got' = [got EXCEPT ![p] = @ + 1]
    /\ logDelivery(p[2], p[1])
    /\ task' = [task EXCEPT ![p] = NoTask]
    /\ UNCHANGED <<hook, dead, syslog, op, ret, day, sent, lost, dismissed, redelivered,
                   replyLost, resent, bounds>>

\* Mutant: the attempts are not counted.
MutUncounted(p) ==
    task' = [task EXCEPT ![p] = [pc |-> "send", n |-> (task[p].n + 1) % MaxAttempts]]

\* A failed attempt: the next one follows after a backoff, until three were made.
AfterFailure(p) ==
    LET n == task[p].n + 1
    IN  task' = [task EXCEPT ![p] = [pc |-> IF n < MaxAttempts THEN "send" ELSE "exhausted", n |-> n]]

\* An attempt fails before the receiver has it, or is refused.
DeliverFails(p) ==
    /\ task[p].pc = "send" /\ AfterFailure(p)
    /\ UNCHANGED <<dbVars, op, ret, day, histVars, bounds>>

\* The receiver has it, the reply is lost or late: to the sender a failed attempt.
DeliverReplyLost(p) ==
    /\ task[p].pc = "send" /\ Fault /\ AfterFailure(p)
    /\ got' = [got EXCEPT ![p] = @ + 1]
    /\ replyLost' = [replyLost EXCEPT ![p] = @ + 1]
    /\ UNCHANGED <<dbVars, op, ret, day, sent, lost, dismissed, redelivered, resent, configs, crashes>>

\* After the last attempt the failure is logged.
deliver(p) ==
    /\ task[p].pc = "exhausted"
    /\ logDelivery(p[2], p[1])
    /\ task' = [task EXCEPT ![p].pc = "record"]
    /\ UNCHANGED <<hook, dead, syslog, op, ret, day, histVars, bounds>>

\* recordDeadLetter: the letter is kept with its payload; an auth event is escalated
\* to the system log.
recordDeadLetter(p) ==
    /\ task[p].pc = "record" /\ hook[p[2]].present
    /\ task' = [task EXCEPT ![p] = NoTask]
    /\ dead' = [dead EXCEPT ![p] = [st |-> "open", day |-> day]]
    /\ syslog' = IF p[1] \in AuthEvents
                 THEN syslog \cup {[ev |-> p[1], hk |-> p[2], day |-> day]} ELSE syslog
    /\ UNCHANGED <<hook, dlog, op, ret, day, histVars, bounds>>

\* The INSERT is refused (the webhook is gone) or fails: the delivery is lost.
RecordFails(p) ==
    /\ task[p].pc = "record"
    /\ \/ ~hook[p[2]].present /\ UNCHANGED faults
       \/ Fault
    /\ task' = [task EXCEPT ![p] = NoTask]
    /\ lost' = lost \cup {p}
    /\ UNCHANGED <<dbVars, op, ret, day, sent, got, dismissed, redelivered, replyLost, resent,
                   configs, crashes>>

\* FireTestPing: one synchronous attempt, logged whatever the answer.
AdminTestWebhook(h) ==
    /\ hook[h].present /\ configs < MaxConfigs /\ configs' = configs + 1
    /\ logDelivery(h, "test_ping")
    /\ UNCHANGED <<hook, dead, syslog, task, op, ret, day, histVars, faults, crashes>>

-----------------------------------------------------------------------------
(* Dead letters.                                                            *)

\* AdminResendWebhookDeadLetter loads the letter, resolved or not, and its webhook.
AdminResendWebhookDeadLetter(o, p) ==
    /\ op[o].pc = "idle" /\ dead[p].st # "none" /\ resent[p] < MaxResends
    /\ op' = [op EXCEPT ![o] = [pc |-> "send", pair |-> p, ok |-> FALSE]]
    /\ resent' = [resent EXCEPT ![p] = @ + 1]
    /\ UNCHANGED <<dbVars, task, ret, day, sent, got, lost, dismissed, redelivered, replyLost, bounds>>

\* Mutant: a resend counts as delivered whatever the answer.
MutResendSend(o, ok) ==
    /\ op[o].pc = "send"
    /\ op' = [op EXCEPT ![o].pc = "update", ![o].ok = TRUE]
    /\ LET p == op[o].pair
       IN  /\ logDelivery(p[2], p[1])
           /\ got' = [got EXCEPT ![p] = IF ok THEN @ + 1 ELSE @]
           /\ redelivered' = IF ok THEN redelivered \cup {p} ELSE redelivered
    /\ UNCHANGED <<hook, dead, syslog, task, ret, day, sent, lost, dismissed, replyLost, resent, bounds>>

\* The single attempt and its row of the delivery log.
ResendSend(o, ok) ==
    /\ op[o].pc = "send"
    /\ op' = [op EXCEPT ![o].pc = "update", ![o].ok = ok]
    /\ LET p == op[o].pair
       IN  /\ logDelivery(p[2], p[1])
           /\ got' = [got EXCEPT ![p] = IF ok THEN @ + 1 ELSE @]
           /\ redelivered' = IF ok THEN redelivered \cup {p} ELSE redelivered
    /\ UNCHANGED <<hook, dead, syslog, task, ret, day, sent, lost, dismissed, replyLost, resent, bounds>>

\* The UPDATE after it: a delivered letter is resolved; a letter that is gone stays so.
Resend(o) ==
    /\ op[o].pc = "update"
    /\ op' = [op EXCEPT ![o] = NoResend]
    /\ LET p == op[o].pair
       IN  dead' = IF op[o].ok /\ dead[p].st # "none"
                   THEN [dead EXCEPT ![p] = [st |-> "resolved", day |-> day]] ELSE dead
    /\ UNCHANGED <<hook, dlog, syslog, task, ret, day, histVars, bounds>>

\* Dismissed without being delivered.
ResolveDeadLetter(p) == dead[p].st = "open" /\ dead' = [dead EXCEPT ![p] = [st |-> "resolved", day |-> day]]

AdminDismissWebhookDeadLetter(p) ==
    /\ ResolveDeadLetter(p)
    /\ dismissed' = dismissed \cup {p}
    /\ UNCHANGED <<hook, dlog, syslog, task, op, ret, day, sent, got, lost, redelivered, replyLost,
                   resent, bounds>>

-----------------------------------------------------------------------------
(* The retention worker and the clock.                                      *)

Old(d) == d < day - Retention

\* CleanupOldLogs, the first of the three steps of a pass.
CleanupOldLogs ==
    /\ ret = "idle" /\ ret' = "delivery"
    /\ syslog' = {r \in syslog : ~Old(r.day)}
    /\ UNCHANGED <<hook, dlog, dead, task, op, day, histVars, bounds>>

PruneDeliveryLog ==
    /\ ret = "delivery" /\ ret' = "dead"
    /\ dlog' = {r \in dlog : ~Old(r.day)}
    /\ UNCHANGED <<hook, dead, syslog, task, op, day, histVars, bounds>>

\* Mutant: old letters are pruned, resolved or not.
MutPruneDeadLetters ==
    /\ ret = "dead" /\ ret' = "idle"
    /\ dead' = [p \in Pairs |-> IF dead[p].st # "none" /\ Old(dead[p].day)
                                THEN NoLetter ELSE dead[p]]
    /\ UNCHANGED <<hook, dlog, syslog, task, op, day, histVars, bounds>>

\* Only resolved letters, by the day they were resolved.
PruneDeadLetters ==
    /\ ret = "dead" /\ ret' = "idle"
    /\ dead' = [p \in Pairs |-> IF dead[p].st = "resolved" /\ Old(dead[p].day)
                                THEN NoLetter ELSE dead[p]]
    /\ UNCHANGED <<hook, dlog, syslog, task, op, day, histVars, bounds>>

\* A step fails: the pass returns and leaves the later tables for the next hour.
RetentionFails ==
    /\ ret # "idle" /\ Fault /\ ret' = "idle"
    /\ UNCHANGED <<dbVars, task, op, day, histVars, configs, crashes>>

NextDay ==
    /\ day < MaxDay /\ day' = day + 1
    /\ UNCHANGED <<dbVars, task, op, ret, histVars, bounds>>

\* The process stops, by a crash or at the end of main, which waits for no delivery.
Stop ==
    /\ crashes < MaxCrashes /\ crashes' = crashes + 1
    /\ lost' = lost \cup {p \in Pairs : task[p].pc # "none"}
    /\ task' = [p \in Pairs |-> NoTask] /\ op' = [o \in Operators |-> NoResend] /\ ret' = "idle"
    /\ UNCHANGED <<dbVars, day, sent, got, dismissed, redelivered, replyLost, resent, configs, faults>>

DeliverStep(p) ==
    DeliverOk(p) \/ DeliverFails(p) \/ deliver(p) \/ recordDeadLetter(p) \/ RecordFails(p)
RetentionStep == CleanupOldLogs \/ PruneDeliveryLog \/ PruneDeadLetters

Next ==
    \/ \E h \in Hooks :
         \/ \E t \in TopicLists :
              AdminCreateWebhook(h, t) \/ \E b \in BOOLEAN : AdminUpdateWebhook(h, b, t)
         \/ AdminDeleteWebhook(h)
         \/ AdminTestWebhook(h)
    \/ \E e \in Events : FireEvent(e)
    \/ \E p \in Pairs :
         \/ DeliverStep(p) \/ DeliverReplyLost(p) \/ AdminDismissWebhookDeadLetter(p)
         \/ \E o \in Operators : AdminResendWebhookDeadLetter(o, p)
    \/ \E o \in Operators : Resend(o) \/ \E ok \in BOOLEAN : ResendSend(o, ok)
    \/ RetentionStep \/ RetentionFails \/ NextDay \/ Stop

Spec == Init /\ [][Next]_vars

\* Goroutines are scheduled and every attempt ends within the client's timeout; the
\* hourly ticker keeps firing.
FairSpec ==
    /\ Spec
    /\ \A p \in Pairs : WF_vars(DeliverStep(p))
    /\ WF_vars(RetentionStep)

-----------------------------------------------------------------------------
(* Properties.                                                              *)

TypeOK ==
    /\ hook \in [Hooks -> [present : BOOLEAN, enabled : BOOLEAN, topics : SUBSET Topics]]
    /\ dlog \subseteq [ev : Events \cup {"test_ping"}, hk : Hooks, day : 0 .. MaxDay]
    /\ dead \in [Pairs -> [st : {"none", "open", "resolved"}, day : 0 .. MaxDay]]
    /\ syslog \subseteq [ev : AuthEvents, hk : Hooks, day : 0 .. MaxDay]
    /\ task \in [Pairs -> [pc : {"none", "send", "exhausted", "record"}, n : 0 .. MaxAttempts]]
    /\ op \in [Operators -> [pc : {"idle", "send", "update"}, pair : Pairs, ok : BOOLEAN]]
    /\ ret \in {"idle", "delivery", "dead"} /\ day \in 0 .. MaxDay
    /\ sent \subseteq Pairs /\ lost \subseteq Pairs /\ dismissed \subseteq Pairs
    /\ redelivered \subseteq Pairs
    /\ got \in [Pairs -> Nat] /\ replyLost \in [Pairs -> Nat] /\ resent \in [Pairs -> Nat]
    /\ configs \in 0 .. MaxConfigs /\ faults \in 0 .. MaxFaults /\ crashes \in 0 .. MaxCrashes

\* No notification vanishes: one that was started is under way, reached the receiver,
\* waits as a dead letter or was dismissed by an operator, unless the process stopped
\* under it, its letter could not be written or its webhook was deleted.
NoSilentLoss ==
    \A p \in sent :
        \/ task[p].pc # "none" \/ got[p] > 0 \/ dead[p].st = "open"
        \/ p \in dismissed \cup lost

\* A receiver gets a notification twice only when a reply was lost or an operator
\* resent it: attempts, resends of resolved letters and concurrent resends included.
DuplicatesAccounted == \A p \in Pairs : got[p] <= 1 + replyLost[p] + resent[p]

\* A dead letter is resolved only because a resend delivered it or an operator
\* dismissed it, however resends, dismissals and pruning interleave.
ResolvedMeansHandled ==
    \A p \in Pairs : dead[p].st = "resolved" => p \in dismissed \cup redelivered

\* Every delivery comes to an end: delivered, dead-lettered or lost.
DeliverySettles == \A p \in Pairs : task[p].pc # "none" ~> task[p].pc = "none"

=============================================================================
