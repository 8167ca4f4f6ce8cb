----------------------------- MODULE AuditLog -----------------------------
(***************************************************************************)
(* The tamper-evident audit log: request handlers append hash-chained rows  *)
(* under one process-wide mutex, an administrator verifies the chain, and a *)
(* worker publishes the head of the chain to the network (a paid write) and *)
(* records it as an anchor.  Rows may also be altered behind the service's  *)
(* back, which is what the chain is for.  Beside it are three plain logs,   *)
(* system_log, config_audit and file_access_log, of which the first is      *)
(* pruned; administrators page through all four and export them.            *)
(*                                                                          *)
(* internal/services/log.go, file_access.go and Update of settings.go,      *)
(* internal/worker/audit_anchor.go, PublishChunk of                         *)
(* internal/migrate/publish_datamaps.go, internal/handlers/audit.go and     *)
(* admin_logs.go.                                                           *)
(*                                                                          *)
(* SHA-256 is taken to be injective: a row hash is the sequence of contents *)
(* it commits to.  Rows older than the chain (row_hash = '') only show up   *)
(* in the pages.                                                            *)
(***************************************************************************)
EXTENDS Integers, Sequences, FiniteSets

CONSTANTS
    Writers,    \* request goroutines that call WriteAudit
    Contents,   \* contents of a row; what a filter looks at: severity, level, setting key
    Everything, \* the filter that matches every row
    Filters,    \* filters a client may ask for
    Legacy,     \* rows of every log at the start, in audit_log from before the chain
    Limit,      \* rows of a page (50 in the code)
    ExportMaxRows,  \* rows of an export (1000000 in the code)
    NoOne,      \* nobody holds auditChainMu
    MaxRows,    \* bound on rows written to the four logs
    MaxTampers, \* bound on alterations behind the service's back
    MaxFaults,  \* bound on failed calls, skipped ticks and crashes
    MaxChecks   \* bound on verifications and on page walks

ASSUME AuditAssumption ==
    /\ Contents # {} /\ Everything \notin Contents /\ NoOne \notin Writers
    /\ Filters \subseteq Contents \cup {Everything}
    /\ Legacy \in Nat /\ Limit \in Nat \ {0} /\ ExportMaxRows \in Nat
    /\ MaxRows \in Nat /\ MaxTampers \in Nat /\ MaxFaults \in Nat /\ MaxChecks \in Nat

VARIABLES
    \* the database and the network
    chain,      \* audit_log, oldest first: [content, prev, hash]
    anchors,    \* audit_anchors: [head, count]
    journal,    \* the plain logs, oldest first: [rows, gone], gone being the rows pruned
    stored,     \* anchor payloads retrievable from the network
    \* the actors
    mutex,      \* auditChainMu
    writer,     \* [pc, content, head] of each WriteAudit
    anchor,     \* the worker's pass: [pc, count, head]
    check,      \* VerifyAuditChain: [pc, rows, intact, matches] and, as history, whether the
                \* rows it accepted, or vouched for by a clean anchor, are the written ones
    pager,      \* a client that walks the pages: [pc, log, filter, offset, due], due being the
                \* rows that existed when it began and that it has not seen
    \* history and bounds
    written,    \* contents in the order in which WriteAudit inserted them
    tampered,   \* alterations so far
    forged,     \* one of them left a chain that links: a rewrite, or the newest row deleted
    faults, checks

dbVars    == <<chain, anchors, journal, stored>>
histVars  == <<written, tampered, forged>>
vars      == <<dbVars, mutex, writer, anchor, check, pager, histVars, faults, checks>>

auditGenesisHash == <<>>

\* The hash of a row: an injective function of the previous hash and the content.
auditRowHash(prev, content) == Append(prev, content)

Row == [content : Contents, prev : Seq(Contents), hash : Seq(Contents)]

HeadOf(rows) == IF rows = <<>> THEN auditGenesisHash ELSE rows[Len(rows)].hash

PlainLogs == {"system", "config", "access"}

Idle == [pc |-> "idle", content |-> CHOOSE c \in Contents : TRUE, head |-> <<>>]
NoPass == [pc |-> "idle", count |-> 0, head |-> <<>>]
NoCheck == [pc |-> "none", rows |-> <<>>, intact |-> TRUE, matches |-> FALSE,
            asWritten |-> TRUE, anchorTrue |-> TRUE]
NoWalk == [pc |-> "idle", log |-> "audit", filter |-> Everything, offset |-> 0, due |-> {}]

Init ==
    /\ chain = <<>> /\ anchors = <<>> /\ stored = {}
    /\ journal = [l \in PlainLogs |-> [rows |-> [i \in 1 .. Legacy |-> Idle.content], gone |-> 0]]
    /\ mutex = NoOne /\ writer = [w \in Writers |-> Idle]
    /\ anchor = NoPass /\ check = NoCheck /\ pager = NoWalk
    /\ written = <<>> /\ tampered = 0 /\ forged = FALSE
    /\ faults = 0 /\ checks = 0

\* Rows that the bound leaves for the four logs together.
Room(n) ==
    Len(chain) + Len(journal["system"].rows) + Len(journal["config"].rows)
        + Len(journal["access"].rows) - 3 * Legacy + n <= MaxRows

Fault == faults < MaxFaults /\ faults' = faults + 1

-----------------------------------------------------------------------------
(* Writers.                                                                 *)

\* Mutant: the head is read without the lock.
MutAuditEvent(w, c) ==
    /\ writer[w].pc = "idle" /\ Room(1)
    /\ mutex' = w
    /\ writer' = [writer EXCEPT ![w] = [pc |-> "locked", content |-> c, head |-> HeadOf(chain)]]
    /\ UNCHANGED <<dbVars, anchor, check, pager, histVars, faults, checks>>

\* A handler's request becomes a row's content: WriteAudit takes auditChainMu and
\* reads the head of the chain.
auditEvent(w, c) ==
    /\ writer[w].pc = "idle" /\ mutex = NoOne /\ Room(1)
    /\ mutex' = w
    /\ writer' = [writer EXCEPT ![w] = [pc |-> "locked", content |-> c, head |-> HeadOf(chain)]]
    /\ UNCHANGED <<dbVars, anchor, check, pager, histVars, faults, checks>>

\* Inserts the row that links to the head that was read, and unlocks.
WriteAudit(w) ==
    /\ writer[w].pc = "locked"
    /\ LET c == writer[w].content
           h == writer[w].head
       IN  /\ chain' = Append(chain, [content |-> c, prev |-> h, hash |-> auditRowHash(h, c)])
           /\ written' = Append(written, c)
    /\ mutex' = NoOne /\ writer' = [writer EXCEPT ![w] = Idle]
    /\ UNCHANGED <<anchors, journal, stored, anchor, check, pager, tampered, forged, faults, checks>>

\* The head query or the INSERT fails: the event is lost, the request goes on.
WriteFails(w) ==
    /\ writer[w].pc = "locked" /\ Fault
    /\ mutex' = NoOne /\ writer' = [writer EXCEPT ![w] = Idle]
    /\ UNCHANGED <<dbVars, anchor, check, pager, histVars, checks>>

-----------------------------------------------------------------------------
(* Alterations behind the service's back, by whoever can write the tables.  *)

Altered(rows, links) ==
    /\ tampered < MaxTampers /\ tampered' = tampered + 1
    /\ forged' = (forged \/ links)
    /\ chain' = rows
    /\ UNCHANGED <<anchors, journal, stored, mutex, writer, anchor, check, pager,
                   written, faults, checks>>

\* A row's content is edited in place.
EditRow(i, c) == c # chain[i].content /\ Altered([chain EXCEPT ![i].content = c], FALSE)

\* A row is deleted.
DeleteRow(i) ==
    Altered([j \in 1 .. Len(chain) - 1 |-> IF j < i THEN chain[j] ELSE chain[j + 1]],
            i = Len(chain))

\* A row is edited and every later hash is computed again.
RewriteFrom(i, c) ==
    LET text(j) == IF j = i THEN c ELSE chain[j].content
        head(j) == IF i = 1 THEN [k \in 1 .. j |-> text(k)]
                   ELSE chain[i - 1].hash \o [k \in 1 .. j - i + 1 |-> text(i + k - 1)]
    IN  /\ c # chain[i].content
        /\ Altered([j \in 1 .. Len(chain) |->
             IF j < i THEN chain[j]
             ELSE [content |-> text(j),
                   prev |-> IF j = i THEN chain[i].prev ELSE head(j - 1),
                   hash |-> head(j)]], TRUE)

-----------------------------------------------------------------------------
(* Verification: the rows are selected, then the latest anchor, and the two *)
(* are compared.                                                            *)

\* Mutant: the links are followed, the rows are not hashed again.
MutLinkOK(rows, i) ==
    rows[i].prev = IF i = 1 THEN auditGenesisHash ELSE rows[i - 1].hash

LinkOK(rows, i) ==
    LET prev == IF i = 1 THEN auditGenesisHash ELSE rows[i - 1].hash
    IN  rows[i].prev = prev /\ rows[i].hash = auditRowHash(prev, rows[i].content)

FirstBroken(rows) ==
    CHOOSE i \in 1 .. Len(rows) :
        ~LinkOK(rows, i) /\ \A j \in 1 .. i - 1 : LinkOK(rows, j)

Intact(rows) == \A i \in 1 .. Len(rows) : LinkOK(rows, i)

LatestAuditAnchor == anchors[Len(anchors)]

\* Mutant: a chain that no longer reaches the anchor passes.
MutAnchorMatches(rows, a) == a.count \in 1 .. Len(rows) => rows[a.count].hash = a.head

AnchorMatches(rows, a) == a.count \in 1 .. Len(rows) /\ rows[a.count].hash = a.head

\* The first n of the rows are the first n that WriteAudit wrote.
AsWritten(rows, n) ==
    /\ n \in 0 .. Len(rows) /\ n <= Len(written)
    /\ \A i \in 1 .. n : rows[i].content = written[i]

\* The head of an anchor commits to rows as they were written.
Commits(head) == Len(head) <= Len(written) /\ head = SubSeq(written, 1, Len(head))

\* AdminVerifyAuditChain selects the chained rows.
AdminVerifyAuditChain ==
    /\ check.pc # "rows" /\ checks < MaxChecks /\ checks' = checks + 1
    /\ check' = [NoCheck EXCEPT !.pc = "rows", !.rows = chain]
    /\ UNCHANGED <<dbVars, mutex, writer, anchor, pager, histVars, faults>>

\* The answer: BrokenAt is the row after the accepted ones.  With a broken chain
\* the anchor is not looked at.
VerifyAuditChain ==
    /\ check.pc = "rows"
    /\ LET rows == check.rows
           accepted == IF Intact(rows) THEN Len(rows) ELSE FirstBroken(rows) - 1
           matches == Intact(rows) /\ anchors # <<>> /\ AnchorMatches(rows, LatestAuditAnchor)
       IN  check' = [pc |-> "done", rows |-> <<>>, intact |-> Intact(rows), matches |-> matches,
                     asWritten |-> AsWritten(rows, accepted),
                     anchorTrue |-> (matches /\ Commits(LatestAuditAnchor.head)) =>
                                        AsWritten(rows, LatestAuditAnchor.count)]
    /\ UNCHANGED <<dbVars, mutex, writer, anchor, pager, histVars, faults, checks>>

-----------------------------------------------------------------------------
(* The anchor worker.                                                       *)

Payload(a) == [head |-> a.head, count |-> a.count]

AnchorTo(pc) == anchor' = [anchor EXCEPT !.pc = pc]

\* A tick of anchorOnce that finds anchoring enabled: AuditChainHead counts the rows.
CountRows ==
    /\ anchor.pc = "idle" /\ chain # <<>>
    /\ anchor' = [NoPass EXCEPT !.pc = "counted", !.count = Len(chain)]
    /\ UNCHANGED <<dbVars, mutex, writer, check, pager, histVars, faults, checks>>

\* Mutant: the answer already_stored is not looked at.
MutPublishPrepare(a) == "pay"

\* PrepareChunkUpload: a payload that the network already has needs no payment.
PublishPrepare(a) == IF Payload(a) \in stored THEN "record" ELSE "pay"

\* AuditChainHead reads the head; a head that the latest anchor already has ends the
\* pass, another is prepared for publication.
AuditChainHead ==
    /\ anchor.pc = "counted"
    /\ LET a == [anchor EXCEPT !.head = HeadOf(chain)]
           known == anchors # <<>> /\ LatestAuditAnchor = Payload(a)
       IN  anchor' = IF a.head = <<>> \/ known THEN NoPass ELSE [a EXCEPT !.pc = PublishPrepare(a)]
    /\ UNCHANGED <<dbVars, mutex, writer, check, pager, histVars, faults, checks>>

PublishPay ==
    /\ anchor.pc = "pay"
    /\ AnchorTo("finalize")
    /\ UNCHANGED <<dbVars, mutex, writer, check, pager, histVars, faults, checks>>

\* FinalizeChunkUpload and the ChunkGet that confirms it.
PublishFinalize ==
    /\ anchor.pc = "finalize"
    /\ stored' = stored \cup {Payload(anchor)}
    /\ AnchorTo("record")
    /\ UNCHANGED <<chain, anchors, journal, mutex, writer, check, pager, histVars, faults, checks>>

RecordAuditAnchor ==
    /\ anchor.pc = "record"
    /\ anchors' = Append(anchors, Payload(anchor))
    /\ anchor' = NoPass
    /\ UNCHANGED <<chain, journal, stored, mutex, writer, check, pager, histVars, faults, checks>>

\* A call of the pass fails, whether or not it took effect on the network, or
\* a precondition (wallet, RPC URL, key) is missing: the pass ends.
AnchorFails ==
    /\ anchor.pc \in {"counted", "pay", "finalize", "record"} /\ Fault
    /\ anchor' = NoPass
    /\ \/ stored' = stored
       \/ anchor.pc = "finalize" /\ stored' = stored \cup {Payload(anchor)}
    /\ UNCHANGED <<chain, anchors, journal, mutex, writer, check, pager, histVars, checks>>

-----------------------------------------------------------------------------
(* The plain logs.                                                          *)

Appends(l, cs) ==
    /\ Room(Len(cs))
    /\ journal' = [journal EXCEPT ![l].rows = @ \o cs]
    /\ UNCHANGED <<chain, anchors, stored, mutex, writer, anchor, check, pager, histVars, faults, checks>>

WriteSystem(c)     == Appends("system", <<c>>)
WriteFileAccess(c) == Appends("access", <<c>>)

\* SettingsService.Update: one row for each changed key, in one transaction and in
\* whatever order the map is walked.
Update(cs) == (\A i, j \in DOMAIN cs : i # j => cs[i] # cs[j]) /\ Appends("config", cs)

\* CleanupOldLogs: the n oldest rows of system_log have outlived the retention.
CleanupOldLogs(n) ==
    /\ n \in journal["system"].gone + 1 .. Len(journal["system"].rows)
    /\ journal' = [journal EXCEPT !["system"].gone = n]
    /\ pager' = IF pager.log = "system" THEN [pager EXCEPT !.due = @ \ 1 .. n] ELSE pager
    /\ UNCHANGED <<chain, anchors, stored, mutex, writer, anchor, check, histVars, faults, checks>>

-----------------------------------------------------------------------------
(* Pages of the logs, newest first.                                         *)

\* A set of rows, named by their places in a log, newest first.
Newest(rows) ==
    [i \in 1 .. Cardinality(rows) |->
        CHOOSE n \in rows : Cardinality({k \in rows : k > n}) = i - 1]

\* The rows of audit_log a filter selects; those without a hash have no severity here.
buildLogFilter(filter) ==
    Newest({i \in 1 .. Legacy + Len(chain) :
                filter = Everything \/ (i > Legacy /\ chain[i - Legacy].content = filter)})

\* The rows of a plain log a filter selects.
Selects(l, filter) ==
    Newest({i \in journal[l].gone + 1 .. Len(journal[l].rows) :
                filter \in {Everything, journal[l].rows[i]}})

\* Mutant: a page leaves out the row at its offset.
MutPage(rows, offset) ==
    {rows[i] : i \in offset + 2 .. IF offset + Limit < Len(rows) THEN offset + Limit ELSE Len(rows)}

\* ORDER BY created_at DESC LIMIT ? OFFSET ?
Page(rows, offset) ==
    {rows[i] : i \in offset + 1 .. IF offset + Limit < Len(rows) THEN offset + Limit ELSE Len(rows)}

QueryAuditLogs(filter, offset)      == Page(buildLogFilter(filter), offset)
QuerySystemLogs(filter, offset)     == Page(Selects("system", filter), offset)
QueryConfigAudit(filter, offset)    == Page(Selects("config", filter), offset)
QueryFileAccessLogs(filter, offset) == Page(Selects("access", filter), offset)

StartWalk(l, filter) ==
    /\ pager.pc = "idle" /\ checks < MaxChecks /\ checks' = checks + 1
    /\ LET rows == IF l = "audit" THEN buildLogFilter(filter) ELSE Selects(l, filter)
       IN  pager' = [pc |-> "walking", log |-> l, filter |-> filter, offset |-> 0,
                     due |-> {rows[i] : i \in 1 .. Len(rows)}]
    /\ UNCHANGED <<dbVars, mutex, writer, anchor, check, histVars, faults>>

\* The client of a log asks for the next page until one comes back empty.
Turns(l, page) ==
    /\ pager.pc = "walking" /\ pager.log = l
    /\ pager' = IF page = {} THEN [pager EXCEPT !.pc = "done", !.offset = 0]
                ELSE [pager EXCEPT !.offset = @ + Limit, !.due = @ \ page]
    /\ UNCHANGED <<dbVars, mutex, writer, anchor, check, histVars, faults, checks>>

AdminAuditLogs       == Turns("audit", QueryAuditLogs(pager.filter, pager.offset))
AdminSystemLogs      == Turns("system", QuerySystemLogs(pager.filter, pager.offset))
AdminConfigAuditLogs == Turns("config", QueryConfigAudit(pager.filter, pager.offset))
AdminFileAccessLogs  == Turns("access", QueryFileAccessLogs(pager.filter, pager.offset))

\* The newest rows up to the cap, and an error line when there are more.
Stream(l, filter, rows) ==
    [pc |-> IF Len(rows) > ExportMaxRows THEN "capped" ELSE "done", log |-> l,
     filter |-> filter, offset |-> 0, due |-> {rows[i] : i \in ExportMaxRows + 1 .. Len(rows)}]

StreamAuditLogs(filter)      == Stream("audit", filter, buildLogFilter(filter))
StreamSystemLogs(filter)     == Stream("system", filter, Selects("system", filter))
StreamConfigAudit(filter)    == Stream("config", filter, Selects("config", filter))
StreamFileAccessLogs(filter) == Stream("access", filter, Selects("access", filter))

\* An export is one statement, seen whole.
Exports(result) ==
    /\ pager.pc = "idle" /\ checks < MaxChecks /\ checks' = checks + 1
    /\ pager' = result
    /\ UNCHANGED <<dbVars, mutex, writer, anchor, check, histVars, faults>>

AdminExportAuditLogs(filter)       == Exports(StreamAuditLogs(filter))
AdminExportSystemLogs(filter)      == Exports(StreamSystemLogs(filter))
AdminExportConfigAuditLogs(filter) == Exports(StreamConfigAudit(filter))
AdminExportFileAccessLogs(filter)  == Exports(StreamFileAccessLogs(filter))

-----------------------------------------------------------------------------
\* The process dies and comes back: goroutines and the mutex are gone.
Crash ==
    /\ Fault /\ (mutex # NoOne \/ anchor.pc # "idle" \/ check.pc = "rows")
    /\ mutex' = NoOne /\ writer' = [w \in Writers |-> Idle]
    /\ anchor' = NoPass
    /\ check' = IF check.pc = "rows" THEN NoCheck ELSE check
    /\ UNCHANGED <<dbVars, pager, histVars, checks>>

AnchorStep ==
    \/ CountRows \/ AuditChainHead \/ PublishPay \/ PublishFinalize \/ RecordAuditAnchor
Tamper ==
    \E i \in 1 .. Len(chain) :
        \/ DeleteRow(i)
        \/ \E c \in Contents : EditRow(i, c) \/ RewriteFrom(i, c)

Reading ==
    \/ AdminAuditLogs \/ AdminSystemLogs \/ AdminConfigAuditLogs \/ AdminFileAccessLogs
    \/ \E f \in Filters :
        \/ \E l \in PlainLogs \cup {"audit"} : StartWalk(l, f)
        \/ AdminExportAuditLogs(f) \/ AdminExportSystemLogs(f)
        \/ AdminExportConfigAuditLogs(f) \/ AdminExportFileAccessLogs(f)

Next ==
    \/ \E w \in Writers : (\E c \in Contents : auditEvent(w, c)) \/ WriteAudit(w) \/ WriteFails(w)
    \/ Tamper
    \/ AdminVerifyAuditChain \/ VerifyAuditChain
    \/ AnchorStep \/ AnchorFails
    \/ (\E c \in Contents : WriteSystem(c) \/ WriteFileAccess(c))
    \/ (\E c, d \in Contents : Update(<<c>>) \/ Update(<<c, d>>))
    \/ (\E n \in 1 .. MaxRows + Legacy : CleanupOldLogs(n))
    \/ Reading
    \/ Crash

Spec == Init /\ [][Next]_vars

-----------------------------------------------------------------------------
(* Properties.                                                              *)

Hash == Seq(Contents)
Anchor == [head : Hash, count : Nat]

TypeOK ==
    /\ chain \in Seq(Row) /\ anchors \in Seq(Anchor) /\ stored \subseteq Anchor
    /\ journal \in [PlainLogs -> [rows : Seq(Contents), gone : Nat]]
    /\ mutex \in Writers \cup {NoOne}
    /\ writer \in [Writers -> [pc : {"idle", "locked"}, content : Contents, head : Hash]]
    /\ anchor \in [pc : {"idle", "counted", "pay", "finalize", "record"},
                   count : Nat, head : Hash]
    /\ check \in [pc : {"none", "rows", "done"}, rows : Seq(Row), intact : BOOLEAN,
                  matches : BOOLEAN, asWritten : BOOLEAN, anchorTrue : BOOLEAN]
    /\ written \in Hash /\ tampered \in Nat /\ forged \in BOOLEAN
    /\ faults \in Nat /\ checks \in Nat

\* Concurrent handlers, failed writes and crashes never fork the chain: as long as
\* nobody altered the table, AdminVerifyAuditChain answers that it is intact.
NoFalseAlarm == (tampered = 0 /\ check.pc = "done") => check.intact

\* The rows that VerifyAuditChain accepts (all of an intact chain, those before
\* BrokenAt otherwise) are the first rows WriteAudit wrote, in order and unedited,
\* whatever was edited or deleted, unless the alteration left a chain that links.
TrustedPrefix == (check.pc = "done" /\ ~forged) => check.asWritten

\* The anchor closes that gap: when the verification reports a match with an anchor
\* whose head commits to rows as they were written, the rows up to the anchor are the
\* ones that were written, even after a full rewrite of the table.
AnchorVouches == check.pc = "done" => check.anchorTrue

\* PublishChunk never pays for an anchor the network already holds, as after a
\* record step that failed once the chunk was stored.
NoPayForStored ==
    [][(anchor.pc = "pay" /\ anchor'.pc = "finalize") => Payload(anchor) \notin stored]_vars

\* A client that walks the pages of a log with LIMIT and OFFSET while rows are appended
\* and old ones pruned sees every row that existed when it began and was not pruned,
\* and so does one that exports the log and gets no error line.
WalkComplete == (pager.pc = "done" /\ tampered = 0) => pager.due = {}

=============================================================================
