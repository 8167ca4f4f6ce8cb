----------------------------- MODULE MCAuditLog -----------------------------
(* An instance of AuditLog for TLC.                                         *)
EXTENDS AuditLog

CONSTANTS w1, w2

\* The chain and the plain logs share no state but the client that reads them: each is
\* explored while the other is at rest.
ChainAtRest == chain = <<>> /\ mutex = NoOne /\ check = NoCheck
JournalAtRest ==
    pager.log = "audit" /\ \A l \in PlainLogs : Len(journal[l].rows) = Legacy /\ journal[l].gone = 0
OneAtATime == ChainAtRest \/ JournalAtRest

=============================================================================
