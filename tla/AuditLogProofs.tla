--------------------------- MODULE AuditLogProofs ---------------------------
(***************************************************************************)
(* What the audit chain proves to whoever verifies it (AuditLog), for any  *)
(* number of writers, rows, alterations, faults and crashes.               *)
(*                                                                         *)
(* The argument has two halves.  One is about the running service: unless  *)
(* the table was forged, the newest row commits to everything ever         *)
(* written, whoever holds the mutex has read that commitment, and the hash *)
(* of every row still in the table commits to a prefix of it.  The other   *)
(* is about the verifier and needs no history: in rows that link, the hash *)
(* of row i is the contents of rows 1 .. i.  It goes along the rows, by    *)
(* the first row at which it would fail.                                   *)
(*                                                                         *)
(* The last part is about whoever pages through the logs: what a walk has  *)
(* not seen yet always ranks at or beyond its offset, because rows are     *)
(* added at the newest end and pruned at the oldest.                       *)
(***************************************************************************)
EXTENDS AuditLog, SequenceTheorems, FiniteSetTheorems, WellFoundedInduction, TLAPS

\* A set of numbers has a least one.
LEMMA Least ==
    ASSUME NEW T \in SUBSET Nat, T # {}
    PROVE  \E n \in T : \A m \in T : n <= m
<1>1. PICK n \in T : \A m \in T : ~(<<m, n>> \in OpToRel(<, Nat))
  BY WFMin, NatLessThanWellFounded
<1>2. ASSUME NEW m \in T, m < n  PROVE FALSE
  BY <1>1, <1>2 DEF OpToRel
<1> QED  BY <1>2

\* A function on an initial interval is a sequence.
LEMMA FunctionIsSeq ==
    ASSUME NEW S, NEW n \in Nat, NEW f \in [1 .. n -> S]
    PROVE  f \in Seq(S) /\ Len(f) = n
<1>1. f \in Seq(S)  BY SeqDef
<1> QED  BY <1>1, LenProperties

\* The fields of a row.
LEMMA RowAt ==
    ASSUME NEW rows \in Seq(Row), NEW i \in 1 .. Len(rows)
    PROVE  /\ rows[i] \in Row /\ rows[i].content \in Contents
           /\ rows[i].prev \in Seq(Contents) /\ rows[i].hash \in Seq(Contents)
<1>1. rows[i] \in Row  BY ElementOfSeq
<1> QED  BY <1>1 DEF Row

-----------------------------------------------------------------------------
(* The verifier *)

Linked(rows, n) == \A i \in 1 .. n : LinkOK(rows, i)

\* The hash of a row is the contents up to it.
Covers(rows, i) ==
    /\ Len(rows[i].hash) = i
    /\ \A j \in 1 .. i : rows[i].hash[j] = rows[j].content

\* In rows that link, every hash commits to all the contents before it: each step
\* of VerifyAuditChain adds one content to what the hash before it committed to.
LEMMA LinkedCovers ==
    ASSUME NEW rows \in Seq(Row), NEW n \in 0 .. Len(rows), Linked(rows, n)
    PROVE  \A i \in 1 .. n : Covers(rows, i)
<1> SUFFICES ASSUME NEW b \in 1 .. n, ~Covers(rows, b) PROVE FALSE
  OBVIOUS
<1> DEFINE T == {i \in 1 .. n : ~Covers(rows, i)}
<1>1. PICK i \in T : \A m \in T : i <= m
  <2>1. T \in SUBSET Nat /\ T # {}  OBVIOUS
  <2> HIDE DEF T
  <2> QED  BY <2>1, Least
<1>2. i \in 1 .. n /\ ~Covers(rows, i) /\ \A m \in 1 .. n : m < i => Covers(rows, m)
  BY <1>1
<1> HIDE DEF T
<1>3. rows[i] \in Row /\ LinkOK(rows, i) /\ rows[i].content \in Contents
  BY <1>2, RowAt DEF Linked
<1>4. CASE i = 1
  <2>1. rows[1].hash = Append(<<>>, rows[1].content)
    BY <1>3, <1>4 DEF LinkOK, auditRowHash, auditGenesisHash
  <2> QED  BY <1>2, <1>4, <2>1 DEF Covers
<1>5. CASE i # 1
  <2> DEFINE p == rows[i - 1].hash
             c == rows[i].content
  <2>1. rows[i].hash = Append(p, c)
    BY <1>3, <1>5 DEF LinkOK, auditRowHash
  <2>2. i - 1 \in 1 .. n /\ Covers(rows, i - 1)  BY <1>2, <1>5
  <2>3. p \in Seq(Contents)
    <3>1. i - 1 \in 1 .. Len(rows)  BY <2>2
    <3> QED  BY <3>1, RowAt
  <2>4. Len(p) = i - 1 /\ \A j \in 1 .. i - 1 : p[j] = rows[j].content
    BY <2>2 DEF Covers
  <2> HIDE DEF p, c
  <2>5. /\ Len(Append(p, c)) = i /\ Append(p, c)[i] = c
        /\ \A j \in 1 .. i - 1 : Append(p, c)[j] = p[j]
    BY <1>2, <1>3, <2>3, <2>4 DEF c
  <2>6. Covers(rows, i)
    BY <1>2, <2>1, <2>4, <2>5 DEF Covers, c
  <2> QED  BY <1>2, <2>6
<1> QED  BY <1>4, <1>5

\* The number of rows VerifyAuditChain accepts.
Accepted(rows) == IF Intact(rows) THEN Len(rows) ELSE FirstBroken(rows) - 1

\* The rows before BrokenAt link.
LEMMA AcceptedLinked ==
    ASSUME NEW rows \in Seq(Row)
    PROVE  Accepted(rows) \in 0 .. Len(rows) /\ Linked(rows, Accepted(rows))
<1>0. Len(rows) \in Nat  OBVIOUS
<1>1. CASE Intact(rows)  BY <1>0, <1>1 DEF Accepted, Intact, Linked
<1>2. CASE ~Intact(rows)
  <2> DEFINE T == {i \in 1 .. Len(rows) : ~LinkOK(rows, i)}
  <2>1. PICK i \in T : \A m \in T : i <= m
    <3>1. T \in SUBSET Nat /\ T # {}  BY <1>2 DEF Intact
    <3> HIDE DEF T
    <3> QED  BY <3>1, Least
  <2>2. i \in 1 .. Len(rows) /\ ~LinkOK(rows, i) /\ \A j \in 1 .. i - 1 : LinkOK(rows, j)
    BY <1>0, <2>1
  <2>3. LET b == FirstBroken(rows) IN
        b \in 1 .. Len(rows) /\ ~LinkOK(rows, b) /\ \A j \in 1 .. b - 1 : LinkOK(rows, j)
    BY <2>2 DEF FirstBroken
  <2> QED  BY <1>0, <1>2, <2>3 DEF Accepted, Linked
<1> QED  BY <1>1, <1>2

\* A hash commits to the first of a sequence of contents.
Prefix(h, s) == Len(h) <= Len(s) /\ \A j \in 1 .. Len(h) : h[j] = s[j]

\* Linked rows whose last hash commits to what was written are what was written.
LEMMA CoveredAsWritten ==
    ASSUME NEW rows \in Seq(Row), NEW n \in 0 .. Len(rows), Linked(rows, n),
           n > 0 => Prefix(rows[n].hash, written), written \in Seq(Contents)
    PROVE  AsWritten(rows, n)
<1>0. Len(rows) \in Nat /\ Len(written) \in Nat  OBVIOUS
<1>1. CASE n = 0  BY <1>0, <1>1 DEF AsWritten
<1>2. CASE n > 0
  <2>1. Covers(rows, n)  BY <1>0, <1>2, LinkedCovers
  <2> QED  BY <1>0, <1>2, <2>1 DEF Covers, Prefix, AsWritten
<1> QED  BY <1>0, <1>1, <1>2

\* A match with an anchor that commits to what was written vouches for the rows.
LEMMA AnchorVouchesFor ==
    ASSUME NEW rows \in Seq(Row), Intact(rows), NEW a \in Anchor, AnchorMatches(rows, a),
           Commits(a.head), written \in Seq(Contents)
    PROVE  AsWritten(rows, a.count)
<1>0. Len(rows) \in Nat /\ Len(written) \in Nat /\ a.count \in 1 .. Len(rows)
      /\ rows[a.count].hash = a.head /\ a.head \in Seq(Contents)
  BY DEF AnchorMatches, Anchor, Hash
<1>1. Linked(rows, a.count)  BY <1>0 DEF Intact, Linked
<1>2. Prefix(a.head, written)
  <2>1. Len(a.head) \in Nat /\ Len(a.head) <= Len(written)  BY <1>0 DEF Commits
  <2>2. \A j \in 1 .. Len(a.head) : written[j] \in Contents  BY <1>0, <2>1
  <2>3. \A j \in 1 .. Len(a.head) : SubSeq(written, 1, Len(a.head))[j] = written[j]
    BY <2>1, <2>2, SubSeqProperties
  <2> QED  BY <2>1, <2>3 DEF Commits, Prefix
<1> QED  BY <1>0, <1>1, <1>2, CoveredAsWritten

-----------------------------------------------------------------------------
(* The service *)

\* Whoever writes holds auditChainMu.
LockInv == \A w \in Writers : writer[w].pc = "locked" => mutex = w

\* As long as no alteration left a chain that links, the newest row commits to
\* everything written, and so does the head that the holder of the mutex has read;
\* every hash in the table, and in a verifier's selection, commits to a prefix.
CommitInv ==
    ~forged =>
        /\ HeadOf(chain) = written
        /\ \A w \in Writers : writer[w].pc = "locked" => writer[w].head = written
        /\ \A i \in 1 .. Len(chain) : Prefix(chain[i].hash, written)
        /\ check.pc = "rows" => \A i \in 1 .. Len(check.rows) : Prefix(check.rows[i].hash, written)

\* A table nobody altered links.
UntouchedInv ==
    tampered = 0 => /\ ~forged /\ Intact(chain)
                    /\ check.pc = "rows" => Intact(check.rows)

\* The worker is about to pay for what the network does not have.
PayInv == anchor.pc = "pay" => Payload(anchor) \notin stored

\* What a finished verification answered.
AnswerInv == NoFalseAlarm /\ TrustedPrefix /\ AnchorVouches

AuditInv == TypeOK /\ LockInv /\ CommitInv /\ UntouchedInv /\ PayInv /\ AnswerInv

\* Idle and empty records have their types.
LEMMA RestTypes ==
    /\ Idle \in [pc : {"idle", "locked"}, content : Contents, head : Hash] /\ Idle.pc = "idle"
    /\ NoPass \in [pc : {"idle", "counted", "pay", "finalize", "record"}, count : Nat, head : Hash]
    /\ NoPass.pc = "idle"
    /\ NoCheck \in [pc : {"none", "rows", "done"}, rows : Seq(Row), intact : BOOLEAN,
                    matches : BOOLEAN, asWritten : BOOLEAN, anchorTrue : BOOLEAN]
    /\ NoCheck.pc = "none"
<1>1. (CHOOSE c \in Contents : TRUE) \in Contents  BY AuditAssumption
<1>2. <<>> \in Hash /\ <<>> \in Seq(Row)  BY EmptySeq DEF Hash
<1> QED  BY <1>1, <1>2 DEF Idle, NoPass, NoCheck

\* The initial state.
LEMMA AuditInit == Init => AuditInv
<1> SUFFICES ASSUME Init PROVE AuditInv  OBVIOUS
<1> USE DEF Init
<1>1. TypeOK
  <2>1. <<>> \in Hash /\ <<>> \in Seq(Row) /\ <<>> \in Seq(Anchor)  BY EmptySeq DEF Hash
  <2>2. journal \in [PlainLogs -> [rows : Seq(Contents), gone : Nat]]
    <3>1. Idle.content \in Contents  BY RestTypes
    <3>2. [i \in 1 .. Legacy |-> Idle.content] \in [1 .. Legacy -> Contents]  BY <3>1
    <3>3. [i \in 1 .. Legacy |-> Idle.content] \in Seq(Contents)
      BY <3>2, AuditAssumption, FunctionIsSeq
    <3> QED  BY <3>3
  <2> QED  BY <2>1, <2>2, RestTypes DEF TypeOK
<1>2. LockInv  BY RestTypes DEF LockInv
<1>3. CommitInv  BY RestTypes DEF CommitInv, HeadOf, auditGenesisHash
<1>4. UntouchedInv  BY RestTypes DEF UntouchedInv, Intact
<1>5. PayInv  BY DEF PayInv
<1>6. AnswerInv  BY RestTypes DEF AnswerInv, NoFalseAlarm, TrustedPrefix, AnchorVouches
<1> QED  BY <1>1, <1>2, <1>3, <1>4, <1>5, <1>6 DEF AuditInv

\* The plain logs and the client that reads the pages do not touch the chain.
LEMMA ElsewhereStep ==
    ASSUME AuditInv, journal' \in [PlainLogs -> [rows : Seq(Contents), gone : Nat]],
           faults' \in Nat, checks' \in Nat,
           UNCHANGED <<chain, anchors, stored, mutex, writer, anchor, check, histVars>>
    PROVE  AuditInv'
<1> USE DEF AuditInv, histVars
<1>1. TypeOK'  BY DEF TypeOK
<1>2. LockInv' /\ PayInv'  BY DEF LockInv, PayInv, Payload
<1>3. CommitInv'  BY DEF CommitInv, Prefix, HeadOf
<1>4. UntouchedInv'  BY DEF UntouchedInv, Intact, LinkOK
<1>5. AnswerInv'  BY DEF AnswerInv, NoFalseAlarm, TrustedPrefix, AnchorVouches
<1> QED  BY <1>1, <1>2, <1>3, <1>4, <1>5

\* A writer takes the mutex and reads the head.
LEMMA LockStep ==
    ASSUME AuditInv, NEW w \in Writers, NEW c \in Contents, auditEvent(w, c)
    PROVE  AuditInv'
<1> USE DEF AuditInv, auditEvent, histVars, dbVars
<1> DEFINE h == HeadOf(chain)
<1>0. h \in Hash
  <2>1. CASE chain = <<>>  BY <2>1, EmptySeq DEF HeadOf, auditGenesisHash, Hash
  <2>2. CASE chain # <<>>
    <3>1. chain \in Seq(Row) /\ Len(chain) \in 1 .. Len(chain)  BY <2>2, EmptySeq DEF TypeOK
    <3> QED  BY <2>2, <3>1, RowAt DEF HeadOf, Hash
  <2> QED  BY <2>1, <2>2
<1> HIDE DEF h
<1>1. /\ writer' = [writer EXCEPT ![w] = [pc |-> "locked", content |-> c, head |-> h]]
      /\ mutex = NoOne /\ mutex' = w
  BY DEF h
<1>2. TypeOK'  BY <1>0, <1>1 DEF TypeOK
<1>3. LockInv' /\ PayInv'
  BY <1>1, AuditAssumption DEF LockInv, PayInv, Payload, TypeOK
<1>4. CommitInv'
  <2>1. ASSUME ~forged, NEW v \in Writers, writer'[v].pc = "locked"
        PROVE  writer'[v].head = written
    BY <1>1, <2>1 DEF CommitInv, TypeOK, h
  <2> QED  BY <2>1 DEF CommitInv, Prefix, HeadOf
<1>5. UntouchedInv'  BY DEF UntouchedInv, Intact, LinkOK
<1>6. AnswerInv'  BY DEF AnswerInv, NoFalseAlarm, TrustedPrefix, AnchorVouches
<1> QED  BY <1>2, <1>3, <1>4, <1>5, <1>6

\* What was a prefix stays one when a row is written.
LEMMA PrefixGrows ==
    ASSUME NEW h \in Seq(Contents), NEW c \in Contents, NEW s \in Seq(Contents), Prefix(h, s)
    PROVE  Prefix(h, Append(s, c))
  BY DEF Prefix

\* The row is inserted and the mutex released.
LEMMA InsertStep ==
    ASSUME AuditInv, NEW w \in Writers, WriteAudit(w)
    PROVE  AuditInv'
<1> USE DEF AuditInv
<1> DEFINE c == writer[w].content
           h == writer[w].head
           row == [content |-> c, prev |-> h, hash |-> Append(h, c)]
<1>0. /\ c \in Contents /\ h \in Seq(Contents) /\ writer[w].pc = "locked"
      /\ chain \in Seq(Row) /\ written \in Seq(Contents)
      /\ chain' = Append(chain, row) /\ written' = Append(written, c)
      /\ mutex' = NoOne /\ writer' = [writer EXCEPT ![w] = Idle]
      /\ anchors' = anchors /\ journal' = journal /\ stored' = stored /\ anchor' = anchor
      /\ check' = check /\ tampered' = tampered /\ forged' = forged
      /\ faults' = faults /\ checks' = checks
  BY DEF WriteAudit, TypeOK, Hash, auditRowHash
<1>1. /\ row \in Row /\ row.hash = Append(h, c) /\ row.prev = h /\ row.content = c
      /\ Append(h, c) \in Seq(Contents)
  BY <1>0 DEF Row
<1> HIDE DEF row, c, h
<1>2. /\ Len(chain) \in Nat /\ chain' \in Seq(Row) /\ Len(chain') = Len(chain) + 1
      /\ chain'[Len(chain) + 1] = row
      /\ \A i \in 1 .. Len(chain) : chain'[i] = chain[i]
  BY <1>0, <1>1
<1>3. written' \in Seq(Contents)  BY <1>0
<1>4. TypeOK'
  <2>1. writer' \in [Writers -> [pc : {"idle", "locked"}, content : Contents, head : Hash]]
    BY <1>0, RestTypes DEF TypeOK
  <2> QED  BY <1>0, <1>2, <1>3, <2>1 DEF TypeOK, Hash
<1>5. \A v \in Writers : writer'[v].pc # "locked"
  BY <1>0, RestTypes DEF LockInv, TypeOK
<1>6. LockInv' /\ PayInv'  BY <1>0, <1>5 DEF LockInv, PayInv, Payload
<1>7. ASSUME ~forged
      PROVE  /\ HeadOf(chain') = written'
             /\ \A i \in 1 .. Len(chain') : Prefix(chain'[i].hash, written')
             /\ check.pc = "rows" => \A i \in 1 .. Len(check.rows) : Prefix(check.rows[i].hash, written')
  <2>1. h = written  BY <1>0, <1>7 DEF CommitInv, h
  <2>2. chain' # <<>> /\ HeadOf(chain') = written'
    <3>1. chain' # <<>>  BY <1>2, EmptySeq
    <3>2. HeadOf(chain') = chain'[Len(chain) + 1].hash  BY <1>2, <3>1 DEF HeadOf
    <3> QED  BY <1>0, <1>1, <1>2, <2>1, <3>1, <3>2
  <2>3. ASSUME NEW i \in 1 .. Len(chain')  PROVE Prefix(chain'[i].hash, written')
    <3>1. CASE i = Len(chain) + 1
      BY <1>0, <1>1, <1>2, <1>3, <2>1, <3>1 DEF Prefix
    <3>2. CASE i # Len(chain) + 1
      <4>1. i \in 1 .. Len(chain) /\ chain'[i] = chain[i]  BY <1>2, <3>2
      <4>2. Prefix(chain[i].hash, written)  BY <1>7, <4>1 DEF CommitInv
      <4>3. chain[i].hash \in Seq(Contents)  BY <1>0, <4>1, RowAt
      <4> QED  BY <1>0, <4>1, <4>2, <4>3, PrefixGrows DEF Prefix
    <3> QED  BY <3>1, <3>2
  <2>4. ASSUME check.pc = "rows", NEW i \in 1 .. Len(check.rows)
        PROVE  Prefix(check.rows[i].hash, written')
    <3>1. Prefix(check.rows[i].hash, written)  BY <1>7, <2>4 DEF CommitInv
    <3>2. check.rows[i].hash \in Seq(Contents)
      <4>1. check.rows \in Seq(Row)  BY DEF TypeOK
      <4> QED  BY <2>4, <4>1, RowAt
    <3> QED  BY <1>0, <3>1, <3>2, PrefixGrows DEF Prefix
  <2> QED  BY <2>2, <2>3, <2>4
<1>8. CommitInv'  BY <1>0, <1>5, <1>7 DEF CommitInv, Prefix, HeadOf
<1>9. ASSUME tampered = 0  PROVE Intact(chain')
  <2>1. ~forged /\ Intact(chain)  BY <1>9 DEF UntouchedInv
  <2>2. h = HeadOf(chain)  BY <1>0, <2>1 DEF CommitInv, h
  <2>3. ASSUME NEW i \in 1 .. Len(chain')  PROVE LinkOK(chain', i)
    <3>1. CASE i = Len(chain) + 1
      <4>1. CASE Len(chain) = 0
        <5>1. h = <<>>  BY <1>0, <2>2, <4>1, EmptySeq DEF HeadOf, auditGenesisHash
        <5> QED  BY <1>1, <1>2, <3>1, <4>1, <5>1 DEF LinkOK, auditGenesisHash, auditRowHash
      <4>2. CASE Len(chain) # 0
        <5>1. h = chain[Len(chain)].hash  BY <1>0, <2>2, <4>2, EmptySeq DEF HeadOf
        <5> QED  BY <1>1, <1>2, <3>1, <4>2, <5>1 DEF LinkOK, auditRowHash
      <4> QED  BY <4>1, <4>2
    <3>2. CASE i # Len(chain) + 1
      <4>1. i \in 1 .. Len(chain) /\ chain'[i] = chain[i] /\ (i # 1 => chain'[i - 1] = chain[i - 1])
        BY <1>2, <3>2
      <4>2. LinkOK(chain, i)  BY <2>1, <4>1 DEF Intact
      <4> QED  BY <4>1, <4>2 DEF LinkOK
    <3> QED  BY <3>1, <3>2
  <2> QED  BY <2>3 DEF Intact
<1>10. UntouchedInv'  BY <1>0, <1>9 DEF UntouchedInv, Intact, LinkOK
<1>11. AnswerInv'  BY <1>0 DEF AnswerInv, NoFalseAlarm, TrustedPrefix, AnchorVouches
<1> QED  BY <1>4, <1>6, <1>8, <1>10, <1>11

\* A failed write, or a crash: the mutex is free and nobody writes.  A crash also
\* ends the anchor worker's pass and the verification.
LEMMA GiveUpStep ==
    ASSUME AuditInv, (\E w \in Writers : WriteFails(w)) \/ Crash
    PROVE  AuditInv'
<1> USE DEF AuditInv
<1>0. /\ chain' = chain /\ anchors' = anchors /\ journal' = journal /\ stored' = stored
      /\ written' = written /\ tampered' = tampered /\ forged' = forged
      /\ faults' = faults + 1 /\ checks' = checks /\ mutex' = NoOne
      /\ anchor' = anchor \/ anchor' = NoPass
      /\ check' = check \/ (check.pc = "rows" /\ check' = NoCheck)
  BY DEF WriteFails, Crash, Fault, dbVars, histVars
<1>1. /\ writer' \in [Writers -> [pc : {"idle", "locked"}, content : Contents, head : Hash]]
      /\ \A v \in Writers : writer'[v].pc # "locked"
  <2>1. ASSUME NEW w \in Writers, WriteFails(w)
        PROVE  /\ writer' \in [Writers -> [pc : {"idle", "locked"}, content : Contents, head : Hash]]
               /\ \A v \in Writers : writer'[v].pc # "locked"
    BY <2>1, RestTypes DEF WriteFails, LockInv, TypeOK
  <2>2. ASSUME Crash
        PROVE  /\ writer' \in [Writers -> [pc : {"idle", "locked"}, content : Contents, head : Hash]]
               /\ \A v \in Writers : writer'[v].pc # "locked"
    BY <2>2, RestTypes DEF Crash
  <2> QED  BY <2>1, <2>2
<1>2. TypeOK'
  <2>1. anchor' \in [pc : {"idle", "counted", "pay", "finalize", "record"}, count : Nat, head : Hash]
    BY <1>0, RestTypes DEF TypeOK
  <2>2. check' \in [pc : {"none", "rows", "done"}, rows : Seq(Row), intact : BOOLEAN,
                    matches : BOOLEAN, asWritten : BOOLEAN, anchorTrue : BOOLEAN]
    BY <1>0, RestTypes DEF TypeOK
  <2>3. mutex' \in Writers \cup {NoOne} /\ faults' \in Nat  BY <1>0 DEF TypeOK
  <2> QED  BY <1>0, <1>1, <2>1, <2>2, <2>3 DEF TypeOK
<1>3. LockInv'  BY <1>1 DEF LockInv
<1>4. PayInv'  BY <1>0, RestTypes DEF PayInv, Payload
<1>5. CommitInv'  BY <1>0, <1>1, RestTypes DEF CommitInv
<1>6. UntouchedInv'  BY <1>0, RestTypes DEF UntouchedInv
<1>7. AnswerInv'
  BY <1>0, RestTypes DEF AnswerInv, NoFalseAlarm, TrustedPrefix, AnchorVouches
<1> QED  BY <1>2, <1>3, <1>4, <1>5, <1>6, <1>7

-----------------------------------------------------------------------------
(* Alterations *)

\* Any alteration keeps the invariant if it keeps the types and, unless it is
\* counted as forged, the newest hash and the set of hashes.
LEMMA AlteredStep ==
    ASSUME AuditInv, NEW rows \in Seq(Row), NEW links \in BOOLEAN, Altered(rows, links),
           ~links => /\ HeadOf(rows) = HeadOf(chain)
                     /\ \A i \in 1 .. Len(rows) : \E j \in 1 .. Len(chain) :
                            rows[i].hash = chain[j].hash
    PROVE  AuditInv'
<1> USE DEF AuditInv, Altered
<1>0. tampered \in Nat /\ tampered' = tampered + 1  BY DEF TypeOK
<1>1. TypeOK'  BY <1>0 DEF TypeOK
<1>2. LockInv' /\ PayInv'  BY DEF LockInv, PayInv, Payload
<1>3. CommitInv'
  <2>1. ASSUME ~forged'  PROVE ~forged /\ ~links  BY <2>1 DEF TypeOK
  <2> QED  BY <2>1 DEF CommitInv
<1>4. UntouchedInv'  BY <1>0 DEF UntouchedInv
<1>5. AnswerInv'
  <2>1. NoFalseAlarm'  BY <1>0 DEF NoFalseAlarm
  <2>2. TrustedPrefix'  BY DEF AnswerInv, TrustedPrefix, TypeOK
  <2>3. AnchorVouches'  BY DEF AnswerInv, AnchorVouches
  <2> QED  BY <2>1, <2>2, <2>3 DEF AnswerInv
<1> QED  BY <1>1, <1>2, <1>3, <1>4, <1>5

\* A row is edited in place: the hashes stay.
LEMMA EditStep ==
    ASSUME AuditInv, NEW i \in 1 .. Len(chain), NEW c \in Contents, EditRow(i, c)
    PROVE  AuditInv'
<1> DEFINE row == [chain[i] EXCEPT !.content = c]
           rows == [chain EXCEPT ![i] = row]
<1>0. chain \in Seq(Row)  BY DEF AuditInv, TypeOK
<1>1. chain[i] \in Row  BY <1>0, RowAt
<1>2. row \in Row /\ row.hash = chain[i].hash  BY <1>1 DEF Row
<1> HIDE DEF row
<1>3. /\ rows \in Seq(Row) /\ Len(rows) = Len(chain)
      /\ \A j \in 1 .. Len(chain) : rows[j] = IF j = i THEN row ELSE chain[j]
  BY <1>0, <1>2, ExceptSeq
<1>4. Altered(rows, FALSE)  BY DEF EditRow, row
<1> HIDE DEF rows
<1>5. \A j \in 1 .. Len(chain) : rows[j].hash = chain[j].hash  BY <1>2, <1>3
<1>6. HeadOf(rows) = HeadOf(chain)
  <2>1. Len(chain) \in 1 .. Len(chain) /\ chain # <<>> /\ rows # <<>>
    BY <1>0, <1>3, EmptySeq
  <2> QED  BY <1>3, <1>5, <2>1 DEF HeadOf
<1> QED  BY <1>3, <1>4, <1>5, <1>6, AlteredStep

\* A row is deleted: unless it is the newest one, the newest hash stays.
LEMMA DeleteStep ==
    ASSUME AuditInv, NEW i \in 1 .. Len(chain), DeleteRow(i)
    PROVE  AuditInv'
<1> DEFINE n == Len(chain) - 1
           rows == [j \in 1 .. n |-> IF j < i THEN chain[j] ELSE chain[j + 1]]
<1>0. chain \in Seq(Row) /\ Len(chain) \in Nat /\ n \in Nat  BY DEF AuditInv, TypeOK
<1>1. \A j \in 1 .. n : rows[j] \in Row /\ \E k \in 1 .. Len(chain) : rows[j] = chain[k]
  <2> SUFFICES ASSUME NEW j \in 1 .. n
               PROVE  \E k \in 1 .. Len(chain) : rows[j] = chain[k] /\ chain[k] \in Row
    OBVIOUS
  <2>1. j \in 1 .. Len(chain) /\ j + 1 \in 1 .. Len(chain)  BY <1>0
  <2>2. chain[j] \in Row /\ chain[j + 1] \in Row  BY <1>0, <2>1, RowAt
  <2> QED  BY <2>1, <2>2
<1>2. rows \in Seq(Row) /\ Len(rows) = n
  <2>1. rows \in [1 .. n -> Row]  BY <1>1
  <2> HIDE DEF rows, n
  <2> QED  BY <1>0, <2>1, FunctionIsSeq
<1>3. Altered(rows, i = Len(chain))  BY DEF DeleteRow
<1>4. ASSUME i # Len(chain)  PROVE HeadOf(rows) = HeadOf(chain)
  <2>1. n \in 1 .. n /\ n >= i  BY <1>0, <1>4
  <2>2. rows[n] = chain[Len(chain)]  BY <1>0, <2>1
  <2> HIDE DEF rows
  <2>3. rows # <<>> /\ chain # <<>>
    <3>1. Len(rows) # 0 /\ Len(chain) # 0  BY <1>0, <1>2, <2>1
    <3> QED  BY <3>1, EmptySeq
  <2> QED  BY <1>2, <2>2, <2>3 DEF HeadOf
<1> HIDE DEF rows
<1>5. (i = Len(chain)) \in BOOLEAN  OBVIOUS
<1>6. \A j \in 1 .. Len(rows) : \E k \in 1 .. Len(chain) : rows[j].hash = chain[k].hash
  BY <1>1, <1>2
<1> QED  BY <1>2, <1>3, <1>4, <1>5, <1>6, AlteredStep

\* A row is edited and the later hashes computed again: a forged chain.
LEMMA RewriteStep ==
    ASSUME AuditInv, NEW i \in 1 .. Len(chain), NEW c \in Contents, RewriteFrom(i, c)
    PROVE  AuditInv'
<1> DEFINE text(j) == IF j = i THEN c ELSE chain[j].content
           head(j) == IF i = 1 THEN [k \in 1 .. j |-> text(k)]
                      ELSE chain[i - 1].hash \o [k \in 1 .. j - i + 1 |-> text(i + k - 1)]
           row(j) == [content |-> text(j),
                      prev |-> IF j = i THEN chain[i].prev ELSE head(j - 1),
                      hash |-> head(j)]
           rows == [j \in 1 .. Len(chain) |-> IF j < i THEN chain[j] ELSE row(j)]
<1>0. chain \in Seq(Row) /\ Len(chain) \in Nat  BY DEF AuditInv, TypeOK
<1>1. \A j \in 1 .. Len(chain) : text(j) \in Contents  BY <1>0, RowAt
<1>2. ASSUME NEW j \in 1 .. Len(chain), i - 1 <= j  PROVE head(j) \in Seq(Contents)
  <2>1. CASE i = 1
    <3> DEFINE f == [k \in 1 .. j |-> text(k)]
    <3>1. f \in [1 .. j -> Contents]  BY <1>0, <1>1
    <3> HIDE DEF f
    <3>2. f \in Seq(Contents)  BY <3>1, FunctionIsSeq
    <3> QED  BY <2>1, <3>2 DEF f
  <2>2. CASE i # 1
    <3> DEFINE m == j - i + 1
               f == [k \in 1 .. m |-> text(i + k - 1)]
    <3>1. m \in Nat /\ i - 1 \in 1 .. Len(chain)  BY <1>0, <1>2, <2>2
    <3>2. \A k \in 1 .. m : i + k - 1 \in 1 .. Len(chain)  BY <1>0, <1>2, <2>2
    <3>3. f \in [1 .. m -> Contents]
      <4> HIDE DEF text
      <4> QED  BY <1>1, <3>2
    <3> HIDE DEF f, m
    <3>4. f \in Seq(Contents)  BY <3>1, <3>3, FunctionIsSeq
    <3>5. chain[i - 1].hash \in Seq(Contents)  BY <1>0, <3>1, RowAt
    <3>6. chain[i - 1].hash \o f \in Seq(Contents)  BY <3>4, <3>5, ConcatProperties
    <3> QED  BY <2>2, <3>6 DEF f, m
  <2> QED  BY <2>1, <2>2
<1>3. \A j \in 1 .. Len(chain) : ~(j < i) => row(j) \in Row
  <2> SUFFICES ASSUME NEW j \in 1 .. Len(chain), ~(j < i)
               PROVE  row(j) \in Row
    OBVIOUS
  <2>1. text(j) \in Contents  BY <1>1
  <2>2. head(j) \in Seq(Contents)  BY <1>0, <1>2
  <2>3. (IF j = i THEN chain[i].prev ELSE head(j - 1)) \in Seq(Contents)
    <3>1. CASE j = i  BY <1>0, <3>1, RowAt
    <3>2. CASE j # i
      <4>1. j - 1 \in 1 .. Len(chain) /\ i - 1 <= j - 1  BY <1>0, <3>2
      <4>2. head(j - 1) \in Seq(Contents)  BY <1>2, <4>1
      <4> HIDE DEF head
      <4> QED  BY <3>2, <4>2
    <3> QED  BY <3>1, <3>2
  <2> HIDE DEF head, text
  <2> QED  BY <2>1, <2>2, <2>3 DEF Row
<1>4. rows \in [1 .. Len(chain) -> Row]
  <2>1. \A j \in 1 .. Len(chain) : chain[j] \in Row  BY <1>0, RowAt
  <2> HIDE DEF row
  <2> QED  BY <1>3, <2>1
<1>5. Altered(rows, TRUE)  BY DEF RewriteFrom
<1> HIDE DEF rows
<1>6. rows \in Seq(Row)  BY <1>0, <1>4, FunctionIsSeq
<1> QED  BY <1>5, <1>6, AlteredStep

-----------------------------------------------------------------------------
(* Verification *)

Check == [pc : {"none", "rows", "done"}, rows : Seq(Row), intact : BOOLEAN,
          matches : BOOLEAN, asWritten : BOOLEAN, anchorTrue : BOOLEAN]

\* The verifier selects the rows.
LEMMA SelectStep ==
    ASSUME AuditInv, AdminVerifyAuditChain
    PROVE  AuditInv'
<1> USE DEF AuditInv, AdminVerifyAuditChain, dbVars, histVars
<1>0. chain \in Seq(Row) /\ NoCheck \in Check  BY RestTypes DEF TypeOK, Check
<1>1. check' \in Check /\ check'.pc = "rows" /\ check'.rows = chain
  BY <1>0 DEF Check
<1>2. TypeOK'  BY <1>1 DEF TypeOK, Check
<1>3. LockInv' /\ PayInv'  BY DEF LockInv, PayInv, Payload
<1>4. CommitInv'  BY <1>1 DEF CommitInv, HeadOf, Prefix
<1>5. UntouchedInv'  BY <1>1 DEF UntouchedInv, Intact, LinkOK
<1>6. AnswerInv'  BY <1>1 DEF AnswerInv, NoFalseAlarm, TrustedPrefix, AnchorVouches
<1> QED  BY <1>2, <1>3, <1>4, <1>5, <1>6

\* The verifier answers.
LEMMA VerifyStep ==
    ASSUME AuditInv, VerifyAuditChain
    PROVE  AuditInv'
<1> USE DEF AuditInv, dbVars, histVars
<1> DEFINE rows == check.rows
           matches == Intact(rows) /\ anchors # <<>> /\ AnchorMatches(rows, LatestAuditAnchor)
           vouched == (matches /\ Commits(LatestAuditAnchor.head)) =>
                          AsWritten(rows, LatestAuditAnchor.count)
<1>0. /\ check.pc = "rows" /\ rows \in Seq(Row) /\ written \in Seq(Contents)
      /\ check' = [pc |-> "done", rows |-> <<>>, intact |-> Intact(rows), matches |-> matches,
                   asWritten |-> AsWritten(rows, Accepted(rows)), anchorTrue |-> vouched]
      /\ chain' = chain /\ anchors' = anchors /\ journal' = journal /\ stored' = stored
      /\ mutex' = mutex /\ writer' = writer /\ anchor' = anchor
      /\ written' = written /\ tampered' = tampered /\ forged' = forged
      /\ faults' = faults /\ checks' = checks
  BY DEF VerifyAuditChain, TypeOK, Hash, Accepted
<1>1. ASSUME ~forged  PROVE AsWritten(rows, Accepted(rows))
  <2>1. Accepted(rows) \in 0 .. Len(rows) /\ Linked(rows, Accepted(rows))
    BY <1>0, AcceptedLinked
  <2>2. \A i \in 1 .. Len(rows) : Prefix(rows[i].hash, written)
    BY <1>0, <1>1 DEF CommitInv
  <2>3. Len(rows) \in Nat  BY <1>0
  <2> HIDE DEF rows
  <2>4. Accepted(rows) > 0 => Prefix(rows[Accepted(rows)].hash, written)
    BY <2>1, <2>2, <2>3
  <2> QED  BY <1>0, <2>1, <2>4, CoveredAsWritten
<1>2. vouched
  <2> SUFFICES ASSUME matches, Commits(LatestAuditAnchor.head)
               PROVE  AsWritten(rows, LatestAuditAnchor.count)
    OBVIOUS
  <2>1. LatestAuditAnchor \in Anchor
    <3>1. anchors \in Seq(Anchor) /\ anchors # <<>>  BY DEF TypeOK
    <3>2. Len(anchors) \in 1 .. Len(anchors)  BY <3>1, EmptySeq
    <3> QED  BY <3>1, <3>2, ElementOfSeq DEF LatestAuditAnchor
  <2> QED  BY <1>0, <2>1, AnchorVouchesFor
<1>3. tampered = 0 => Intact(rows)  BY <1>0 DEF UntouchedInv
<1>4. /\ check'.pc = "done" /\ check'.intact = Intact(rows)
      /\ check'.asWritten = AsWritten(rows, Accepted(rows)) /\ check'.anchorTrue = vouched
      /\ check' \in Check
  <2>1. <<>> \in Seq(Row)  BY EmptySeq
  <2>2. /\ Intact(rows) \in BOOLEAN /\ AsWritten(rows, Accepted(rows)) \in BOOLEAN
    BY DEF Intact, AsWritten
  <2>3. matches \in BOOLEAN /\ vouched \in BOOLEAN  OBVIOUS
  <2> HIDE DEF matches, vouched, rows
  <2> QED  BY <1>0, <2>1, <2>2, <2>3 DEF Check
<1> HIDE DEF vouched
<1>5. TypeOK'  BY <1>0, <1>4 DEF TypeOK, Check
<1>6. LockInv' /\ PayInv'  BY <1>0 DEF LockInv, PayInv, Payload
<1>7. CommitInv'  BY <1>0, <1>4 DEF CommitInv
<1>8. UntouchedInv'  BY <1>0, <1>4 DEF UntouchedInv
<1>9. AnswerInv'
  BY <1>0, <1>1, <1>2, <1>3, <1>4 DEF AnswerInv, NoFalseAlarm, TrustedPrefix, AnchorVouches
<1> QED  BY <1>5, <1>6, <1>7, <1>8, <1>9

-----------------------------------------------------------------------------
(* The anchor worker *)

Pass == [pc : {"idle", "counted", "pay", "finalize", "record"}, count : Nat, head : Hash]

\* A step of the worker touches nothing of the chain.
LEMMA WorkerStep ==
    ASSUME AuditInv, anchor' \in Pass, PayInv', stored' \subseteq Anchor,
           anchors' \in Seq(Anchor), faults' \in Nat,
           UNCHANGED <<chain, journal, mutex, writer, check, histVars, checks>>
    PROVE  AuditInv'
<1> USE DEF AuditInv, histVars
<1>1. TypeOK'  BY DEF TypeOK, Pass
<1>2. LockInv'  BY DEF LockInv
<1>3. CommitInv'  BY DEF CommitInv, Prefix, HeadOf
<1>4. UntouchedInv'  BY DEF UntouchedInv, Intact, LinkOK
<1>5. AnswerInv'  BY DEF AnswerInv, NoFalseAlarm, TrustedPrefix, AnchorVouches
<1> QED  BY <1>1, <1>2, <1>3, <1>4, <1>5

\* The anchor worker: it reads the head, prepares, pays and records what it has read.
LEMMA AnchorSteps ==
    ASSUME AuditInv, AnchorStep \/ AnchorFails
    PROVE  AuditInv'
<1> USE DEF AuditInv, dbVars, histVars
<1>0. /\ anchor \in Pass /\ anchors \in Seq(Anchor) /\ stored \subseteq Anchor
      /\ chain \in Seq(Row) /\ faults \in Nat /\ NoPass \in Pass /\ NoPass.pc = "idle"
      /\ NoPass.head = <<>> /\ NoPass.count = 0
  BY RestTypes DEF TypeOK, Pass, NoPass
<1>1. Payload(anchor) \in Anchor  BY <1>0 DEF Pass, Payload, Anchor
<1>2. CASE CountRows
  <2>1. anchor' \in Pass /\ anchor'.pc = "counted"
    <3>1. Len(chain) \in Nat  BY <1>0
    <3> QED  BY <1>0, <1>2, <3>1 DEF CountRows, Pass
  <2> QED  BY <1>0, <1>2, <2>1, WorkerStep DEF CountRows, PayInv
<1>3. CASE AuditChainHead
  <2> DEFINE h == HeadOf(chain)
             a == [anchor EXCEPT !.head = h]
             b == [a EXCEPT !.pc = PublishPrepare(a)]
  <2>1. h \in Hash
    <3>1. CASE chain = <<>>  BY <3>1, EmptySeq DEF HeadOf, auditGenesisHash, Hash
    <3>2. CASE chain # <<>>
      <4>1. Len(chain) \in 1 .. Len(chain)  BY <1>0, <3>2, EmptySeq
      <4> QED  BY <1>0, <3>2, <4>1, RowAt DEF HeadOf, Hash
    <3> QED  BY <3>1, <3>2
  <2>2. anchor' = NoPass \/ anchor' = b  BY <1>3 DEF AuditChainHead
  <2> HIDE DEF h
  <2>3. a \in Pass  BY <1>0, <2>1 DEF Pass
  <2>4. PublishPrepare(a) \in {"record", "pay"}
        /\ (PublishPrepare(a) = "pay" => Payload(a) \notin stored)
    BY DEF PublishPrepare
  <2> HIDE DEF a
  <2>5. b \in Pass /\ b.pc = PublishPrepare(a) /\ b.head = a.head /\ b.count = a.count
    BY <2>3, <2>4 DEF Pass
  <2>6. stored' = stored /\ UNCHANGED <<chain, anchors, journal, mutex, writer, check, histVars, faults, checks>>
    BY <1>3 DEF AuditChainHead
  <2> HIDE DEF b
  <2>7. anchor' \in Pass  BY <1>0, <2>2, <2>5
  <2>8. PayInv'  BY <1>0, <2>2, <2>4, <2>5, <2>6 DEF PayInv, Payload
  <2> QED  BY <1>0, <2>6, <2>7, <2>8, WorkerStep
<1>4. CASE PublishPay
  <2>1. anchor' \in Pass /\ anchor'.pc = "finalize"  BY <1>0, <1>4 DEF PublishPay, AnchorTo, Pass
  <2> QED  BY <1>0, <1>4, <2>1, WorkerStep DEF PublishPay, PayInv
<1>5. CASE PublishFinalize
  <2>1. anchor' \in Pass /\ anchor'.pc = "record"  BY <1>0, <1>5 DEF PublishFinalize, AnchorTo, Pass
  <2> QED  BY <1>0, <1>1, <1>5, <2>1, WorkerStep DEF PublishFinalize, PayInv
<1>6. CASE RecordAuditAnchor
  <2>1. anchors' \in Seq(Anchor)  BY <1>0, <1>1, <1>6 DEF RecordAuditAnchor
  <2> QED  BY <1>0, <1>6, <2>1, WorkerStep DEF RecordAuditAnchor, PayInv
<1>7. CASE AnchorFails
  <2>1. stored' \subseteq Anchor /\ faults' \in Nat /\ anchor' = NoPass
    BY <1>0, <1>1, <1>7 DEF AnchorFails, Fault
  <2> QED  BY <1>0, <1>7, <2>1, WorkerStep DEF AnchorFails, PayInv
<1> QED  BY <1>2, <1>3, <1>4, <1>5, <1>6, <1>7 DEF AnchorStep

-----------------------------------------------------------------------------
(* The plain logs and their readers *)

\* A plain log grows at its end, which the chain does not see.
LEMMA AppendsStep ==
    ASSUME AuditInv, NEW l \in PlainLogs, NEW cs \in Seq(Contents), Appends(l, cs)
    PROVE  AuditInv'
<1>1. journal \in [PlainLogs -> [rows : Seq(Contents), gone : Nat]] /\ faults \in Nat /\ checks \in Nat
  BY DEF AuditInv, TypeOK
<1> DEFINE j == [journal[l] EXCEPT !.rows = journal[l].rows \o cs]
<1>2. journal' = [journal EXCEPT ![l] = j]  BY DEF Appends
<1>3. journal[l].rows \o cs \in Seq(Contents)  BY <1>1, ConcatProperties
<1>4. j \in [rows : Seq(Contents), gone : Nat]  BY <1>1, <1>3
<1> HIDE DEF j
<1>5. journal' \in [PlainLogs -> [rows : Seq(Contents), gone : Nat]]  BY <1>1, <1>2, <1>4
<1> QED  BY <1>1, <1>5, ElsewhereStep DEF Appends

\* Retention of the system log does not touch the chain.
LEMMA CleanupStep ==
    ASSUME AuditInv, NEW n, CleanupOldLogs(n)
    PROVE  AuditInv'
<1>1. journal \in [PlainLogs -> [rows : Seq(Contents), gone : Nat]] /\ faults \in Nat /\ checks \in Nat
  BY DEF AuditInv, TypeOK
<1> DEFINE j == [journal["system"] EXCEPT !.gone = n]
<1>2. "system" \in PlainLogs  BY DEF PlainLogs
<1>3. journal' = [journal EXCEPT !["system"] = j]  BY DEF CleanupOldLogs
<1>4. n \in Nat  BY <1>1, <1>2 DEF CleanupOldLogs
<1>5. j \in [rows : Seq(Contents), gone : Nat]  BY <1>1, <1>2, <1>4
<1> HIDE DEF j
<1>6. journal' \in [PlainLogs -> [rows : Seq(Contents), gone : Nat]]  BY <1>1, <1>3, <1>5
<1> QED  BY <1>1, <1>6, ElsewhereStep DEF CleanupOldLogs

\* Pages and exports only read.
LEMMA ReadingStep ==
    ASSUME AuditInv, Reading
    PROVE  AuditInv'
<1>1. /\ UNCHANGED <<dbVars, mutex, writer, anchor, check, histVars, faults>>
      /\ checks' = checks \/ checks' = checks + 1
  BY DEF Reading, AdminAuditLogs, AdminSystemLogs, AdminConfigAuditLogs, AdminFileAccessLogs,
         Turns, StartWalk, Exports, AdminExportAuditLogs, AdminExportSystemLogs,
         AdminExportConfigAuditLogs, AdminExportFileAccessLogs
<1>2. /\ journal \in [PlainLogs -> [rows : Seq(Contents), gone : Nat]]
      /\ faults \in Nat /\ checks \in Nat
  BY DEF AuditInv, TypeOK
<1> QED  BY <1>1, <1>2, ElsewhereStep DEF dbVars

-----------------------------------------------------------------------------
\* AuditInv is inductive.
LEMMA AuditNext == AuditInv /\ [Next]_vars => AuditInv'
<1> SUFFICES ASSUME AuditInv, [Next]_vars PROVE AuditInv'  OBVIOUS
<1>1. ASSUME NEW w \in Writers, NEW c \in Contents, auditEvent(w, c)  PROVE AuditInv'
  BY <1>1, LockStep
<1>2. ASSUME NEW w \in Writers, WriteAudit(w)  PROVE AuditInv'
  BY <1>2, InsertStep
<1>3. ASSUME NEW w \in Writers, WriteFails(w)  PROVE AuditInv'
  BY <1>3, GiveUpStep
<1>4. CASE Tamper
  BY <1>4, EditStep, DeleteStep, RewriteStep DEF Tamper
<1>5. CASE AdminVerifyAuditChain  BY <1>5, SelectStep
<1>6. CASE VerifyAuditChain  BY <1>6, VerifyStep
<1>7. CASE AnchorStep \/ AnchorFails  BY <1>7, AnchorSteps
<1>8. ASSUME NEW c \in Contents, WriteSystem(c) \/ WriteFileAccess(c)  PROVE AuditInv'
  <2>1. <<c>> \in Seq(Contents) /\ "system" \in PlainLogs /\ "access" \in PlainLogs
    BY DEF PlainLogs
  <2> QED  BY <1>8, <2>1, AppendsStep DEF WriteSystem, WriteFileAccess
<1>9. ASSUME NEW c \in Contents, NEW d \in Contents, Update(<<c>>) \/ Update(<<c, d>>)
      PROVE  AuditInv'
  <2>1. <<c>> \in Seq(Contents) /\ <<c, d>> \in Seq(Contents) /\ "config" \in PlainLogs
    BY DEF PlainLogs
  <2> QED  BY <1>9, <2>1, AppendsStep DEF Update
<1>10. ASSUME NEW n \in 1 .. MaxRows + Legacy, CleanupOldLogs(n)  PROVE AuditInv'
  BY <1>10, CleanupStep
<1>11. CASE Reading  BY <1>11, ReadingStep
<1>12. CASE Crash  BY <1>12, GiveUpStep
<1>13. CASE UNCHANGED vars
  <2>1. /\ journal' \in [PlainLogs -> [rows : Seq(Contents), gone : Nat]]
        /\ faults' \in Nat /\ checks' \in Nat
    BY <1>13 DEF vars, dbVars, AuditInv, TypeOK
  <2> QED  BY <1>13, <2>1, ElsewhereStep DEF vars, dbVars
<1> QED
  BY <1>1, <1>2, <1>3, <1>4, <1>5, <1>6, <1>7, <1>8, <1>9, <1>10, <1>11, <1>12, <1>13 DEF Next

\* The inductive invariant holds in every behaviour.
THEOREM AuditInvariant == Spec => []AuditInv
  BY AuditInit, AuditNext, PTL DEF Spec

\* Concurrent WriteAudit calls, failed writes and crashes never fork the chain: a
\* verification of a table nobody altered reports it intact.
THEOREM UntouchedIsIntact == Spec => []NoFalseAlarm
<1>1. AuditInv => NoFalseAlarm  BY DEF AuditInv, AnswerInv
<1> QED  BY <1>1, AuditInvariant, PTL

\* Whatever rows were edited or deleted, the rows VerifyAuditChain accepts are the
\* first rows WriteAudit wrote, unless an alteration left a chain that links.
THEOREM AcceptedRowsAreGenuine == Spec => []TrustedPrefix
<1>1. AuditInv => TrustedPrefix  BY DEF AuditInv, AnswerInv
<1> QED  BY <1>1, AuditInvariant, PTL

\* Even after a rewrite of the whole table, a match with a true anchor vouches for
\* every row up to it.
THEOREM AnchorsVouch == Spec => []AnchorVouches
<1>1. AuditInv => AnchorVouches  BY DEF AuditInv, AnswerInv
<1> QED  BY <1>1, AuditInvariant, PTL

\* PublishChunk pays only for what the network does not have when it pays.
THEOREM PaysOnlyForMissing == Spec => NoPayForStored
<1>1. AuditInv => ((anchor.pc = "pay" /\ anchor'.pc = "finalize") => Payload(anchor) \notin stored)
  BY DEF AuditInv, PayInv
<1> QED  BY <1>1, AuditInvariant, PTL DEF NoPayForStored

-----------------------------------------------------------------------------
(* Pages.  A row's rank among the selected rows is the number of newer ones; *)
(* a page holds the rows whose ranks follow its offset.                      *)

Rank(S, n) == Cardinality({k \in S : k > n})

\* Ranks are numbers below the number of rows, and a newer row has a smaller one.
LEMMA RankBounds ==
    ASSUME NEW S \in SUBSET Nat, IsFiniteSet(S), NEW n \in S
    PROVE  /\ Rank(S, n) \in Nat /\ Cardinality(S) \in Nat /\ Rank(S, n) < Cardinality(S)
           /\ \A m \in S : m > n => Rank(S, m) < Rank(S, n)
<1> DEFINE Newer(m) == {k \in S : k > m}
<1>1. ASSUME NEW m \in S
      PROVE  IsFiniteSet(Newer(m)) /\ Cardinality(Newer(m)) \in Nat /\ Cardinality(Newer(m)) < Cardinality(S)
  <2>1. Newer(m) \in SUBSET S /\ m \notin Newer(m)
    <3>1. ~(m > m)  OBVIOUS
    <3> QED  BY <3>1
  <2>2. IsFiniteSet(Newer(m)) /\ Cardinality(Newer(m)) <= Cardinality(S) /\ Cardinality(Newer(m)) # Cardinality(S)
    BY <2>1, FS_Subset
  <2>3. Cardinality(Newer(m)) \in Nat /\ Cardinality(S) \in Nat
    BY <2>2, FS_CardinalityType
  <2> QED  BY <2>2, <2>3
<1>2. ASSUME NEW m \in S, m > n  PROVE Cardinality(Newer(m)) < Cardinality(Newer(n))
  <2>1. Newer(m) \in SUBSET Newer(n)
    <3>1. \A k \in S : k > m => k > n  BY <1>2
    <3> QED  BY <3>1
  <2>2. m \in Newer(n) /\ m \notin Newer(m)
    <3>1. ~(m > m)  OBVIOUS
    <3> QED  BY <1>2, <3>1
  <2>3. Cardinality(Newer(m)) <= Cardinality(Newer(n)) /\ Cardinality(Newer(m)) # Cardinality(Newer(n))
    BY <1>1, <2>1, <2>2, FS_Subset
  <2> QED  BY <1>1, <2>3
<1>3. Cardinality(S) \in Nat  BY FS_CardinalityType
<1> QED  BY <1>1, <1>2, <1>3 DEF Rank

\* Two rows never have the same rank.
LEMMA RankInjective ==
    ASSUME NEW S \in SUBSET Nat, IsFiniteSet(S), NEW m \in S, NEW n \in S, Rank(S, m) = Rank(S, n)
    PROVE  m = n
<1>1. Rank(S, m) \in Nat /\ Rank(S, n) \in Nat  BY RankBounds
<1>2. ~(m > n) /\ ~(n > m)  BY <1>1, RankBounds
<1> QED  BY <1>2

\* Newest lists every row once: the row at place i has rank i - 1.
LEMMA NewestRows ==
    ASSUME NEW S \in SUBSET Nat, IsFiniteSet(S)
    PROVE  /\ Cardinality(S) \in Nat /\ Len(Newest(S)) = Cardinality(S)
           /\ \A i \in 1 .. Cardinality(S) : Newest(S)[i] \in S /\ Rank(S, Newest(S)[i]) = i - 1
           /\ \A n \in S : Newest(S)[Rank(S, n) + 1] = n
<1> DEFINE c == Cardinality(S)
           rank == [n \in S |-> Rank(S, n)]
<1>1. c \in Nat  BY FS_CardinalityType
<1>2. IsFiniteSet(0 .. c - 1) /\ Cardinality(0 .. c - 1) = c
  <2> HIDE DEF c
  <2>1. IsFiniteSet(0 .. c - 1) /\ Cardinality(0 .. c - 1) = IF 0 > c - 1 THEN 0 ELSE c - 1 - 0 + 1
    BY <1>1, FS_Interval
  <2> QED  BY <1>1, <2>1
<1>3. \A n \in S : Rank(S, n) \in 0 .. c - 1
  BY <1>1, RankBounds
<1>4. rank \in [S -> 0 .. c - 1]  BY <1>3
<1>5. rank \in Injection(S, 0 .. c - 1)
  BY <1>4, RankInjective DEF Injection, IsInjective
<1>6. rank \in Surjection(S, 0 .. c - 1)
  <2> HIDE DEF rank
  <2> QED  BY <1>2, <1>5, FS_Injection
<1>7. \A i \in 1 .. c : \E n \in S : Rank(S, n) = i - 1
  <2> SUFFICES ASSUME NEW i \in 1 .. c PROVE \E n \in S : Rank(S, n) = i - 1
    OBVIOUS
  <2>1. i - 1 \in 0 .. c - 1  BY <1>1
  <2>2. PICK n \in S : rank[n] = i - 1  BY <1>6, <2>1 DEF Surjection
  <2> QED  BY <2>2
<1>8. Newest(S) = [i \in 1 .. c |-> CHOOSE n \in S : Rank(S, n) = i - 1]
  BY DEF Newest, Rank
<1> HIDE DEF rank, c
<1>9. ASSUME NEW i \in 1 .. c  PROVE Newest(S)[i] \in S /\ Rank(S, Newest(S)[i]) = i - 1
  BY <1>7, <1>8
<1>10. Newest(S) \in [1 .. c -> S]
  <2>1. Newest(S) = [i \in 1 .. c |-> Newest(S)[i]]  BY <1>8
  <2> QED  BY <1>9, <2>1
<1>11. Len(Newest(S)) = c  BY <1>1, <1>10, FunctionIsSeq
<1>12. ASSUME NEW n \in S  PROVE Newest(S)[Rank(S, n) + 1] = n
  <2>1. Rank(S, n) + 1 \in 1 .. c /\ Rank(S, n) \in Nat  BY <1>1, <1>3
  <2>2. Newest(S)[Rank(S, n) + 1] \in S /\ Rank(S, Newest(S)[Rank(S, n) + 1]) = Rank(S, n)
    BY <1>9, <2>1
  <2>3. PICK m \in S : m = Newest(S)[Rank(S, n) + 1] /\ Rank(S, m) = Rank(S, n)
    BY <2>2
  <2>4. m = n  BY <2>3, RankInjective
  <2> QED  BY <2>3, <2>4
<1> QED  BY <1>1, <1>9, <1>11, <1>12 DEF c

\* A page holds the rows from its offset on, up to the limit.
LEMMA PageRows ==
    ASSUME NEW S \in SUBSET Nat, IsFiniteSet(S), NEW o \in Nat
    PROVE  \A n \in S : Rank(S, n) \in o .. o + Limit - 1 => n \in Page(Newest(S), o)
<1> SUFFICES ASSUME NEW n \in S, Rank(S, n) \in o .. o + Limit - 1
             PROVE  n \in Page(Newest(S), o)
  OBVIOUS
<1> DEFINE i == Rank(S, n) + 1
           last == IF o + Limit < Len(Newest(S)) THEN o + Limit ELSE Len(Newest(S))
<1>1. Newest(S)[i] = n /\ Len(Newest(S)) = Cardinality(S) /\ Cardinality(S) \in Nat
  BY NewestRows
<1>2. Rank(S, n) \in Nat /\ Rank(S, n) < Cardinality(S)
  BY RankBounds
<1>3. i \in o + 1 .. last
  BY <1>1, <1>2, AuditAssumption
<1> QED  BY <1>1, <1>3 DEF Page

\* An empty page means that no selected row has a rank beyond its offset.
LEMMA EmptyPage ==
    ASSUME NEW S \in SUBSET Nat, IsFiniteSet(S), NEW o \in Nat, Page(Newest(S), o) = {}
    PROVE  \A n \in S : Rank(S, n) < o
<1> SUFFICES ASSUME NEW n \in S, ~(Rank(S, n) < o)  PROVE FALSE
  OBVIOUS
<1> DEFINE last == IF o + Limit < Len(Newest(S)) THEN o + Limit ELSE Len(Newest(S))
<1>1. Rank(S, n) \in Nat /\ Rank(S, n) < Cardinality(S) /\ Cardinality(S) \in Nat
      /\ Len(Newest(S)) = Cardinality(S)
  BY RankBounds, NewestRows
<1>2. o + 1 \in o + 1 .. last
  BY <1>1, AuditAssumption
<1>3. Newest(S)[o + 1] \in Page(Newest(S), o)
  BY <1>2 DEF Page
<1> QED  BY <1>3

\* More rows, or rows pruned below it, do not lower a row's rank.
LEMMA RankKept ==
    ASSUME NEW S \in SUBSET Nat, IsFiniteSet(S), NEW T \in SUBSET Nat, IsFiniteSet(T), NEW n \in Nat,
           \A k \in S : k > n => k \in T
    PROVE  Rank(S, n) \in Nat /\ Rank(T, n) \in Nat /\ Rank(S, n) <= Rank(T, n)
<1> DEFINE s == {k \in S : k > n}
           t == {k \in T : k > n}
<1>1. s \in SUBSET t  OBVIOUS
<1>2. IsFiniteSet(s) /\ IsFiniteSet(t)
  <2>1. s \in SUBSET S /\ t \in SUBSET T  OBVIOUS
  <2> HIDE DEF s, t
  <2> QED  BY <2>1, FS_Subset
<1>3. Cardinality(s) <= Cardinality(t) /\ Cardinality(s) \in Nat /\ Cardinality(t) \in Nat
  <2> HIDE DEF s, t
  <2> QED  BY <1>1, <1>2, FS_Subset, FS_CardinalityType
<1> QED  BY <1>3 DEF Rank

\* The rows a filter selects from audit_log and from a plain log.
AuditRows(rows, f) ==
    {i \in 1 .. Legacy + Len(rows) : f = Everything \/ (i > Legacy /\ rows[i - Legacy].content = f)}
PlainRows(j, f) == {i \in j.gone + 1 .. Len(j.rows) : f \in {Everything, j.rows[i]}}
RowsOf(l, f, rows, js) == IF l = "audit" THEN AuditRows(rows, f) ELSE PlainRows(js[l], f)

Logs == PlainLogs \cup {"audit"}
JournalRow == [rows : Seq(Contents), gone : Nat]
Walk == [pc : {"idle", "walking", "done", "capped"}, log : Logs, filter : Contents \cup {Everything},
         offset : Nat, due : SUBSET Nat]

\* What a walk still owes is there to be selected, at or beyond its offset.
Ahead(p, rows, js) ==
    \A n \in p.due : /\ n \in RowsOf(p.log, p.filter, rows, js)
                     /\ Rank(RowsOf(p.log, p.filter, rows, js), n) >= p.offset

\* A walk of a log nobody altered.
WalkInv ==
    /\ pager \in Walk
    /\ tampered = 0 => /\ pager.pc = "walking" => Ahead(pager, chain, journal)
                       /\ pager.pc = "done" => pager.due = {}

\* Selected rows are finitely many numbers.
LEMMA RowsFinite ==
    ASSUME NEW rows \in Seq(Row), NEW js \in [PlainLogs -> JournalRow], NEW l \in Logs, NEW f
    PROVE  RowsOf(l, f, rows, js) \in SUBSET Nat /\ IsFiniteSet(RowsOf(l, f, rows, js))
<1>1. CASE l = "audit"
  <2> DEFINE n == Legacy + Len(rows)
  <2>1. n \in Nat  BY AuditAssumption, LenProperties
  <2>2. AuditRows(rows, f) \in SUBSET (1 .. n)  BY DEF AuditRows
  <2>3. IsFiniteSet(1 .. n) /\ 1 .. n \subseteq Nat  BY <2>1, FS_Interval
  <2> HIDE DEF n
  <2> QED  BY <1>1, <2>2, <2>3, FS_Subset DEF RowsOf
<1>2. CASE l # "audit"
  <2> DEFINE a == js[l].gone + 1
             n == Len(js[l].rows)
  <2>1. js[l] \in JournalRow  BY <1>2 DEF Logs
  <2>2. a \in Nat /\ n \in Nat  BY <2>1, LenProperties DEF JournalRow
  <2>3. PlainRows(js[l], f) \in SUBSET (a .. n)  BY DEF PlainRows
  <2> HIDE DEF a, n
  <2>4. IsFiniteSet(a .. n) /\ a .. n \subseteq Nat  BY <2>2, FS_Interval
  <2> QED  BY <1>2, <2>3, <2>4, FS_Subset DEF RowsOf
<1> QED  BY <1>1, <1>2

\* Rows appended, or pruned once they are no longer owed, leave a walk ahead.
LEMMA AheadKept ==
    ASSUME NEW p \in Walk, NEW d \in SUBSET p.due, NEW rows \in Seq(Row), NEW new \in Seq(Row),
           NEW js \in [PlainLogs -> JournalRow], NEW ks \in [PlainLogs -> JournalRow],
           Ahead(p, rows, js),
           \A n \in d, k \in RowsOf(p.log, p.filter, rows, js) :
               k >= n => k \in RowsOf(p.log, p.filter, new, ks)
    PROVE  Ahead([p EXCEPT !.due = d], new, ks)
<1> DEFINE S == RowsOf(p.log, p.filter, rows, js)
           T == RowsOf(p.log, p.filter, new, ks)
           q == [p EXCEPT !.due = d]
<1>0. p.log \in Logs /\ p.offset \in Nat /\ p.due \in SUBSET Nat  BY DEF Walk
<1>1. S \in SUBSET Nat /\ IsFiniteSet(S) /\ T \in SUBSET Nat /\ IsFiniteSet(T)
  BY <1>0, RowsFinite
<1>2. q.due = d /\ q.log = p.log /\ q.filter = p.filter /\ q.offset = p.offset
  BY DEF Walk
<1>3. \A n \in d : n \in S /\ Rank(S, n) >= p.offset
  BY DEF Ahead
<1>4. \A n \in d, k \in S : k >= n => k \in T
  OBVIOUS
<1>5. q.due \subseteq Nat /\ p.due \subseteq Nat  BY <1>0, <1>2
<1> HIDE DEF S, T, q
<1>6. ASSUME NEW n \in d  PROVE n \in T /\ Rank(T, n) >= p.offset
  <2>1. n \in Nat /\ n \in S /\ Rank(S, n) >= p.offset  BY <1>3, <1>0
  <2>2. n \in T  BY <1>4, <2>1
  <2>3. \A k \in S : k > n => k \in T  BY <1>1, <1>4, <2>1
  <2>4. Rank(S, n) \in Nat /\ Rank(T, n) \in Nat /\ Rank(S, n) <= Rank(T, n)
    BY <1>1, <2>1, <2>3, RankKept
  <2> QED  BY <1>0, <2>1, <2>2, <2>4
<1> QED  BY <1>2, <1>6 DEF Ahead, T, q

\* The types of the tables the pages select from.
LEMMA TableTypes == AuditInv => chain \in Seq(Row) /\ journal \in [PlainLogs -> JournalRow] /\ tampered \in Nat
  BY DEF AuditInv, TypeOK, JournalRow

\* A step that keeps every selected row, and the walk, keeps the invariant.
LEMMA WalkGrows ==
    ASSUME AuditInv, AuditInv', WalkInv, pager' = pager, tampered' = tampered,
           \A l \in Logs, f \in Contents \cup {Everything} :
               RowsOf(l, f, chain, journal) \subseteq RowsOf(l, f, chain', journal')
    PROVE  WalkInv'
<1>1. /\ chain \in Seq(Row) /\ journal \in [PlainLogs -> JournalRow]
      /\ chain' \in Seq(Row) /\ journal' \in [PlainLogs -> JournalRow]
  <2>1. chain \in Seq(Row) /\ journal \in [PlainLogs -> JournalRow]  BY TableTypes
  <2>2. chain' \in Seq(Row) /\ journal' \in [PlainLogs -> JournalRow]
    BY DEF AuditInv, TypeOK, JournalRow, Row
  <2> QED  BY <2>1, <2>2
<1>2. pager \in Walk  BY DEF WalkInv
<1>3. ASSUME Ahead(pager, chain, journal)  PROVE Ahead(pager, chain', journal')
  <2>1. pager.log \in Logs /\ pager.filter \in Contents \cup {Everything}  BY <1>2 DEF Walk
  <2>2. [pager EXCEPT !.due = pager.due] = pager  BY <1>2 DEF Walk
  <2>3. \A n \in pager.due, k \in RowsOf(pager.log, pager.filter, chain, journal) :
          k >= n => k \in RowsOf(pager.log, pager.filter, chain', journal')
    BY <2>1
  <2>4. Ahead([pager EXCEPT !.due = pager.due], chain', journal')
    BY <1>1, <1>2, <1>3, <2>3, AheadKept
  <2> QED  BY <2>2, <2>4
<1>4. tampered = 0 => /\ pager.pc = "walking" => Ahead(pager, chain', journal')
                      /\ pager.pc = "done" => pager.due = {}
  BY <1>3 DEF WalkInv
<1> QED  BY <1>2, <1>4 DEF WalkInv

\* WriteAudit adds its row at the end of audit_log.
LEMMA InsertWalk ==
    ASSUME AuditInv, AuditInv', WalkInv, NEW w \in Writers, WriteAudit(w)
    PROVE  WalkInv'
<1>1. chain \in Seq(Row)  BY TableTypes
<1>2. PICK r : chain' = Append(chain, r) /\ r \in Row
  <2> DEFINE r == [content |-> writer[w].content, prev |-> writer[w].head,
                   hash |-> auditRowHash(writer[w].head, writer[w].content)]
  <2>1. writer[w].content \in Contents /\ writer[w].head \in Seq(Contents)
    BY DEF AuditInv, TypeOK, Hash
  <2>2. auditRowHash(writer[w].head, writer[w].content) \in Seq(Contents)
    BY <2>1, AppendProperties DEF auditRowHash
  <2>3. r \in Row  BY <2>1, <2>2 DEF Row
  <2>4. chain' = Append(chain, r)  BY DEF WriteAudit
  <2> QED  BY <2>3, <2>4
<1>3. /\ Len(chain') = Len(chain) + 1 /\ Len(chain) \in Nat
      /\ \A i \in 1 .. Len(chain) : chain'[i] = chain[i]
  BY <1>1, <1>2, AppendProperties, LenProperties
<1>4. ASSUME NEW f, NEW i \in AuditRows(chain, f)  PROVE i \in AuditRows(chain', f)
  <2>1. i \in 1 .. Legacy + Len(chain) /\ (f = Everything \/ (i > Legacy /\ chain[i - Legacy].content = f))
    BY DEF AuditRows
  <2>2. i \in 1 .. Legacy + Len(chain')  BY <1>3, <2>1, AuditAssumption
  <2>3. i > Legacy => chain'[i - Legacy] = chain[i - Legacy]
    <3> SUFFICES ASSUME i > Legacy  PROVE chain'[i - Legacy] = chain[i - Legacy]
      OBVIOUS
    <3>1. i - Legacy \in 1 .. Len(chain)  BY <1>3, <2>1, AuditAssumption
    <3> QED  BY <1>3, <3>1
  <2> QED  BY <2>1, <2>2, <2>3 DEF AuditRows
<1>5. journal' = journal /\ pager' = pager /\ tampered' = tampered
  BY DEF WriteAudit
<1>6. \A l \in Logs, f \in Contents \cup {Everything} :
        RowsOf(l, f, chain, journal) \subseteq RowsOf(l, f, chain', journal')
  BY <1>4, <1>5 DEF RowsOf
<1> QED  BY <1>5, <1>6, WalkGrows

\* So do the writers of the plain logs.
LEMMA AppendsWalk ==
    ASSUME AuditInv, AuditInv', WalkInv, NEW l \in PlainLogs, NEW cs \in Seq(Contents), Appends(l, cs)
    PROVE  WalkInv'
<1>1. journal \in [PlainLogs -> JournalRow]  BY TableTypes
<1> DEFINE old == journal[l].rows
           j == [journal[l] EXCEPT !.rows = old \o cs]
<1>2. journal' = [journal EXCEPT ![l] = j]  BY DEF Appends
<1>3. old \in Seq(Contents) /\ journal[l] \in JournalRow /\ journal[l].gone \in Nat
  BY <1>1 DEF JournalRow
<1>4. j.rows = old \o cs /\ j.gone = journal[l].gone  BY <1>3 DEF JournalRow
<1> HIDE DEF j
<1>5. /\ Len(j.rows) = Len(old) + Len(cs) /\ Len(old) \in Nat /\ Len(cs) \in Nat
      /\ \A i \in 1 .. Len(old) : j.rows[i] = old[i]
  BY <1>3, <1>4, ConcatProperties, LenProperties
<1>6. ASSUME NEW f, NEW i \in PlainRows(journal[l], f)  PROVE i \in PlainRows(j, f)
  <2>1. i \in journal[l].gone + 1 .. Len(old) /\ f \in {Everything, old[i]}  BY DEF PlainRows
  <2>2. i \in journal[l].gone + 1 .. Len(j.rows) /\ i \in 1 .. Len(old)  BY <1>3, <1>5, <2>1
  <2>3. j.rows[i] = old[i]  BY <1>5, <2>2
  <2> QED  BY <1>4, <2>1, <2>2, <2>3 DEF PlainRows
<1>7. chain' = chain /\ pager' = pager /\ tampered' = tampered
  BY DEF Appends, histVars
<1>8. \A m \in PlainLogs : journal'[m] = IF m = l THEN j ELSE journal[m]  BY <1>1, <1>2
<1>9. ASSUME NEW m \in Logs, NEW f \in Contents \cup {Everything}
      PROVE  RowsOf(m, f, chain, journal) \subseteq RowsOf(m, f, chain', journal')
  <2>1. CASE m = "audit"  BY <1>7, <2>1 DEF RowsOf
  <2>2. CASE m # "audit"
    <3>1. m \in PlainLogs  BY <2>2 DEF Logs
    <3>2. PlainRows(journal[m], f) \subseteq PlainRows(journal'[m], f)  BY <1>6, <1>8, <3>1
    <3> QED  BY <2>2, <3>2 DEF RowsOf
  <2> QED  BY <2>1, <2>2
<1> QED  BY <1>7, <1>9, WalkGrows

\* Retention takes the oldest rows, and what it takes is no longer owed: the rows at
\* and above an owed one stay where they are, counted from the newest.
LEMMA CleanupWalk ==
    ASSUME AuditInv, AuditInv', WalkInv, NEW n, CleanupOldLogs(n)
    PROVE  WalkInv'
<1>1. journal \in [PlainLogs -> JournalRow] /\ chain \in Seq(Row)  BY TableTypes
<1>2. journal' \in [PlainLogs -> JournalRow]  BY DEF AuditInv, TypeOK, JournalRow
<1> DEFINE sys == journal["system"]
           j == [sys EXCEPT !.gone = n]
<1>3. "system" \in PlainLogs /\ sys \in JournalRow  BY <1>1 DEF PlainLogs
<1>4. journal' = [journal EXCEPT !["system"] = j] /\ chain' = chain /\ tampered' = tampered
  BY DEF CleanupOldLogs, histVars
<1>5. n \in Nat /\ sys.gone \in Nat /\ Len(sys.rows) \in Nat
  BY <1>3, LenProperties DEF CleanupOldLogs, JournalRow
<1>6. j.gone = n /\ j.rows = sys.rows  BY <1>3 DEF JournalRow
<1> HIDE DEF j
<1>7. journal'["system"] = j /\ \A m \in PlainLogs : m # "system" => journal'[m] = journal[m]
  BY <1>1, <1>3, <1>4
<1>8. pager \in Walk  BY DEF WalkInv
<1>9. CASE pager.log = "system"
  <2> DEFINE d == pager.due \ 1 .. n
  <2>1. pager' = [pager EXCEPT !.due = d]  BY <1>9 DEF CleanupOldLogs
  <2>2. pager.due \in SUBSET Nat  BY <1>8 DEF Walk
  <2>3. d \in SUBSET pager.due  OBVIOUS
  <2>4. pager' \in Walk /\ pager'.pc = pager.pc /\ pager'.due = d
    <3>1. d \in SUBSET Nat  BY <2>2, <2>3
    <3> HIDE DEF d
    <3> QED  BY <1>8, <2>1, <3>1 DEF Walk
  <2>5. ASSUME Ahead(pager, chain, journal)  PROVE Ahead(pager', chain', journal')
    <3> DEFINE S == RowsOf(pager.log, pager.filter, chain, journal)
               T == RowsOf(pager.log, pager.filter, chain', journal')
    <3>1. S = PlainRows(sys, pager.filter) /\ T = PlainRows(j, pager.filter)
      BY <1>7, <1>9 DEF RowsOf
    <3>2. ASSUME NEW m \in d, NEW k \in S, k >= m  PROVE k \in T
      <4>1. m \in S  BY <2>3, <2>5 DEF Ahead
      <4>2. m \in sys.gone + 1 .. Len(sys.rows) /\ m \notin 1 .. n  BY <3>1, <4>1 DEF PlainRows
      <4>3. k \in sys.gone + 1 .. Len(sys.rows) /\ pager.filter \in {Everything, sys.rows[k]}
        BY <3>1 DEF PlainRows
      <4>4. m > n  BY <1>5, <4>2
      <4>5. k \in n + 1 .. Len(sys.rows)  BY <1>5, <3>2, <4>2, <4>3, <4>4
      <4> QED  BY <1>6, <3>1, <4>3, <4>5 DEF PlainRows
    <3> HIDE DEF d
    <3>3. Ahead([pager EXCEPT !.due = d], chain, journal')
      BY <1>1, <1>2, <1>4, <1>8, <2>3, <2>5, <3>2, AheadKept
    <3> QED  BY <1>4, <2>1, <3>3
  <2>6. tampered = 0 => /\ pager'.pc = "walking" => Ahead(pager', chain', journal')
                        /\ pager'.pc = "done" => pager'.due = {}
    <3>1. pager.due = {} => d = {}  OBVIOUS
    <3> HIDE DEF d
    <3> QED  BY <2>4, <2>5, <3>1 DEF WalkInv
  <2> QED  BY <1>4, <2>4, <2>6 DEF WalkInv
<1>10. CASE pager.log # "system"
  <2>1. pager' = pager  BY <1>10 DEF CleanupOldLogs
  <2>2. RowsOf(pager.log, pager.filter, chain, journal) = RowsOf(pager.log, pager.filter, chain', journal')
    <3>1. pager.log = "audit" \/ pager.log \in PlainLogs  BY <1>8 DEF Walk, Logs
    <3> QED  BY <1>4, <1>7, <1>10, <3>1 DEF RowsOf
  <2>3. Ahead(pager, chain, journal) => Ahead(pager, chain', journal')  BY <2>2 DEF Ahead
  <2> QED  BY <1>4, <2>1, <2>3 DEF WalkInv
<1> QED  BY <1>9, <1>10

\* An alteration behind the service's back voids what a walk was promised.
LEMMA AlteredWalk ==
    ASSUME AuditInv, WalkInv, NEW rows, NEW links, Altered(rows, links)
    PROVE  WalkInv'
<1>1. tampered' # 0  BY TableTypes DEF Altered
<1> QED  BY <1>1 DEF Altered, WalkInv

\* A page takes the owed rows of its ranks, so that the rest is beyond the next
\* offset; an empty page means that nothing was owed.
LEMMA TurnsWalk ==
    ASSUME AuditInv, WalkInv, NEW l \in Logs,
           Turns(l, Page(Newest(RowsOf(l, pager.filter, chain, journal)), pager.offset))
    PROVE  WalkInv'
<1> DEFINE S == RowsOf(l, pager.filter, chain, journal)
           o == pager.offset
           page == Page(Newest(S), o)
           d == pager.due \ page
<1>1. journal \in [PlainLogs -> JournalRow] /\ chain \in Seq(Row)  BY TableTypes
<1>2. S \in SUBSET Nat /\ IsFiniteSet(S)  BY <1>1, RowsFinite
<1>3. pager \in Walk /\ pager.pc = "walking" /\ pager.log = l  BY DEF WalkInv, Turns
<1>4. o \in Nat /\ pager.due \in SUBSET Nat /\ Limit \in Nat /\ d \in SUBSET Nat
  BY <1>3, AuditAssumption DEF Walk
<1>5. chain' = chain /\ journal' = journal /\ tampered' = tampered
  BY DEF Turns, dbVars, histVars
<1>6. pager' = IF page = {} THEN [pager EXCEPT !.pc = "done", !.offset = 0]
               ELSE [pager EXCEPT !.offset = o + Limit, !.due = d]
  BY DEF Turns
<1>7. tampered = 0 => \A n \in pager.due : n \in S /\ Rank(S, n) >= o
  BY <1>3 DEF WalkInv, Ahead
<1> HIDE DEF S
<1>8. CASE page = {}
  <2>1. \A n \in S : Rank(S, n) < o  BY <1>2, <1>4, <1>8, EmptyPage
  <2>2. \A n \in S : Rank(S, n) \in Nat  BY <1>2, RankBounds
  <2>3. tampered = 0 => pager.due = {}  BY <1>4, <1>7, <2>1, <2>2
  <2>4. pager' \in Walk /\ pager'.pc = "done" /\ pager'.due = pager.due
    BY <1>3, <1>6, <1>8 DEF Walk
  <2> QED  BY <1>5, <2>3, <2>4 DEF WalkInv
<1>9. CASE page # {}
  <2>1. \A n \in S : Rank(S, n) \in o .. o + Limit - 1 => n \in page
    BY <1>2, <1>4, PageRows
  <2>2. \A n \in S : Rank(S, n) \in Nat  BY <1>2, RankBounds
  <2>3. d \subseteq pager.due /\ \A n \in d : n \notin page  OBVIOUS
  <2> HIDE DEF page, d, o
  <2>4. tampered = 0 => \A n \in d : n \in S /\ Rank(S, n) >= o + Limit
    <3> SUFFICES ASSUME tampered = 0, NEW n \in d  PROVE n \in S /\ Rank(S, n) >= o + Limit
      OBVIOUS
    <3>1. n \in S /\ Rank(S, n) >= o /\ n \notin page  BY <1>7, <2>3
    <3>2. Rank(S, n) \in Nat /\ Rank(S, n) \notin o .. o + Limit - 1  BY <2>1, <2>2, <3>1
    <3> QED  BY <1>4, <3>1, <3>2
  <2>5. o + Limit \in Nat  BY <1>4
  <2>6. /\ pager' \in Walk /\ pager'.pc = "walking" /\ pager'.log = l
        /\ pager'.filter = pager.filter /\ pager'.due = d /\ pager'.offset = o + Limit
    BY <1>3, <1>4, <1>6, <1>9, <2>5 DEF Walk
  <2>7. tampered = 0 => Ahead(pager', chain, journal)
    BY <2>4, <2>6 DEF Ahead, S
  <2> QED  BY <1>5, <2>6, <2>7 DEF WalkInv
<1> QED  BY <1>8, <1>9

\* Every row selected when a walk or an export begins is a number.
LEMMA SelectedRows ==
    ASSUME AuditInv, NEW l \in Logs, NEW f
    PROVE  LET S == RowsOf(l, f, chain, journal)
           IN  /\ (IF l = "audit" THEN buildLogFilter(f) ELSE Selects(l, f)) = Newest(S)
               /\ S \in SUBSET Nat /\ IsFiniteSet(S) /\ Len(Newest(S)) \in Nat
               /\ \A i \in 1 .. Len(Newest(S)) : Newest(S)[i] \in S
<1> DEFINE S == RowsOf(l, f, chain, journal)
<1>1. journal \in [PlainLogs -> JournalRow] /\ chain \in Seq(Row)  BY TableTypes
<1>2. S \in SUBSET Nat /\ IsFiniteSet(S)  BY <1>1, RowsFinite
<1>3. (IF l = "audit" THEN buildLogFilter(f) ELSE Selects(l, f)) = Newest(S)
  BY DEF buildLogFilter, Selects, RowsOf, AuditRows, PlainRows
<1> HIDE DEF S
<1>4. Len(Newest(S)) \in Nat /\ \A i \in 1 .. Len(Newest(S)) : Newest(S)[i] \in S
  BY <1>2, NewestRows
<1> QED  BY <1>2, <1>3, <1>4 DEF S

\* A walk begins with every selected row owed and nothing skipped.
LEMMA StartWalkStep ==
    ASSUME AuditInv, WalkInv, NEW l \in Logs, NEW f \in Contents \cup {Everything}, StartWalk(l, f)
    PROVE  WalkInv'
<1> DEFINE S == RowsOf(l, f, chain, journal)
           due == {Newest(S)[i] : i \in 1 .. Len(Newest(S))}
<1>1. /\ (IF l = "audit" THEN buildLogFilter(f) ELSE Selects(l, f)) = Newest(S)
      /\ S \in SUBSET Nat /\ IsFiniteSet(S)
      /\ \A i \in 1 .. Len(Newest(S)) : Newest(S)[i] \in S
  BY SelectedRows
<1>2. pager' = [pc |-> "walking", log |-> l, filter |-> f, offset |-> 0, due |-> due]
  BY <1>1 DEF StartWalk
<1>3. chain' = chain /\ journal' = journal  BY DEF StartWalk, dbVars
<1> HIDE DEF S
<1>4. due \subseteq S  BY <1>1
<1>5. \A n \in S : Rank(S, n) >= 0
  <2>1. \A n \in S : Rank(S, n) \in Nat  BY <1>1, RankBounds
  <2> QED  BY <2>1
<1> HIDE DEF due
<1>6. due \in SUBSET Nat  BY <1>1, <1>4
<1>7. pager' \in Walk /\ pager'.pc = "walking"  BY <1>2, <1>6 DEF Walk
<1>8. Ahead(pager', chain, journal)  BY <1>2, <1>4, <1>5 DEF Ahead, S
<1> QED  BY <1>3, <1>7, <1>8 DEF WalkInv

\* An export that reports no error had room for every selected row.
LEMMA ExportStep ==
    ASSUME AuditInv, WalkInv, NEW l \in Logs, NEW f \in Contents \cup {Everything},
           Exports(Stream(l, f, IF l = "audit" THEN buildLogFilter(f) ELSE Selects(l, f)))
    PROVE  WalkInv'
<1> DEFINE S == RowsOf(l, f, chain, journal)
           n == Len(Newest(S))
           due == {Newest(S)[i] : i \in ExportMaxRows + 1 .. n}
<1>1. /\ (IF l = "audit" THEN buildLogFilter(f) ELSE Selects(l, f)) = Newest(S)
      /\ S \in SUBSET Nat /\ n \in Nat
      /\ \A i \in 1 .. n : Newest(S)[i] \in S
  BY SelectedRows
<1>2. pager' = [pc |-> IF n > ExportMaxRows THEN "capped" ELSE "done", log |-> l,
                filter |-> f, offset |-> 0, due |-> due]
  BY <1>1 DEF Exports, Stream
<1> HIDE DEF S, n
<1>3. due \subseteq S
  <2>1. \A i \in ExportMaxRows + 1 .. n : i \in 1 .. n  BY <1>1, AuditAssumption
  <2> QED  BY <1>1, <2>1
<1>4. ~(n > ExportMaxRows) => due = {}
  <2>1. ~(n > ExportMaxRows) => ExportMaxRows + 1 .. n = {}  BY <1>1, AuditAssumption
  <2> QED  BY <2>1
<1> HIDE DEF due
<1>5. due \in SUBSET Nat  BY <1>1, <1>3
<1>6. pager' \in Walk /\ pager'.pc # "walking"  BY <1>2, <1>5 DEF Walk
<1>7. pager'.pc = "done" => pager'.due = {}  BY <1>2, <1>4
<1> QED  BY <1>6, <1>7 DEF WalkInv

\* The requests of administrators keep the invariant.
LEMMA ReadingWalk ==
    ASSUME AuditInv, WalkInv, Reading
    PROVE  WalkInv'
<1>0. {"audit", "system", "config", "access"} \subseteq Logs  BY DEF Logs, PlainLogs
<1>1. CASE AdminAuditLogs
  <2>1. QueryAuditLogs(pager.filter, pager.offset)
          = Page(Newest(RowsOf("audit", pager.filter, chain, journal)), pager.offset)
    BY DEF QueryAuditLogs, buildLogFilter, RowsOf, AuditRows
  <2> QED  BY <1>0, <1>1, <2>1, TurnsWalk DEF AdminAuditLogs
<1>2. CASE AdminSystemLogs
  <2>1. QuerySystemLogs(pager.filter, pager.offset)
          = Page(Newest(RowsOf("system", pager.filter, chain, journal)), pager.offset)
    BY DEF QuerySystemLogs, Selects, RowsOf, PlainRows
  <2> QED  BY <1>0, <1>2, <2>1, TurnsWalk DEF AdminSystemLogs
<1>3. CASE AdminConfigAuditLogs
  <2>1. QueryConfigAudit(pager.filter, pager.offset)
          = Page(Newest(RowsOf("config", pager.filter, chain, journal)), pager.offset)
    BY DEF QueryConfigAudit, Selects, RowsOf, PlainRows
  <2> QED  BY <1>0, <1>3, <2>1, TurnsWalk DEF AdminConfigAuditLogs
<1>4. CASE AdminFileAccessLogs
  <2>1. QueryFileAccessLogs(pager.filter, pager.offset)
          = Page(Newest(RowsOf("access", pager.filter, chain, journal)), pager.offset)
    BY DEF QueryFileAccessLogs, Selects, RowsOf, PlainRows
  <2> QED  BY <1>0, <1>4, <2>1, TurnsWalk DEF AdminFileAccessLogs
<1>5. ASSUME NEW f \in Filters, NEW l \in Logs, StartWalk(l, f)  PROVE WalkInv'
  BY <1>5, StartWalkStep, AuditAssumption
<1>6. ASSUME NEW f \in Filters,
             AdminExportAuditLogs(f) \/ AdminExportSystemLogs(f)
               \/ AdminExportConfigAuditLogs(f) \/ AdminExportFileAccessLogs(f)
      PROVE  WalkInv'
  <2>1. f \in Contents \cup {Everything}  BY AuditAssumption
  <2>2. \E l \in Logs : Exports(Stream(l, f, IF l = "audit" THEN buildLogFilter(f) ELSE Selects(l, f)))
    <3>1. CASE AdminExportAuditLogs(f)
      BY <1>0, <3>1 DEF AdminExportAuditLogs, StreamAuditLogs
    <3>2. CASE AdminExportSystemLogs(f)
      BY <1>0, <3>2 DEF AdminExportSystemLogs, StreamSystemLogs
    <3>3. CASE AdminExportConfigAuditLogs(f)
      BY <1>0, <3>3 DEF AdminExportConfigAuditLogs, StreamConfigAudit
    <3>4. CASE AdminExportFileAccessLogs(f)
      BY <1>0, <3>4 DEF AdminExportFileAccessLogs, StreamFileAccessLogs
    <3> QED  BY <1>6, <3>1, <3>2, <3>3, <3>4
  <2> QED  BY <2>1, <2>2, ExportStep
<1> QED  BY <1>1, <1>2, <1>3, <1>4, <1>5, <1>6 DEF Reading, Logs

\* At the start nobody walks.
LEMMA WalkInit == Init => WalkInv
  BY DEF Init, NoWalk, WalkInv, Walk, Logs

\* WalkInv is inductive beside AuditInv.
LEMMA WalkNext == AuditInv /\ WalkInv /\ [Next]_vars => WalkInv'
<1> SUFFICES ASSUME AuditInv, WalkInv, [Next]_vars  PROVE WalkInv'  OBVIOUS
<1>0. AuditInv'  BY AuditNext
<1>1. ASSUME UNCHANGED <<chain, journal, pager, tampered>>  PROVE WalkInv'
  BY <1>1 DEF WalkInv, Ahead
<1>2. ASSUME NEW w \in Writers, NEW c \in Contents, auditEvent(w, c)  PROVE WalkInv'
  BY <1>1, <1>2 DEF auditEvent, dbVars, histVars
<1>3. ASSUME NEW w \in Writers, WriteAudit(w)  PROVE WalkInv'  BY <1>0, <1>3, InsertWalk
<1>4. ASSUME NEW w \in Writers, WriteFails(w)  PROVE WalkInv'
  BY <1>1, <1>4 DEF WriteFails, dbVars, histVars
<1>5. CASE Tamper
  BY <1>5, AlteredWalk DEF Tamper, DeleteRow, EditRow, RewriteFrom
<1>6. CASE AdminVerifyAuditChain \/ VerifyAuditChain
  BY <1>1, <1>6 DEF AdminVerifyAuditChain, VerifyAuditChain, dbVars, histVars
<1>7. CASE AnchorStep \/ AnchorFails
  BY <1>1, <1>7 DEF AnchorStep, AnchorFails, CountRows, AuditChainHead, PublishPay,
                    PublishFinalize, RecordAuditAnchor, dbVars, histVars
<1>8. ASSUME NEW c \in Contents, WriteSystem(c) \/ WriteFileAccess(c)  PROVE WalkInv'
  <2>1. <<c>> \in Seq(Contents) /\ "system" \in PlainLogs /\ "access" \in PlainLogs
    BY DEF PlainLogs
  <2> QED  BY <1>0, <1>8, <2>1, AppendsWalk DEF WriteSystem, WriteFileAccess
<1>9. ASSUME NEW c \in Contents, NEW d \in Contents, Update(<<c>>) \/ Update(<<c, d>>)
      PROVE  WalkInv'
  <2>1. <<c>> \in Seq(Contents) /\ <<c, d>> \in Seq(Contents) /\ "config" \in PlainLogs
    BY DEF PlainLogs
  <2> QED  BY <1>0, <1>9, <2>1, AppendsWalk DEF Update
<1>10. ASSUME NEW n, CleanupOldLogs(n)  PROVE WalkInv'  BY <1>0, <1>10, CleanupWalk
<1>11. CASE Reading  BY <1>11, ReadingWalk
<1>12. CASE Crash  BY <1>1, <1>12 DEF Crash, dbVars, histVars
<1>13. CASE UNCHANGED vars  BY <1>1, <1>13 DEF vars, dbVars, histVars
<1> QED
  BY <1>2, <1>3, <1>4, <1>5, <1>6, <1>7, <1>8, <1>9, <1>10, <1>11, <1>12, <1>13 DEF Next

\* Whoever pages through one of the four logs with LIMIT and OFFSET until a page comes
\* back empty, or exports it and gets no error line, has seen every row that was there
\* when he began and was not pruned meanwhile, for every page size, cap, filter and
\* number of rows written and pruned while he read.
THEOREM WalksAreComplete == Spec => []WalkComplete
<1>1. WalkInv => WalkComplete  BY DEF WalkInv, WalkComplete
<1>2. Spec => []WalkInv
  BY WalkInit, WalkNext, AuditInvariant, PTL DEF Spec
<1> QED  BY <1>1, <1>2, PTL

=============================================================================
