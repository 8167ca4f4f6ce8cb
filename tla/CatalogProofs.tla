---------------------------- MODULE CatalogProofs ----------------------------
(***************************************************************************)
(* Proofs about Catalog and the Admission it extends, for every set of     *)
(* users, groups, departments, uploads, quotas, wallets, tags, rules and   *)
(* requests: quotas hold once an upload was let in under them, there is    *)
(* one default wallet, and the owner's tags survive.                       *)
(***************************************************************************)
EXTENDS Catalog, FiniteSetTheorems, WellFoundedInduction, TLAPS

-----------------------------------------------------------------------------
(* Requests in flight.                                                      *)

\* What a request that is creating an upload carries, and that the tags it is
\* about to write include the user's.
GoodRequest(r) ==
    /\ r.k \in {"quota", "insert", "rules"}
         => r \in [k : {"quota", "insert", "rules"}, f : Files, kind : Kinds]
    /\ r.k = "tag" => \A key \in Keys : r.user[key] \subseteq r.tags[key]

RequestsInv == req = [c \in Clients |-> req[c]] /\ \A c \in Clients : GoodRequest(req[c])

\* A client's new request disturbs no other client's.
LEMMA BecomeGood ==
    ASSUME RequestsInv, NEW c \in Clients, NEW r, GoodRequest(r), Become(c, r)
    PROVE  RequestsInv'
BY DEF RequestsInv, Become

\* Requests of any other kind carry nothing the invariant speaks of.
LEMMA OtherGood ==
    ASSUME NEW r, r.k \notin {"quota", "insert", "rules", "tag"}
    PROVE  GoodRequest(r)
BY DEF GoodRequest

\* An answered request leaves its client idle.
LEMMA EndGood ==
    ASSUME RequestsInv, NEW c \in Clients, End(c)
    PROVE  RequestsInv'
<1>1. GoodRequest(Idle)  BY OtherGood DEF Idle
<1>2. QED  BY <1>1, BecomeGood DEF End

\* Every step keeps the invariant of the requests.
LEMMA RequestsKept ==
    ASSUME RequestsInv, [Next]_vars
    PROVE  RequestsInv'
<1>1. CASE UNCHANGED req
  BY <1>1 DEF RequestsInv
<1>2. ASSUME NEW c \in Clients, NEW r, NEW b, Begin(c, b, r), GoodRequest(r)
      PROVE  RequestsInv'
  BY <1>2, BecomeGood DEF Begin, Become
<1>3. CASE Admitting
  <2>1. ASSUME NEW c \in Clients, NEW f \in Files, NEW k \in Kinds, CreateUploadOpen(c, f, k)
        PROVE  RequestsInv'
    <3>1. GoodRequest([k |-> "quota", f |-> f, kind |-> k])  BY DEF GoodRequest
    <3>2. QED  BY <1>2, <2>1, <3>1 DEF CreateUploadOpen
  <2>2. ASSUME NEW c \in Clients, CreateUploadQuota(c)  PROVE RequestsInv'
    <3>1. req[c] \in [k : {"quota", "insert", "rules"}, f : Files, kind : Kinds]
      BY <2>2 DEF CreateUploadQuota, RequestsInv, GoodRequest
    <3>2. GoodRequest([req[c] EXCEPT !.k = "insert"])
      BY <3>1 DEF GoodRequest
    <3>3. QED  BY <2>2, <3>2, BecomeGood, EndGood DEF CreateUploadQuota
  <2>3. ASSUME NEW c \in Clients, CreateUploadInsert(c)  PROVE RequestsInv'
    <3>1. req[c] \in [k : {"quota", "insert", "rules"}, f : Files, kind : Kinds]
      BY <2>3 DEF CreateUploadInsert, RequestsInv, GoodRequest
    <3>2. GoodRequest([req[c] EXCEPT !.k = "rules"])
      BY <3>1 DEF GoodRequest
    <3>3. QED  BY <2>3, <3>2, BecomeGood DEF CreateUploadInsert
  <2>4. ASSUME NEW c \in Clients, NEW w \in Wallets, CreateWalletCount(c, w) \/ DeleteWalletCheck(c, w)
        PROVE  RequestsInv'
    <3>1. /\ GoodRequest([k |-> "wallet", w |-> w, first |-> ~HasWallet])
          /\ GoodRequest([k |-> "unwallet", w |-> w])
      BY OtherGood
    <3>2. QED  BY <1>2, <2>4, <3>1 DEF CreateWalletCount, DeleteWalletCheck
  <2>5. ASSUME NEW c \in Clients, CreateWalletInsert(c) \/ DeleteWalletRow(c)  PROVE RequestsInv'
    BY <2>5, EndGood DEF CreateWalletInsert, DeleteWalletRow
  <2>6. CASE QuotaAdmin \/ Pauses \/ \E w \in Wallets : AdminSetDefaultWallet(w)
    BY <1>1, <2>6 DEF QuotaAdmin, AdminCreateQuota, AdminUpdateQuota, AdminDeleteQuota, Pauses,
                      AdminSetDefaultWallet
  <2>7. ASSUME NEW f \in Files, Work(f) \/ CancelUpload(f) \/ RetryUpload(f)  PROVE UNCHANGED req
    BY <2>7 DEF Work, DequeueNext, RecheckOk, RecheckOver, RecheckNoSource, Complete, FailAbandon,
                SetGasBackoff, RetryTransient, FailPreserve, AttemptEnds, WorkerDies,
                RequeueStuckExcept, CancelUpload, RetryUpload
  <2>8. QED
    BY <1>1, <1>3, <2>1, <2>2, <2>3, <2>4, <2>5, <2>6, <2>7 DEF Admitting, Uploading, WalletAdmin
<1>4. ASSUME NEW c \in Clients, NEW fs, NEW add, NEW drop, BulkTagUploads(c, fs, add, drop)
      PROVE  RequestsInv'
  <2>1. PICK targets \in SetToSeqs(fs) :
          Begin(c, "catalog", [k |-> "bulk", todo |-> Passes(targets, add, drop)])
    BY <1>4 DEF BulkTagUploads
  <2>2. GoodRequest([k |-> "bulk", todo |-> Passes(targets, add, drop)])  BY OtherGood
  <2>3. QED  BY <1>2, <2>1, <2>2
<1>5. CASE Tagging
  <2>1. ASSUME NEW u \in Users, NEW f \in Files, NEW m \in TagChoices, UpdateTags(u, f, m)
        PROVE  UNCHANGED req
    BY <2>1 DEF UpdateTags
  <2>2. QED  BY <1>1, <1>4, <1>5, <2>1 DEF Tagging
<1>6. CASE RuleAdmin
  BY <1>1, <1>6 DEF RuleAdmin, CreateTagRule, UpdateTagRule, DeleteTagRule
<1>7. CASE Collecting
  <2>1. ASSUME NEW c \in Clients, NEW u \in Users, NEW d \in Colls, NEW f \in Files,
               AddToCollection(c, u, d, f)
        PROVE  RequestsInv'
    <3>1. GoodRequest([k |-> "inherit", d |-> d, f |-> f])  BY OtherGood
    <3>2. QED  BY <1>2, <2>1, <3>1 DEF AddToCollection
  <2>2. QED
    BY <1>1, <1>7, <2>1 DEF Collecting, CreateCollection, UpdateCollectionTags, DeleteCollection,
                            RemoveFromCollection
<1>8. ASSUME NEW c \in Clients, Continuing(c)  PROVE RequestsInv'
  <2>1. CASE CreateUploadRules(c)
    <3> DEFINE user == req[c].kind.tags
               all == UserTagsFirst(user, EvaluateRules(req[c].kind.attr))
    <3>1. \A key \in Keys : user[key] \subseteq all[key]
      BY DEF UserTagsFirst
    <3> HIDE DEF user, all
    <3>2. /\ GoodRequest([k |-> "tag", f |-> req[c].f, user |-> user, tags |-> all])
          /\ GoodRequest([k |-> "tag", f |-> req[c].f, user |-> user, tags |-> user])
      BY <3>1 DEF GoodRequest
    <3>3. \/ Become(c, [k |-> "tag", f |-> req[c].f, user |-> user, tags |-> all])
          \/ Become(c, [k |-> "tag", f |-> req[c].f, user |-> user, tags |-> user])
      BY <2>1 DEF CreateUploadRules, user, all
    <3>4. QED  BY <3>2, <3>3, BecomeGood
  <2>2. CASE CreateUploadTags(c) \/ InheritSet(c)
    BY <2>2, EndGood DEF CreateUploadTags, InheritSet
  <2>3. CASE BulkTagRead(c)
    <3>1. PICK old : Become(c, [k |-> "bulkset", todo |-> req[c].todo, old |-> old])
      BY <2>3 DEF BulkTagRead
    <3>2. GoodRequest([k |-> "bulkset", todo |-> req[c].todo, old |-> old])
      BY OtherGood
    <3>3. QED  BY <3>1, <3>2, BecomeGood
  <2>4. CASE BulkTagSet(c)
    <3>1. GoodRequest([k |-> "bulk", todo |-> Tail(req[c].todo)])  BY OtherGood
    <3>2. QED  BY <2>4, <3>1, BecomeGood, EndGood DEF BulkTagSet
  <2>5. CASE InheritRead(c)
    <3>1. CASE End(c)  BY <3>1, EndGood
    <3>2. CASE ~ End(c)
      <4>1. PICK new : Become(c, [k |-> "inheritset", f |-> req[c].f, tags |-> new])
        BY <2>5, <3>2 DEF InheritRead
      <4>2. GoodRequest([k |-> "inheritset", f |-> req[c].f, tags |-> new])  BY OtherGood
      <4>3. QED  BY <4>1, <4>2, BecomeGood
    <3>3. QED  BY <3>1, <3>2
  <2>6. QED  BY <1>8, <2>1, <2>2, <2>3, <2>4, <2>5 DEF Continuing
<1>9. CASE \E f \in Files : DeleteUploadRow(f)
  BY <1>1, <1>9 DEF DeleteUploadRow, DeleteUpload
<1>10. CASE UNCHANGED vars
  BY <1>1, <1>10 DEF vars, avars
<1>11. QED
  BY <1>3, <1>5, <1>6, <1>7, <1>8, <1>9, <1>10 DEF Next

-----------------------------------------------------------------------------
(* Totals and limits.                                                       *)

\* A set of numbers has a least one.
LEMMA LeastNumber ==
    ASSUME NEW T \in SUBSET Nat, T # {}
    PROVE  \E n \in T : \A m \in T : n <= m
<1>1. PICK n \in T : \A m \in T : ~(<<m, n>> \in OpToRel(<, Nat))
  BY WFMin, NatLessThanWellFounded
<1>2. ASSUME NEW m \in T, m < n  PROVE FALSE
  BY <1>1, <1>2 DEF OpToRel
<1> QED  BY <1>2

\* A finite set of numbers has a largest one: the one with the fewest above it.
LEMMA MaxOfFinite ==
    ASSUME NEW S \in SUBSET Nat, IsFiniteSet(S), S # {}
    PROVE  Max(S) \in S /\ \A y \in S : Max(S) >= y
<1> DEFINE Above(x) == {y \in S : y > x}
           counts == {Cardinality(Above(x)) : x \in S}
<1>1. \A x \in S : IsFiniteSet(Above(x)) /\ Cardinality(Above(x)) \in Nat
  BY FS_Subset, FS_CardinalityType
<1>2. counts \in SUBSET Nat /\ counts # {}
  BY <1>1
<1>3. PICK n \in counts : \A m \in counts : n <= m
  BY <1>2, LeastNumber
<1>4. PICK x \in S : n = Cardinality(Above(x))
  BY <1>3
<1>5. ASSUME NEW y \in S, y > x  PROVE FALSE
  <2>1. Above(y) \in SUBSET Above(x) /\ y \in Above(x) /\ y \notin Above(y)
    <3>1. x \in Nat /\ y \in Nat /\ \A z \in S : z \in Nat  OBVIOUS
    <3>2. \A z \in S : z > y => z > x  BY <1>5, <3>1
    <3>3. ~(y > y)  BY <3>1
    <3> HIDE DEF counts
    <3>4. Above(y) \subseteq Above(x)  BY <3>2
    <3>5. y \in Above(x)  BY <1>5
    <3>6. y \notin Above(y)  BY <3>3
    <3>7. QED  BY <3>4, <3>5, <3>6
  <2>2. Cardinality(Above(y)) <= Cardinality(Above(x)) /\ Cardinality(Above(y)) # Cardinality(Above(x))
    BY <1>1, <2>1, FS_Subset
  <2>3. Cardinality(Above(x)) <= Cardinality(Above(y))
    BY <1>3, <1>4
  <2>4. QED  BY <1>1, <1>4, <1>5, <2>2, <2>3
<1>6. \E z \in S : \A y \in S : z >= y
  BY <1>5
<1>7. QED  BY <1>6 DEF Max

\* The bytes of a set of uploads, one pair for each byte.
Bytes(up, fs) == UNION {{f} \X (1..up[f].kind.size) : f \in fs}

\* A set of sized uploads has finitely many bytes.
LEMMA BytesFinite ==
    ASSUME NEW up, NEW fs \in SUBSET Files, \A f \in fs : up[f].kind.size \in Nat
    PROVE  IsFiniteSet(Bytes(up, fs)) /\ Cardinality(Bytes(up, fs)) \in Nat
<1> DEFINE part(f) == {f} \X (1..up[f].kind.size)
           parts == {part(f) : f \in fs}
           pick == [f \in fs |-> part(f)]
<1>1. IsFiniteSet(fs)
  BY AdmissionAssumption, FS_Subset
<1>2. pick \in Surjection(fs, parts)
  BY DEF Surjection
<1>3. IsFiniteSet(parts)
  BY <1>1, <1>2, FS_Surjection
<1>4. ASSUME NEW f \in fs  PROVE IsFiniteSet(part(f))
  <2>1. up[f].kind.size \in Int  OBVIOUS
  <2>2. IsFiniteSet(1..up[f].kind.size)  BY <2>1, FS_Interval
  <2>3. QED  BY <2>2, FS_Singleton, FS_Product
<1>5. IsFiniteSet(UNION parts)
  <2>1. \A T \in parts : IsFiniteSet(T)  BY <1>4
  <2> HIDE DEF parts
  <2>2. QED  BY <1>3, <2>1, FS_UNION
<1>6. QED  BY <1>5, FS_CardinalityType DEF Bytes

\* Fewer uploads, of the same sizes, have fewer bytes.
LEMMA BytesMonotone ==
    ASSUME NEW up, NEW vp, NEW fs \in SUBSET Files, NEW gs \in SUBSET fs,
           \A f \in fs : up[f].kind.size \in Nat,
           \A f \in gs : vp[f].kind = up[f].kind
    PROVE  /\ Cardinality(Bytes(vp, gs)) <= Cardinality(Bytes(up, fs))
           /\ Cardinality(Bytes(vp, gs)) \in Nat /\ Cardinality(Bytes(up, fs)) \in Nat
<1>1. Bytes(vp, gs) \subseteq Bytes(up, fs)
  BY DEF Bytes
<1>2. \A f \in gs : vp[f].kind.size \in Nat
  OBVIOUS
<1>3. gs \in SUBSET Files
  OBVIOUS
<1>4. QED  BY <1>1, <1>2, <1>3, BytesFinite, FS_Subset

\* One more upload adds at most its own size.
LEMMA BytesAdd ==
    ASSUME NEW up, NEW fs \in SUBSET Files, NEW f \in Files,
           \A g \in fs \cup {f} : up[g].kind.size \in Nat
    PROVE  Cardinality(Bytes(up, fs \cup {f})) <= Cardinality(Bytes(up, fs)) + up[f].kind.size
<1> DEFINE own == {f} \X (1..up[f].kind.size)
<1>1. IsFiniteSet(own) /\ Cardinality(own) = up[f].kind.size
  <2>1. IsFiniteSet(1..up[f].kind.size) /\ Cardinality(1..up[f].kind.size) = up[f].kind.size
    <3> DEFINE n == up[f].kind.size
    <3>1. n \in Nat  OBVIOUS
    <3> HIDE DEF n
    <3>2. IsFiniteSet(1..n) /\ Cardinality(1..n) = n
      <4>1. IsFiniteSet(1..n) /\ Cardinality(1..n) = IF 1 > n THEN 0 ELSE n - 1 + 1
        BY <3>1, FS_Interval
      <4>2. QED  BY <3>1, <4>1
    <3>3. QED  BY <3>2 DEF n
  <2>2. IsFiniteSet({f}) /\ Cardinality({f}) = 1
    BY FS_Singleton
  <2>3. QED  BY <2>1, <2>2, FS_Product
<1>2. Bytes(up, fs \cup {f}) = Bytes(up, fs) \cup own
  BY DEF Bytes
<1>3. IsFiniteSet(Bytes(up, fs)) /\ Cardinality(Bytes(up, fs)) \in Nat
  BY BytesFinite
<1>4. IsFiniteSet(Bytes(up, fs) \cap own) /\ Cardinality(Bytes(up, fs) \cap own) \in Nat
  BY <1>3, FS_Intersection, FS_CardinalityType
<1> HIDE DEF own
<1>5. Cardinality(Bytes(up, fs) \cup own)
        = Cardinality(Bytes(up, fs)) + Cardinality(own) - Cardinality(Bytes(up, fs) \cap own)
  BY <1>1, <1>3, FS_Union
<1>6. up[f].kind.size \in Nat  OBVIOUS
<1>7. \A a, b, c, d \in Nat : a = b + c - d => a <= b + c  OBVIOUS
<1>8. Cardinality(Bytes(up, fs) \cup own) \in Nat
  BY <1>1, <1>3, FS_Union, FS_CardinalityType
<1>9. QED  BY <1>1, <1>2, <1>3, <1>4, <1>5, <1>6, <1>7, <1>8

-----------------------------------------------------------------------------
(* Upload rows.                                                             *)

Statuses == {"none", "queued", "processing", "failed"} \cup Completed

UploadRow == [st : Statuses, kind : Kinds \cup {None}, temp : BOOLEAN, paid : BOOLEAN,
              run : {"none", "check", "bare", "passed"}, escaped : BOOLEAN]

\* A row that is there, or whose attempt goes on without it, has a file; and a row whose attempt its owner has not
\* cancelled is still being processed, for no other request moves it.
GoodRow(r) ==
    /\ r \in UploadRow
    /\ (r.st # "none" \/ r.run # "none") => r.kind \in Kinds
    /\ (r.st # "none" /\ r.run # "none" /\ ~ r.escaped) => r.st = "processing"

\* The rows that QuotaHolds counts: stored or being stored.
Held(r) == r.st # "none" /\ ~ r.escaped /\ (r.st \in Completed \/ r.run = "passed")

\* What any step but a passed check may do to a row: it holds no more than before.
Follows(r, s) == GoodRow(s) /\ (Held(s) => Held(r) /\ s.kind = r.kind)

\* A row left alone.
LEMMA SameFollows == ASSUME NEW r, GoodRow(r) PROVE Follows(r, r)
BY DEF Follows

\* A row that is gone, or was never there, holds nothing.
LEMMA NoneFollows == ASSUME NEW r PROVE Follows(r, NoUpload)
BY DEF Follows, GoodRow, UploadRow, Statuses, NoUpload, Held, Completed

\* DequeueNext.
LEMMA DequeueFollows ==
    ASSUME NEW r, GoodRow(r), r.st = "queued", r.run = "none", NEW l \in {"check", "bare"}
    PROVE  Follows(r, [r EXCEPT !.st = "processing", !.escaped = FALSE, !.run = l])
BY DEF Follows, GoodRow, UploadRow, Statuses, Held, Completed

\* finishFailedUpload, on a row that is there.
LEMMA FailFollows ==
    ASSUME NEW r, GoodRow(r), r.st # "none", NEW t \in BOOLEAN
    PROVE  Follows(r, [r EXCEPT !.st = "failed", !.temp = t, !.run = "none"])
BY DEF Follows, GoodRow, UploadRow, Statuses, Held, Completed

\* The ends of an attempt that passed its check.
LEMMA EndFollows ==
    ASSUME NEW r, GoodRow(r), r.st # "none", r.run = "passed", NEW t \in BOOLEAN, NEW p \in BOOLEAN,
           NEW st \in Completed \cup {"failed", "queued"}
    PROVE  Follows(r, [r EXCEPT !.st = st, !.run = "none", !.paid = p, !.temp = t])
BY DEF Follows, GoodRow, UploadRow, Statuses, Held, Completed

\* RetryTransient.
LEMMA RetryFollows ==
    ASSUME NEW r, GoodRow(r), r.run = "passed"
    PROVE  Follows(r, [r EXCEPT !.run = "check"])
BY DEF Follows, GoodRow, UploadRow, Statuses, Held, Completed

\* WorkerDies, on a row that is there.
LEMMA DieFollows ==
    ASSUME NEW r, GoodRow(r), r.st # "none", NEW p \in BOOLEAN
    PROVE  Follows(r, [r EXCEPT !.run = "none", !.paid = p])
BY DEF Follows, GoodRow, UploadRow, Statuses, Held, Completed

\* RequeueStuckExcept and RetryUpload: a row put back in the queue.
LEMMA QueueFollows ==
    ASSUME NEW r, GoodRow(r), \/ r.st = "processing" /\ r.run = "none"
                             \/ r.st = "failed"
    PROVE  Follows(r, [r EXCEPT !.st = "queued"])
BY DEF Follows, GoodRow, UploadRow, Statuses, Held, Completed

\* CancelUpload.
LEMMA CancelFollows ==
    ASSUME NEW r, GoodRow(r), r.st \in {"queued", "processing"}
    PROVE  Follows(r, [r EXCEPT !.st = "failed", !.temp = FALSE, !.escaped = r.run # "none"])
<1>1. CASE r.run = "none"
  BY <1>1 DEF Follows, GoodRow, UploadRow, Statuses, Held, Completed
<1>2. CASE r.run # "none"
  BY <1>2 DEF Follows, GoodRow, UploadRow, Statuses, Held, Completed
<1>3. QED  BY <1>1, <1>2

\* DeleteUpload under a running attempt.
LEMMA DeleteFollows ==
    ASSUME NEW r, GoodRow(r)
    PROVE  Follows(r, [r EXCEPT !.st = "none", !.temp = FALSE])
BY DEF Follows, GoodRow, UploadRow, Statuses, Held, Completed

\* CreateUploadInsert writes a row that holds nothing yet.
LEMMA InsertFollows ==
    ASSUME NEW r, NEW k \in Kinds
    PROVE  Follows(r, [NoUpload EXCEPT !.st = "queued", !.kind = k, !.temp = TRUE])
BY DEF Follows, GoodRow, UploadRow, Statuses, NoUpload, Held, Completed

\* The check that passes changes the attempt and nothing else.
LEMMA PassedGood ==
    ASSUME NEW r, GoodRow(r), r.run = "check"
    PROVE  /\ GoodRow([r EXCEPT !.run = "passed"])
           /\ [r EXCEPT !.run = "passed"].kind = r.kind
           /\ Held([r EXCEPT !.run = "passed"]) => r.st # "none" /\ ~ r.escaped
BY DEF GoodRow, UploadRow, Statuses, Held, Completed

-----------------------------------------------------------------------------
(* Quotas.                                                                  *)

RowsInv == uploads = [f \in Files |-> uploads[f]] /\ \A f \in Files : GoodRow(uploads[f])
RowsFollow ==
    uploads' = [f \in Files |-> uploads'[f]] /\ \A f \in Files : Follows(uploads[f], uploads'[f])

\* A step that writes one row.
LEMMA OneFollows ==
    ASSUME RowsInv, NEW f \in Files, NEW s, uploads' = [uploads EXCEPT ![f] = s],
           Follows(uploads[f], s)
    PROVE  RowsFollow
<1>1. uploads'[f] = s /\ \A g \in Files \ {f} : uploads'[g] = uploads[g]
  BY DEF RowsInv
<1>2. QED  BY <1>1, SameFollows DEF RowsInv, RowsFollow

\* A step that writes none.
LEMMA NoneWritten == ASSUME RowsInv, UNCHANGED uploads PROVE RowsFollow
BY SameFollows DEF RowsInv, RowsFollow

\* A failed attempt, whether its row is still there or not.
LEMMA FinishFollows ==
    ASSUME RowsInv, NEW f \in Files, uploads' = finishFailedUpload(f)
    PROVE  RowsFollow
<1>1. CASE Exists(f)
  <2> DEFINE t == uploads[f].temp /\ uploads[f].paid
  <2>1. t \in BOOLEAN  OBVIOUS
  <2>2. uploads' = [uploads EXCEPT ![f] = [uploads[f] EXCEPT !.st = "failed", !.temp = t, !.run = "none"]]
    BY <1>1 DEF finishFailedUpload, Row
  <2> HIDE DEF t
  <2>3. QED  BY <1>1, <2>1, <2>2, FailFollows, OneFollows DEF RowsInv, Exists
<1>2. CASE ~ Exists(f)
  BY <1>2, NoneFollows, OneFollows DEF finishFailedUpload, Row
<1>3. QED  BY <1>1, <1>2

\* Every way an attempt that passed its check may end.
LEMMA AttemptFollows ==
    ASSUME RowsInv, NEW f \in Files, NEW st \in Completed \cup {"failed", "queued"},
           NEW paid \in BOOLEAN, AttemptEnds(f, st, paid)
    PROVE  RowsFollow
<1>1. CASE Exists(f)
  <2> DEFINE p == uploads[f].paid \/ paid
             t == uploads[f].temp /\ st \notin Completed
  <2>1. t \in BOOLEAN /\ p \in BOOLEAN  OBVIOUS
  <2>2. uploads' = [uploads EXCEPT ![f] = [uploads[f] EXCEPT !.st = st, !.run = "none", !.paid = p, !.temp = t]]
    BY <1>1 DEF AttemptEnds, Row
  <2> HIDE DEF t, p
  <2>3. uploads[f].run = "passed"  BY DEF AttemptEnds
  <2>4. QED  BY <1>1, <2>1, <2>2, <2>3, EndFollows, OneFollows DEF RowsInv, Exists
<1>2. CASE ~ Exists(f)
  BY <1>2, NoneFollows, OneFollows DEF AttemptEnds, Row
<1>3. QED  BY <1>1, <1>2

\* Every step of a worker but the check that passes.
LEMMA WorkFollows ==
    ASSUME RowsInv, NEW f \in Files, Work(f), ~ RecheckOk(f)
    PROVE  RowsFollow /\ UNCHANGED <<quotas, vouched>>
<1>1. GoodRow(uploads[f])  BY DEF RowsInv
<1>2. CASE DequeueNext(f)
  <2> DEFINE l == IF uploads[f].temp THEN "check" ELSE "bare"
  <2>1. l \in {"check", "bare"}  OBVIOUS
  <2>2. uploads' = [uploads EXCEPT ![f] = [uploads[f] EXCEPT !.st = "processing", !.escaped = FALSE, !.run = l]]
    BY <1>2 DEF DequeueNext, RowsInv
  <2> HIDE DEF l
  <2>3. QED  BY <1>1, <1>2, <2>1, <2>2, DequeueFollows, OneFollows DEF DequeueNext
<1>3. CASE RecheckOver(f) \/ RecheckNoSource(f) \/ FailAbandon(f)
  BY <1>3, FinishFollows DEF RecheckOver, RecheckNoSource, FailAbandon
<1>4. ASSUME NEW st \in Completed, Complete(f, st)
      PROVE  RowsFollow /\ UNCHANGED <<quotas, vouched>>
  <2>1. AttemptEnds(f, st, TRUE)  BY <1>4 DEF Complete
  <2>2. QED  BY <2>1, AttemptFollows DEF AttemptEnds
<1>5. ASSUME NEW paid \in BOOLEAN, FailPreserve(f, paid)
      PROVE  RowsFollow /\ UNCHANGED <<quotas, vouched>>
  <2>1. AttemptEnds(f, "failed", paid)  BY <1>5 DEF FailPreserve
  <2>2. QED  BY <2>1, AttemptFollows DEF AttemptEnds
<1>6. CASE SetGasBackoff(f)
  <2>1. AttemptEnds(f, "queued", FALSE)  BY <1>6 DEF SetGasBackoff
  <2>2. QED  BY <2>1, AttemptFollows DEF AttemptEnds
<1>7. CASE RetryTransient(f)
  <2>1. uploads' = [uploads EXCEPT ![f] = [uploads[f] EXCEPT !.run = "check"]]
    BY <1>7 DEF RetryTransient, RowsInv
  <2>2. QED  BY <1>1, <1>7, <2>1, RetryFollows, OneFollows DEF RetryTransient
<1>8. ASSUME NEW paid \in BOOLEAN, WorkerDies(f, paid)
      PROVE  RowsFollow /\ UNCHANGED <<quotas, vouched>>
  <2>1. CASE Exists(f)
    <3> DEFINE p == uploads[f].paid \/ paid
    <3>1. p \in BOOLEAN  OBVIOUS
    <3>2. uploads' = [uploads EXCEPT ![f] = [uploads[f] EXCEPT !.run = "none", !.paid = p]]
      BY <1>8, <2>1 DEF WorkerDies, Row
    <3> HIDE DEF p
    <3>3. QED  BY <1>1, <1>8, <2>1, <3>1, <3>2, DieFollows, OneFollows DEF WorkerDies, Exists
  <2>2. CASE ~ Exists(f)
    BY <1>8, <2>2, NoneFollows, OneFollows DEF WorkerDies, Row
  <2>3. QED  BY <2>1, <2>2
<1>9. CASE RequeueStuckExcept(f)
  <2>1. uploads' = [uploads EXCEPT ![f] = [uploads[f] EXCEPT !.st = "queued"]]
    BY <1>9 DEF RequeueStuckExcept, RowsInv
  <2>2. QED  BY <1>1, <1>9, <2>1, QueueFollows, OneFollows DEF RequeueStuckExcept
<1>10. QED
  BY <1>2, <1>3, <1>4, <1>5, <1>6, <1>7, <1>8, <1>9 DEF Work

\* The owner's requests about an upload.
LEMMA MoveFollows ==
    ASSUME RowsInv, NEW f \in Files, CancelUpload(f) \/ RetryUpload(f) \/ DeleteUpload(f)
    PROVE  RowsFollow /\ UNCHANGED <<quotas, vouched>>
<1>1. GoodRow(uploads[f])  BY DEF RowsInv
<1>2. CASE CancelUpload(f)
  <2>1. uploads' = [uploads EXCEPT ![f] = [uploads[f] EXCEPT !.st = "failed", !.temp = FALSE,
                                                            !.escaped = uploads[f].run # "none"]]
    BY <1>2 DEF CancelUpload, RowsInv
  <2>2. Follows(uploads[f], [uploads[f] EXCEPT !.st = "failed", !.temp = FALSE,
                                               !.escaped = uploads[f].run # "none"])
    BY <1>1, <1>2, CancelFollows DEF CancelUpload
  <2>3. QED  BY <1>2, <2>1, <2>2, OneFollows DEF CancelUpload
<1>3. CASE RetryUpload(f)
  <2>1. uploads' = [uploads EXCEPT ![f] = [uploads[f] EXCEPT !.st = "queued"]]
    BY <1>3 DEF RetryUpload, RowsInv
  <2>2. QED  BY <1>1, <1>3, <2>1, QueueFollows, OneFollows DEF RetryUpload
<1>4. CASE DeleteUpload(f)
  <2>1. CASE uploads[f].run = "none"
    BY <1>4, <2>1, NoneFollows, OneFollows DEF DeleteUpload, Row
  <2>2. CASE uploads[f].run # "none"
    BY <1>1, <1>4, <2>2, DeleteFollows, OneFollows DEF DeleteUpload, Row
  <2>3. QED  BY <2>1, <2>2
<1>5. QED  BY <1>2, <1>3, <1>4

\* A request writes its row.
LEMMA CreateFollows ==
    ASSUME RowsInv, RequestsInv, NEW c \in Clients, CreateUploadInsert(c)
    PROVE  RowsFollow /\ UNCHANGED <<quotas, vouched>>
<1>1. req[c].f \in Files /\ req[c].kind \in Kinds
  BY DEF CreateUploadInsert, RequestsInv, GoodRequest
<1>2. QED  BY <1>1, InsertFollows, OneFollows DEF CreateUploadInsert, Row

\* The limits of an entity under a table of quotas.
LimitsOf(qs, e) == {qs[q].max : q \in {q \in QuotaIds : qs[q].e = e /\ qs[q].on}}

QuotaRow == [e : Entities \cup {None}, max : Limits \cup {0}, on : BOOLEAN]

\* The uploads QuotaHolds counts against an entity.
CountsKind(e, k) ==
    \/ e = System
    \/ e \in Users /\ k.user = e
    \/ e \in Groups /\ k.user \in Member[e]
    \/ e \in Departments /\ k.dept = e
HeldBy(up, e) == {f \in Files : Held(up[f]) /\ CountsKind(e, up[f].kind)}

\* What was let in under an entity's present limits fits in them.
Fits(up, qs, es) ==
    \A e \in es : LimitsOf(qs, e) # {} /\ Cardinality(Bytes(up, HeldBy(up, e))) <= Max(LimitsOf(qs, e))

QuotasInv ==
    /\ quotas \in [QuotaIds -> QuotaRow] /\ vouched \subseteq Entities
    /\ Fits(uploads, quotas, vouched)

\* The invariant says what QuotaHolds says, and that whoever was let in has a quota.
LEMMA FitsMeaning ==
    /\ QuotasInv => QuotaHolds
    /\ Fits(uploads, quotas, vouched) <=> (QuotaHolds /\ \A e \in vouched : lookupQuotaLimit(e) # {})
<1>1. \A e : {f \in Files : /\ Exists(f) /\ ~ uploads[f].escaped /\ Counts(e, f)
                            /\ uploads[f].st \in Completed \/ uploads[f].run = "passed"}
              = HeldBy(uploads, e)
  BY DEF HeldBy, Held, Counts, CountsKind, Exists
<1>2. \A e : lookupQuotaLimit(e) = LimitsOf(quotas, e)
  BY DEF lookupQuotaLimit, LimitsOf
<1>3. \A fs : Total(fs) = Cardinality(Bytes(uploads, fs))
  BY DEF Total, Bytes
<1>4. QED  BY <1>1, <1>2, <1>3 DEF QuotasInv, Fits, QuotaHolds

\* The largest limit of an entity that has one.
LEMMA LargestLimit ==
    ASSUME NEW qs \in [QuotaIds -> QuotaRow], NEW e, LimitsOf(qs, e) # {}
    PROVE  /\ Max(LimitsOf(qs, e)) \in Nat
           /\ \A m \in LimitsOf(qs, e) : m \in Nat /\ m <= Max(LimitsOf(qs, e))
<1>1. LimitsOf(qs, e) \in SUBSET (Limits \cup {0})
  BY DEF LimitsOf, QuotaRow
<1>2. IsFiniteSet(Limits \cup {0}) /\ Limits \cup {0} \subseteq Nat
  BY AdmissionAssumption, FS_AddElement
<1>3. IsFiniteSet(LimitsOf(qs, e)) /\ LimitsOf(qs, e) \in SUBSET Nat
  BY <1>1, <1>2, FS_Subset
<1>4. Max(LimitsOf(qs, e)) \in LimitsOf(qs, e) /\ \A m \in LimitsOf(qs, e) : Max(LimitsOf(qs, e)) >= m
  BY <1>3, MaxOfFinite
<1>5. QED  BY <1>3, <1>4

\* Sizes of the rows that are there.
LEMMA HeldSizes ==
    ASSUME NEW r, GoodRow(r), r.st # "none" \/ r.run # "none"
    PROVE  r.kind \in Kinds /\ r.kind.size \in Nat
BY AdmissionAssumption DEF GoodRow

\* A step that holds no more, lets nobody else in and changes no limit of those let in.
LEMMA FitsKept ==
    ASSUME RowsInv, RowsFollow, QuotasInv,
           vouched' \subseteq vouched,
           \A e \in vouched' : LimitsOf(quotas', e) = LimitsOf(quotas, e)
    PROVE  Fits(uploads, quotas, vouched)'
<1>1. SUFFICES ASSUME NEW e \in vouched'
               PROVE  Cardinality(Bytes(uploads', HeldBy(uploads', e))) <= Max(LimitsOf(quotas, e))
  BY DEF Fits, QuotasInv
<1>2. HeldBy(uploads', e) \in SUBSET HeldBy(uploads, e) /\ HeldBy(uploads, e) \in SUBSET Files
  BY DEF HeldBy, RowsFollow, Follows
<1>3. \A f \in HeldBy(uploads, e) : uploads[f].kind.size \in Nat
  BY HeldSizes DEF HeldBy, Held, RowsInv
<1>4. \A f \in HeldBy(uploads', e) : uploads'[f].kind = uploads[f].kind
  BY DEF HeldBy, RowsFollow, Follows
<1>5. /\ Cardinality(Bytes(uploads', HeldBy(uploads', e))) <= Cardinality(Bytes(uploads, HeldBy(uploads, e)))
      /\ Cardinality(Bytes(uploads', HeldBy(uploads', e))) \in Nat
      /\ Cardinality(Bytes(uploads, HeldBy(uploads, e))) \in Nat
  BY <1>2, <1>3, <1>4, BytesMonotone
<1>6. /\ LimitsOf(quotas, e) # {}
      /\ Cardinality(Bytes(uploads, HeldBy(uploads, e))) <= Max(LimitsOf(quotas, e))
  BY DEF QuotasInv, Fits
<1>7. Max(LimitsOf(quotas, e)) \in Nat
  BY <1>6, LargestLimit DEF QuotasInv
<1>8. QED  BY <1>5, <1>6, <1>7

\* What CheckUserQuotaInFlight leaves room for: the upload, in every quota it counts against.
LEMMA CheckedRoom ==
    ASSUME quotas \in [QuotaIds -> QuotaRow], RowsInv, NEW f \in Files, uploads[f].kind.size \in Nat,
           NEW lim \in Lookups, CheckUserQuotaInFlight(uploads[f].kind, lim),
           NEW e \in Entities, LimitsOf(quotas, e) # {}, CountsKind(e, uploads[f].kind)
    PROVE  Used(e, InFlight) + uploads[f].kind.size <= Max(LimitsOf(quotas, e))
<1> DEFINE k == uploads[f].kind
<1>1. \A d : lookupQuotaLimit(d) = LimitsOf(quotas, d)
  BY DEF lookupQuotaLimit, LimitsOf
<1>2. Used(e, InFlight) + k.size <= lim[e]
  <2>1. CASE e = System
    BY <1>1, <2>1 DEF CheckUserQuotaInFlight, checkAllTiers, checkSystemTier
  <2>2. CASE e \in Users /\ k.user = e
    BY <1>1, <2>2 DEF CheckUserQuotaInFlight, checkAllTiers, checkUserTier
  <2>3. CASE e \in Groups /\ k.user \in Member[e]
    BY <1>1, <2>3 DEF CheckUserQuotaInFlight, checkAllTiers, checkGroupTier
  <2>4. CASE e \in Departments /\ k.dept = e
    BY <1>1, <2>4, AdmissionAssumption DEF CheckUserQuotaInFlight, checkAllTiers, checkDepartmentTier
  <2>5. QED  BY <2>1, <2>2, <2>3, <2>4 DEF CountsKind
<1>3. lim[e] \in Nat /\ lim[e] <= Max(LimitsOf(quotas, e))
  <2>1. PICK m \in (IF LimitsOf(quotas, System) = {} THEN {0} ELSE LimitsOf(quotas, System)) :
          lim = [d \in Entities |-> IF d = System THEN m ELSE Max(lookupQuotaLimit(d) \cup {0})]
    BY <1>1 DEF Lookups
  <2>2. CASE e = System
    BY <2>1, <2>2, LargestLimit
  <2>3. CASE e # System
    <3>1. lim[e] = Max(LimitsOf(quotas, e) \cup {0})
      BY <1>1, <2>1, <2>3
    <3>2. LimitsOf(quotas, e) \cup {0} \in SUBSET (Limits \cup {0})
      BY DEF LimitsOf, QuotaRow
    <3>3. IsFiniteSet(Limits \cup {0}) /\ Limits \cup {0} \subseteq Nat
      BY AdmissionAssumption, FS_AddElement
    <3>4. IsFiniteSet(LimitsOf(quotas, e) \cup {0}) /\ LimitsOf(quotas, e) \cup {0} \in SUBSET Nat
      BY <3>2, <3>3, FS_Subset
    <3>5. Max(LimitsOf(quotas, e) \cup {0}) \in LimitsOf(quotas, e) \cup {0}
      BY <3>4, MaxOfFinite
    <3>6. Max(LimitsOf(quotas, e)) \in Nat /\ \A n \in LimitsOf(quotas, e) : n <= Max(LimitsOf(quotas, e))
      BY LargestLimit
    <3>7. QED  BY <3>1, <3>4, <3>5, <3>6
  <2>4. QED  BY <2>2, <2>3
<1>4. Used(e, InFlight) \in Nat
  <2> DEFINE fs == {g \in Files : Exists(g) /\ uploads[g].st \in InFlight /\ Counts(e, g)}
  <2>1. \A g \in fs : uploads[g].kind.size \in Nat
    BY HeldSizes DEF RowsInv, Exists
  <2>2. Used(e, InFlight) = Cardinality(Bytes(uploads, fs))
    BY DEF Used, Total, Bytes
  <2>3. fs \in SUBSET Files  OBVIOUS
  <2> HIDE DEF fs
  <2>4. QED  BY <2>1, <2>2, <2>3, BytesFinite
<1>5. k.size \in Nat /\ Max(LimitsOf(quotas, e)) \in Nat
  BY LargestLimit
<1> HIDE DEF k
<1>6. Used(e, InFlight) + k.size <= Max(LimitsOf(quotas, e))
  BY <1>2, <1>3, <1>4, <1>5
<1>7. QED  BY <1>6 DEF k

\* The check that passes: whatever of the entity was held is in flight, this
\* upload's own row included, so the room the check found is room for all of it.
LEMMA PassedFits ==
    ASSUME RowsInv, QuotasInv, NEW f \in Files, RecheckOk(f)
    PROVE  RowsInv' /\ QuotasInv'
<1> DEFINE row == [uploads[f] EXCEPT !.run = "passed"]
<1>1. GoodRow(uploads[f]) /\ uploads[f].run = "check"
  BY DEF RowsInv, RecheckOk
<1>2. uploads' = [uploads EXCEPT ![f] = row]
  BY DEF RecheckOk, RowsInv
<1>3. /\ GoodRow(row) /\ row.kind = uploads[f].kind
      /\ Held(row) => uploads[f].st # "none" /\ ~ uploads[f].escaped
  BY <1>1, PassedGood
<1> HIDE DEF row
<1>4. uploads'[f] = row /\ \A g \in Files \ {f} : uploads'[g] = uploads[g]
  BY <1>2 DEF RowsInv
<1>5. RowsInv'
  BY <1>2, <1>3, <1>4 DEF RowsInv
<1>6. quotas' = quotas /\ vouched' = vouched \cup Quotaed(f)
  BY DEF RecheckOk
<1>7. \A g \in Files : uploads'[g].kind = uploads[g].kind
  BY <1>3, <1>4
<1>8. ASSUME NEW e \in vouched'
      PROVE  /\ LimitsOf(quotas, e) # {}
             /\ Cardinality(Bytes(uploads', HeldBy(uploads', e))) <= Max(LimitsOf(quotas, e))
  <2>1. LimitsOf(quotas, e) # {}
    BY <1>6 DEF QuotasInv, Fits, Quotaed, lookupQuotaLimit, LimitsOf
  <2>2. CASE e \in Quotaed(f)
    <3> DEFINE fs == {g \in Files : Exists(g) /\ uploads[g].st \in InFlight /\ Counts(e, g)}
    <3>1. uploads[f].kind.size \in Nat
      BY <1>1, HeldSizes
    <3>2. Used(e, InFlight) + uploads[f].kind.size <= Max(LimitsOf(quotas, e))
      <4>1. PICK lim \in Lookups : CheckUserQuotaInFlight(uploads[f].kind, lim)
        BY DEF RecheckOk
      <4>2. e \in Entities /\ CountsKind(e, uploads[f].kind)
        BY <2>2 DEF Quotaed, Counts, CountsKind
      <4>3. QED  BY <2>1, <3>1, <4>1, <4>2, CheckedRoom DEF QuotasInv
    <3>3. Used(e, InFlight) = Cardinality(Bytes(uploads, fs))
      BY DEF Used, Total, Bytes
    <3>4. \A g \in HeldBy(uploads', e) : g = f \/ g \in fs
      <4>1. ASSUME NEW g \in HeldBy(uploads', e), g # f  PROVE g \in fs
        <5>1. g \in Files /\ GoodRow(uploads[g]) /\ Held(uploads[g]) /\ CountsKind(e, uploads[g].kind)
          BY <1>4, <4>1 DEF HeldBy, RowsInv
        <5>2. uploads[g].st # "none" /\ uploads[g].st \in InFlight
          BY <5>1 DEF GoodRow, Held, InFlight
        <5>3. QED  BY <5>1, <5>2 DEF Exists, Counts, CountsKind
      <4>2. QED  BY <4>1
    <3>5. /\ HeldBy(uploads', e) \in SUBSET (fs \cup {f})
          /\ fs \in SUBSET Files /\ fs \cup {f} \in SUBSET Files
      BY <3>4
    <3>6. \A g \in fs \cup {f} : uploads[g].kind.size \in Nat
      BY <3>1, HeldSizes DEF RowsInv, Exists
    <3>7. \A g \in HeldBy(uploads', e) : uploads'[g].kind = uploads[g].kind
      BY <1>7 DEF HeldBy
    <3> HIDE DEF fs
    <3>8. /\ Cardinality(Bytes(uploads', HeldBy(uploads', e))) <= Cardinality(Bytes(uploads, fs \cup {f}))
          /\ Cardinality(Bytes(uploads', HeldBy(uploads', e))) \in Nat
          /\ Cardinality(Bytes(uploads, fs \cup {f})) \in Nat
      BY <3>5, <3>6, <3>7, BytesMonotone
    <3>9. Cardinality(Bytes(uploads, fs \cup {f})) <= Cardinality(Bytes(uploads, fs)) + uploads[f].kind.size
      BY <3>5, <3>6, BytesAdd
    <3>10. Cardinality(Bytes(uploads, fs)) \in Nat /\ Max(LimitsOf(quotas, e)) \in Nat
      BY <2>1, <3>5, <3>6, BytesFinite, LargestLimit DEF QuotasInv
    <3>11. QED  BY <2>1, <3>1, <3>2, <3>3, <3>8, <3>9, <3>10
  <2>3. CASE e \in vouched /\ e \notin Quotaed(f)
    <3>0. f \notin HeldBy(uploads', e)
      BY <1>7, <2>1, <2>3 DEF HeldBy, Quotaed, Counts, CountsKind, lookupQuotaLimit, LimitsOf, QuotasInv
    <3>1. /\ HeldBy(uploads', e) \in SUBSET HeldBy(uploads, e)
          /\ HeldBy(uploads, e) \in SUBSET Files
      BY <1>4, <3>0 DEF HeldBy
    <3>2. \A g \in HeldBy(uploads, e) : uploads[g].kind.size \in Nat
      BY HeldSizes DEF HeldBy, Held, RowsInv
    <3>3. \A g \in HeldBy(uploads', e) : uploads'[g].kind = uploads[g].kind
      BY <1>7 DEF HeldBy
    <3>4. /\ Cardinality(Bytes(uploads', HeldBy(uploads', e))) <= Cardinality(Bytes(uploads, HeldBy(uploads, e)))
          /\ Cardinality(Bytes(uploads', HeldBy(uploads', e))) \in Nat
          /\ Cardinality(Bytes(uploads, HeldBy(uploads, e))) \in Nat
      BY <3>1, <3>2, <3>3, BytesMonotone
    <3>5. Cardinality(Bytes(uploads, HeldBy(uploads, e))) <= Max(LimitsOf(quotas, e))
      BY <2>3 DEF QuotasInv, Fits
    <3>6. Max(LimitsOf(quotas, e)) \in Nat
      BY <2>1, LargestLimit DEF QuotasInv
    <3>7. QED  BY <2>1, <3>4, <3>5, <3>6
  <2>4. QED  BY <1>6, <2>2, <2>3
<1>9. QuotasInv'
  BY <1>6, <1>8 DEF QuotasInv, Fits, Quotaed
<1>10. QED  BY <1>5, <1>9

\* A change of one row of the table of quotas changes the limits of the
\* entities that row is or was for, and of no other.
LEMMA OneQuota ==
    ASSUME quotas \in [QuotaIds -> QuotaRow], NEW q \in QuotaIds, NEW row \in QuotaRow,
           quotas' = [quotas EXCEPT ![q] = row],
           NEW e, ~ (quotas[q].on /\ quotas[q].e = e), ~ (row.on /\ row.e = e)
    PROVE  LimitsOf(quotas', e) = LimitsOf(quotas, e)
<1>1. quotas'[q] = row /\ \A p \in QuotaIds \ {q} : quotas'[p] = quotas[p]
  OBVIOUS
<1>2. {p \in QuotaIds : quotas'[p].e = e /\ quotas'[p].on} = {p \in QuotaIds : quotas[p].e = e /\ quotas[p].on}
  BY <1>1
<1>3. \A p \in {p \in QuotaIds : quotas[p].e = e /\ quotas[p].on} : quotas'[p].max = quotas[p].max
  BY <1>1
<1>4. QED  BY <1>2, <1>3 DEF LimitsOf

\* An administrator's change of a quota revokes what was vouched for under it.
LEMMA QuotaAdminFits ==
    ASSUME RowsInv, QuotasInv, QuotaAdmin
    PROVE  RowsInv' /\ QuotasInv'
<1>1. ASSUME NEW q \in QuotaIds, NEW row \in QuotaRow, quotas' = [quotas EXCEPT ![q] = row],
             UNCHANGED uploads, vouched' \subseteq vouched,
             \A e \in vouched' : ~ (quotas[q].on /\ quotas[q].e = e) /\ ~ (row.on /\ row.e = e)
      PROVE  RowsInv' /\ QuotasInv'
  <2>1. quotas' \in [QuotaIds -> QuotaRow]
    BY <1>1 DEF QuotasInv
  <2>2. \A e \in vouched' : LimitsOf(quotas', e) = LimitsOf(quotas, e)
    BY <1>1, OneQuota DEF QuotasInv
  <2>3. Fits(uploads, quotas, vouched)'
    BY <1>1, <2>2, NoneWritten, FitsKept
  <2>4. RowsInv'  BY <1>1 DEF RowsInv
  <2>5. QED  BY <1>1, <2>1, <2>3, <2>4 DEF QuotasInv
<1>2. ASSUME NEW q \in QuotaIds, NEW e \in Entities, NEW m \in Limits, AdminCreateQuota(q, e, m)
      PROVE  RowsInv' /\ QuotasInv'
  <2> DEFINE row == [e |-> e, max |-> m, on |-> TRUE]
  <2>1. row \in QuotaRow /\ row.e = e /\ row.on  BY DEF QuotaRow
  <2>2. quotas' = [quotas EXCEPT ![q] = row] /\ vouched' = vouched \ {e} /\ UNCHANGED uploads
    BY <1>2 DEF AdminCreateQuota, CreateQuota
  <2>3. ~ quotas[q].on  BY <1>2 DEF AdminCreateQuota, CreateQuota, NoQuota
  <2> HIDE DEF row
  <2>4. QED  BY <1>1, <2>1, <2>2, <2>3
<1>3. ASSUME NEW q \in QuotaIds, NEW m \in Limits, NEW on \in BOOLEAN, AdminUpdateQuota(q, m, on)
      PROVE  RowsInv' /\ QuotasInv'
  <2> DEFINE row == [quotas[q] EXCEPT !.max = m, !.on = on]
  <2>1. quotas[q] \in QuotaRow  BY DEF QuotasInv
  <2>2. row \in QuotaRow /\ row.e = quotas[q].e  BY <2>1 DEF QuotaRow
  <2>3. quotas' = [quotas EXCEPT ![q] = row] /\ vouched' = vouched \ {quotas[q].e} /\ UNCHANGED uploads
    BY <1>3 DEF AdminUpdateQuota, ChangeQuota
  <2> HIDE DEF row
  <2>4. QED  BY <1>1, <2>2, <2>3
<1>4. ASSUME NEW q \in QuotaIds, AdminDeleteQuota(q)  PROVE RowsInv' /\ QuotasInv'
  <2>1. NoQuota \in QuotaRow /\ ~ NoQuota.on  BY DEF QuotaRow, NoQuota
  <2>2. quotas' = [quotas EXCEPT ![q] = NoQuota] /\ vouched' = vouched \ {quotas[q].e} /\ UNCHANGED uploads
    BY <1>4 DEF AdminDeleteQuota, ChangeQuota
  <2>3. QED  BY <1>1, <2>1, <2>2
<1>5. QED  BY <1>2, <1>3, <1>4 DEF QuotaAdmin

\* A step that follows and touches neither quotas nor what is vouched for.
LEMMA FollowsFits ==
    ASSUME RowsInv, QuotasInv, RowsFollow, UNCHANGED <<quotas, vouched>>
    PROVE  RowsInv' /\ QuotasInv'
<1>1. RowsInv'  BY DEF RowsFollow, Follows, RowsInv
<1>2. Fits(uploads, quotas, vouched)'  BY FitsKept
<1>3. QED  BY <1>1, <1>2 DEF QuotasInv

\* Every step keeps the quotas of those it let in.
LEMMA QuotasKept ==
    ASSUME RequestsInv, RowsInv, QuotasInv, [Next]_vars
    PROVE  RowsInv' /\ QuotasInv'
<1>1. CASE UNCHANGED <<uploads, quotas, vouched>>
  BY <1>1, NoneWritten, FollowsFits
<1>2. CASE Admitting
  <2>1. CASE QuotaAdmin
    BY <2>1, QuotaAdminFits
  <2>2. CASE WalletAdmin \/ Pauses
    BY <1>1, <2>2 DEF WalletAdmin, Pauses, CreateWalletCount, CreateWalletInsert, DeleteWalletCheck,
                      DeleteWalletRow, AdminSetDefaultWallet
  <2>3. ASSUME NEW c \in Clients, Uploading(c)  PROVE RowsInv' /\ QuotasInv'
    <3>1. CASE CreateUploadInsert(c)
      BY <3>1, CreateFollows, FollowsFits
    <3>2. CASE CreateUploadQuota(c) \/ \E f \in Files, k \in Kinds : CreateUploadOpen(c, f, k)
      BY <1>1, <3>2 DEF CreateUploadQuota, CreateUploadOpen
    <3>3. QED  BY <2>3, <3>1, <3>2 DEF Uploading
  <2>4. ASSUME NEW f \in Files, Work(f)  PROVE RowsInv' /\ QuotasInv'
    BY <2>4, PassedFits, WorkFollows, FollowsFits
  <2>5. ASSUME NEW f \in Files, CancelUpload(f) \/ RetryUpload(f)  PROVE RowsInv' /\ QuotasInv'
    BY <2>5, MoveFollows, FollowsFits
  <2>6. QED  BY <1>2, <2>1, <2>2, <2>3, <2>4, <2>5 DEF Admitting
<1>3. CASE Tagging
  <2>1. ASSUME NEW c \in Clients, NEW fs, NEW add, NEW drop, BulkTagUploads(c, fs, add, drop)
        PROVE  UNCHANGED <<uploads, quotas, vouched>>
    BY <2>1 DEF BulkTagUploads
  <2>2. QED  BY <1>1, <1>3, <2>1 DEF Tagging, UpdateTags
<1>4. CASE RuleAdmin \/ Collecting
  BY <1>1, <1>4 DEF RuleAdmin, Collecting, CreateTagRule, UpdateTagRule, DeleteTagRule,
       CreateCollection, UpdateCollectionTags, DeleteCollection, AddToCollection, RemoveFromCollection
<1>5. ASSUME NEW c \in Clients, Continuing(c)  PROVE UNCHANGED <<uploads, quotas, vouched>>
  BY <1>5 DEF Continuing, CreateUploadRules, CreateUploadTags, BulkTagRead, BulkTagSet, InheritRead,
              InheritSet
<1>6. ASSUME NEW f \in Files, DeleteUploadRow(f)  PROVE RowsInv' /\ QuotasInv'
  BY <1>6, MoveFollows, FollowsFits DEF DeleteUploadRow
<1>7. CASE UNCHANGED vars
  BY <1>1, <1>7 DEF vars, avars
<1>8. QED
  BY <1>1, <1>2, <1>3, <1>4, <1>5, <1>6, <1>7 DEF Next

\* Requests, rows and quotas are as the invariants say in every behaviour.
THEOREM AdmissionInvariant == Spec => [](RequestsInv /\ RowsInv /\ QuotasInv)
<1>1. Init => RequestsInv /\ RowsInv /\ QuotasInv
  <2> SUFFICES ASSUME Init PROVE RequestsInv /\ RowsInv /\ QuotasInv
    OBVIOUS
  <2>1. GoodRow(NoUpload)  BY DEF GoodRow, UploadRow, Statuses, NoUpload
  <2>2. RowsInv  BY <2>1 DEF Init, AdmitInit, RowsInv
  <2>3. NoQuota \in QuotaRow  BY DEF NoQuota, QuotaRow
  <2>4. QuotasInv  BY <2>3 DEF Init, AdmitInit, QuotasInv, Fits
  <2>5. GoodRequest(Idle)  BY OtherGood DEF Idle
  <2>6. RequestsInv  BY <2>5 DEF Init, AdmitInit, RequestsInv
  <2>7. QED  BY <2>2, <2>4, <2>6
<1>2. RequestsInv /\ RowsInv /\ QuotasInv /\ [Next]_vars => (RequestsInv /\ RowsInv /\ QuotasInv)'
  BY RequestsKept, QuotasKept
<1>3. QED
  BY <1>1, <1>2, PTL DEF Spec

\* Once an upload has been let in under an entity's present quota, what is
\* stored or being stored of that entity fits in it: for every number of
\* requests and workers between the check and the write it allows, and however
\* administrators change quotas in between.
THEOREM QuotasHold == Spec => []QuotaHolds
<1>1. QuotasInv => QuotaHolds
  BY FitsMeaning
<1>2. QED
  BY <1>1, AdmissionInvariant, PTL

-----------------------------------------------------------------------------
(* Which uploads exist.                                                     *)

\* A step that writes one row, which is there after it if it was there before.
LEMMA OneStays ==
    ASSUME RowsInv, NEW f \in Files, NEW s, uploads' = [uploads EXCEPT ![f] = s],
           s.st # "none" <=> uploads[f].st # "none"
    PROVE  \A g \in Files : Exists(g)' <=> Exists(g)
<1>1. uploads'[f] = s /\ \A g \in Files \ {f} : uploads'[g] = uploads[g]
  BY DEF RowsInv
<1>2. QED  BY <1>1 DEF Exists

\* A failed attempt leaves its row.
LEMMA FinishStays ==
    ASSUME RowsInv, NEW f \in Files, uploads' = finishFailedUpload(f)
    PROVE  \A g \in Files : Exists(g)' <=> Exists(g)
<1>1. uploads[f] \in UploadRow  BY DEF RowsInv, GoodRow
<1>2. CASE Exists(f)
  <2>1. uploads' = [uploads EXCEPT ![f] = [uploads[f] EXCEPT !.st = "failed",
                       !.temp = uploads[f].temp /\ uploads[f].paid, !.run = "none"]]
    BY <1>2 DEF finishFailedUpload, Row
  <2>2. [uploads[f] EXCEPT !.st = "failed", !.temp = uploads[f].temp /\ uploads[f].paid,
                           !.run = "none"].st = "failed"
    BY <1>1 DEF UploadRow
  <2>3. QED  BY <1>2, <2>1, <2>2, OneStays DEF Exists
<1>3. CASE ~ Exists(f)
  <2>1. uploads' = [uploads EXCEPT ![f] = NoUpload] /\ NoUpload.st = "none"
    BY <1>3 DEF finishFailedUpload, Row, NoUpload
  <2>2. QED  BY <1>3, <2>1, OneStays DEF Exists
<1>4. QED  BY <1>2, <1>3

\* So does every other end of an attempt.
LEMMA AttemptStays ==
    ASSUME RowsInv, NEW f \in Files, NEW st \in Completed \cup {"failed", "queued"},
           NEW paid, AttemptEnds(f, st, paid)
    PROVE  \A g \in Files : Exists(g)' <=> Exists(g)
<1>1. uploads[f] \in UploadRow  BY DEF RowsInv, GoodRow
<1>2. CASE Exists(f)
  <2> DEFINE p == uploads[f].paid \/ paid
             t == uploads[f].temp /\ st \notin Completed
  <2>1. uploads' = [uploads EXCEPT ![f] = [uploads[f] EXCEPT !.st = st, !.run = "none", !.paid = p, !.temp = t]]
    BY <1>2 DEF AttemptEnds, Row
  <2> HIDE DEF p, t
  <2>2. [uploads[f] EXCEPT !.st = st, !.run = "none", !.paid = p, !.temp = t].st = st
    BY <1>1 DEF UploadRow
  <2>3. st # "none"  BY DEF Completed
  <2>4. QED  BY <1>2, <2>1, <2>2, <2>3, OneStays DEF Exists
<1>3. CASE ~ Exists(f)
  <2>1. uploads' = [uploads EXCEPT ![f] = NoUpload] /\ NoUpload.st = "none"
    BY <1>3 DEF AttemptEnds, Row, NoUpload
  <2>2. QED  BY <1>3, <2>1, OneStays DEF Exists
<1>4. QED  BY <1>2, <1>3

\* Neither the worker nor a cancel or retry makes a row or takes one away.
LEMMA WorkStays ==
    ASSUME RowsInv, NEW f \in Files, Work(f) \/ CancelUpload(f) \/ RetryUpload(f)
    PROVE  \A g \in Files : Exists(g)' <=> Exists(g)
<1>1. uploads[f] \in UploadRow  BY DEF RowsInv, GoodRow
<1>2. ASSUME NEW st \in {"queued", "processing", "failed"}, NEW l, NEW t, NEW e,
             uploads[f].st # "none",
             \/ uploads' = [uploads EXCEPT ![f] = [uploads[f] EXCEPT !.st = st, !.escaped = e, !.run = l]]
             \/ uploads' = [uploads EXCEPT ![f] = [uploads[f] EXCEPT !.st = st]]
             \/ uploads' = [uploads EXCEPT ![f] = [uploads[f] EXCEPT !.st = st, !.temp = t, !.escaped = e]]
      PROVE  \A g \in Files : Exists(g)' <=> Exists(g)
  <2>1. /\ [uploads[f] EXCEPT !.st = st, !.escaped = e, !.run = l].st # "none"
        /\ [uploads[f] EXCEPT !.st = st].st # "none"
        /\ [uploads[f] EXCEPT !.st = st, !.temp = t, !.escaped = e].st # "none"
    BY <1>1 DEF UploadRow
  <2>2. QED  BY <1>2, <2>1, OneStays
<1>3. ASSUME NEW l, uploads' = [uploads EXCEPT ![f] = [uploads[f] EXCEPT !.run = l]]
      PROVE  \A g \in Files : Exists(g)' <=> Exists(g)
  <2>1. [uploads[f] EXCEPT !.run = l].st = uploads[f].st  BY <1>1 DEF UploadRow
  <2>2. QED  BY <1>3, <2>1, OneStays
<1>4. CASE DequeueNext(f)
  <2> DEFINE l == IF uploads[f].temp THEN "check" ELSE "bare"
  <2>1. uploads' = [uploads EXCEPT ![f] = [uploads[f] EXCEPT !.st = "processing", !.escaped = FALSE, !.run = l]]
    BY <1>4 DEF DequeueNext, RowsInv
  <2>2. uploads[f].st = "queued"  BY <1>4 DEF DequeueNext
  <2> HIDE DEF l
  <2>3. QED  BY <1>2, <2>1, <2>2
<1>5. CASE RecheckOver(f) \/ RecheckNoSource(f) \/ FailAbandon(f)
  BY <1>5, FinishStays DEF RecheckOver, RecheckNoSource, FailAbandon
<1>6. CASE RecheckOk(f) \/ RetryTransient(f)
  <2>1. \/ uploads' = [uploads EXCEPT ![f] = [uploads[f] EXCEPT !.run = "passed"]]
        \/ uploads' = [uploads EXCEPT ![f] = [uploads[f] EXCEPT !.run = "check"]]
    BY <1>6 DEF RecheckOk, RetryTransient, RowsInv
  <2>2. QED  BY <1>3, <2>1
<1>7. ASSUME NEW st \in Completed, Complete(f, st)  PROVE \A g \in Files : Exists(g)' <=> Exists(g)
  <2>1. AttemptEnds(f, st, TRUE)  BY <1>7 DEF Complete
  <2>2. QED  BY <2>1, AttemptStays
<1>8. ASSUME NEW paid \in BOOLEAN, FailPreserve(f, paid)
      PROVE  \A g \in Files : Exists(g)' <=> Exists(g)
  <2>1. AttemptEnds(f, "failed", paid)  BY <1>8 DEF FailPreserve
  <2>2. QED  BY <2>1, AttemptStays
<1>9. CASE SetGasBackoff(f)
  <2>1. AttemptEnds(f, "queued", FALSE)  BY <1>9 DEF SetGasBackoff
  <2>2. QED  BY <2>1, AttemptStays
<1>10. ASSUME NEW paid \in BOOLEAN, WorkerDies(f, paid)
       PROVE  \A g \in Files : Exists(g)' <=> Exists(g)
  <2>1. CASE Exists(f)
    <3> DEFINE p == uploads[f].paid \/ paid
    <3>1. uploads' = [uploads EXCEPT ![f] = [uploads[f] EXCEPT !.run = "none", !.paid = p]]
      BY <1>10, <2>1 DEF WorkerDies, Row
    <3> HIDE DEF p
    <3>2. [uploads[f] EXCEPT !.run = "none", !.paid = p].st = uploads[f].st  BY <1>1 DEF UploadRow
    <3>3. QED  BY <3>1, <3>2, OneStays
  <2>2. CASE ~ Exists(f)
    <3>1. uploads' = [uploads EXCEPT ![f] = NoUpload] /\ NoUpload.st = "none"
      BY <1>10, <2>2 DEF WorkerDies, Row, NoUpload
    <3>2. QED  BY <2>2, <3>1, OneStays DEF Exists
  <2>3. QED  BY <2>1, <2>2
<1>11. CASE RequeueStuckExcept(f) \/ RetryUpload(f)
  <2>1. uploads' = [uploads EXCEPT ![f] = [uploads[f] EXCEPT !.st = "queued"]]
    BY <1>11 DEF RequeueStuckExcept, RetryUpload, RowsInv
  <2>2. uploads[f].st # "none"  BY <1>11 DEF RequeueStuckExcept, RetryUpload
  <2>3. QED  BY <1>2, <2>1, <2>2
<1>12. CASE CancelUpload(f)
  <2> DEFINE e == uploads[f].run # "none"
  <2>1. uploads' = [uploads EXCEPT ![f] = [uploads[f] EXCEPT !.st = "failed", !.temp = FALSE, !.escaped = e]]
    BY <1>12 DEF CancelUpload, RowsInv
  <2>2. uploads[f].st # "none"  BY <1>12 DEF CancelUpload
  <2> HIDE DEF e
  <2>3. QED  BY <1>2, <2>1, <2>2
<1>13. QED
  BY <1>4, <1>5, <1>6, <1>7, <1>8, <1>9, <1>10, <1>11, <1>12 DEF Work

\* Only a request that is about to insert its row makes one.
LEMMA InsertStays ==
    ASSUME RowsInv, RequestsInv, NEW c \in Clients, CreateUploadInsert(c)
    PROVE  \A g \in Files : Exists(g) => Exists(g)'
<1>1. req[c].f \in Files /\ req[c].kind \in Kinds
  BY DEF CreateUploadInsert, RequestsInv, GoodRequest
<1> DEFINE row == [NoUpload EXCEPT !.st = "queued", !.kind = req[c].kind, !.temp = TRUE]
<1>2. uploads' = [uploads EXCEPT ![req[c].f] = row]  BY DEF CreateUploadInsert, Row
<1>3. row.st = "queued"  BY DEF NoUpload
<1> HIDE DEF row
<1>4. QED  BY <1>1, <1>2, <1>3 DEF RowsInv, Exists

-----------------------------------------------------------------------------
(* Wallets.                                                                 *)

\* Does anything rest on a wallet: a wallet, an upload, a request that was let past
\* the wallet gate, or a creation that counted a wallet?
Resting ==
    \/ HasWallet \/ \E f \in Files : Exists(f)
    \/ \E c \in Clients : req[c].k \in {"quota", "insert"} \/ (req[c].k = "wallet" /\ ~ req[c].first)

\* A wallet that is being created is not there yet, and no other request names it.
NamesInv ==
    \A c \in Clients : req[c].k \in {"wallet", "unwallet"} =>
        /\ "w" \in DOMAIN req[c] /\ req[c].w \in Wallets
        /\ req[c].k = "wallet" =>
             /\ wallets[req[c].w] = "none"
             /\ \A d \in Clients \ {c} : req[d].k \in {"wallet", "unwallet"} => req[d].w # req[c].w

\* While no SetDefault has met a deletion: what rests on a wallet has a default one,
\* and no deletion is about to take it.
DefaultInv ==
    "default deleted" \notin raced =>
        /\ Resting => GetDefault
        /\ \A c \in Clients : req[c].k = "unwallet" => wallets[req[c].w] # "default"

\* While no two first creations have met: one default, and a creation that counted
\* no wallet still finds none.
SingleInv ==
    "two firsts" \notin raced =>
        /\ \A v, w \in Wallets : wallets[v] = "default" /\ wallets[w] = "default" => v = w
        /\ Counting => ~ HasWallet

WalletsInv ==
    /\ wallets \in [Wallets -> {"none", "plain", "default"}]
    /\ NamesInv /\ DefaultInv /\ SingleInv

\* Steps that touch no wallet: requests about wallets stay as they are, and nobody
\* gets past the wallet gate, or a row, who was not let past it.
LEMMA ElsewhereWallets ==
    ASSUME WalletsInv, UNCHANGED wvars,
           \A c \in Clients :
              \/ req'[c] = req[c]
              \/ req'[c].k \notin {"wallet", "unwallet", "quota", "insert"}
              \/ req'[c].k \in {"quota", "insert"} /\ (GetDefault \/ req[c].k \in {"quota", "insert"}),
           \A f \in Files : Exists(f)' => Exists(f) \/ \E c \in Clients : req[c].k = "insert"
    PROVE  WalletsInv'
<1>1. wallets' = wallets /\ raced' = raced  BY DEF wvars
<1>2. (HasWallet' <=> HasWallet) /\ (GetDefault' <=> GetDefault)
  BY <1>1 DEF HasWallet, GetDefault
<1>3. \A c \in Clients : req'[c].k \in {"wallet", "unwallet"} => req'[c] = req[c]
  OBVIOUS
<1>4. NamesInv'  BY <1>1, <1>3 DEF WalletsInv, NamesInv
<1>5. Resting' => Resting \/ GetDefault
  BY <1>2, <1>3 DEF Resting
<1>6. DefaultInv'  BY <1>1, <1>2, <1>3, <1>5 DEF WalletsInv, DefaultInv
<1>7. Counting' => Counting  BY <1>3 DEF Counting
<1>8. SingleInv'  BY <1>1, <1>2, <1>7 DEF WalletsInv, SingleInv
<1>9. QED  BY <1>1, <1>4, <1>6, <1>8 DEF WalletsInv

\* Creation counts.
LEMMA CountWallets ==
    ASSUME RequestsInv, WalletsInv, NEW c \in Clients, NEW w \in Wallets, CreateWalletCount(c, w)
    PROVE  WalletsInv'
<1> DEFINE first == ~ HasWallet
           r == [k |-> "wallet", w |-> w, first |-> first]
<1>1. /\ UNCHANGED <<uploads, wallets, raced>> /\ req' = [req EXCEPT ![c] = r] /\ wallets[w] = "none"
      /\ \A d \in Clients : "w" \in DOMAIN req[d] => req[d].w # w
  BY DEF CreateWalletCount, Begin, wvars
<1>2. r.k = "wallet" /\ r.w = w /\ (r.first <=> first) /\ "w" \in DOMAIN r  OBVIOUS
<1>3. first <=> ~ HasWallet  OBVIOUS
<1> HIDE DEF first, r
<1>4. req'[c] = r /\ \A d \in Clients \ {c} : req'[d] = req[d]
  BY <1>1 DEF RequestsInv
<1>5. (HasWallet' <=> HasWallet) /\ (GetDefault' <=> GetDefault) /\ \A f : Exists(f)' <=> Exists(f)
  BY <1>1 DEF HasWallet, GetDefault, Exists
<1>6. NamesInv'
  <2>1. \A d \in Clients \ {c} : req[d].k \in {"wallet", "unwallet"} => req[d].w # w
    BY <1>1 DEF WalletsInv, NamesInv
  <2>2. QED  BY <1>1, <1>2, <1>4, <2>1 DEF WalletsInv, NamesInv
<1>7. Resting' => Resting
  BY <1>2, <1>3, <1>4, <1>5 DEF Resting
<1>8. DefaultInv'  BY <1>1, <1>2, <1>4, <1>5, <1>7 DEF WalletsInv, DefaultInv
<1>9. Counting' => Counting \/ ~ HasWallet  BY <1>2, <1>3, <1>4 DEF Counting
<1>10. SingleInv'  BY <1>1, <1>5, <1>9 DEF WalletsInv, SingleInv
<1>11. QED  BY <1>1, <1>6, <1>8, <1>10 DEF WalletsInv

\* Creation inserts, or fails to.
LEMMA InsertWallets ==
    ASSUME RequestsInv, WalletsInv, NEW c \in Clients, CreateWalletInsert(c)
    PROVE  WalletsInv'
<1>1. /\ req[c].k = "wallet" /\ req' = [req EXCEPT ![c] = Idle] /\ UNCHANGED uploads
  BY DEF CreateWalletInsert, End, Become
<1>2. Idle.k = "idle"  BY DEF Idle
<1>3. req'[c].k = "idle" /\ \A d \in Clients \ {c} : req'[d] = req[d]
  BY <1>1, <1>2 DEF RequestsInv
<1>4. CASE UNCHANGED wvars
  BY <1>1, <1>3, <1>4, ElsewhereWallets DEF Exists
<1>5. CASE ~ UNCHANGED wvars
  <2> DEFINE w == req[c].w
             new == IF req[c].first THEN "default" ELSE "plain"
  <2>1. /\ wallets' = [wallets EXCEPT ![w] = new]
        /\ raced' = raced \cup {r \in {"two firsts"} :
                                   \E d \in Clients \ {c} : req[d].k = "wallet" /\ req[d].first}
    BY <1>5 DEF CreateWalletInsert
  <2>2. w \in Wallets /\ wallets[w] = "none"
    BY <1>1 DEF WalletsInv, NamesInv
  <2>3. /\ new \in {"plain", "default"} /\ (req[c].first => new = "default")
        /\ (new = "default" => req[c].first)
    OBVIOUS
  <2>4. \A d \in Clients \ {c} : req[d].k \in {"wallet", "unwallet"} => req[d].w \in Wallets /\ req[d].w # w
    BY <1>1 DEF WalletsInv, NamesInv
  <2> HIDE DEF new, w
  <2>5. wallets'[w] = new /\ \A v \in Wallets \ {w} : wallets'[v] = wallets[v]
    BY <2>1, <2>2 DEF WalletsInv
  <2>6. wallets' \in [Wallets -> {"none", "plain", "default"}]
    BY <2>1, <2>3 DEF WalletsInv
  <2>7. NamesInv'
    BY <1>3, <2>4, <2>5 DEF WalletsInv, NamesInv
  <2>8. "default deleted" \in raced' <=> "default deleted" \in raced  BY <2>1
  <2>9. DefaultInv'
    <3> SUFFICES ASSUME "default deleted" \notin raced
                 PROVE  /\ GetDefault'
                        /\ \A d \in Clients : req'[d].k = "unwallet" => wallets'[req'[d].w] # "default"
      BY <2>8 DEF DefaultInv
    <3>1. ASSUME new = "default"  PROVE GetDefault'
      BY <2>2, <2>5, <3>1 DEF GetDefault
    <3>2. ASSUME new # "default"  PROVE GetDefault'
      <4>1. ~ req[c].first  BY <2>3, <3>2
      <4>2. GetDefault  BY <1>1, <4>1 DEF WalletsInv, DefaultInv, Resting
      <4>3. QED  BY <2>2, <2>5, <4>2 DEF GetDefault
    <3>3. ASSUME NEW d \in Clients, req'[d].k = "unwallet"  PROVE wallets'[req'[d].w] # "default"
      <4>1. d # c  BY <1>3, <3>3
      <4>2. req'[d] = req[d]  BY <1>3, <4>1
      <4>3. req[d].k = "unwallet"  BY <3>3, <4>2
      <4>4. req[d].w \in Wallets \ {w}  BY <2>4, <4>1, <4>3
      <4>5. wallets[req[d].w] # "default"  BY <4>3 DEF WalletsInv, DefaultInv
      <4>6. QED  BY <2>5, <4>2, <4>4, <4>5
    <3>4. QED  BY <3>1, <3>2, <3>3
  <2>10. SingleInv'
    <3> SUFFICES ASSUME "two firsts" \notin raced'
                 PROVE  /\ \A v, x \in Wallets : wallets'[v] = "default" /\ wallets'[x] = "default" => v = x
                        /\ ~ Counting'
      BY DEF SingleInv
    <3>1. "two firsts" \notin raced /\ \A d \in Clients \ {c} : ~ (req[d].k = "wallet" /\ req[d].first)
      BY <2>1
    <3>2. ~ Counting'  BY <1>3, <3>1 DEF Counting
    <3>3. CASE new = "default"
      <4>1. ~ HasWallet  BY <1>1, <2>3, <3>1, <3>3 DEF WalletsInv, SingleInv, Counting
      <4>2. \A v \in Wallets \ {w} : wallets'[v] = "none"  BY <2>5, <4>1 DEF HasWallet
      <4>3. ASSUME NEW v \in Wallets, wallets'[v] = "default"  PROVE v = w
        BY <4>2, <4>3
      <4>4. QED  BY <3>2, <4>3
    <3>4. CASE new # "default"
      BY <2>5, <3>1, <3>2, <3>4 DEF WalletsInv, SingleInv
    <3>5. QED  BY <3>3, <3>4
  <2>11. QED  BY <2>6, <2>7, <2>9, <2>10 DEF WalletsInv
<1>6. QED  BY <1>4, <1>5

\* SetDefault.
LEMMA SetDefaultWallets ==
    ASSUME WalletsInv, NEW w \in Wallets, AdminSetDefaultWallet(w)
    PROVE  WalletsInv'
<1>1. /\ UNCHANGED <<uploads, req>> /\ wallets[w] # "none"
      /\ wallets' = [v \in Wallets |-> CASE v = w -> "default"
                                         [] v # w /\ wallets[v] # "none" -> "plain"
                                         [] OTHER -> "none"]
      /\ ("two firsts" \in raced' <=> Counting)
      /\ ("default deleted" \in raced' <=> Deleting(w))
  BY DEF AdminSetDefaultWallet, SetDefault
<1>2. /\ wallets'[w] = "default"
      /\ \A v \in Wallets \ {w} : wallets'[v] = IF wallets[v] # "none" THEN "plain" ELSE "none"
  BY <1>1
<1>3. wallets' \in [Wallets -> {"none", "plain", "default"}]  BY <1>1
<1>4. NamesInv'  BY <1>1, <1>2 DEF WalletsInv, NamesInv
<1>5. DefaultInv'
  <2>1. GetDefault'  BY <1>2 DEF GetDefault
  <2>2. ASSUME ~ Deleting(w), NEW c \in Clients, req[c].k = "unwallet"
        PROVE  wallets'[req[c].w] # "default"
    BY <1>2, <2>2 DEF Deleting, WalletsInv, NamesInv
  <2>3. QED  BY <1>1, <2>1, <2>2 DEF DefaultInv
<1>6. SingleInv'
  <2>1. Counting' <=> Counting  BY <1>1 DEF Counting
  <2>2. QED  BY <1>1, <1>2, <2>1 DEF SingleInv
<1>7. QED  BY <1>3, <1>4, <1>5, <1>6 DEF WalletsInv

\* Deletion looks, ...
LEMMA CheckWallets ==
    ASSUME RequestsInv, WalletsInv, NEW c \in Clients, NEW w \in Wallets, DeleteWalletCheck(c, w)
    PROVE  WalletsInv'
<1> DEFINE r == [k |-> "unwallet", w |-> w]
<1>1. UNCHANGED <<uploads, wallets, raced>> /\ req' = [req EXCEPT ![c] = r] /\ wallets[w] = "plain"
  BY DEF DeleteWalletCheck, DeletableWallet, Begin, wvars
<1>2. r.k = "unwallet" /\ r.w = w /\ "w" \in DOMAIN r  OBVIOUS
<1> HIDE DEF r
<1>3. req'[c] = r /\ \A d \in Clients \ {c} : req'[d] = req[d]
  BY <1>1 DEF RequestsInv
<1>4. (HasWallet' <=> HasWallet) /\ (GetDefault' <=> GetDefault) /\ \A f : Exists(f)' <=> Exists(f)
  BY <1>1 DEF HasWallet, GetDefault, Exists
<1>5. NamesInv'  BY <1>1, <1>2, <1>3 DEF WalletsInv, NamesInv
<1>6. Resting' => Resting  BY <1>2, <1>3, <1>4 DEF Resting
<1>7. DefaultInv'  BY <1>1, <1>2, <1>3, <1>4, <1>6 DEF WalletsInv, DefaultInv
<1>8. Counting' => Counting  BY <1>2, <1>3 DEF Counting
<1>9. SingleInv'  BY <1>1, <1>4, <1>8 DEF WalletsInv, SingleInv
<1>10. QED  BY <1>1, <1>5, <1>7, <1>9 DEF WalletsInv

\* ... and deletes, or is refused.
LEMMA DeleteWallets ==
    ASSUME RequestsInv, WalletsInv, NEW c \in Clients, DeleteWalletRow(c)
    PROVE  WalletsInv'
<1>1. req[c].k = "unwallet" /\ req' = [req EXCEPT ![c] = Idle] /\ UNCHANGED <<uploads, raced>>
  BY DEF DeleteWalletRow, End, Become
<1>2. Idle.k = "idle"  BY DEF Idle
<1>3. req'[c].k = "idle" /\ \A d \in Clients \ {c} : req'[d] = req[d]
  BY <1>1, <1>2 DEF RequestsInv
<1>4. CASE UNCHANGED wallets
  BY <1>1, <1>3, <1>4, ElsewhereWallets DEF Exists, wvars
<1>5. CASE ~ UNCHANGED wallets
  <2> DEFINE w == req[c].w
  <2>1. wallets' = [wallets EXCEPT ![w] = "none"]  BY <1>5 DEF DeleteWalletRow
  <2>2. w \in Wallets  BY <1>1 DEF WalletsInv, NamesInv
  <2>3. "default deleted" \notin raced => wallets[w] # "default"
    BY <1>1 DEF WalletsInv, DefaultInv
  <2> HIDE DEF w
  <2>4. wallets'[w] = "none" /\ \A v \in Wallets \ {w} : wallets'[v] = wallets[v]
    BY <2>1, <2>2 DEF WalletsInv
  <2>5. HasWallet' => HasWallet  BY <2>2, <2>4 DEF HasWallet
  <2>6. NamesInv'  BY <1>3, <2>4 DEF WalletsInv, NamesInv
  <2>7. Resting' => Resting  BY <1>1, <1>3, <2>5 DEF Resting, Exists
  <2>8. "default deleted" \notin raced /\ GetDefault => GetDefault'
    BY <2>2, <2>3, <2>4 DEF GetDefault
  <2>9. DefaultInv'
    <3>1. ASSUME "default deleted" \notin raced, NEW d \in Clients, req'[d].k = "unwallet"
          PROVE  wallets'[req'[d].w] # "default"
      <4>1. req'[d] = req[d]  BY <1>3, <3>1
      <4>2. req[d].k = "unwallet"  BY <3>1, <4>1
      <4>3. req[d].w \in Wallets /\ wallets[req[d].w] # "default"
        BY <3>1, <4>2 DEF WalletsInv, DefaultInv, NamesInv
      <4>4. CASE req[d].w = w  BY <2>4, <4>1, <4>4
      <4>5. CASE req[d].w # w  BY <2>4, <4>1, <4>3, <4>5
      <4>6. QED  BY <4>4, <4>5
    <3>2. QED  BY <1>1, <2>7, <2>8, <3>1 DEF WalletsInv, DefaultInv
  <2>10. Counting' => Counting  BY <1>3 DEF Counting
  <2>11. SingleInv'
    BY <1>1, <2>2, <2>4, <2>5, <2>10 DEF WalletsInv, SingleInv
  <2>12. wallets' \in [Wallets -> {"none", "plain", "default"}]  BY <2>1 DEF WalletsInv
  <2>13. QED  BY <2>6, <2>9, <2>11, <2>12 DEF WalletsInv
<1>6. QED  BY <1>4, <1>5

\* Every step keeps the wallets.
LEMMA WalletsKept ==
    ASSUME RequestsInv, RowsInv, WalletsInv, [Next]_vars
    PROVE  WalletsInv'
<1>1. ASSUME UNCHANGED <<wvars, uploads, req>>  PROVE WalletsInv'
  BY <1>1, ElsewhereWallets DEF Exists
<1>2. ASSUME NEW c \in Clients, NEW r, UNCHANGED <<wvars, uploads>>, Become(c, r),
             \/ r.k \notin {"wallet", "unwallet", "quota", "insert"}
             \/ r.k \in {"quota", "insert"} /\ (GetDefault \/ req[c].k \in {"quota", "insert"})
      PROVE  WalletsInv'
  <2>1. req'[c] = r /\ \A d \in Clients \ {c} : req'[d] = req[d]
    BY <1>2 DEF Become, RequestsInv
  <2>2. QED  BY <1>2, <2>1, ElsewhereWallets DEF Exists
<1>3. ASSUME NEW c \in Clients, UNCHANGED <<wvars, uploads>>, End(c)  PROVE WalletsInv'
  BY <1>2, <1>3 DEF End, Idle
<1>4. CASE Admitting
  <2>1. CASE QuotaAdmin \/ Pauses
    BY <1>1, <2>1 DEF QuotaAdmin, AdminCreateQuota, AdminUpdateQuota, AdminDeleteQuota, Pauses
  <2>2. CASE WalletAdmin
    BY <2>2, CountWallets, InsertWallets, SetDefaultWallets, CheckWallets, DeleteWallets DEF WalletAdmin
  <2>3. ASSUME NEW c \in Clients, NEW f \in Files, NEW k \in Kinds, CreateUploadOpen(c, f, k)
        PROVE  WalletsInv'
    <3>1. GetDefault /\ UNCHANGED <<wvars, uploads>> /\ Become(c, [k |-> "quota", f |-> f, kind |-> k])
      BY <2>3 DEF CreateUploadOpen, Begin, Become
    <3>2. QED  BY <1>2, <3>1
  <2>4. ASSUME NEW c \in Clients, CreateUploadQuota(c)  PROVE WalletsInv'
    <3>1. req[c].k = "quota" /\ req[c] \in [k : {"quota", "insert", "rules"}, f : Files, kind : Kinds]
      BY <2>4 DEF CreateUploadQuota, RequestsInv, GoodRequest
    <3>2. [req[c] EXCEPT !.k = "insert"].k = "insert"  BY <3>1
    <3>3. /\ UNCHANGED <<wvars, uploads>>
          /\ Become(c, [req[c] EXCEPT !.k = "insert"]) \/ End(c)
      BY <2>4 DEF CreateUploadQuota
    <3>4. QED  BY <1>2, <1>3, <3>1, <3>2, <3>3
  <2>5. ASSUME NEW c \in Clients, CreateUploadInsert(c)  PROVE WalletsInv'
    <3>1. req[c].k = "insert" /\ req[c] \in [k : {"quota", "insert", "rules"}, f : Files, kind : Kinds]
      BY <2>5 DEF CreateUploadInsert, RequestsInv, GoodRequest
    <3>2. [req[c] EXCEPT !.k = "rules"].k = "rules"  BY <3>1
    <3>3. req' = [req EXCEPT ![c] = [req[c] EXCEPT !.k = "rules"]] /\ UNCHANGED wvars
      BY <2>5 DEF CreateUploadInsert, Become
    <3>4. req'[c].k = "rules" /\ \A d \in Clients \ {c} : req'[d] = req[d]
      BY <3>2, <3>3 DEF RequestsInv
    <3>5. QED  BY <3>1, <3>3, <3>4, ElsewhereWallets
  <2>6. ASSUME NEW f \in Files, Work(f) \/ CancelUpload(f) \/ RetryUpload(f)  PROVE WalletsInv'
    <3>1. UNCHANGED <<req, wvars>>
      BY <2>6 DEF Work, DequeueNext, RecheckOk, RecheckOver, RecheckNoSource, Complete, FailAbandon,
                  SetGasBackoff, RetryTransient, FailPreserve, AttemptEnds, WorkerDies,
                  RequeueStuckExcept, CancelUpload, RetryUpload
    <3>2. \A g \in Files : Exists(g)' <=> Exists(g)  BY <2>6, WorkStays
    <3>3. QED  BY <3>1, <3>2, ElsewhereWallets
  <2>7. QED  BY <1>4, <2>1, <2>2, <2>3, <2>4, <2>5, <2>6 DEF Admitting, Uploading
<1>5. ASSUME NEW c \in Clients, NEW fs, NEW add, NEW drop, BulkTagUploads(c, fs, add, drop)
      PROVE  WalletsInv'
  <2>1. PICK targets \in SetToSeqs(fs) :
          Begin(c, "catalog", [k |-> "bulk", todo |-> Passes(targets, add, drop)])
    BY <1>5 DEF BulkTagUploads
  <2>2. UNCHANGED <<wvars, uploads>> /\ Become(c, [k |-> "bulk", todo |-> Passes(targets, add, drop)])
    BY <1>5, <2>1 DEF BulkTagUploads, Begin, Become
  <2>3. QED  BY <1>2, <2>2
<1>6. CASE Tagging
  <2>1. ASSUME NEW u \in Users, NEW f \in Files, NEW m \in TagChoices, UpdateTags(u, f, m)
        PROVE  UNCHANGED <<wvars, uploads, req>>
    BY <2>1 DEF UpdateTags
  <2>2. QED  BY <1>1, <1>5, <1>6, <2>1 DEF Tagging
<1>7. CASE RuleAdmin
  BY <1>1, <1>7 DEF RuleAdmin, CreateTagRule, UpdateTagRule, DeleteTagRule
<1>8. CASE Collecting
  <2>1. ASSUME NEW c \in Clients, NEW u \in Users, NEW d \in Colls, NEW f \in Files,
               AddToCollection(c, u, d, f)
        PROVE  WalletsInv'
    <3>1. UNCHANGED <<wvars, uploads>> /\ Become(c, [k |-> "inherit", d |-> d, f |-> f])
      BY <2>1 DEF AddToCollection, Begin, Become
    <3>2. QED  BY <1>2, <3>1
  <2>2. QED
    BY <1>1, <1>8, <2>1 DEF Collecting, CreateCollection, UpdateCollectionTags, DeleteCollection,
                            RemoveFromCollection
<1>9. ASSUME NEW c \in Clients, Continuing(c)  PROVE WalletsInv'
  <2>1. UNCHANGED <<wvars, uploads>>
    BY <1>9 DEF Continuing, CreateUploadRules, CreateUploadTags, BulkTagRead, BulkTagSet, InheritRead,
                InheritSet
  <2>2. \/ End(c)
        \/ \E x, y : Become(c, [k |-> "tag", f |-> req[c].f, user |-> x, tags |-> y])
        \/ \E x : Become(c, [k |-> "bulkset", todo |-> req[c].todo, old |-> x])
        \/ \E x : Become(c, [k |-> "bulk", todo |-> x])
        \/ \E x : Become(c, [k |-> "inheritset", f |-> req[c].f, tags |-> x])
    BY <1>9 DEF Continuing, CreateUploadRules, CreateUploadTags, BulkTagRead, BulkTagSet, InheritRead,
                InheritSet
  <2>3. QED  BY <1>2, <1>3, <2>1, <2>2
<1>10. ASSUME NEW f \in Files, DeleteUploadRow(f)  PROVE WalletsInv'
  <2>1. UNCHANGED <<wvars, req>>  BY <1>10 DEF DeleteUploadRow, DeleteUpload
  <2>2. \A g \in Files : Exists(g)' => Exists(g)
    <3>1. uploads[f].st # "none"  BY <1>10 DEF DeleteUploadRow, DeleteUpload, Deletable, Completed
    <3>2. PICK s : uploads' = [uploads EXCEPT ![f] = s]
      BY <1>10 DEF DeleteUploadRow, DeleteUpload, Row
    <3>3. QED  BY <3>1, <3>2 DEF Exists, RowsInv
  <2>3. QED  BY <2>1, <2>2, ElsewhereWallets
<1>11. CASE UNCHANGED vars
  BY <1>1, <1>11 DEF vars, avars
<1>12. QED
  BY <1>4, <1>6, <1>7, <1>8, <1>9, <1>10, <1>11 DEF Next

\* Wherever there is a wallet or an upload there is a default wallet, and only one,
\* for every number of wallets and of requests that create, delete and choose them
\* in separate statements: only a deletion that meets a SetDefault of its wallet, or
\* two first creations that meet, break it, until the next SetDefault.
THEOREM DefaultWallets == Spec => []OneDefaultWallet
<1>1. Init => WalletsInv
  <2> SUFFICES ASSUME Init PROVE WalletsInv
    OBVIOUS
  <2>1. /\ wallets \in [Wallets -> {"none", "plain", "default"}]
        /\ \A v, w \in Wallets : wallets[v] = "default" /\ wallets[w] # "none" => v = w
        /\ HasWallet => GetDefault
    BY DEF Init, AdmitInit, HasWallet, GetDefault
  <2>2. \A c \in Clients : req[c].k = "idle"  BY DEF Init, AdmitInit, Idle
  <2>3. \A f \in Files : ~ Exists(f)  BY DEF Init, AdmitInit, Exists, NoUpload
  <2>4. QED
    BY <2>1, <2>2, <2>3 DEF WalletsInv, NamesInv, DefaultInv, SingleInv, Resting, Counting
<1>2. RequestsInv /\ RowsInv /\ QuotasInv /\ WalletsInv /\ [Next]_vars => WalletsInv'
  BY WalletsKept
<1>3. WalletsInv => OneDefaultWallet
  BY DEF WalletsInv, DefaultInv, SingleInv, Resting, OneDefaultWallet
<1>4. QED
  BY <1>1, <1>2, <1>3, AdmissionInvariant, PTL DEF Spec

-----------------------------------------------------------------------------
(* The owner's tags.                                                        *)

\* A request that will replace the tags of f, and what it will keep of them.
ReplacesFor(r, f) ==
    \/ r.k \in {"quota", "insert", "rules", "tag"} /\ r.f = f
    \/ r.k = "bulkset" /\ Head(r.todo).f = f
Keeps(r, k) == IF r.k = "bulkset" THEN r.old[k] ELSE {}

\* A request that has begun to replace tags knows all the owner has asked for.
PendingInv ==
    \A c \in Clients, f \in Files \ disputed, k \in Keys :
        ReplacesFor(req[c], f) => given[f][k] \subseteq Keeps(req[c], k)

\* Nothing has been asked for an upload that is not there.
GoneInv == \A f \in Files, k \in Keys : ~ Exists(f) => given[f][k] = {}

TagsInv ==
    /\ tags = [f \in Files |-> tags[f]] /\ given = [f \in Files |-> given[f]]
    /\ UserTagsSurvive /\ PendingInv /\ GoneInv

\* Steps that neither tag nor ask: rows stay, and the one request that moves on keeps
\* what was asked for.
LEMMA ElsewhereTags ==
    ASSUME RequestsInv, TagsInv, UNCHANGED <<tags, given, disputed>>,
           \A f \in Files : Exists(f) => Exists(f)',
           NEW c \in Clients, NEW r, req' = [req EXCEPT ![c] = r] \/ req' = req,
           \A f \in Files \ disputed, k \in Keys : ReplacesFor(r, f) => given[f][k] \subseteq Keeps(r, k)
    PROVE  TagsInv'
<1>1. \A d \in Clients : req'[d] = r \/ req'[d] = req[d]
  BY DEF RequestsInv
<1>2. PendingInv'  BY <1>1 DEF TagsInv, PendingInv
<1>3. GoneInv'  BY DEF TagsInv, GoneInv
<1>4. QED  BY <1>2, <1>3 DEF TagsInv, UserTagsSurvive

\* Steps that leave the requests alone, too.
LEMMA StillTags ==
    ASSUME TagsInv, UNCHANGED <<tags, given, disputed, req>>, \A f \in Files : Exists(f) => Exists(f)'
    PROVE  TagsInv'
<1>1. PendingInv'  BY DEF TagsInv, PendingInv
<1>2. GoneInv'  BY DEF TagsInv, GoneInv
<1>3. QED  BY <1>1, <1>2 DEF TagsInv, UserTagsSurvive

\* A request writes what it has made, and ends or goes on to its next target.
LEMMA WrittenTags ==
    ASSUME RequestsInv, TagsInv, NEW c \in Clients, NEW r, \A g : ~ ReplacesFor(r, g),
           Become(c, r), UNCHANGED uploads,
           NEW f, NEW m, NEW w, NEW doubt, Asks(f, w, doubt), Overlapped(c, f) => doubt,
           SetTags(f, m) \/ (doubt /\ UNCHANGED tags),
           f \in Files \ disputed /\ ~ doubt => \A k \in Keys : w[k] \subseteq m[k]
    PROVE  TagsInv'
<1>1. req'[c] = r /\ \A d \in Clients \ {c} : req'[d] = req[d]
  BY DEF Become, RequestsInv
<1>2. \A g : Exists(g)' <=> Exists(g)  BY DEF Exists
<1>3. CASE ~ (Exists(f) /\ f \in Files)
  <2>1. /\ tags' = tags \/ tags' = [tags EXCEPT ![f] = m]
        /\ given' = given \/ given' = [given EXCEPT ![f] = w]
        /\ disputed \subseteq disputed'
        /\ ~ Exists(f) => tags' = tags /\ given' = given
    BY DEF Asks, SetTags
  <2>2. tags' = tags /\ given' = given  BY <1>3, <2>1 DEF TagsInv
  <2>3. PendingInv'  BY <1>1, <2>1, <2>2 DEF TagsInv, PendingInv
  <2>4. GoneInv'  BY <1>2, <2>2 DEF TagsInv, GoneInv
  <2>5. QED  BY <2>1, <2>2, <2>3, <2>4 DEF TagsInv, UserTagsSurvive
<1>4. CASE Exists(f) /\ f \in Files
  <2>1. /\ given' = [given EXCEPT ![f] = w] /\ disputed' = IF doubt THEN disputed \cup {f} ELSE disputed
        /\ tags' = [tags EXCEPT ![f] = m] \/ (doubt /\ tags' = tags)
    BY <1>4 DEF Asks, SetTags
  <2>2. /\ given'[f] = w /\ \A g \in Files \ {f} : given'[g] = given[g] /\ tags'[g] = tags[g]
        /\ ~ doubt => tags'[f] = m
        /\ tags' = [g \in Files |-> tags'[g]] /\ given' = [g \in Files |-> given'[g]]
    BY <1>4, <2>1 DEF TagsInv
  <2>3. \A g \in Files \ disputed' : g \notin disputed /\ (g = f => ~ doubt)
    BY <2>1
  <2>4. UserTagsSurvive'  BY <2>2, <2>3 DEF TagsInv, UserTagsSurvive
  <2>5. ASSUME NEW d \in Clients, NEW g \in Files \ disputed', NEW k \in Keys, ReplacesFor(req'[d], g)
        PROVE  given'[g][k] \subseteq Keeps(req'[d], k)
    <3>1. d # c /\ req'[d] = req[d]  BY <1>1, <2>5
    <3>2. CASE g = f
      BY <2>3, <2>5, <3>1, <3>2 DEF Overlapped, Replaces, ReplacesFor
    <3>3. CASE g # f
      <4>1. g \in Files \ disputed  BY <2>3
      <4>2. given[g][k] \subseteq Keeps(req[d], k)  BY <2>5, <3>1, <4>1 DEF TagsInv, PendingInv
      <4>3. QED  BY <2>2, <3>1, <3>3, <4>2
    <3>4. QED  BY <3>2, <3>3
  <2>6. PendingInv'  BY <2>5 DEF PendingInv
  <2>7. GoneInv'  BY <1>2, <1>4, <2>2 DEF TagsInv, GoneInv
  <2>8. QED  BY <2>2, <2>4, <2>6, <2>7 DEF TagsInv
<1>5. QED  BY <1>3, <1>4

\* The owner replaces the tags in one statement.
LEMMA UpdatedTags ==
    ASSUME TagsInv, NEW u, NEW f \in Files, NEW m, UpdateTags(u, f, m)
    PROVE  TagsInv'
<1>1. /\ Exists(f) /\ UNCHANGED <<uploads, req>>
      /\ tags' = [tags EXCEPT ![f] = m] /\ given' = [given EXCEPT ![f] = m]
      /\ disputed' = IF \E c \in Clients : Replaces(c, f) THEN disputed \cup {f} ELSE disputed \ {f}
  BY DEF UpdateTags, Owns, SetTags
<1>2. /\ given'[f] = m /\ tags'[f] = m
      /\ \A g \in Files \ {f} : given'[g] = given[g] /\ tags'[g] = tags[g]
      /\ tags' = [g \in Files |-> tags'[g]] /\ given' = [g \in Files |-> given'[g]]
  BY <1>1 DEF TagsInv
<1>3. \A g \in Files \ {f} : g \notin disputed' => g \notin disputed  BY <1>1
<1>4. f \notin disputed' => \A c \in Clients : ~ ReplacesFor(req[c], f)
  BY <1>1 DEF Replaces, ReplacesFor
<1>5. UserTagsSurvive'  BY <1>2, <1>3 DEF TagsInv, UserTagsSurvive
<1>6. PendingInv'  BY <1>1, <1>2, <1>3, <1>4 DEF TagsInv, PendingInv
<1>7. GoneInv'  BY <1>1, <1>2 DEF TagsInv, GoneInv, Exists
<1>8. QED  BY <1>2, <1>5, <1>6, <1>7 DEF TagsInv

\* Tags added to a file take none away.
LEMMA InheritedTags ==
    ASSUME RequestsInv, TagsInv, NEW c \in Clients, End(c), UNCHANGED <<uploads, asked>>,
           NEW f, NEW m, InheritToFile(f, m)
    PROVE  TagsInv'
<1> DEFINE new == Both(tags[f], m)
<1>1. \A k \in Keys : tags[f][k] \subseteq new[k]
  BY DEF Both
<1> HIDE DEF new
<1>2. tags' = IF Exists(f) THEN [tags EXCEPT ![f] = new] ELSE tags
  BY DEF InheritToFile, SetTags, new
<1>3. given' = given /\ disputed' = disputed /\ \A g : Exists(g)' <=> Exists(g)  BY DEF asked, Exists
<1>4. ASSUME NEW h \in Files \ disputed, NEW k \in Keys  PROVE given[h][k] \subseteq tags'[h][k]
  <2>1. given[h][k] \subseteq tags[h][k]
    BY DEF TagsInv, UserTagsSurvive
  <2>2. CASE h = f /\ Exists(f)
    <3>1. tags'[h] = new  BY <1>2, <2>2 DEF TagsInv
    <3>2. QED  BY <1>1, <2>1, <2>2, <3>1
  <2>3. CASE ~ (h = f /\ Exists(f))
    <3>1. tags'[h] = tags[h]  BY <1>2, <2>3 DEF TagsInv
    <3>2. QED  BY <2>1, <3>1
  <2>4. QED  BY <2>2, <2>3
<1>5. tags' = [h \in Files |-> tags'[h]] /\ given' = [h \in Files |-> given'[h]]
  BY <1>2, <1>3 DEF TagsInv
<1>6. \A d \in Clients : req'[d] = Idle \/ req'[d] = req[d]  BY DEF End, Become, RequestsInv
<1>7. \A g : ~ ReplacesFor(Idle, g)  BY DEF ReplacesFor, Idle
<1>8. PendingInv'  BY <1>3, <1>6, <1>7 DEF TagsInv, PendingInv
<1>9. GoneInv'  BY <1>3 DEF TagsInv, GoneInv
<1>10. QED  BY <1>3, <1>4, <1>5, <1>8, <1>9 DEF TagsInv, UserTagsSurvive

\* The row goes, with its tags and what was asked for it.
LEMMA DeletedTags ==
    ASSUME RowsInv, TagsInv, NEW f \in Files, DeleteUploadRow(f)
    PROVE  TagsInv'
<1>1. /\ UNCHANGED req /\ disputed' = disputed \ {f}
      /\ tags' = [tags EXCEPT ![f] = NoTags] /\ given' = [given EXCEPT ![f] = NoTags]
  BY DEF DeleteUploadRow, DeleteUpload
<1>2. \A k \in Keys : NoTags[k] = {}  BY DEF NoTags
<1>3. /\ given'[f] = NoTags /\ \A g \in Files \ {f} : given'[g] = given[g] /\ tags'[g] = tags[g]
      /\ tags' = [g \in Files |-> tags'[g]] /\ given' = [g \in Files |-> given'[g]]
  BY <1>1 DEF TagsInv
<1>4. \A g \in Files \ {f} : g \notin disputed' => g \notin disputed  BY <1>1
<1>5. PICK s : uploads' = [uploads EXCEPT ![f] = s]
  BY DEF DeleteUploadRow, DeleteUpload, Row
<1>6. \A g \in Files \ {f} : uploads'[g] = uploads[g]  BY <1>5 DEF RowsInv
<1>7. UserTagsSurvive'  BY <1>2, <1>3, <1>4 DEF TagsInv, UserTagsSurvive
<1>8. PendingInv'  BY <1>1, <1>2, <1>3, <1>4 DEF TagsInv, PendingInv
<1>9. GoneInv'  BY <1>2, <1>3, <1>6 DEF TagsInv, GoneInv, Exists
<1>10. QED  BY <1>3, <1>7, <1>8, <1>9 DEF TagsInv

\* What is wanted after a change is among what the change makes of a list that had all
\* that was wanted before.
LEMMA ChangedWanted ==
    ASSUME NEW g, NEW old, NEW p, \A k \in Keys : g[k] \subseteq old[k]
    PROVE  \A k \in Keys : Wanted(g, p)[k] \subseteq Changed(old, p)[k]
<1> SUFFICES ASSUME NEW k \in Keys PROVE Wanted(g, p)[k] \subseteq Changed(old, p)[k]
  OBVIOUS
<1>1. Wanted(g, p)[k] = {v \in Vals : k \notin p.drop /\ (v \in p.add[k] \/ (p.add[k] = {} /\ v \in g[k]))}
  BY DEF Wanted
<1>2. CASE k \in p.drop  BY <1>1, <1>2
<1>3. CASE k \notin p.drop /\ p.add[k] # {}
  <2>1. Changed(old, p)[k] = p.add[k]  BY <1>3 DEF Changed
  <2>2. QED  BY <1>1, <1>3, <2>1
<1>4. CASE k \notin p.drop /\ p.add[k] = {}
  <2>1. Changed(old, p)[k] = old[k]  BY <1>4 DEF Changed
  <2>2. QED  BY <1>1, <1>4, <2>1
<1>5. QED  BY <1>2, <1>3, <1>4

\* A bulk change that read the tags, or failed to.
LEMMA BulkReadTags ==
    ASSUME RequestsInv, TagsInv, NEW c \in Clients, BulkTagRead(c)
    PROVE  TagsInv'
<1> DEFINE f == Head(req[c].todo).f
<1>1. UNCHANGED <<uploads, tags>>  BY DEF BulkTagRead
<1>2. CASE UNCHANGED asked
  <2>1. CASE Become(c, [k |-> "bulkset", todo |-> req[c].todo, old |-> tags[f]])
    <3> DEFINE r == [k |-> "bulkset", todo |-> req[c].todo, old |-> tags[f]]
    <3>1. /\ \A g : ReplacesFor(r, g) => g = f
          /\ \A k : Keeps(r, k) = tags[f][k]
      BY DEF ReplacesFor, Keeps
    <3>2. req' = [req EXCEPT ![c] = r]  BY <2>1 DEF Become
    <3> HIDE DEF r, f
    <3>3. \A g \in Files \ disputed, k \in Keys : ReplacesFor(r, g) => given[g][k] \subseteq Keeps(r, k)
      BY <3>1 DEF TagsInv, UserTagsSurvive
    <3>4. QED  BY <1>1, <1>2, <3>2, <3>3, ElsewhereTags DEF asked, Exists
  <2>2. CASE \E old : Become(c, [k |-> "bulkset", todo |-> req[c].todo, old |-> old]) /\ Asks(f, given[f], TRUE)
    <3>1. PICK old : Become(c, [k |-> "bulkset", todo |-> req[c].todo, old |-> old]) /\ Asks(f, given[f], TRUE)
      BY <2>2
    <3> DEFINE r == [k |-> "bulkset", todo |-> req[c].todo, old |-> old]
    <3>2. \A g : ReplacesFor(r, g) => g = f  BY DEF ReplacesFor
    <3>3. req' = [req EXCEPT ![c] = r]  BY <3>1 DEF Become
    <3>4. Exists(f) => f \in disputed  BY <1>2, <3>1 DEF Asks, asked
    <3> HIDE DEF r, f
    <3>5. \A g \in Files \ disputed, k \in Keys : ReplacesFor(r, g) => given[g][k] = {}
      BY <3>2, <3>4 DEF TagsInv, GoneInv
    <3>6. QED  BY <1>1, <1>2, <3>3, <3>5, ElsewhereTags DEF asked, Exists
  <2>3. QED  BY <2>1, <2>2 DEF BulkTagRead
<1>3. CASE ~ UNCHANGED asked
  <2>1. PICK old : Become(c, [k |-> "bulkset", todo |-> req[c].todo, old |-> old]) /\ Asks(f, given[f], TRUE)
    BY <1>3 DEF BulkTagRead
  <2> DEFINE r == [k |-> "bulkset", todo |-> req[c].todo, old |-> old]
  <2>2. \A g : ReplacesFor(r, g) => g = f  BY DEF ReplacesFor
  <2>3. req'[c] = r /\ \A d \in Clients \ {c} : req'[d] = req[d]  BY <2>1 DEF Become, RequestsInv
  <2> HIDE DEF r, f
  <2>4. given' = given /\ disputed' = disputed \cup {f} /\ \A g : Exists(g)' <=> Exists(g)
    BY <1>1, <1>3, <2>1 DEF Asks, asked, TagsInv, Exists
  <2>5. PendingInv'  BY <2>2, <2>3, <2>4 DEF TagsInv, PendingInv
  <2>6. GoneInv'  BY <2>4 DEF TagsInv, GoneInv
  <2>7. QED  BY <1>1, <2>4, <2>5, <2>6 DEF TagsInv, UserTagsSurvive
<1>4. QED  BY <1>2, <1>3

\* A bulk change that writes back what it read, changed, or is passed over.
LEMMA BulkSetTags ==
    ASSUME RequestsInv, TagsInv, NEW c \in Clients, BulkTagSet(c)
    PROVE  TagsInv'
<1> DEFINE p == Head(req[c].todo)
<1>1. UNCHANGED uploads /\ req[c].k = "bulkset"  BY DEF BulkTagSet
<1>2. PICK r : Become(c, r) /\ r.k \in {"idle", "bulk"}
  BY DEF BulkTagSet, End, Idle
<1>3. \A g : ~ ReplacesFor(r, g)  BY <1>2 DEF ReplacesFor
<1>4. CASE UNCHANGED <<tags, asked>>
  BY <1>1, <1>2, <1>3, <1>4, ElsewhereTags DEF Become, asked, Exists
<1>5. CASE /\ SetTags(p.f, Changed(req[c].old, p))
           /\ Asks(p.f, Wanted(given[p.f], p), Overlapped(c, p.f))
  <2>1. ASSUME p.f \in Files \ disputed
        PROVE  \A k \in Keys : Wanted(given[p.f], p)[k] \subseteq Changed(req[c].old, p)[k]
    <3>1. ReplacesFor(req[c], p.f) /\ \A k : Keeps(req[c], k) = req[c].old[k]
      BY <1>1 DEF ReplacesFor, Keeps
    <3>2. \A k \in Keys : given[p.f][k] \subseteq req[c].old[k]
      BY <2>1, <3>1 DEF TagsInv, PendingInv
    <3>3. QED  BY <3>2, ChangedWanted
  <2>2. QED  BY <1>1, <1>2, <1>3, <1>5, <2>1, WrittenTags
<1>6. QED  BY <1>4, <1>5 DEF BulkTagSet

\* The end of a creation: its tags are written, or not.
LEMMA CreatedTags ==
    ASSUME RequestsInv, TagsInv, NEW c \in Clients, CreateUploadTags(c)
    PROVE  TagsInv'
<1> DEFINE f == req[c].f
           p == [add |-> req[c].user, drop |-> {}]
<1>1. UNCHANGED uploads /\ req[c].k = "tag" /\ Become(c, Idle)  BY DEF CreateUploadTags, End
<1>2. \A g : ~ ReplacesFor(Idle, g)  BY DEF ReplacesFor, Idle
<1>3. CASE UNCHANGED <<tags, asked>>
  BY <1>1, <1>2, <1>3, ElsewhereTags DEF Become, asked, Exists
<1>4. CASE SetTags(f, req[c].tags) /\ Asks(f, Wanted(given[f], p), Overlapped(c, f))
  <2>1. ASSUME f \in Files \ disputed, NEW k \in Keys
        PROVE  Wanted(given[f], p)[k] \subseteq req[c].tags[k]
    <3>1. ReplacesFor(req[c], f) /\ Keeps(req[c], k) = {}
      BY <1>1 DEF ReplacesFor, Keeps
    <3>2. given[f][k] = {}
      BY <2>1, <3>1 DEF TagsInv, PendingInv
    <3>3. req[c].user[k] \subseteq req[c].tags[k]
      BY <1>1 DEF RequestsInv, GoodRequest
    <3>4. p.add = req[c].user  OBVIOUS
    <3>5. \A v \in Wanted(given[f], p)[k] : v \in p.add[k] \/ v \in given[f][k]
      BY DEF Wanted
    <3>6. QED  BY <3>2, <3>3, <3>4, <3>5
  <2> HIDE DEF f, p
  <2>2. QED  BY <1>1, <1>2, <1>4, <2>1, WrittenTags
<1>5. CASE UNCHANGED tags /\ Asks(f, Wanted(given[f], p), TRUE)
  <2> HIDE DEF f, p
  <2>1. QED  BY <1>1, <1>2, <1>5, WrittenTags
<1>6. QED  BY <1>3, <1>4, <1>5 DEF CreateUploadTags

\* Every step keeps the owner's tags.
LEMMA TagsKept ==
    ASSUME RequestsInv, RowsInv, TagsInv, [Next]_vars
    PROVE  TagsInv'
<1>1. ASSUME UNCHANGED <<tags, asked, req, uploads>>  PROVE TagsInv'
  BY <1>1, StillTags DEF asked, Exists
<1>2. ASSUME NEW c \in Clients, NEW r, UNCHANGED <<tags, asked, uploads>>, Become(c, r),
             r.k \notin {"quota", "insert", "rules", "tag", "bulkset"}
      PROVE  TagsInv'
  <2>1. \A f : ~ ReplacesFor(r, f)  BY <1>2 DEF ReplacesFor
  <2>2. QED  BY <1>2, <2>1, ElsewhereTags DEF Become, asked, Exists
<1>3. ASSUME NEW c \in Clients, UNCHANGED <<tags, asked, uploads>>, End(c)  PROVE TagsInv'
  BY <1>2, <1>3 DEF End, Idle
<1>4. ASSUME NEW c \in Clients, NEW r, UNCHANGED <<tags, asked>>, Become(c, r),
             \A f \in Files : Exists(f) => Exists(f)',
             req[c].k \in {"quota", "insert", "rules"}, r.k \in {"insert", "rules", "tag"}, r.f = req[c].f
      PROVE  TagsInv'
  <2>1. \A f, k : /\ ReplacesFor(r, f) <=> ReplacesFor(req[c], f)
                  /\ Keeps(r, k) = Keeps(req[c], k)
    BY <1>4 DEF ReplacesFor, Keeps
  <2>2. \A f \in Files \ disputed, k \in Keys : ReplacesFor(r, f) => given[f][k] \subseteq Keeps(r, k)
    BY <2>1 DEF TagsInv, PendingInv
  <2>3. QED  BY <1>4, <2>2, ElsewhereTags DEF Become, asked
<1>5. CASE Admitting
  <2>0. UNCHANGED <<tags, asked>>  BY <1>5 DEF Admitting, cvars
  <2>1. CASE QuotaAdmin \/ Pauses \/ \E w \in Wallets : AdminSetDefaultWallet(w)
    BY <1>1, <2>0, <2>1 DEF QuotaAdmin, AdminCreateQuota, AdminUpdateQuota, AdminDeleteQuota, Pauses,
                            AdminSetDefaultWallet
  <2>2. ASSUME NEW c \in Clients, NEW w \in Wallets, CreateWalletCount(c, w) \/ DeleteWalletCheck(c, w)
        PROVE  TagsInv'
    <3>1. /\ UNCHANGED uploads
          /\ \/ Become(c, [k |-> "wallet", w |-> w, first |-> ~HasWallet])
             \/ Become(c, [k |-> "unwallet", w |-> w])
      BY <2>2 DEF CreateWalletCount, DeleteWalletCheck, Begin, Become
    <3>2. QED  BY <1>2, <2>0, <3>1
  <2>3. ASSUME NEW c \in Clients, CreateWalletInsert(c) \/ DeleteWalletRow(c)  PROVE TagsInv'
    BY <1>3, <2>0, <2>3 DEF CreateWalletInsert, DeleteWalletRow
  <2>4. ASSUME NEW c \in Clients, NEW f \in Files, NEW k \in Kinds, CreateUploadOpen(c, f, k)
        PROVE  TagsInv'
    <3> DEFINE r == [k |-> "quota", f |-> f, kind |-> k]
    <3>1. UNCHANGED uploads /\ uploads[f] = NoUpload /\ req' = [req EXCEPT ![c] = r]
      BY <2>4 DEF CreateUploadOpen, FreshId, Begin
    <3>2. \A g : ReplacesFor(r, g) => g = f  BY DEF ReplacesFor
    <3> HIDE DEF r
    <3>3. \A key \in Keys : given[f][key] = {}
      BY <3>1 DEF TagsInv, GoneInv, Exists, NoUpload
    <3>4. QED  BY <2>0, <3>1, <3>2, <3>3, ElsewhereTags DEF asked, Exists
  <2>5. ASSUME NEW c \in Clients, CreateUploadQuota(c)  PROVE TagsInv'
    <3>1. req[c].k = "quota" /\ req[c] \in [k : {"quota", "insert", "rules"}, f : Files, kind : Kinds]
      BY <2>5 DEF CreateUploadQuota, RequestsInv, GoodRequest
    <3> DEFINE r == [req[c] EXCEPT !.k = "insert"]
    <3>2. r.k = "insert" /\ r.f = req[c].f  BY <3>1
    <3>3. UNCHANGED uploads /\ (Become(c, r) \/ End(c))
      BY <2>5 DEF CreateUploadQuota
    <3> HIDE DEF r
    <3>4. QED  BY <1>3, <1>4, <2>0, <3>1, <3>2, <3>3 DEF Exists
  <2>6. ASSUME NEW c \in Clients, CreateUploadInsert(c)  PROVE TagsInv'
    <3>1. req[c].k = "insert" /\ req[c] \in [k : {"quota", "insert", "rules"}, f : Files, kind : Kinds]
      BY <2>6 DEF CreateUploadInsert, RequestsInv, GoodRequest
    <3> DEFINE r == [req[c] EXCEPT !.k = "rules"]
    <3>2. r.k = "rules" /\ r.f = req[c].f  BY <3>1
    <3>3. Become(c, r)  BY <2>6 DEF CreateUploadInsert
    <3> HIDE DEF r
    <3>4. \A g \in Files : Exists(g) => Exists(g)'  BY <2>6, InsertStays
    <3>5. QED  BY <1>4, <2>0, <3>1, <3>2, <3>3, <3>4
  <2>7. ASSUME NEW f \in Files, Work(f) \/ CancelUpload(f) \/ RetryUpload(f)  PROVE TagsInv'
    <3>1. UNCHANGED req
      BY <2>7 DEF Work, DequeueNext, RecheckOk, RecheckOver, RecheckNoSource, Complete, FailAbandon,
                  SetGasBackoff, RetryTransient, FailPreserve, AttemptEnds, WorkerDies,
                  RequeueStuckExcept, CancelUpload, RetryUpload
    <3>2. \A g \in Files : Exists(g)' <=> Exists(g)  BY <2>7, WorkStays
    <3>3. QED  BY <2>0, <3>1, <3>2, StillTags DEF asked
  <2>8. QED
    BY <1>5, <2>1, <2>2, <2>3, <2>4, <2>5, <2>6, <2>7 DEF Admitting, Uploading, WalletAdmin
<1>6. ASSUME NEW c \in Clients, NEW fs, NEW add, NEW drop, BulkTagUploads(c, fs, add, drop)
      PROVE  TagsInv'
  <2>1. PICK targets \in SetToSeqs(fs) :
          Begin(c, "catalog", [k |-> "bulk", todo |-> Passes(targets, add, drop)])
    BY <1>6 DEF BulkTagUploads
  <2>2. UNCHANGED <<uploads, tags, asked>>  BY <1>6 DEF BulkTagUploads, cvars
  <2>3. Become(c, [k |-> "bulk", todo |-> Passes(targets, add, drop)])  BY <2>1 DEF Begin, Become
  <2>4. QED  BY <1>2, <2>2, <2>3
<1>7. CASE Tagging
  BY <1>6, <1>7, UpdatedTags DEF Tagging
<1>8. CASE RuleAdmin
  BY <1>1, <1>8 DEF RuleAdmin, CreateTagRule, UpdateTagRule, DeleteTagRule
<1>9. CASE Collecting
  <2>1. ASSUME NEW c \in Clients, NEW u \in Users, NEW d \in Colls, NEW f \in Files,
               AddToCollection(c, u, d, f)
        PROVE  TagsInv'
    <3>1. UNCHANGED <<uploads, tags, asked>> /\ Become(c, [k |-> "inherit", d |-> d, f |-> f])
      BY <2>1 DEF AddToCollection, Begin, Become
    <3>2. QED  BY <1>2, <3>1
  <2>2. QED
    BY <1>1, <1>9, <2>1 DEF Collecting, CreateCollection, UpdateCollectionTags, DeleteCollection,
                            RemoveFromCollection
<1>10. ASSUME NEW c \in Clients, Continuing(c)  PROVE TagsInv'
  <2>1. CASE CreateUploadRules(c)
    <3>1. UNCHANGED <<uploads, tags, asked>> /\ req[c].k = "rules"
      BY <2>1 DEF CreateUploadRules, cvars
    <3>2. PICK x, y : Become(c, [k |-> "tag", f |-> req[c].f, user |-> x, tags |-> y])
      BY <2>1 DEF CreateUploadRules
    <3>3. QED  BY <1>4, <3>1, <3>2 DEF Exists
  <2>2. CASE InheritRead(c)
    <3>1. UNCHANGED <<uploads, tags, asked>>  BY <2>2 DEF InheritRead, cvars
    <3>2. End(c) \/ \E x : Become(c, [k |-> "inheritset", f |-> req[c].f, tags |-> x])
      BY <2>2 DEF InheritRead
    <3>3. QED  BY <1>2, <1>3, <3>1, <3>2
  <2>3. CASE InheritSet(c)
    <3>1. PICK m : InheritToFile(req[c].f, m)  BY <2>3 DEF InheritSet
    <3>2. End(c) /\ UNCHANGED <<uploads, asked>>  BY <2>3 DEF InheritSet
    <3>3. QED  BY <3>1, <3>2, InheritedTags
  <2>4. QED
    BY <1>10, <2>1, <2>2, <2>3, BulkReadTags, BulkSetTags, CreatedTags DEF Continuing
<1>11. CASE UNCHANGED vars
  BY <1>1, <1>11 DEF vars, avars, cvars
<1>12. QED
  BY <1>5, <1>7, <1>8, <1>9, <1>10, <1>11, DeletedTags DEF Next

\* What its owner last asked for under a key stays on an upload, for every set of
\* keys, rules, collections and requests: unless it was asked for while another of
\* the owner's requests that replaces the tags of that upload was under way, or
\* met an error that is not reported.
THEOREM TagsOfOwner == Spec => []UserTagsSurvive
<1>1. Init => TagsInv
  <2> SUFFICES ASSUME Init PROVE TagsInv
    OBVIOUS
  <2>1. \A k \in Keys : NoTags[k] = {}  BY DEF NoTags
  <2>2. \A c \in Clients : \A f : ~ ReplacesFor(req[c], f)
    BY DEF Init, AdmitInit, Idle, ReplacesFor
  <2>3. QED
    BY <2>1, <2>2 DEF Init, TagsInv, UserTagsSurvive, PendingInv, GoneInv
<1>2. RequestsInv /\ RowsInv /\ QuotasInv /\ TagsInv /\ [Next]_vars => TagsInv'
  BY TagsKept
<1>3. TagsInv => UserTagsSurvive
  BY DEF TagsInv
<1>4. QED
  BY <1>1, <1>2, <1>3, AdmissionInvariant, PTL DEF Spec
=============================================================================
