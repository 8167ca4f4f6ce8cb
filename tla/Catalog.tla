------------------------------- MODULE Catalog -------------------------------
(***************************************************************************)
(* How users find their uploads: tags on files (services/tag.go), rules    *)
(* that tag a file as it arrives (services/tag_rule.go), collections whose *)
(* tags pass to the files put in them (services/collection.go,             *)
(* collection_tags.go) and label selectors (services/selector.go).         *)
(*                                                                         *)
(* Every list of tags is replaced in one transaction, but the requests     *)
(* that compute the new list read the old one first: a bulk change, the    *)
(* inheritance of a collection's tags, and the creation of an upload,      *)
(* whose row is visible before its tags are.                               *)
(***************************************************************************)
EXTENDS Admission, SequencesExt

CONSTANTS
    Attrs,        \* what rules tell files apart by: type, name, size, visibility
    Keys, Vals,   \* tag keys and values
    RuleIds, Priorities,
    Colls         \* collection row ids

VARIABLES
    tags,      \* file_tags: for each upload and key the set of values
    rules,     \* the table tag_rules
    colls,     \* the tables collections and collection_tags
    members,   \* collection_files
    given,     \* for each upload and key the values its owner last asked for
    disputed   \* uploads whose owner's requests overlapped, or met an error that is not reported

asked == <<given, disputed>>
cvars == <<tags, rules, colls, members, asked>>
vars == <<avars, cvars>>

NoTags == [k \in Keys |-> {}]
Both(m, n) == [k \in Keys |-> m[k] \cup n[k]]
Parts(m) == {n \in [Keys -> SUBSET Vals] : \A k \in Keys : n[k] \subseteq m[k]}
NoRule == [on |-> FALSE, match |-> {}, key |-> None, val |-> None, prio |-> 0]
NoColl == [owner |-> None, parent |-> None, tags |-> NoTags]

Owner(f) == uploads[f].kind.user
Owns(u, f) == Exists(f) /\ Owner(f) = u

-----------------------------------------------------------------------------
(* Tags *)

\* TagService.SetTags: delete and insert in one transaction; the foreign key
\* refuses tags for a row that is gone.
SetTags(f, m) == tags' = IF Exists(f) THEN [tags EXCEPT ![f] = m] ELSE tags

\* Does a request of client c replace the tags of f by a list it has already begun
\* to make: a creation, or a bulk change that has read the tags?
Replaces(c, f) ==
    \/ req[c].k \in {"quota", "insert", "rules", "tag"} /\ req[c].f = f
    \/ req[c].k = "bulkset" /\ Head(req[c].todo).f = f

Overlapped(c, f) == \E d \in Clients \ {c} : Replaces(d, f)

\* What the owner has asked for after a change: values for the keys it adds, none for
\* those it drops, and what was asked for before under every other key.
Wanted(m, p) ==
    [k \in Keys |-> {v \in Vals : /\ k \notin p.drop
                                  /\ v \in p.add[k] \/ (p.add[k] = {} /\ v \in m[k])}]

\* The owner has asked for tags m in all on f; doubt: the request overlaps another
\* one, or an error keeps its tags from being written.
Asks(f, m, doubt) ==
    /\ given' = IF Exists(f) THEN [given EXCEPT ![f] = m] ELSE given
    /\ disputed' = IF Exists(f) /\ doubt THEN disputed \cup {f} ELSE disputed

\* The request that says what all the tags are settles what was in doubt.
UpdateTags(u, f, m) ==
    /\ Spend("catalog")
    /\ Owns(u, f)
    /\ SetTags(f, m)
    /\ given' = [given EXCEPT ![f] = m]
    /\ disputed' = IF \E c \in Clients : Replaces(c, f) THEN disputed \cup {f} ELSE disputed \ {f}
    /\ UNCHANGED <<uploads, quotas, wvars, paused, req, vouched, rules, colls, members>>

-----------------------------------------------------------------------------
(* Label selectors *)

\* What ParseSelector makes of one requirement.
Requirements ==
    [op : {"=", "!=", "in", "notin", "exists", "notexists"}, key : Keys, vals : SUBSET Vals \ {{}}]

\* BuildSelectorSQL: every requirement is an EXISTS or a NOT EXISTS.
BuildSelectorSQL(f, r) ==
    CASE r.op \in {"=", "in"} -> tags[f][r.key] \cap r.vals # {}
      [] r.op \in {"!=", "notin"} -> tags[f][r.key] \cap r.vals = {}
      [] r.op = "exists" -> tags[f][r.key] # {}
      [] r.op = "notexists" -> tags[f][r.key] = {}

\* SearchBySelector: the caller's uploads that meet every requirement.
SearchBySelector(u, rs) == {f \in Files : Owns(u, f) /\ \A r \in rs : BuildSelectorSQL(f, r)}

-----------------------------------------------------------------------------
(* Bulk changes *)

\* A bulk request goes over its targets one by one: add_tags replace the values
\* of their keys, then remove_tags drop theirs, each pass with a read and a
\* write of its own.
Passes(targets, add, drop) ==
    FlattenSeq([i \in DOMAIN targets |->
        (IF add # NoTags THEN << [f |-> targets[i], add |-> add, drop |-> {}] >> ELSE << >>) \o
        (IF drop # {} THEN << [f |-> targets[i], add |-> NoTags, drop |-> drop] >> ELSE << >>)])

Changed(m, p) == [k \in Keys |-> CASE k \in p.drop -> {}
                                   [] k \notin p.drop /\ p.add[k] # {} -> p.add[k]
                                   [] OTHER -> m[k]]

\* The targets are found once, by id or by selector, in the caller's order or
\* by age.
BulkTagUploads(c, fs, add, drop) ==
    /\ fs # {} /\ (add # NoTags \/ drop # {})
    /\ \E targets \in SetToSeqs(fs) :
         Begin(c, "catalog", [k |-> "bulk", todo |-> Passes(targets, add, drop)])
    /\ UNCHANGED <<uploads, quotas, wvars, paused, vouched, cvars>>

\* The error of GetTags is not looked at: a failed read gives the rows that came
\* before the failure, if any.
BulkTagRead(c) ==
    LET f == Head(req[c].todo).f IN
    /\ req[c].k = "bulk"
    /\ \/ /\ Become(c, [k |-> "bulkset", todo |-> req[c].todo, old |-> tags[f]])
          /\ UNCHANGED <<left, asked>>
       \/ /\ Spend("fault")
          /\ \E old \in Parts(tags[f]) :
               Become(c, [k |-> "bulkset", todo |-> req[c].todo, old |-> old])
          /\ Asks(f, given[f], TRUE)
    /\ UNCHANGED <<uploads, quotas, wvars, paused, vouched, tags, rules, colls, members>>

\* The owner has asked for the keys the change names and for no other.  A target
\* whose tags cannot be written is passed over and not counted as affected.
BulkTagSet(c) ==
    LET p == Head(req[c].todo) IN
    /\ req[c].k = "bulkset"
    /\ \/ /\ SetTags(p.f, Changed(req[c].old, p))
          /\ Asks(p.f, Wanted(given[p.f], p), Overlapped(c, p.f))
          /\ UNCHANGED left
       \/ Spend("fault") /\ UNCHANGED <<tags, asked>>
    /\ IF Len(req[c].todo) = 1 THEN End(c)
                               ELSE Become(c, [k |-> "bulk", todo |-> Tail(req[c].todo)])
    /\ UNCHANGED <<uploads, quotas, wvars, paused, vouched, rules, colls, members>>

-----------------------------------------------------------------------------
(* Rules, and the end of CreateUpload *)

\* The enabled rules in the order they are read, by priority and then id; a
\* key that a rule has set is skipped from then on.
Before(r, s) == rules[r].prio < rules[s].prio \/ (rules[r].prio = rules[s].prio /\ r < s)
ruleMatches(r, attr) == attr \in rules[r].match

EvaluateRules(attr) ==
    [k \in Keys |->
        LET hits == {r \in RuleIds : rules[r].on /\ rules[r].key = k /\ ruleMatches(r, attr)} IN
        {rules[r].val : r \in {r \in hits : \A s \in hits \ {r} : Before(r, s)}}]

\* TagRuleService.Create, Update and Delete, one statement each.
CreateRule(r, row) == rules[r] = NoRule /\ rules' = [rules EXCEPT ![r] = row]
UpdateRule(r, row) == rules[r] # NoRule /\ rules' = [rules EXCEPT ![r] = row]
DeleteRule(r)      == rules[r] # NoRule /\ rules' = [rules EXCEPT ![r] = NoRule]

CreateTagRule(r, match, key, val, prio) ==
    /\ Spend("rule")
    /\ CreateRule(r, [on |-> TRUE, match |-> match, key |-> key, val |-> val, prio |-> prio])
    /\ UNCHANGED <<uploads, quotas, wvars, paused, req, vouched, tags, colls, members, asked>>

UpdateTagRule(r, match, key, val, prio, on) ==
    /\ Spend("rule")
    /\ UpdateRule(r, [on |-> on, match |-> match, key |-> key, val |-> val, prio |-> prio])
    /\ UNCHANGED <<uploads, quotas, wvars, paused, req, vouched, tags, colls, members, asked>>

DeleteTagRule(r) ==
    /\ Spend("rule") /\ DeleteRule(r)
    /\ UNCHANGED <<uploads, quotas, wvars, paused, req, vouched, tags, colls, members, asked>>

\* Mutant: the rules win.
MutUserTagsFirst(user, auto) == [k \in Keys |-> IF auto[k] # {} THEN auto[k] ELSE user[k]]

\* A key the user gave keeps the user's values.
UserTagsFirst(user, auto) == [k \in Keys |-> IF user[k] # {} THEN user[k] ELSE auto[k]]

\* When the rules cannot be evaluated the upload goes on without their tags.
CreateUploadRules(c) ==
    /\ req[c].k = "rules"
    /\ \/ /\ Become(c, [k |-> "tag", f |-> req[c].f, user |-> req[c].kind.tags,
                        tags |-> UserTagsFirst(req[c].kind.tags, EvaluateRules(req[c].kind.attr))])
          /\ UNCHANGED left
       \/ /\ Spend("fault")
          /\ Become(c, [k |-> "tag", f |-> req[c].f, user |-> req[c].kind.tags,
                        tags |-> req[c].kind.tags])
    /\ UNCHANGED <<uploads, quotas, wvars, paused, vouched, cvars>>

\* The new row may have been tagged, cancelled or deleted in the meantime.  The
\* owner has asked for the tags sent with the upload; that they cannot be written
\* is only logged, and the answer is 202 all the same.
CreateUploadTags(c) ==
    LET f == req[c].f
        m == Wanted(given[f], [add |-> req[c].user, drop |-> {}])
    IN
    /\ req[c].k = "tag"
    /\ \/ req[c].tags = NoTags /\ UNCHANGED <<tags, left, asked>>
       \/ /\ req[c].tags # NoTags /\ SetTags(f, req[c].tags)
          /\ Asks(f, m, Overlapped(c, f)) /\ UNCHANGED left
       \/ /\ req[c].tags # NoTags /\ Spend("fault") /\ UNCHANGED tags
          /\ Asks(f, m, TRUE)
    /\ End(c)
    /\ UNCHANGED <<uploads, quotas, wvars, paused, vouched, rules, colls, members>>

-----------------------------------------------------------------------------
(* Collections *)

\* CollectionService.Create asks only that the parent exists; its owner may be
\* another user.
Create(u, d, parent) ==
    /\ colls[d] = NoColl
    /\ parent # None => colls[parent] # NoColl
    /\ colls' = [colls EXCEPT ![d] = [owner |-> u, parent |-> parent, tags |-> NoTags]]

CreateCollection(u, d, parent) ==
    /\ Spend("catalog") /\ Create(u, d, parent)
    /\ UNCHANGED <<uploads, quotas, wvars, paused, req, vouched, tags, rules, members, asked>>

UpdateCollectionTags(u, d, m) ==
    /\ Spend("catalog")
    /\ colls[d].owner = u
    /\ colls' = [colls EXCEPT ![d].tags = m]
    /\ UNCHANGED <<uploads, quotas, wvars, paused, req, vouched, tags, rules, members, asked>>

\* The collections deleteCollectionRecursive reaches: parents are never changed,
\* so there is no cycle, and a chain has at most one link for every collection.
Subtree(d) ==
    LET grow[n \in 0..Cardinality(Colls)] ==
          IF n = 0 THEN {d} ELSE grow[n-1] \cup {e \in Colls : colls[e].parent \in grow[n-1]}
    IN grow[Cardinality(Colls)]

Delete(d) ==
    /\ colls' = [e \in Colls |-> IF e \in Subtree(d) THEN NoColl ELSE colls[e]]
    /\ members' = {m \in members : m[1] \notin Subtree(d)}

DeleteCollection(u, d) ==
    /\ Spend("catalog")
    /\ colls[d].owner = u /\ Delete(d)
    /\ UNCHANGED <<uploads, quotas, wvars, paused, req, vouched, tags, rules, asked>>

AddFile(d, f)    == <<d, f>> \notin members /\ members' = members \cup {<<d, f>>}
RemoveFile(d, f) == <<d, f>> \in members /\ members' = members \ {<<d, f>>}

\* AddFile, then InheritToFile: two reads and the inserts, in no transaction.
\* The foreign keys refuse a membership or a tag of a row that is gone.
AddToCollection(c, u, d, f) ==
    /\ colls[d].owner = u /\ Owns(u, f) /\ AddFile(d, f)
    /\ Begin(c, "catalog", [k |-> "inherit", d |-> d, f |-> f])
    /\ UNCHANGED <<uploads, quotas, wvars, paused, vouched, tags, rules, colls, asked>>

\* The keys the file has are read without a look at errors, so some may be missed;
\* a query that fails ends the inheritance.
InheritRead(c) ==
    LET m == colls[req[c].d].tags
        existing == {k \in Keys : tags[req[c].f][k] # {}}
    IN
    /\ req[c].k = "inherit"
    /\ \/ \E seen \in SUBSET existing :
            /\ Become(c, [k |-> "inheritset", f |-> req[c].f,
                          tags |-> [k \in Keys |-> IF k \in seen THEN {} ELSE m[k]]])
            /\ IF seen = existing THEN UNCHANGED left ELSE Spend("fault")
       \/ End(c) /\ Spend("fault")
    /\ UNCHANGED <<uploads, quotas, wvars, paused, vouched, cvars>>

InheritToFile(f, m) == SetTags(f, Both(tags[f], m))

\* Each value is inserted by itself, and one that fails is left out.
InheritSet(c) ==
    /\ req[c].k = "inheritset"
    /\ \/ InheritToFile(req[c].f, req[c].tags) /\ UNCHANGED left
       \/ Spend("fault") /\ \E m \in Parts(req[c].tags) : InheritToFile(req[c].f, m)
    /\ End(c)
    /\ UNCHANGED <<uploads, quotas, wvars, paused, vouched, rules, colls, members, asked>>

RemoveFromCollection(u, d, f) ==
    /\ Spend("catalog")
    /\ colls[d].owner = u /\ RemoveFile(d, f)
    /\ UNCHANGED <<uploads, quotas, wvars, paused, req, vouched, tags, rules, colls, asked>>

\* UploadService.Delete takes the tags and the memberships with the row.
DeleteUploadRow(f) ==
    /\ DeleteUpload(f)
    /\ tags' = [tags EXCEPT ![f] = NoTags]
    /\ given' = [given EXCEPT ![f] = NoTags] /\ disputed' = disputed \ {f}
    /\ members' = {m \in members : m[2] # f}
    /\ UNCHANGED <<rules, colls>>

-----------------------------------------------------------------------------
CONSTANTS TagChoices,    \* the tag maps requests carry
          BulkChoices,   \* the bulk changes requests ask for: [add, drop]
          Selectors      \* the selectors bulk requests use: sets of requirements

Init ==
    /\ AdmitInit
    /\ tags = [f \in Files |-> NoTags] /\ given = [f \in Files |-> NoTags] /\ disputed = {}
    /\ rules = [r \in RuleIds |-> NoRule]
    /\ colls = [d \in Colls |-> NoColl]
    /\ members = {}

Uploading(c) ==
    \/ \E f \in Files, k \in Kinds : CreateUploadOpen(c, f, k)
    \/ CreateUploadQuota(c) \/ CreateUploadInsert(c)

Admitting ==
    /\ \/ QuotaAdmin \/ WalletAdmin \/ Pauses
       \/ \E c \in Clients : Uploading(c)
       \/ \E f \in Files : Work(f) \/ CancelUpload(f) \/ RetryUpload(f)
    /\ UNCHANGED cvars

Tagging ==
    \E u \in Users :
        \/ \E f \in Files, m \in TagChoices : UpdateTags(u, f, m)
        \/ \E c \in Clients, b \in BulkChoices :
             \/ \E s \in Selectors : BulkTagUploads(c, SearchBySelector(u, s), b.add, b.drop)
             \/ \E fs \in SUBSET Files : BulkTagUploads(c, {f \in fs : Owns(u, f)}, b.add, b.drop)

RuleAdmin ==
    \E r \in RuleIds :
        \/ \E ms \in SUBSET Attrs \ {{}}, k \in Keys, v \in Vals, p \in Priorities :
             \/ CreateTagRule(r, ms, k, v, p)
             \/ \E on \in BOOLEAN : UpdateTagRule(r, ms, k, v, p, on)
        \/ DeleteTagRule(r)

Collecting ==
    \E u \in Users, d \in Colls :
        \/ \E parent \in Colls \cup {None} : CreateCollection(u, d, parent)
        \/ \E m \in TagChoices : UpdateCollectionTags(u, d, m)
        \/ DeleteCollection(u, d)
        \/ \E c \in Clients, f \in Files : AddToCollection(c, u, d, f)
        \/ \E f \in Files : RemoveFromCollection(u, d, f)

Continuing(c) ==
    \/ CreateUploadRules(c) \/ CreateUploadTags(c) \/ BulkTagRead(c) \/ BulkTagSet(c)
    \/ InheritRead(c) \/ InheritSet(c)

Next ==
    \/ Admitting \/ Tagging \/ RuleAdmin \/ Collecting
    \/ \E c \in Clients : Continuing(c)
    \/ \E f \in Files : DeleteUploadRow(f)

Spec == Init /\ [][Next]_vars

-----------------------------------------------------------------------------
(* Properties *)

\* What its owner last asked for under a key stays on an upload: rules give way to
\* the tags sent with it, the tags of a collection are added "without overwriting
\* existing file tags" however the reads and inserts of InheritToFile fall between
\* the owner's requests, and a bulk change leaves the keys it does not name.  Only
\* what was asked for while another request of the owner that replaces the tags of
\* the same upload was under way, or met an error that is not reported, may be
\* missing, and not after the next UpdateTags that meets neither.
UserTagsSurvive ==
    \A f \in Files \ disputed, k \in Keys : given[f][k] \subseteq tags[f][k]
=============================================================================
