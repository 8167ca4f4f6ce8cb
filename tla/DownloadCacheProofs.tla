------------------------ MODULE DownloadCacheProofs ------------------------
(***************************************************************************)
(* Proofs about DownloadCache, for every set of uploads, keys, instances    *)
(* and requests, every batch size and all bounds: types first, then that    *)
(* IInv of DownloadCache is inductive, so that a purge is never forgotten   *)
(* (PurgeOwed), and what eviction may take.                                 *)
(***************************************************************************)
EXTENDS DownloadCache, FiniteSetTheorems, TLAPS

-----------------------------------------------------------------------------
(* Types.                                                                   *)

\* The records of idle actors are well typed.
LEMMA IdleTypes == NoSweep \in Sweep /\ NoRequest \in Request /\ NoDelete \in Deletion
<1>1. (CHOOSE u \in Uploads : TRUE) \in Uploads
  BY CacheAssumption
<1>2. QED
  BY <1>1 DEF NoSweep, NoRequest, NoDelete, Sweep, SweepPC, Request, Deletion, Hosts

StoreTypes ==
    /\ disk \in [Instances -> SUBSET Keys] /\ index \in [Instances -> [Keys -> Nat]]
    /\ DOMAIN bytes = Instances /\ genSeq \in [Instances -> Nat]
    /\ ready \in [Instances -> BOOLEAN]

\* A purge keeps the types of the store, removes at most the file it names and
\* keeps index and directory in agreement.
LEMMA DropKeeps ==
    ASSUME TypeOK, NEW i, NEW k \in Keys, NEW done \in BOOLEAN, Drop(i, k, done)
    PROVE  /\ StoreTypes' /\ faults' \in Nat /\ ready' = ready
           /\ \A j \in Instances : /\ disk'[j] \subseteq disk[j]
                                   /\ Indexed(j) = disk[j] => Indexed(j)' = disk'[j]
           /\ done /\ i \in Instances => k \notin disk'[i]
           /\ ~done => "unlink" \in Faults
<1>1. CASE done /\ Healthy /\ Remove(i, k)
  <2>1. StoreTypes' /\ faults' \in Nat /\ ready' = ready
    BY <1>1 DEF Remove, Healthy, TypeOK, StoreTypes
  <2>2. ASSUME NEW j \in Instances
        PROVE  /\ disk'[j] \subseteq disk[j]
               /\ Indexed(j) = disk[j] => Indexed(j)' = disk'[j]
    <3>1. disk'[j] = IF j = i THEN disk[j] \ {k} ELSE disk[j]
      BY <1>1 DEF Remove, TypeOK
    <3>2. \A l \in Keys : index'[j][l] = IF j = i /\ l = k THEN 0 ELSE index[j][l]
      BY <1>1 DEF Remove, TypeOK
    <3>3. Indexed(j)' = IF j = i THEN Indexed(j) \ {k} ELSE Indexed(j)
      BY <3>2 DEF Indexed
    <3>4. QED
      BY <3>1, <3>3
  <2>3. i \in Instances => k \notin disk'[i]
    BY <1>1 DEF Remove, TypeOK
  <2>4. QED
    BY <1>1, <2>1, <2>2, <2>3
<1>2. CASE ~done /\ Broken("unlink") /\ k \in disk[i] /\ UNCHANGED storeVars
  BY <1>2 DEF Broken, TypeOK, StoreTypes, Indexed, storeVars
<1>3. QED
  BY <1>1, <1>2 DEF Drop

\* The same for a purge conditioned on the generation.
LEMMA DropGenKeeps ==
    ASSUME TypeOK, NEW i, NEW k \in Keys, NEW gen, NEW done \in BOOLEAN,
           DropGen(i, k, gen, done)
    PROVE  /\ StoreTypes' /\ faults' \in Nat /\ ready' = ready
           /\ \A j \in Instances : /\ disk'[j] \subseteq disk[j]
                                   /\ Indexed(j) = disk[j] => Indexed(j)' = disk'[j]
<1>1. CASE index[i][k] # 0 /\ index[i][k] = gen
  BY <1>1, DropKeeps DEF DropGen
<1>2. CASE ~(index[i][k] # 0 /\ index[i][k] = gen)
  BY <1>2 DEF DropGen, Healthy, TypeOK, StoreTypes, Indexed, storeVars
<1>3. QED
  BY <1>1, <1>2

\* The same for the purges of DeleteUpload.
LEMMA DropAtKeeps ==
    ASSUME TypeOK, NEW i, NEW k \in Keys, NEW done \in BOOLEAN, DropAt(i, k, done)
    PROVE  /\ StoreTypes' /\ faults' \in Nat /\ ready' = ready
           /\ \A j \in Instances : /\ disk'[j] \subseteq disk[j]
                                   /\ Indexed(j) = disk[j] => Indexed(j)' = disk'[j]
           /\ done /\ i \in Instances => k \notin disk'[i]
<1>1. CASE i \in Instances
  BY <1>1, DropKeeps DEF DropAt
<1>2. CASE i \notin Instances
  BY <1>2 DEF DropAt, Healthy, TypeOK, StoreTypes, Indexed, storeVars
<1>3. QED
  BY <1>1, <1>2

\* A sweeper's local variables after the updates the actions make.
LEMMA SweepUpdates ==
    /\ \A l \in SweepPC : [NoSweep EXCEPT !.pc = l] \in Sweep
    /\ \A b \in BOOLEAN : [NoSweep EXCEPT !.pc = "max", !.privateNow = b] \in Sweep
    /\ \A s \in Sweep :
          /\ \A n \in Nat : [s EXCEPT !.pc = "snapshot", !.maxID = n] \in Sweep
          /\ \A ks \in SUBSET Keys, b \in BOOLEAN :
                /\ [s EXCEPT !.pc = "lookup", !.victims = ks] \in Sweep
                /\ [s EXCEPT !.pc = "drop", !.victims = ks] \in Sweep
                /\ [s EXCEPT !.victims = ks, !.stuck = b] \in Sweep
          /\ \A es \in SUBSET Entry, b \in BOOLEAN :
                /\ [s EXCEPT !.pc = "apply", !.entries = es, !.full = b] \in Sweep
                /\ [s EXCEPT !.entries = es, !.stalled = b] \in Sweep
          /\ \A vs \in SUBSET (Keys \X Nat), b \in BOOLEAN :
                /\ [s EXCEPT !.pc = "evicting", !.oldest = vs] \in Sweep
                /\ [s EXCEPT !.oldest = vs, !.evicted = b] \in Sweep
<1>1. /\ \A l \in SweepPC : [NoSweep EXCEPT !.pc = l] \in Sweep
      /\ \A b \in BOOLEAN : [NoSweep EXCEPT !.pc = "max", !.privateNow = b] \in Sweep
  BY IdleTypes DEF Sweep, SweepPC
<1>2. ASSUME NEW s \in Sweep, NEW n \in Nat, NEW ks \in SUBSET Keys, NEW b \in BOOLEAN
      PROVE  /\ [s EXCEPT !.pc = "snapshot", !.maxID = n] \in Sweep
             /\ [s EXCEPT !.pc = "lookup", !.victims = ks] \in Sweep
             /\ [s EXCEPT !.pc = "drop", !.victims = ks] \in Sweep
             /\ [s EXCEPT !.victims = ks, !.stuck = b] \in Sweep
  BY DEF Sweep, SweepPC
<1>3. ASSUME NEW s \in Sweep, NEW es \in SUBSET Entry, NEW b \in BOOLEAN
      PROVE  /\ [s EXCEPT !.pc = "apply", !.entries = es, !.full = b] \in Sweep
             /\ [s EXCEPT !.entries = es, !.stalled = b] \in Sweep
  BY DEF Sweep, SweepPC
<1>4. ASSUME NEW s \in Sweep, NEW vs \in SUBSET (Keys \X Nat), NEW b \in BOOLEAN
      PROVE  /\ [s EXCEPT !.pc = "evicting", !.oldest = vs] \in Sweep
             /\ [s EXCEPT !.oldest = vs, !.evicted = b] \in Sweep
  BY DEF Sweep, SweepPC
<1>5. QED
  BY <1>1, <1>2, <1>3, <1>4

\* What the fields of a sweeper's local variables are.
LEMMA SweepFields ==
    ASSUME TypeOK, NEW i \in Instances
    PROVE  /\ sw[i] \in Sweep /\ sw[i].pc \in SweepPC /\ sw[i].privateNow \in BOOLEAN
           /\ sw[i].maxID \in Nat /\ sw[i].victims \subseteq Keys /\ sw[i].stuck \in BOOLEAN
           /\ sw[i].entries \subseteq Entry /\ sw[i].stalled \in BOOLEAN
           /\ sw[i].oldest \subseteq Keys \X Nat /\ sw[i].evicted \in BOOLEAN
BY DEF TypeOK, Sweep

\* Every step keeps the types.
LEMMA TypeStep == TypeOK /\ RequestsHaveRows /\ Next => TypeOK'
<1> SUFFICES ASSUME TypeOK, RequestsHaveRows, Next PROVE TypeOK'
  OBVIOUS
<1>1. ASSUME NEW p \in Requests, NEW u \in Uploads, NEW seed \in BOOLEAN, Complete(p, u, seed)
      PROVE  TypeOK'
  BY <1>1, CacheAssumption DEF Complete, Fetching, TypeOK, Request, Hosts, storeVars, markVars
<1>2. ASSUME NEW p \in Requests, NEW u \in Uploads, NEW i \in Instances, Download(p, i, u)
      PROVE  TypeOK'
  BY <1>2, CacheAssumption DEF Download, Fetching, TypeOK, Request, Hosts, dbVars,
     storeVars, markVars
<1>3. ASSUME NEW u \in Uploads, NEW i \in Hosts, DeleteBegin(u, i) PROVE TypeOK'
  BY <1>3 DEF DeleteBegin, TypeOK, Deletion, dbVars, storeVars, markVars, envVars
<1>4. ASSUME NEW u \in Uploads, MarkPublished(u) PROVE TypeOK'
  BY <1>4 DEF MarkPublished, TypeOK, storeVars, markVars, envVars
<1>5. ASSUME NEW e \in log, Prune(e.id) PROVE TypeOK'
  BY <1>5 DEF Prune, TypeOK, storeVars, markVars, envVars
<1>6. ASSUME SetPrivate PROVE TypeOK'
  BY <1>6 DEF SetPrivate, TypeOK, storeVars, markVars
<1>7. ASSUME DisableCache PROVE TypeOK'
  BY <1>7 DEF DisableCache, TypeOK, storeVars, markVars
<1>8. ASSUME NEW p \in Requests, Open(p) PROVE TypeOK'
  <2>1. req[p] \in Request /\ KeyOf[req[p].u] \in Keys
    BY CacheAssumption DEF TypeOK, Request
  <2>2. StoreTypes' /\ faults' \in Nat
    BY <1>8, <2>1, DropGenKeeps DEF Open, TypeOK, StoreTypes, storeVars, Healthy
  <2>3. Fetching(req[p].i, req[p].u) \in Request
    BY <2>1 DEF Request, Fetching
  <2>4. req' \in [Requests -> Request]
    BY <1>8, <2>3, IdleTypes DEF Open, TypeOK
  <2>5. QED
    BY <1>8, <2>2, <2>4 DEF Open, TypeOK, StoreTypes, dbVars, markVars
<1>9. ASSUME NEW p \in Requests, PromoteFetched(p) PROVE TypeOK'
  <2>1. req[p] \in Request /\ KeyOf[req[p].u] \in Keys
    BY CacheAssumption DEF TypeOK, Request
  <2>2. StoreTypes'
    <3>1. Promote(req[p].i, KeyOf[req[p].u])
      BY <1>9 DEF PromoteFetched
    <3>2. disk' \in [Instances -> SUBSET Keys] /\ DOMAIN bytes' = Instances
      BY <2>1, <3>1 DEF Promote, TypeOK
    <3>3. genSeq' \in [Instances -> Nat] /\ ready' \in [Instances -> BOOLEAN]
      BY <3>1, <1>9 DEF Promote, PromoteFetched, TypeOK, RequestsHaveRows
    <3>4. index' \in [Instances -> [Keys -> Nat]]
      BY <2>1, <3>1, <1>9 DEF Promote, PromoteFetched, TypeOK, RequestsHaveRows
    <3>5. QED
      BY <3>2, <3>3, <3>4 DEF StoreTypes
  <2>3. [req[p] EXCEPT !.pc = "verify"] \in Request
    BY <2>1 DEF Request
  <2>4. QED
    BY <1>9, <2>2, <2>3 DEF PromoteFetched, Promote, TypeOK, StoreTypes, dbVars,
       markVars, envVars
<1>10. ASSUME NEW p \in Requests, NotPromoted(p) PROVE TypeOK'
  BY <1>10, IdleTypes DEF NotPromoted, TypeOK, dbVars, storeVars, markVars, envVars
<1>11. ASSUME NEW p \in Requests, NEW ok \in BOOLEAN, Verify(p, ok) PROVE TypeOK'
  <2>1. req[p] \in Request
    BY DEF TypeOK
  <2>2. [req[p] EXCEPT !.pc = "undo"] \in Request
    BY <2>1 DEF Request
  <2>3. QED
    BY <1>11, <2>2, IdleTypes DEF Verify, Healthy, Broken, TypeOK, dbVars, storeVars, markVars
<1>12. ASSUME NEW p \in Requests, NEW ok \in BOOLEAN, Undo(p, ok) PROVE TypeOK'
  <2>1. req[p] \in Request /\ KeyOf[req[p].u] \in Keys
    BY CacheAssumption DEF TypeOK, Request
  <2>2. StoreTypes' /\ faults' \in Nat
    BY <1>12, <2>1, DropKeeps DEF Undo
  <2>3. req[p].i \in Instances => reported' \subseteq Instances \X Keys
    BY <1>12, <2>1 DEF Undo, TypeOK
  <2>4. QED
    BY <1>12, <2>2, <2>3, IdleTypes DEF Undo, TypeOK, StoreTypes, RequestsHaveRows,
       dbVars, markVars
<1>13. ASSUME NEW u \in Uploads, DeleteInsert(u) PROVE TypeOK'
  <2>1. del[u] \in Deletion
    BY DEF TypeOK
  <2>2. [del[u] EXCEPT !.pc = "commit", !.id = nextId] \in Deletion
    BY <2>1 DEF TypeOK, Deletion
  <2>3. QED
    BY <1>13, <2>2 DEF DeleteInsert, TypeOK, storeVars, markVars, envVars
<1>14. ASSUME NEW u \in Uploads, DeleteCommit(u) PROVE TypeOK'
  <2>1. del[u] \in Deletion
    BY DEF TypeOK
  <2>2. [del[u] EXCEPT !.pc = "purgeAgain"] \in Deletion /\ [id |-> del[u].id, key |-> KeyOf[u]] \in Entry
    BY <2>1, CacheAssumption DEF Deletion, Entry
  <2>3. QED
    BY <1>14, <2>2 DEF DeleteCommit, TypeOK, storeVars, markVars, envVars
<1>15. ASSUME NEW u \in Uploads, DeleteRefused(u) PROVE TypeOK'
  BY <1>15, IdleTypes DEF DeleteRefused, TypeOK, dbVars, storeVars, markVars, envVars
<1>16. ASSUME NEW u \in Uploads, NEW ok \in BOOLEAN, DeletePurge(u, ok) PROVE TypeOK'
  <2>1. StoreTypes' /\ faults' \in Nat
    BY <1>16, CacheAssumption, DropAtKeeps DEF DeletePurge
  <2>2. del[u] \in Deletion
    BY DEF TypeOK
  <2>3. [del[u] EXCEPT !.pc = "insert"] \in Deletion
    BY <2>2 DEF Deletion
  <2>4. QED
    BY <1>16, <2>1, <2>3, IdleTypes DEF DeletePurge, TypeOK, StoreTypes, dbVars, markVars
<1>17. ASSUME NEW u \in Uploads, NEW ok \in BOOLEAN, DeletePurgeAgain(u, ok) PROVE TypeOK'
  <2>1. StoreTypes' /\ faults' \in Nat
    BY <1>17, CacheAssumption, DropAtKeeps DEF DeletePurgeAgain
  <2>2. del[u].i \in Instances \cup {Elsewhere} /\ KeyOf[u] \in Keys
    BY CacheAssumption DEF TypeOK, Deletion, Hosts
  <2>3. ~ok => del[u].i \in Instances
    BY <1>17 DEF DeletePurgeAgain, DropAt
  <2>4. reported' \subseteq Instances \X Keys /\ shredded' \subseteq Instances \X Keys
    BY <1>17, <2>2, <2>3 DEF DeletePurgeAgain, Answered, TypeOK
  <2>5. QED
    BY <1>17, <2>1, <2>4, IdleTypes DEF DeletePurgeAgain, TypeOK, StoreTypes, dbVars, markVars
<1>18. ASSUME NEW i \in Instances, Tick(i) PROVE TypeOK'
  <2>1. sw' \in [Instances -> Sweep]
    BY <1>18, SweepUpdates, SweepFields, IdleTypes DEF Tick, Sets, TypeOK, SweepPC
  <2>2. QED
    BY <1>18, <2>1 DEF Tick, TypeOK, dbVars, storeVars, envVars
<1>19. ASSUME NEW i \in Instances, NEW m \in {0} \cup {e.id : e \in log}, ReadMax(i, m)
       PROVE  TypeOK'
  <2>1. m \in Nat
    BY DEF TypeOK, Entry
  <2>2. sw' \in [Instances -> Sweep]
    BY <1>19, <2>1, SweepUpdates, SweepFields DEF ReadMax, Sets, TypeOK
  <2>3. QED
    BY <1>19, <2>2 DEF ReadMax, TypeOK, dbVars, storeVars, markVars, envVars
<1>20. ASSUME NEW i \in Instances, Snapshot(i) PROVE TypeOK'
  <2>1. Indexed(i) \in SUBSET Keys
    BY DEF Indexed
  <2>2. sw' \in [Instances -> Sweep]
    BY <1>20, <2>1, SweepUpdates, SweepFields DEF Snapshot, Sets, TypeOK
  <2>3. QED
    BY <1>20, <2>2 DEF Snapshot, TypeOK, dbVars, storeVars, markVars, envVars
<1>21. ASSUME NEW i \in Instances, Lookup(i) PROVE TypeOK'
  <2>1. PICK vis \in CacheKeyVisibility(sw[i].victims) :
           Sets(i, [sw[i] EXCEPT !.pc = "drop", !.victims = {k \in @ : ~Keeps(vis[k], sw[i].privateNow)}])
    BY <1>21 DEF Lookup
  <2>2. {k \in sw[i].victims : ~Keeps(vis[k], sw[i].privateNow)} \in SUBSET Keys
    BY SweepFields
  <2>3. sw' \in [Instances -> Sweep]
    BY <2>1, <2>2, SweepUpdates, SweepFields DEF Sets, TypeOK
  <2>4. QED
    BY <1>21, <2>3 DEF Lookup, TypeOK, dbVars, storeVars, markVars, envVars
<1>22. ASSUME NEW i \in Instances, Reconciled(i) PROVE TypeOK'
  <2>1. sw' \in [Instances -> Sweep]
    BY <1>22, SweepUpdates, SweepFields, IdleTypes DEF Reconciled, Sets, TypeOK, SweepPC
  <2>2. QED
    BY <1>22, <2>1, SweepFields DEF Reconciled, TypeOK, dbVars, storeVars, envVars
<1>23. ASSUME NEW i \in Instances, NEW k \in Keys, NEW ok \in BOOLEAN, DropVictim(i, k, ok)
       PROVE  TypeOK'
  <2>1. sw' \in [Instances -> Sweep]
    BY <1>23, SweepUpdates, SweepFields DEF DropVictim, Sets, TypeOK
  <2>2. StoreTypes' /\ faults' \in Nat
    BY <1>23, DropKeeps DEF DropVictim
  <2>3. QED
    BY <1>23, <2>1, <2>2 DEF DropVictim, TypeOK, StoreTypes, dbVars, markVars
<1>24. ASSUME NEW i \in Instances, ReadTail(i) PROVE TypeOK'
  <2>1. PurgeLogSince(i) \in SUBSET Entry /\ (Cardinality(PurgeLogSince(i)) = Batch) \in BOOLEAN
    BY DEF PurgeLogSince, TypeOK
  <2>2. [NoSweep EXCEPT !.pc = "evict"] \in Sweep
    BY SweepUpdates DEF SweepPC
  <2>3. [sw[i] EXCEPT !.pc = "apply", !.entries = PurgeLogSince(i),
                      !.full = Cardinality(PurgeLogSince(i)) = Batch] \in Sweep
    BY <2>1, SweepUpdates, SweepFields
  <2>4. sw' \in [Instances -> Sweep]
    BY <1>24, <2>2, <2>3 DEF ReadTail, Sets, TypeOK
  <2>5. QED
    BY <1>24, <2>4 DEF ReadTail, TypeOK, dbVars, storeVars, markVars, envVars
<1>25. ASSUME NEW i \in Instances, Applied(i) PROVE TypeOK'
  <2>1. sw' \in [Instances -> Sweep]
    BY <1>25, IdleTypes, SweepUpdates, SweepFields DEF Applied, Sets, TypeOK, SweepPC
  <2>2. QED
    BY <1>25, <2>1 DEF Applied, TypeOK, dbVars, storeVars, markVars, envVars
<1>26. ASSUME NEW i \in Instances, NEW e \in sw[i].entries, NEW ok \in BOOLEAN, Apply(i, e, ok)
       PROVE  TypeOK'
  <2>1. sw' \in [Instances -> Sweep]
    BY <1>26, SweepUpdates, SweepFields DEF Apply, Sets, TypeOK
  <2>2. e \in Entry /\ e.key \in Keys /\ e.id \in Nat
    BY SweepFields DEF Entry
  <2>3. StoreTypes' /\ faults' \in Nat
    BY <1>26, <2>2, DropKeeps DEF Apply
  <2>4. lastPurgeID' \in [Instances -> Nat]
    BY <1>26, <2>2 DEF Apply, Advance, TypeOK
  <2>5. QED
    BY <1>26, <2>1, <2>3, <2>4 DEF Apply, TypeOK, StoreTypes, dbVars
<1>27. ASSUME NEW i \in Instances, EvictSnapshot(i) PROVE TypeOK'
  <2>1. PICK batch \in SUBSET Indexed(i) \ {{}} :
           Sets(i, [sw[i] EXCEPT !.pc = "evicting", !.oldest = {<<k, index[i][k]>> : k \in batch}])
    BY <1>27 DEF EvictSnapshot
  <2>2. {<<k, index[i][k]>> : k \in batch} \in SUBSET (Keys \X Nat)
    BY DEF TypeOK, Indexed
  <2>3. sw' \in [Instances -> Sweep]
    BY <2>1, <2>2, SweepUpdates, SweepFields DEF Sets, TypeOK
  <2>4. QED
    BY <1>27, <2>3 DEF EvictSnapshot, TypeOK, dbVars, storeVars, markVars, envVars
<1>28. ASSUME NEW i \in Instances, BatchEnds(i) PROVE TypeOK'
  <2>1. sw' \in [Instances -> Sweep]
    BY <1>28, IdleTypes, SweepUpdates, SweepFields DEF BatchEnds, Sets, TypeOK, SweepPC
  <2>2. QED
    BY <1>28, <2>1 DEF BatchEnds, TypeOK, dbVars, storeVars, markVars, envVars
<1>29. ASSUME NEW i \in Instances, SweepEnds(i) PROVE TypeOK'
  <2>1. sw' \in [Instances -> Sweep]
    BY <1>29, IdleTypes, SweepUpdates, SweepFields DEF SweepEnds, Sets, TypeOK, SweepPC, Returns
  <2>2. QED
    BY <1>29, <2>1 DEF SweepEnds, TypeOK, dbVars, storeVars, markVars, envVars
<1>30. ASSUME NEW i \in Instances, NEW v \in sw[i].oldest, NEW ok \in BOOLEAN, EvictOne(i, v, ok)
       PROVE  TypeOK'
  <2>1. v[1] \in Keys /\ v[2] \in Nat
    BY SweepFields
  <2>2. (ok /\ index[i][v[1]] = v[2]) \in BOOLEAN
    OBVIOUS
  <2>3. sw[i].oldest \ {v} \in SUBSET (Keys \X Nat) /\ (sw[i].evicted \/ (ok /\ index[i][v[1]] = v[2])) \in BOOLEAN
    BY SweepFields
  <2>4. sw' \in [Instances -> Sweep]
    BY <1>30, <2>3, SweepUpdates, SweepFields DEF EvictOne, Sets, TypeOK
  <2>5. StoreTypes' /\ faults' \in Nat
    BY <1>30, <2>1, DropGenKeeps DEF EvictOne
  <2>6. QED
    BY <1>30, <2>4, <2>5 DEF EvictOne, TypeOK, StoreTypes, dbVars, markVars
<1>31. ASSUME NEW i \in Instances, SweepReadFails(i) PROVE TypeOK'
  <2>1. sw' \in [Instances -> Sweep]
    BY <1>31, IdleTypes, SweepUpdates, SweepFields DEF SweepReadFails, Sets, TypeOK,
       SweepPC, Returns
  <2>2. QED
    BY <1>31, <2>1 DEF SweepReadFails, Broken, TypeOK, dbVars, storeVars, markVars
<1>32. ASSUME NEW i \in Instances, TwelveHours(i) PROVE TypeOK'
  BY <1>32 DEF TwelveHours, TypeOK, dbVars, storeVars, envVars
<1>33. ASSUME NEW i \in Instances, Crash(i) PROVE TypeOK'
  <2>1. StoreTypes'
    BY <1>33 DEF Crash, TypeOK, StoreTypes
  <2>2. QED
    BY <1>33, <2>1, IdleTypes DEF Crash, TypeOK, StoreTypes, dbVars
<1>34. ASSUME NEW i \in Instances, NEW found \in SUBSET Keys, Boot(i, found) PROVE TypeOK'
  <2>1. Cardinality(found) \in Nat
    BY CacheAssumption, FS_Subset, FS_CardinalityType
  <2>2. index' \in [Instances -> [Keys -> Nat]]
    BY <1>34, <2>1 DEF Boot, TypeOK
  <2>3. QED
    BY <1>34, <2>1, <2>2 DEF Boot, Healthy, Broken, TypeOK, dbVars, markVars
<1>35. QED
  BY <1>1, <1>2, <1>3, <1>4, <1>5, <1>6, <1>7, <1>8, <1>9, <1>10, <1>11, <1>12, <1>13,
     <1>14, <1>15, <1>16, <1>17, <1>18, <1>19, <1>20, <1>21, <1>22, <1>23, <1>24, <1>25,
     <1>26, <1>27, <1>28, <1>29, <1>30, <1>31, <1>32, <1>33, <1>34 DEF Next, Serving,
     Operating, Filling, Deleting,
     Sweeping, Reconciling, Tailing, Evicting, Running

-----------------------------------------------------------------------------
(* Frames: what a step of each actor leaves alone.                          *)

\* A step of the sweep worker of instance i touches its own variables and may
\* remove files.
SweepFrame(i) ==
    /\ up[i]
    /\ UNCHANGED <<dbVars, up, req, del, ready, reported, shredded>>
    /\ \A j \in Instances : /\ disk'[j] \subseteq disk[j]
                            /\ Indexed(j) = disk[j] => Indexed(j)' = disk'[j]
    /\ \A j \in Instances \ {i} :
          /\ sw'[j] = sw[j] /\ lastPurgeID'[j] = lastPurgeID[j]
          /\ lastReconcile'[j] = lastReconcile[j] /\ privateAllowed'[j] = privateAllowed[j]

\* Every step of a sweep worker has that frame.
LEMMA SweepLocal ==
    ASSUME TypeOK, NEW i \in Instances, Sweeping(i)
    PROVE  SweepFrame(i)
<1>1. ASSUME Tick(i) PROVE SweepFrame(i)
  BY <1>1 DEF Tick, Sets, At, SweepFrame, TypeOK, Indexed, dbVars, storeVars, markVars, envVars
<1>2. ASSUME NEW m \in {0} \cup {e.id : e \in log}, ReadMax(i, m) PROVE SweepFrame(i)
  BY <1>2 DEF ReadMax, Sets, At, SweepFrame, TypeOK, Indexed, dbVars, storeVars,
     markVars, envVars
<1>3. ASSUME Snapshot(i) PROVE SweepFrame(i)
  BY <1>3 DEF Snapshot, Sets, At, SweepFrame, TypeOK, Indexed, dbVars, storeVars,
     markVars, envVars
<1>4. ASSUME Lookup(i) PROVE SweepFrame(i)
  <2>1. PICK s : Sets(i, s)
    BY <1>4 DEF Lookup
  <2>2. QED
    BY <1>4, <2>1 DEF Lookup, At, Sets, SweepFrame, TypeOK, Indexed, dbVars, storeVars,
       markVars, envVars
<1>5. ASSUME Reconciled(i) PROVE SweepFrame(i)
  BY <1>5 DEF Reconciled, Sets, At, SweepFrame, TypeOK, Indexed, dbVars, storeVars,
     markVars, envVars
<1>6. ASSUME NEW k \in Keys, NEW ok \in BOOLEAN, DropVictim(i, k, ok) PROVE SweepFrame(i)
  <2>1. \A j \in Instances :
           disk'[j] \subseteq disk[j] /\ (Indexed(j) = disk[j] => Indexed(j)' = disk'[j])
    BY <1>6, DropKeeps DEF DropVictim
  <2>2. ready' = ready
    BY <1>6, DropKeeps DEF DropVictim
  <2>3. \A j \in Instances \ {i} : sw'[j] = sw[j]
    BY <1>6 DEF DropVictim, At, Sets, TypeOK
  <2>4. UNCHANGED <<dbVars, up, req, del, reported, shredded, markVars>> /\ up[i]
    BY <1>6 DEF DropVictim, At
  <2>5. QED
    BY <2>1, <2>2, <2>3, <2>4 DEF SweepFrame, Indexed, dbVars, markVars
<1>7. ASSUME ReadTail(i) PROVE SweepFrame(i)
  BY <1>7 DEF ReadTail, Sets, At, SweepFrame, TypeOK, Indexed, dbVars, storeVars,
     markVars, envVars
<1>8. ASSUME Applied(i) PROVE SweepFrame(i)
  BY <1>8 DEF Applied, Sets, At, SweepFrame, TypeOK, Indexed, dbVars, storeVars,
     markVars, envVars
<1>9. ASSUME NEW e \in sw[i].entries, NEW ok \in BOOLEAN, Apply(i, e, ok) PROVE SweepFrame(i)
  <2>1. e.key \in Keys
    BY SweepFields DEF Entry
  <2>2. \A j \in Instances \ {i} : lastPurgeID'[j] = lastPurgeID[j]
    BY <1>9 DEF Apply, Advance, TypeOK
  <2>3. \A j \in Instances :
           disk'[j] \subseteq disk[j] /\ (Indexed(j) = disk[j] => Indexed(j)' = disk'[j])
    BY <1>9, <2>1, DropKeeps DEF Apply
  <2>4. ready' = ready
    BY <1>9, <2>1, DropKeeps DEF Apply
  <2>5. \A j \in Instances \ {i} : sw'[j] = sw[j]
    BY <1>9 DEF Apply, Sets, TypeOK
  <2>6. UNCHANGED <<dbVars, up, req, del, reported, shredded, lastReconcile, privateAllowed>> /\ up[i]
    BY <1>9 DEF Apply, At
  <2>7. QED
    BY <2>2, <2>3, <2>4, <2>5, <2>6 DEF SweepFrame, Indexed, dbVars
<1>10. ASSUME EvictSnapshot(i) PROVE SweepFrame(i)
  <2>1. PICK s : Sets(i, s)
    BY <1>10 DEF EvictSnapshot
  <2>2. QED
    BY <1>10, <2>1 DEF EvictSnapshot, At, Sets, SweepFrame, TypeOK, Indexed, dbVars,
       storeVars, markVars, envVars
<1>11. ASSUME BatchEnds(i) PROVE SweepFrame(i)
  BY <1>11 DEF BatchEnds, Sets, At, SweepFrame, TypeOK, Indexed, dbVars, storeVars,
     markVars, envVars
<1>12. ASSUME SweepEnds(i) PROVE SweepFrame(i)
  BY <1>12 DEF SweepEnds, Returns, Sets, At, SweepFrame, TypeOK, Indexed, dbVars,
     storeVars, markVars, envVars
<1>13. ASSUME NEW v \in sw[i].oldest, NEW ok \in BOOLEAN, EvictOne(i, v, ok) PROVE SweepFrame(i)
  <2>1. v[1] \in Keys
    BY SweepFields
  <2>2. QED
    BY <1>13, <2>1, DropGenKeeps DEF EvictOne, At, Sets, SweepFrame, TypeOK, dbVars, markVars
<1>14. ASSUME SweepReadFails(i) PROVE SweepFrame(i)
  BY <1>14 DEF SweepReadFails, Returns, Sets, At, SweepFrame, TypeOK, Indexed, dbVars,
     storeVars, markVars, envVars
<1>15. QED
  BY <1>1, <1>2, <1>3, <1>4, <1>5, <1>6, <1>7, <1>8, <1>9, <1>10, <1>11, <1>12, <1>13,
     <1>14 DEF Sweeping, Reconciling, Tailing, Evicting

\* A request that has begun belongs to a modelled instance and to a row that was
\* stored, whatever happens to the row.
LEMMA RowsStep == TypeOK /\ RequestsHaveRows /\ Next => RequestsHaveRows'
<1> SUFFICES ASSUME TypeOK, RequestsHaveRows, Next PROVE RequestsHaveRows'
  OBVIOUS
<1>1. ASSUME NEW p \in Requests, NEW u \in Uploads, NEW seed \in BOOLEAN, Complete(p, u, seed)
      PROVE  RequestsHaveRows'
  BY <1>1 DEF Complete, Fetching, RequestsHaveRows, TypeOK
<1>2. ASSUME NEW p \in Requests, NEW u \in Uploads, NEW i \in Instances, Download(p, i, u)
      PROVE  RequestsHaveRows'
  BY <1>2 DEF Download, Fetching, dbVars, RequestsHaveRows, TypeOK
<1>3. ASSUME NEW p \in Requests, Open(p) PROVE RequestsHaveRows'
  <2>1. row' = row /\ (req' = [req EXCEPT ![p] = NoRequest]
                       \/ req' = [req EXCEPT ![p] = Fetching(req[p].i, req[p].u)])
    BY <1>3 DEF Open, dbVars
  <2>2. req[p].pc = "open"
    BY <1>3 DEF Open
  <2>3. QED
    BY <2>1, <2>2 DEF Fetching, NoRequest, RequestsHaveRows, TypeOK
<1>4. ASSUME NEW p \in Requests, PromoteFetched(p) PROVE RequestsHaveRows'
  BY <1>4 DEF PromoteFetched, dbVars, RequestsHaveRows, TypeOK
<1>5. ASSUME NEW p \in Requests, NotPromoted(p) PROVE RequestsHaveRows'
  BY <1>5 DEF NotPromoted, NoRequest, dbVars, RequestsHaveRows, TypeOK
<1>6. ASSUME NEW p \in Requests, NEW ok \in BOOLEAN, Verify(p, ok) PROVE RequestsHaveRows'
  BY <1>6 DEF Verify, NoRequest, dbVars, RequestsHaveRows, TypeOK
<1>7. ASSUME NEW p \in Requests, NEW ok \in BOOLEAN, Undo(p, ok) PROVE RequestsHaveRows'
  BY <1>7 DEF Undo, NoRequest, dbVars, RequestsHaveRows, TypeOK
<1>8. ASSUME NEW u \in Uploads, NEW i \in Hosts, DeleteBegin(u, i) PROVE RequestsHaveRows'
  BY <1>8 DEF DeleteBegin, dbVars, RequestsHaveRows, TypeOK
<1>9. ASSUME NEW u \in Uploads, MarkPublished(u) PROVE RequestsHaveRows'
  BY <1>9 DEF MarkPublished, RequestsHaveRows, TypeOK
<1>10. ASSUME NEW e \in log, Prune(e.id) PROVE RequestsHaveRows'
  BY <1>10 DEF Prune, RequestsHaveRows, TypeOK
<1>11. ASSUME SetPrivate PROVE RequestsHaveRows'
  BY <1>11 DEF SetPrivate, RequestsHaveRows, TypeOK
<1>12. ASSUME DisableCache PROVE RequestsHaveRows'
  BY <1>12 DEF DisableCache, RequestsHaveRows, TypeOK
<1>13. ASSUME NEW u \in Uploads, DeleteInsert(u) PROVE RequestsHaveRows'
  BY <1>13 DEF DeleteInsert, RequestsHaveRows, TypeOK
<1>14. ASSUME NEW u \in Uploads, DeleteCommit(u) PROVE RequestsHaveRows'
  <2>1. \A p \in Requests : req[p] \in Request /\ req[p].u \in Uploads
    BY DEF TypeOK, Request
  <2>2. QED
    BY <1>14, <2>1 DEF DeleteCommit, RequestsHaveRows, TypeOK
<1>15. ASSUME NEW u \in Uploads, DeleteRefused(u) PROVE RequestsHaveRows'
  BY <1>15 DEF DeleteRefused, dbVars, RequestsHaveRows, TypeOK
<1>16. ASSUME NEW u \in Uploads, NEW ok \in BOOLEAN, DeletePurge(u, ok) PROVE RequestsHaveRows'
  BY <1>16 DEF DeletePurge, dbVars, RequestsHaveRows, TypeOK
<1>17. ASSUME NEW u \in Uploads, NEW ok \in BOOLEAN, DeletePurgeAgain(u, ok)
       PROVE  RequestsHaveRows'
  BY <1>17 DEF DeletePurgeAgain, dbVars, RequestsHaveRows, TypeOK
<1>18. ASSUME NEW i \in Instances, TwelveHours(i) PROVE RequestsHaveRows'
  BY <1>18 DEF TwelveHours, dbVars, RequestsHaveRows, TypeOK
<1>19. ASSUME NEW i \in Instances, Crash(i) PROVE RequestsHaveRows'
  BY <1>19 DEF Crash, NoRequest, dbVars, RequestsHaveRows, TypeOK
<1>20. ASSUME NEW i \in Instances, NEW found \in SUBSET Keys, Boot(i, found)
       PROVE  RequestsHaveRows'
  BY <1>20 DEF Boot, dbVars, RequestsHaveRows, TypeOK
<1>21. ASSUME NEW i \in Instances, Sweeping(i) PROVE RequestsHaveRows'
  BY <1>21, SweepLocal DEF SweepFrame, RequestsHaveRows, dbVars
<1>22. QED
  BY <1>1, <1>2, <1>3, <1>4, <1>5, <1>6, <1>7, <1>8, <1>9, <1>10, <1>11, <1>12, <1>13,
     <1>14, <1>15, <1>16, <1>17, <1>18, <1>19, <1>20, <1>21 DEF Next, Serving, Operating,
     Filling, Deleting, Running

\* The variables have their types initially.
LEMMA TypeAtInit == Init => TypeOK /\ RequestsHaveRows
<1> SUFFICES ASSUME Init PROVE TypeOK /\ RequestsHaveRows
  OBVIOUS
<1>1. \A u \in Uploads : visibility[u] \in {"public", "private"}
  BY CacheAssumption DEF Init
<1>2. visibility \in [Uploads -> {"public", "private"}]
  BY <1>1 DEF Init
<1>3. StoreTypes
  BY DEF Init, StoreTypes
<1>4. /\ req \in [Requests -> Request] /\ del \in [Uploads -> Deletion]
      /\ sw \in [Instances -> Sweep]
  BY IdleTypes DEF Init
<1>5. /\ row \in [Uploads -> {"absent", "stored", "deleted"}]
      /\ log \subseteq Entry /\ nextId \in Nat \ {0}
  BY DEF Init
<1>6. private \in BOOLEAN /\ budget \in {0, Budget}
  BY DEF Init
<1>7. /\ up \in [Instances -> BOOLEAN] /\ lastPurgeID \in [Instances -> Nat]
      /\ lastReconcile \in [Instances -> {"never", "recent", "old"}]
      /\ privateAllowed \in [Instances -> BOOLEAN]
      /\ downloads \in Nat /\ faults \in Nat /\ restarts \in Nat /\ toggles \in Nat
  BY DEF Init
<1>8. reported \subseteq Instances \X Keys /\ shredded \subseteq Instances \X Keys
  BY DEF Init
<1>9. RequestsHaveRows
  BY DEF Init, RequestsHaveRows, NoRequest
<1>10. QED
  BY <1>2, <1>3, <1>4, <1>5, <1>6, <1>7, <1>8, <1>9 DEF TypeOK, StoreTypes

\* The variables keep their types in every behaviour, for all constants and
\* faults.
THEOREM TypeCorrect == Spec => []TypeOK
<1>1. Init => TypeOK /\ RequestsHaveRows
  BY TypeAtInit
<1>2. TypeOK /\ RequestsHaveRows /\ [Next]_vars => (TypeOK /\ RequestsHaveRows)'
  <2>1. CASE Next
    BY <2>1, TypeStep, RowsStep
  <2>2. CASE UNCHANGED vars
    BY <2>2 DEF TypeOK, RequestsHaveRows, vars, dbVars, storeVars, markVars, envVars
  <2>3. QED
    BY <2>1, <2>2
<1>3. QED
  BY <1>1, <1>2, PTL DEF Spec

-----------------------------------------------------------------------------
(* How a copy comes to be owed a purge.                                     *)

\* A copy does not become loose unless its key dies or something new happens on
\* the instance.
LEMMA LooseFrame ==
    ASSUME NEW i \in Instances, NEW k \in Keys, Loose(i, k)',
           up'[i] => up[i], k \in disk'[i] => k \in disk[i], Live(k) => Live(k)',
           reported \subseteq reported', PurgeUnderWay(i, k) => PurgeUnderWay(i, k)'
    PROVE  Loose(i, k)
BY DEF Loose

\* Only a committing deletion and a restart make copies loose: a promoter looks
\* at the row again, and unlinks that fail are reported.
LEMMA LooseStep ==
    ASSUME TypeOK, RequestsHaveRows, "verifyRead" \notin Faults, Next,
           NEW i \in Instances, NEW k \in Keys, Loose(i, k)',
           \A u \in Uploads : ~DeleteCommit(u), \A found \in SUBSET Keys : ~Boot(i, found)
    PROVE  Loose(i, k)
<1>1. ASSUME NEW p \in Requests, NEW u \in Uploads, NEW seed \in BOOLEAN, Complete(p, u, seed)
      PROVE  Loose(i, k)
  <2>1. PurgeUnderWay(i, k) => PurgeUnderWay(i, k)'
    BY <1>1 DEF Complete, PurgeUnderWay, TypeOK
  <2>2. Live(k) => Live(k)'
    BY <1>1 DEF Complete, Live, TypeOK
  <2>3. QED
    BY <1>1, <2>1, <2>2, LooseFrame DEF Complete, storeVars
<1>2. ASSUME NEW p \in Requests, NEW u \in Uploads, NEW j \in Instances, Download(p, j, u)
      PROVE  Loose(i, k)
  <2>1. PurgeUnderWay(i, k) => PurgeUnderWay(i, k)'
    BY <1>2 DEF Download, PurgeUnderWay, TypeOK
  <2>2. QED
    BY <1>2, <2>1, LooseFrame DEF Download, Live, dbVars, storeVars, envVars
<1>3. ASSUME NEW u \in Uploads, NEW j \in Hosts, DeleteBegin(u, j) PROVE Loose(i, k)
  <2>1. PurgeUnderWay(i, k) => PurgeUnderWay(i, k)'
    BY <1>3 DEF DeleteBegin, PurgeUnderWay, TypeOK
  <2>2. QED
    BY <1>3, <2>1, LooseFrame DEF DeleteBegin, Live, dbVars, storeVars, envVars
<1>4. ASSUME NEW u \in Uploads, MarkPublished(u) PROVE Loose(i, k)
  BY <1>4, LooseFrame DEF MarkPublished, Live, PurgeUnderWay, dbVars, storeVars, envVars
<1>5. ASSUME NEW e \in log, Prune(e.id) PROVE Loose(i, k)
  BY <1>5, LooseFrame DEF Prune, Live, PurgeUnderWay, dbVars, storeVars, envVars
<1>6. ASSUME SetPrivate PROVE Loose(i, k)
  BY <1>6, LooseFrame DEF SetPrivate, Live, PurgeUnderWay, dbVars, storeVars, envVars
<1>7. ASSUME DisableCache PROVE Loose(i, k)
  BY <1>7, LooseFrame DEF DisableCache, Live, PurgeUnderWay, dbVars, storeVars, envVars
<1>8. ASSUME NEW p \in Requests, Open(p) PROVE Loose(i, k)
  <2>1. req[p] \in Request /\ KeyOf[req[p].u] \in Keys
    BY CacheAssumption DEF TypeOK, Request
  <2>2. k \in disk'[i] => k \in disk[i]
    BY <1>8, <2>1, DropGenKeeps DEF Open, storeVars
  <2>3. PurgeUnderWay(i, k) => PurgeUnderWay(i, k)'
    BY <1>8 DEF Open, PurgeUnderWay, TypeOK
  <2>4. QED
    BY <1>8, <2>2, <2>3, LooseFrame DEF Open, Live, dbVars
<1>9. ASSUME NEW p \in Requests, PromoteFetched(p) PROVE Loose(i, k)
  <2>1. PurgeUnderWay(i, k) => PurgeUnderWay(i, k)'
    BY <1>9 DEF PromoteFetched, PurgeUnderWay, TypeOK
  <2>2. ~PurgeUnderWay(i, k)'
    BY DEF Loose
  <2>3. ~(req[p].i = i /\ KeyOf[req[p].u] = k)
    BY <1>9, <2>2 DEF PromoteFetched, PurgeUnderWay, TypeOK, Request
  <2>4. k \in disk'[i] => k \in disk[i]
    BY <1>9, <2>3 DEF PromoteFetched, Promote, TypeOK
  <2>5. QED
    BY <1>9, <2>1, <2>4, LooseFrame DEF PromoteFetched, Live, dbVars, envVars
<1>10. ASSUME NEW p \in Requests, NotPromoted(p) PROVE Loose(i, k)
  <2>1. PurgeUnderWay(i, k) => PurgeUnderWay(i, k)'
    BY <1>10 DEF NotPromoted, PurgeUnderWay, TypeOK
  <2>2. QED
    BY <1>10, <2>1, LooseFrame DEF NotPromoted, Live, dbVars, storeVars, envVars
<1>11. ASSUME NEW p \in Requests, NEW ok \in BOOLEAN, Verify(p, ok) PROVE Loose(i, k)
  <2>1. ok /\ faults' = faults
    BY <1>11 DEF Verify, Broken, Healthy
  <2>2. req[p] \in Request /\ req[p].u \in Uploads /\ row[req[p].u] \in {"stored", "deleted"}
    BY <1>11 DEF Verify, TypeOK, Request, RequestsHaveRows
  <2>3. CASE row[req[p].u] = "deleted"
    <3>1. req' = [req EXCEPT ![p].pc = "undo"]
      BY <1>11, <2>1, <2>3 DEF Verify
    <3>2. PurgeUnderWay(i, k) => PurgeUnderWay(i, k)'
      BY <1>11, <2>2, <3>1 DEF Verify, PurgeUnderWay, TypeOK, Request
    <3>3. QED
      BY <1>11, <3>2, LooseFrame DEF Verify, Live, dbVars, storeVars
  <2>4. CASE row[req[p].u] = "stored"
    <3>1. ~Live(k)' /\ row' = row
      BY <1>11 DEF Loose, Verify, dbVars
    <3>2. KeyOf[req[p].u] # k
      BY <2>2, <2>4, <3>1 DEF Live
    <3>3. PurgeUnderWay(i, k) => PurgeUnderWay(i, k)'
      BY <1>11, <3>2 DEF Verify, PurgeUnderWay, TypeOK
    <3>4. QED
      BY <1>11, <3>3, LooseFrame DEF Verify, Live, dbVars, storeVars
  <2>5. QED
    BY <2>2, <2>3, <2>4
<1>12. ASSUME NEW p \in Requests, NEW ok \in BOOLEAN, Undo(p, ok) PROVE Loose(i, k)
  <2>1. req[p] \in Request /\ KeyOf[req[p].u] \in Keys
    BY CacheAssumption DEF TypeOK, Request
  <2>2. k \in disk'[i] => k \in disk[i]
    BY <1>12, <2>1, DropKeeps DEF Undo
  <2>3. req[p].i = i /\ KeyOf[req[p].u] = k => k \notin disk'[i] \/ <<i, k>> \in reported'
    BY <1>12, <2>1, DropKeeps DEF Undo
  <2>4. ~(req[p].i = i /\ KeyOf[req[p].u] = k)
    BY <2>3 DEF Loose
  <2>5. PurgeUnderWay(i, k) => PurgeUnderWay(i, k)'
    BY <1>12, <2>4 DEF Undo, PurgeUnderWay, TypeOK
  <2>6. QED
    BY <1>12, <2>2, <2>5, LooseFrame DEF Undo, Live, dbVars
<1>13. ASSUME NEW u \in Uploads, DeleteInsert(u) PROVE Loose(i, k)
  <2>1. PurgeUnderWay(i, k) => PurgeUnderWay(i, k)'
    BY <1>13 DEF DeleteInsert, PurgeUnderWay, TypeOK
  <2>2. QED
    BY <1>13, <2>1, LooseFrame DEF DeleteInsert, Live, dbVars, storeVars, envVars
<1>14. ASSUME NEW u \in Uploads, DeleteCommit(u) PROVE Loose(i, k)
  BY <1>14
<1>15. ASSUME NEW u \in Uploads, DeleteRefused(u) PROVE Loose(i, k)
  <2>1. PurgeUnderWay(i, k) => PurgeUnderWay(i, k)'
    BY <1>15 DEF DeleteRefused, PurgeUnderWay, TypeOK
  <2>2. QED
    BY <1>15, <2>1, LooseFrame DEF DeleteRefused, Live, dbVars, storeVars, envVars
<1>16. ASSUME NEW u \in Uploads, NEW ok \in BOOLEAN, DeletePurge(u, ok) PROVE Loose(i, k)
  <2>1. k \in disk'[i] => k \in disk[i]
    BY <1>16, CacheAssumption, DropAtKeeps DEF DeletePurge
  <2>2. PurgeUnderWay(i, k) => PurgeUnderWay(i, k)'
    BY <1>16 DEF DeletePurge, PurgeUnderWay, TypeOK
  <2>3. QED
    BY <1>16, <2>1, <2>2, LooseFrame DEF DeletePurge, Live, dbVars
<1>17. ASSUME NEW u \in Uploads, NEW ok \in BOOLEAN, DeletePurgeAgain(u, ok) PROVE Loose(i, k)
  <2>1. k \in disk'[i] => k \in disk[i]
    BY <1>17, CacheAssumption, DropAtKeeps DEF DeletePurgeAgain
  <2>2. del[u].i = i /\ KeyOf[u] = k => k \notin disk'[i] \/ <<i, k>> \in reported'
    BY <1>17, CacheAssumption, DropAtKeeps DEF DeletePurgeAgain
  <2>3. ~(del[u].i = i /\ KeyOf[u] = k)
    BY <2>2 DEF Loose
  <2>4. PurgeUnderWay(i, k) => PurgeUnderWay(i, k)'
    BY <1>17, <2>3 DEF DeletePurgeAgain, PurgeUnderWay, TypeOK
  <2>5. QED
    BY <1>17, <2>1, <2>4, LooseFrame DEF DeletePurgeAgain, Live, dbVars
<1>18. ASSUME NEW j \in Instances, TwelveHours(j) PROVE Loose(i, k)
  BY <1>18, LooseFrame DEF TwelveHours, Live, PurgeUnderWay, dbVars, storeVars, envVars
<1>19. ASSUME NEW j \in Instances, Crash(j) PROVE Loose(i, k)
  <2>1. j # i
    BY <1>19 DEF Crash, Loose, TypeOK
  <2>2. PurgeUnderWay(i, k) => PurgeUnderWay(i, k)'
    BY <1>19, <2>1 DEF Crash, PurgeUnderWay
  <2>3. QED
    BY <1>19, <2>1, <2>2, LooseFrame DEF Crash, Live, TypeOK, dbVars
<1>20. ASSUME NEW j \in Instances, NEW found \in SUBSET Keys, Boot(j, found) PROVE Loose(i, k)
  <2>1. j # i
    BY <1>20
  <2>2. QED
    BY <1>20, <2>1, LooseFrame DEF Boot, Live, PurgeUnderWay, TypeOK, dbVars
<1>21. ASSUME NEW j \in Instances, Sweeping(j) PROVE Loose(i, k)
  <2>1. SweepFrame(j)
    BY <1>21, SweepLocal
  <2>2. QED
    BY <2>1, LooseFrame DEF SweepFrame, Live, PurgeUnderWay, dbVars
<1>22. QED
  BY <1>1, <1>2, <1>3, <1>4, <1>5, <1>6, <1>7, <1>8, <1>9, <1>10, <1>11, <1>12, <1>13,
     <1>14, <1>15, <1>16, <1>17, <1>18, <1>19, <1>20, <1>21 DEF Next, Serving, Operating,
     Filling, Deleting, Running

\* Index and directory of a running instance stay in agreement when its boot
\* scan cannot fail.
LEMMA StoreStep ==
    ASSUME TypeOK, RequestsHaveRows, "scan" \notin Faults, Next,
           NEW i \in Instances, StoreSound(i)
    PROVE  StoreSound(i)'
<1>1. ASSUME NEW p \in Requests, NEW u \in Uploads, NEW seed \in BOOLEAN, Complete(p, u, seed)
      PROVE  StoreSound(i)'
  BY <1>1 DEF Complete, StoreSound, Indexed, dbVars, storeVars, markVars, envVars
<1>2. ASSUME NEW p \in Requests, NEW u \in Uploads, NEW j \in Instances, Download(p, j, u)
      PROVE  StoreSound(i)'
  BY <1>2 DEF Download, StoreSound, Indexed, dbVars, storeVars, markVars, envVars
<1>3. ASSUME NEW u \in Uploads, NEW j \in Hosts, DeleteBegin(u, j) PROVE StoreSound(i)'
  BY <1>3 DEF DeleteBegin, StoreSound, Indexed, dbVars, storeVars, markVars, envVars
<1>4. ASSUME NEW u \in Uploads, MarkPublished(u) PROVE StoreSound(i)'
  BY <1>4 DEF MarkPublished, StoreSound, Indexed, dbVars, storeVars, markVars, envVars
<1>5. ASSUME NEW e \in log, Prune(e.id) PROVE StoreSound(i)'
  BY <1>5 DEF Prune, StoreSound, Indexed, dbVars, storeVars, markVars, envVars
<1>6. ASSUME SetPrivate PROVE StoreSound(i)'
  BY <1>6 DEF SetPrivate, StoreSound, Indexed, dbVars, storeVars, markVars, envVars
<1>7. ASSUME DisableCache PROVE StoreSound(i)'
  BY <1>7 DEF DisableCache, StoreSound, Indexed, dbVars, storeVars, markVars, envVars
<1>8. ASSUME NEW p \in Requests, NotPromoted(p) PROVE StoreSound(i)'
  BY <1>8 DEF NotPromoted, StoreSound, Indexed, dbVars, storeVars, markVars, envVars
<1>9. ASSUME NEW p \in Requests, NEW ok \in BOOLEAN, Verify(p, ok) PROVE StoreSound(i)'
  BY <1>9 DEF Verify, StoreSound, Indexed, dbVars, storeVars, markVars, envVars
<1>10. ASSUME NEW u \in Uploads, DeleteInsert(u) PROVE StoreSound(i)'
  BY <1>10 DEF DeleteInsert, StoreSound, Indexed, dbVars, storeVars, markVars, envVars
<1>11. ASSUME NEW u \in Uploads, DeleteCommit(u) PROVE StoreSound(i)'
  BY <1>11 DEF DeleteCommit, StoreSound, Indexed, dbVars, storeVars, markVars, envVars
<1>12. ASSUME NEW u \in Uploads, DeleteRefused(u) PROVE StoreSound(i)'
  BY <1>12 DEF DeleteRefused, StoreSound, Indexed, dbVars, storeVars, markVars, envVars
<1>13. ASSUME NEW p \in Requests, Open(p) PROVE StoreSound(i)'
  <2>1. req[p] \in Request /\ KeyOf[req[p].u] \in Keys
    BY CacheAssumption DEF TypeOK, Request
  <2>2. CASE KeyOf[req[p].u] \in disk[req[p].i]
    BY <1>13, <2>2 DEF Open, StoreSound, Indexed, storeVars, markVars
  <2>3. CASE KeyOf[req[p].u] \notin disk[req[p].i]
    <3>1. ready' = ready /\ (Indexed(i) = disk[i] => Indexed(i)' = disk'[i])
      BY <1>13, <2>1, <2>3, DropGenKeeps DEF Open
    <3>2. QED
      BY <1>13, <3>1 DEF Open, StoreSound, markVars
  <2>4. QED
    BY <2>2, <2>3
<1>14. ASSUME NEW p \in Requests, PromoteFetched(p) PROVE StoreSound(i)'
  <2>1. req[p] \in Request /\ KeyOf[req[p].u] \in Keys /\ req[p].i \in Instances
    BY <1>14, CacheAssumption DEF PromoteFetched, TypeOK, Request, RequestsHaveRows
  <2>2. Promote(req[p].i, KeyOf[req[p].u]) /\ ready[req[p].i]
    BY <1>14 DEF PromoteFetched, Fits
  <2>3. disk'[i] = IF i = req[p].i THEN disk[i] \cup {KeyOf[req[p].u]} ELSE disk[i]
    BY <2>1, <2>2 DEF Promote, TypeOK
  <2>4. \A k \in Keys : index'[i][k] = IF i = req[p].i /\ k = KeyOf[req[p].u]
                                       THEN genSeq[i] + 1 ELSE index[i][k]
    BY <2>1, <2>2 DEF Promote, TypeOK
  <2>5. genSeq[i] \in Nat /\ genSeq[i] + 1 # 0
    BY DEF TypeOK
  <2>6. Indexed(i)' = IF i = req[p].i THEN Indexed(i) \cup {KeyOf[req[p].u]} ELSE Indexed(i)
    BY <2>1, <2>4, <2>5 DEF Indexed
  <2>7. QED
    BY <1>14, <2>2, <2>3, <2>6 DEF PromoteFetched, Promote, StoreSound, markVars
<1>15. ASSUME NEW p \in Requests, NEW ok \in BOOLEAN, Undo(p, ok) PROVE StoreSound(i)'
  <2>1. req[p] \in Request /\ KeyOf[req[p].u] \in Keys
    BY CacheAssumption DEF TypeOK, Request
  <2>2. ready' = ready /\ (Indexed(i) = disk[i] => Indexed(i)' = disk'[i])
    BY <1>15, <2>1, DropKeeps DEF Undo
  <2>3. QED
    BY <1>15, <2>2 DEF Undo, StoreSound, markVars
<1>16. ASSUME NEW u \in Uploads, NEW ok \in BOOLEAN, DeletePurge(u, ok) PROVE StoreSound(i)'
  <2>1. ready' = ready /\ (Indexed(i) = disk[i] => Indexed(i)' = disk'[i])
    BY <1>16, CacheAssumption, DropAtKeeps DEF DeletePurge
  <2>2. QED
    BY <1>16, <2>1 DEF DeletePurge, StoreSound, markVars
<1>17. ASSUME NEW u \in Uploads, NEW ok \in BOOLEAN, DeletePurgeAgain(u, ok)
       PROVE  StoreSound(i)'
  <2>1. ready' = ready /\ (Indexed(i) = disk[i] => Indexed(i)' = disk'[i])
    BY <1>17, CacheAssumption, DropAtKeeps DEF DeletePurgeAgain
  <2>2. QED
    BY <1>17, <2>1 DEF DeletePurgeAgain, StoreSound, markVars
<1>18. ASSUME NEW j \in Instances, TwelveHours(j) PROVE StoreSound(i)'
  BY <1>18 DEF TwelveHours, StoreSound, Indexed, TypeOK, storeVars
<1>19. ASSUME NEW j \in Instances, Crash(j) PROVE StoreSound(i)'
  <2>1. CASE j = i
    BY <1>19, <2>1 DEF Crash, StoreSound, TypeOK, NoSweep
  <2>2. CASE j # i
    BY <1>19, <2>2 DEF Crash, StoreSound, Indexed, TypeOK
  <2>3. QED
    BY <2>1, <2>2
<1>20. ASSUME NEW j \in Instances, NEW found \in SUBSET Keys, Boot(j, found)
       PROVE  StoreSound(i)'
  <2>1. CASE j = i
    <3>1. found = disk[i]
      BY <1>20, <2>1 DEF Boot, Broken
    <3>2. PICK order \in [found -> 1..Cardinality(found)] :
             index' = [index EXCEPT ![i] = [k \in Keys |-> IF k \in found THEN order[k] ELSE 0]]
      BY <1>20, <2>1 DEF Boot
    <3>3. Cardinality(found) \in Nat
      BY CacheAssumption, FS_Subset, FS_CardinalityType
    <3>4. \A k \in found : order[k] # 0
      BY <3>3
    <3>5. Indexed(i)' = found
      BY <3>2, <3>4 DEF Indexed, TypeOK
    <3>6. QED
      BY <1>20, <2>1, <3>1, <3>5 DEF Boot, StoreSound, TypeOK
  <2>2. CASE j # i
    BY <1>20, <2>2 DEF Boot, StoreSound, Indexed, TypeOK, markVars
  <2>3. QED
    BY <2>1, <2>2
<1>21. ASSUME NEW j \in Instances, Sweeping(j) PROVE StoreSound(i)'
  <2>1. SweepFrame(j)
    BY <1>21, SweepLocal
  <2>2. QED
    BY <2>1 DEF SweepFrame, StoreSound
<1>22. QED
  BY <1>1, <1>2, <1>3, <1>4, <1>5, <1>6, <1>7, <1>8, <1>9, <1>10, <1>11, <1>12, <1>13,
     <1>14, <1>15, <1>16, <1>17, <1>18, <1>19, <1>20, <1>21 DEF Next, Serving, Operating,
     Filling, Deleting, Running

-----------------------------------------------------------------------------
(* What a step leaves alone of the log and of a sweeper's variables.        *)

\* No delete transaction begins, none changes its id.
NoneBegins ==
    /\ nextId' = nextId
    /\ \A u \in Uploads : del'[u].pc = "commit" => del[u].pc = "commit" /\ del'[u].id = del[u].id

\* The sweeper of instance i and its marks stay as they are.
SweeperRests(i) ==
    /\ sw'[i] = sw[i] /\ lastPurgeID'[i] = lastPurgeID[i]
    /\ lastReconcile'[i] = lastReconcile[i] /\ privateAllowed'[i] = privateAllowed[i]

\* The frame of a step, as instance i sees it.
StepFrame(i) ==
    /\ (\A u \in Uploads : ~DeleteInsert(u)) => NoneBegins
    /\ (\A u \in Uploads : ~DeleteCommit(u)) /\ (\A e \in log : ~Prune(e.id)) => log' = log
    /\ ~Sweeping(i) /\ ~Crash(i) /\ ~TwelveHours(i) => SweeperRests(i)
    /\ private' = private \/ SetPrivate

\* Log ids are taken by DeleteInsert only, the log changes by DeleteCommit and
\* Prune only, and a sweeper's variables belong to its own instance.
LEMMA StepFrames ==
    ASSUME TypeOK, NEW i \in Instances, Next
    PROVE  StepFrame(i)
<1>1. ASSUME NEW p \in Requests, NEW u \in Uploads, NEW seed \in BOOLEAN, Complete(p, u, seed)
      PROVE  StepFrame(i)
  <2>1. log' = log /\ private' = private /\ SweeperRests(i)
    BY <1>1 DEF Complete, SweeperRests, dbVars, markVars
  <2>2. NoneBegins
    BY <1>1 DEF Complete, NoneBegins, NoDelete, TypeOK, dbVars
  <2>3. QED
    BY <2>1, <2>2 DEF StepFrame
<1>2. ASSUME NEW p \in Requests, NEW u \in Uploads, NEW j \in Instances, Download(p, j, u)
      PROVE  StepFrame(i)
  <2>1. log' = log /\ private' = private /\ SweeperRests(i)
    BY <1>2 DEF Download, SweeperRests, dbVars, markVars
  <2>2. NoneBegins
    BY <1>2 DEF Download, NoneBegins, NoDelete, TypeOK, dbVars
  <2>3. QED
    BY <2>1, <2>2 DEF StepFrame
<1>3. ASSUME NEW u \in Uploads, NEW j \in Hosts, DeleteBegin(u, j) PROVE StepFrame(i)
  <2>1. log' = log /\ private' = private /\ SweeperRests(i)
    BY <1>3 DEF DeleteBegin, SweeperRests, dbVars, markVars
  <2>2. NoneBegins
    BY <1>3 DEF DeleteBegin, NoneBegins, NoDelete, TypeOK, dbVars
  <2>3. QED
    BY <2>1, <2>2 DEF StepFrame
<1>4. ASSUME NEW u \in Uploads, MarkPublished(u) PROVE StepFrame(i)
  <2>1. log' = log /\ private' = private /\ SweeperRests(i)
    BY <1>4 DEF MarkPublished, SweeperRests, dbVars, markVars
  <2>2. NoneBegins
    BY <1>4 DEF MarkPublished, NoneBegins, NoDelete, TypeOK, dbVars
  <2>3. QED
    BY <2>1, <2>2 DEF StepFrame
<1>5. ASSUME NEW e \in log, Prune(e.id) PROVE StepFrame(i)
  <2>1. SweeperRests(i) /\ private' = private /\ NoneBegins
    BY <1>5 DEF Prune, SweeperRests, NoneBegins, markVars
  <2>2. QED
    BY <1>5, <2>1 DEF StepFrame
<1>6. ASSUME SetPrivate PROVE StepFrame(i)
  <2>1. SweeperRests(i) /\ NoneBegins /\ log' = log
    BY <1>6 DEF SetPrivate, SweeperRests, NoneBegins, markVars
  <2>2. QED
    BY <1>6, <2>1 DEF StepFrame
<1>7. ASSUME DisableCache PROVE StepFrame(i)
  <2>1. log' = log /\ private' = private /\ SweeperRests(i)
    BY <1>7 DEF DisableCache, SweeperRests, dbVars, markVars
  <2>2. NoneBegins
    BY <1>7 DEF DisableCache, NoneBegins, NoDelete, TypeOK, dbVars
  <2>3. QED
    BY <2>1, <2>2 DEF StepFrame
<1>8. ASSUME NEW p \in Requests, Open(p) PROVE StepFrame(i)
  <2>1. log' = log /\ private' = private /\ SweeperRests(i)
    BY <1>8 DEF Open, SweeperRests, dbVars, markVars
  <2>2. NoneBegins
    BY <1>8 DEF Open, NoneBegins, NoDelete, TypeOK, dbVars
  <2>3. QED
    BY <2>1, <2>2 DEF StepFrame
<1>9. ASSUME NEW p \in Requests, PromoteFetched(p) PROVE StepFrame(i)
  <2>1. log' = log /\ private' = private /\ SweeperRests(i)
    BY <1>9 DEF PromoteFetched, SweeperRests, dbVars, markVars
  <2>2. NoneBegins
    BY <1>9 DEF PromoteFetched, NoneBegins, NoDelete, TypeOK, dbVars
  <2>3. QED
    BY <2>1, <2>2 DEF StepFrame
<1>10. ASSUME NEW p \in Requests, NotPromoted(p) PROVE StepFrame(i)
  <2>1. log' = log /\ private' = private /\ SweeperRests(i)
    BY <1>10 DEF NotPromoted, SweeperRests, dbVars, markVars
  <2>2. NoneBegins
    BY <1>10 DEF NotPromoted, NoneBegins, NoDelete, TypeOK, dbVars
  <2>3. QED
    BY <2>1, <2>2 DEF StepFrame
<1>11. ASSUME NEW p \in Requests, NEW ok \in BOOLEAN, Verify(p, ok) PROVE StepFrame(i)
  <2>1. log' = log /\ private' = private /\ SweeperRests(i)
    BY <1>11 DEF Verify, SweeperRests, dbVars, markVars
  <2>2. NoneBegins
    BY <1>11 DEF Verify, NoneBegins, NoDelete, TypeOK, dbVars
  <2>3. QED
    BY <2>1, <2>2 DEF StepFrame
<1>12. ASSUME NEW p \in Requests, NEW ok \in BOOLEAN, Undo(p, ok) PROVE StepFrame(i)
  <2>1. log' = log /\ private' = private /\ SweeperRests(i)
    BY <1>12 DEF Undo, SweeperRests, dbVars, markVars
  <2>2. NoneBegins
    BY <1>12 DEF Undo, NoneBegins, NoDelete, TypeOK, dbVars
  <2>3. QED
    BY <2>1, <2>2 DEF StepFrame
<1>13. ASSUME NEW u \in Uploads, DeleteInsert(u) PROVE StepFrame(i)
  <2>1. log' = log /\ SweeperRests(i) /\ private' = private
    BY <1>13 DEF DeleteInsert, SweeperRests, markVars
  <2>2. QED
    BY <1>13, <2>1 DEF StepFrame
<1>14. ASSUME NEW u \in Uploads, DeleteCommit(u) PROVE StepFrame(i)
  <2>1. SweeperRests(i) /\ private' = private
    BY <1>14 DEF DeleteCommit, SweeperRests, markVars
  <2>2. NoneBegins
    BY <1>14 DEF DeleteCommit, NoneBegins, TypeOK
  <2>3. QED
    BY <1>14, <2>1, <2>2 DEF StepFrame
<1>15. ASSUME NEW u \in Uploads, DeleteRefused(u) PROVE StepFrame(i)
  <2>1. log' = log /\ private' = private /\ SweeperRests(i)
    BY <1>15 DEF DeleteRefused, SweeperRests, dbVars, markVars
  <2>2. NoneBegins
    BY <1>15 DEF DeleteRefused, NoneBegins, NoDelete, TypeOK, dbVars
  <2>3. QED
    BY <2>1, <2>2 DEF StepFrame
<1>16. ASSUME NEW u \in Uploads, NEW ok \in BOOLEAN, DeletePurge(u, ok) PROVE StepFrame(i)
  <2>1. log' = log /\ private' = private /\ SweeperRests(i)
    BY <1>16 DEF DeletePurge, SweeperRests, dbVars, markVars
  <2>2. NoneBegins
    BY <1>16 DEF DeletePurge, NoneBegins, NoDelete, TypeOK, dbVars
  <2>3. QED
    BY <2>1, <2>2 DEF StepFrame
<1>17. ASSUME NEW u \in Uploads, NEW ok \in BOOLEAN, DeletePurgeAgain(u, ok) PROVE StepFrame(i)
  <2>1. log' = log /\ private' = private /\ SweeperRests(i)
    BY <1>17 DEF DeletePurgeAgain, SweeperRests, dbVars, markVars
  <2>2. NoneBegins
    BY <1>17 DEF DeletePurgeAgain, NoneBegins, NoDelete, TypeOK, dbVars
  <2>3. QED
    BY <2>1, <2>2 DEF StepFrame
<1>18. ASSUME NEW j \in Instances, TwelveHours(j) PROVE StepFrame(i)
  <2>1. log' = log /\ private' = private /\ NoneBegins
    BY <1>18 DEF TwelveHours, NoneBegins, dbVars
  <2>2. j # i => SweeperRests(i)
    BY <1>18 DEF TwelveHours, SweeperRests, TypeOK
  <2>3. QED
    BY <1>18, <2>1, <2>2 DEF StepFrame
<1>19. ASSUME NEW j \in Instances, Crash(j) PROVE StepFrame(i)
  <2>1. log' = log /\ private' = private /\ NoneBegins
    BY <1>19 DEF Crash, NoneBegins, NoDelete, dbVars
  <2>2. j # i => SweeperRests(i)
    BY <1>19 DEF Crash, SweeperRests, TypeOK
  <2>3. QED
    BY <1>19, <2>1, <2>2 DEF StepFrame
<1>20. ASSUME NEW j \in Instances, NEW found \in SUBSET Keys, Boot(j, found) PROVE StepFrame(i)
  <2>1. log' = log /\ private' = private /\ SweeperRests(i)
    BY <1>20 DEF Boot, SweeperRests, dbVars, markVars
  <2>2. NoneBegins
    BY <1>20 DEF Boot, NoneBegins, NoDelete, TypeOK, dbVars
  <2>3. QED
    BY <2>1, <2>2 DEF StepFrame
<1>21. ASSUME NEW j \in Instances, Sweeping(j) PROVE StepFrame(i)
  <2>1. SweepFrame(j)
    BY <1>21, SweepLocal
  <2>2. log' = log /\ private' = private /\ NoneBegins
    BY <2>1 DEF SweepFrame, NoneBegins, dbVars
  <2>3. j # i => SweeperRests(i)
    BY <2>1 DEF SweepFrame, SweeperRests
  <2>4. QED
    BY <1>21, <2>2, <2>3 DEF StepFrame
<1>22. QED
  BY <1>1, <1>2, <1>3, <1>4, <1>5, <1>6, <1>7, <1>8, <1>9, <1>10, <1>11, <1>12,
     <1>13, <1>14, <1>15, <1>16, <1>17, <1>18, <1>19, <1>20, <1>21
     DEF Next, Serving, Operating, Filling, Deleting, Running

\* What a step of the sweep worker of instance i does with what it has read: its
\* marks and local variables come from the log, the settings or one another.
SweepReads(i) ==
    /\ lastPurgeID'[i] \in {lastPurgeID[i], sw[i].maxID} \cup {e.id : e \in sw[i].entries}
    /\ sw'[i].maxID \in {0, sw[i].maxID} \cup {e.id : e \in log}
    /\ sw'[i].entries \subseteq sw[i].entries \/ sw'[i].entries \subseteq log
    /\ sw'[i].privateNow => sw[i].privateNow \/ private
    /\ privateAllowed'[i] => privateAllowed[i] \/ sw[i].privateNow \/ private
    /\ sw'[i].stuck => sw[i].stuck \/ "unlink" \in Faults

\* Every step of a sweep worker is of that kind.
LEMMA SweepReadsStep ==
    ASSUME TypeOK, NEW i \in Instances, Sweeping(i)
    PROVE  SweepReads(i)
<1>1. ASSUME Tick(i) PROVE SweepReads(i)
  <2>1. /\ sw'[i].maxID = 0 /\ sw'[i].entries = {} /\ ~sw'[i].stuck
        /\ sw'[i].privateNow \in {FALSE, private}
    <3>1. \/ Sets(i, [NoSweep EXCEPT !.pc = "max", !.privateNow = private])
          \/ Sets(i, [NoSweep EXCEPT !.pc = "tail"])
      BY <1>1 DEF Tick
    <3>2. \/ sw'[i] = [NoSweep EXCEPT !.pc = "max", !.privateNow = private]
          \/ sw'[i] = [NoSweep EXCEPT !.pc = "tail"]
      BY <3>1 DEF Sets, TypeOK
    <3>3. QED
      BY <3>2 DEF NoSweep
  <2>2. lastPurgeID'[i] = lastPurgeID[i] /\ privateAllowed'[i] \in {privateAllowed[i], private}
    BY <1>1 DEF Tick, TypeOK
  <2>3. QED
    BY <2>1, <2>2 DEF SweepReads
<1>2. ASSUME NEW m \in {0} \cup {e.id : e \in log}, ReadMax(i, m) PROVE SweepReads(i)
  <2>1. sw'[i] = [sw[i] EXCEPT !.pc = "snapshot", !.maxID = m]
    BY <1>2 DEF ReadMax, Sets, Returns, TypeOK
  <2>2. /\ sw'[i].maxID = m /\ sw'[i].privateNow = sw[i].privateNow
        /\ sw'[i].entries = sw[i].entries /\ sw'[i].stuck = sw[i].stuck
    BY <2>1, SweepFields DEF Sweep, NoSweep
  <2>3. lastPurgeID'[i] = lastPurgeID[i] /\ privateAllowed'[i] = privateAllowed[i]
    BY <1>2 DEF ReadMax, markVars
  <2>4. QED
    BY <2>2, <2>3 DEF SweepReads
<1>3. ASSUME Snapshot(i) PROVE SweepReads(i)
  <2>1. sw'[i] = [sw[i] EXCEPT !.pc = "lookup", !.victims = Indexed(i)]
    BY <1>3 DEF Snapshot, Sets, Returns, TypeOK
  <2>2. /\ sw'[i].privateNow = sw[i].privateNow /\ sw'[i].maxID = sw[i].maxID
        /\ sw'[i].entries = sw[i].entries /\ sw'[i].stuck = sw[i].stuck
    BY <2>1, SweepFields DEF Sweep, NoSweep
  <2>3. lastPurgeID'[i] = lastPurgeID[i] /\ privateAllowed'[i] = privateAllowed[i]
    BY <1>3 DEF Snapshot, markVars
  <2>4. QED
    BY <2>2, <2>3 DEF SweepReads
<1>4. ASSUME Lookup(i) PROVE SweepReads(i)
  <2>1. PICK ks : sw'[i] = [sw[i] EXCEPT !.pc = "drop", !.victims = ks]
    BY <1>4 DEF Lookup, Sets, TypeOK
  <2>2. /\ sw'[i].privateNow = sw[i].privateNow /\ sw'[i].maxID = sw[i].maxID
        /\ sw'[i].entries = sw[i].entries /\ sw'[i].stuck = sw[i].stuck
    BY <2>1, SweepFields DEF Sweep, NoSweep
  <2>3. lastPurgeID'[i] = lastPurgeID[i] /\ privateAllowed'[i] = privateAllowed[i]
    BY <1>4 DEF Lookup, markVars
  <2>4. QED
    BY <2>2, <2>3 DEF SweepReads
<1>5. ASSUME Reconciled(i) PROVE SweepReads(i)
  <2>1. sw'[i].maxID = 0 /\ sw'[i].entries = {} /\ ~sw'[i].stuck /\ ~sw'[i].privateNow
    BY <1>5 DEF Reconciled, Sets, NoSweep, TypeOK
  <2>2. lastPurgeID'[i] = sw[i].maxID /\ privateAllowed'[i] = sw[i].privateNow
    BY <1>5 DEF Reconciled, TypeOK
  <2>3. QED
    BY <2>1, <2>2 DEF SweepReads
<1>6. ASSUME NEW k \in Keys, NEW ok \in BOOLEAN, DropVictim(i, k, ok) PROVE SweepReads(i)
  <2>1. sw'[i] = [sw[i] EXCEPT !.victims = @ \ {k}, !.stuck = @ \/ ~ok]
    BY <1>6 DEF DropVictim, Sets, TypeOK
  <2>2. /\ sw'[i].privateNow = sw[i].privateNow /\ sw'[i].maxID = sw[i].maxID
        /\ sw'[i].entries = sw[i].entries /\ sw'[i].stuck = (sw[i].stuck \/ ~ok)
    BY <2>1, SweepFields DEF Sweep
  <2>3. ~ok => "unlink" \in Faults
    BY <1>6, DropKeeps DEF DropVictim
  <2>4. lastPurgeID'[i] = lastPurgeID[i] /\ privateAllowed'[i] = privateAllowed[i]
    BY <1>6 DEF DropVictim, markVars
  <2>5. QED
    BY <2>2, <2>3, <2>4 DEF SweepReads
<1>7. ASSUME ReadTail(i) PROVE SweepReads(i)
  <2>1. PurgeLogSince(i) \subseteq log
    BY DEF PurgeLogSince
  <2>2. /\ sw'[i].maxID \in {0, sw[i].maxID} /\ sw'[i].entries \subseteq log
        /\ sw'[i].privateNow \in {FALSE, sw[i].privateNow}
        /\ sw'[i].stuck \in {FALSE, sw[i].stuck}
    <3>1. CASE PurgeLogSince(i) = {}
      <4>1. Sets(i, [NoSweep EXCEPT !.pc = "evict"])
        BY <1>7, <3>1 DEF ReadTail
      <4>2. sw'[i] = [NoSweep EXCEPT !.pc = "evict"]
        BY <4>1 DEF Sets, TypeOK
      <4>3. QED
        BY <4>2 DEF NoSweep
    <3>2. CASE PurgeLogSince(i) # {}
      <4>1. Sets(i, [sw[i] EXCEPT !.pc = "apply", !.entries = PurgeLogSince(i),
                                  !.full = Cardinality(PurgeLogSince(i)) = Batch])
        BY <1>7, <3>2 DEF ReadTail
      <4>2. sw'[i] = [sw[i] EXCEPT !.pc = "apply", !.entries = PurgeLogSince(i),
                                   !.full = Cardinality(PurgeLogSince(i)) = Batch]
        BY <4>1 DEF Sets, TypeOK
      <4>3. QED
        BY <2>1, <4>2, SweepFields DEF Sweep
    <3>3. QED
      BY <3>1, <3>2
  <2>3. lastPurgeID'[i] = lastPurgeID[i] /\ privateAllowed'[i] = privateAllowed[i]
    BY <1>7 DEF ReadTail, markVars
  <2>4. QED
    BY <2>2, <2>3 DEF SweepReads
<1>8. ASSUME Applied(i) PROVE SweepReads(i)
  <2>1. /\ sw'[i].maxID = 0 /\ sw'[i].entries = {}
        /\ ~sw'[i].stuck /\ ~sw'[i].privateNow
    BY <1>8 DEF Applied, Sets, NoSweep, TypeOK
  <2>2. lastPurgeID'[i] = lastPurgeID[i] /\ privateAllowed'[i] = privateAllowed[i]
    BY <1>8 DEF Applied, markVars
  <2>3. QED
    BY <2>1, <2>2 DEF SweepReads
<1>9. ASSUME NEW e \in sw[i].entries, NEW ok \in BOOLEAN, Apply(i, e, ok) PROVE SweepReads(i)
  <2>1. sw'[i] = [sw[i] EXCEPT !.entries = @ \ {e}, !.stalled = @ \/ ~ok]
    BY <1>9 DEF Apply, Sets, TypeOK
  <2>2. /\ sw'[i].privateNow = sw[i].privateNow /\ sw'[i].maxID = sw[i].maxID
        /\ sw'[i].entries \subseteq sw[i].entries /\ sw'[i].stuck = sw[i].stuck
    BY <2>1, SweepFields DEF Sweep
  <2>3. lastPurgeID'[i] \in {lastPurgeID[i], e.id} /\ privateAllowed'[i] = privateAllowed[i]
    BY <1>9 DEF Apply, Advance, TypeOK
  <2>4. QED
    BY <2>2, <2>3 DEF SweepReads
<1>10. ASSUME EvictSnapshot(i) PROVE SweepReads(i)
  <2>1. PICK vs : sw'[i] = [sw[i] EXCEPT !.pc = "evicting", !.oldest = vs]
    BY <1>10 DEF EvictSnapshot, Sets, TypeOK
  <2>2. /\ sw'[i].privateNow = sw[i].privateNow /\ sw'[i].maxID = sw[i].maxID
        /\ sw'[i].entries = sw[i].entries /\ sw'[i].stuck = sw[i].stuck
    BY <2>1, SweepFields DEF Sweep, NoSweep
  <2>3. lastPurgeID'[i] = lastPurgeID[i] /\ privateAllowed'[i] = privateAllowed[i]
    BY <1>10 DEF EvictSnapshot, markVars
  <2>4. QED
    BY <2>2, <2>3 DEF SweepReads
<1>11. ASSUME BatchEnds(i) PROVE SweepReads(i)
  <2>1. /\ sw'[i].maxID = 0 /\ sw'[i].entries = {}
        /\ ~sw'[i].stuck /\ ~sw'[i].privateNow
    BY <1>11 DEF BatchEnds, Sets, NoSweep, TypeOK
  <2>2. lastPurgeID'[i] = lastPurgeID[i] /\ privateAllowed'[i] = privateAllowed[i]
    BY <1>11 DEF BatchEnds, markVars
  <2>3. QED
    BY <2>1, <2>2 DEF SweepReads
<1>12. ASSUME SweepEnds(i) PROVE SweepReads(i)
  <2>1. /\ sw'[i].maxID = 0 /\ sw'[i].entries = {}
        /\ ~sw'[i].stuck /\ ~sw'[i].privateNow
    BY <1>12 DEF SweepEnds, Sets, Returns, NoSweep, TypeOK
  <2>2. lastPurgeID'[i] = lastPurgeID[i] /\ privateAllowed'[i] = privateAllowed[i]
    BY <1>12 DEF SweepEnds, markVars
  <2>3. QED
    BY <2>1, <2>2 DEF SweepReads
<1>13. ASSUME NEW v \in sw[i].oldest, NEW ok \in BOOLEAN, EvictOne(i, v, ok) PROVE SweepReads(i)
  <2>1. PICK b : sw'[i] = [sw[i] EXCEPT !.oldest = @ \ {v}, !.evicted = b]
    BY <1>13 DEF EvictOne, Sets, TypeOK
  <2>2. /\ sw'[i].privateNow = sw[i].privateNow /\ sw'[i].maxID = sw[i].maxID
        /\ sw'[i].entries = sw[i].entries /\ sw'[i].stuck = sw[i].stuck
    BY <2>1, SweepFields DEF Sweep
  <2>3. lastPurgeID'[i] = lastPurgeID[i] /\ privateAllowed'[i] = privateAllowed[i]
    BY <1>13 DEF EvictOne, markVars
  <2>4. QED
    BY <2>2, <2>3 DEF SweepReads
<1>14. ASSUME SweepReadFails(i) PROVE SweepReads(i)
  <2>1. /\ sw'[i].maxID = 0 /\ sw'[i].entries = {}
        /\ ~sw'[i].stuck /\ ~sw'[i].privateNow
    BY <1>14 DEF SweepReadFails, Sets, Returns, NoSweep, TypeOK
  <2>2. lastPurgeID'[i] = lastPurgeID[i] /\ privateAllowed'[i] = privateAllowed[i]
    BY <1>14 DEF SweepReadFails, markVars
  <2>3. QED
    BY <2>1, <2>2 DEF SweepReads
<1>15. QED
  BY <1>1, <1>2, <1>3, <1>4, <1>5, <1>6, <1>7, <1>8, <1>9, <1>10, <1>11, <1>12,
     <1>13, <1>14
     DEF Sweeping, Reconciling, Tailing, Evicting

-----------------------------------------------------------------------------
(* The order of the log.                                                    *)

\* An id that was below whatever is still to be committed stays so.
LEMMA BelowStep ==
    ASSUME TypeOK, NEW n \in Nat, Below(n), NEW i \in Instances, Next
    PROVE  Below(n)'
<1>1. nextId \in Nat /\ \A u \in Uploads : del[u] \in Deletion /\ del[u].id \in Nat
  BY DEF TypeOK, Deletion
<1>2. ASSUME NEW u \in Uploads, DeleteInsert(u) PROVE Below(n)'
  <2>1. \A v \in Uploads : del'[v] = IF v = u THEN [del[u] EXCEPT !.pc = "commit", !.id = nextId]
                                     ELSE del[v]
    BY <1>2 DEF DeleteInsert, TypeOK
  <2>2. del'[u].id = nextId
    BY <1>1, <2>1 DEF Deletion
  <2>3. nextId' = nextId + 1
    BY <1>2 DEF DeleteInsert
  <2>4. QED
    BY <1>1, <2>1, <2>2, <2>3 DEF Below
<1>3. CASE \A u \in Uploads : ~DeleteInsert(u)
  BY <1>3, StepFrames DEF StepFrame, NoneBegins, Below
<1>4. QED
  BY <1>2, <1>3

\* Entries of the log are ordered before the transaction that is under way, and
\* ids stay unique, when delete transactions do not overlap.
LEMMA LogOrderedStep ==
    ASSUME TypeOK, SerialDeletes, LogOrdered, NEW i \in Instances, Next
    PROVE  LogOrdered'
<1>1. nextId \in Nat /\ \A u \in Uploads : del[u] \in Deletion /\ del[u].id \in Nat
  BY DEF TypeOK, Deletion
<1>2. \A e \in log : e.id \in Nat /\ Below(e.id)'
  BY BelowStep DEF TypeOK, Entry, LogOrdered
<1>3. CASE \A u \in Uploads : ~DeleteInsert(u)
  <2>1. NoneBegins
    BY <1>3, StepFrames DEF StepFrame
  <2>2. \A u \in Uploads : del'[u].pc = "commit" =>
           del'[u].id < nextId' /\ \A v \in Uploads : del'[v].pc = "commit" => u = v
    BY <2>1 DEF NoneBegins, LogOrdered
  <2>3. ASSUME NEW u \in Uploads, DeleteCommit(u) PROVE LogOrdered'
    <3>1. PICK new \in Entry : new.id = del[u].id /\ new = [id |-> del[u].id, key |-> KeyOf[u]]
      BY <1>1, CacheAssumption DEF Entry
    <3>2. log' = log \cup {new} /\ del[u].pc = "commit" /\ del'[u].pc = "purgeAgain"
      BY <2>3, <3>1 DEF DeleteCommit, TypeOK, Deletion
    <3>3. IsFiniteSet(log')
      BY <3>2, FS_AddElement DEF LogOrdered
    <3>4. Below(new.id)'
      BY <1>1, <2>1, <3>1, <3>2 DEF Below, LogOrdered, NoneBegins
    <3>5. \A e \in log : e.id < new.id
      BY <3>1, <3>2 DEF LogOrdered, Below
    <3>6. \A e, f \in log' : e.id = f.id => e = f
      BY <1>2, <3>2, <3>5 DEF LogOrdered, Entry
    <3>7. QED
      BY <1>2, <2>2, <3>2, <3>3, <3>4, <3>6 DEF LogOrdered
  <2>4. ASSUME NEW e \in log, Prune(e.id) PROVE LogOrdered'
    <3>1. log' \subseteq log
      BY <2>4 DEF Prune
    <3>2. IsFiniteSet(log')
      BY <3>1, FS_Subset DEF LogOrdered
    <3>3. QED
      BY <1>2, <2>2, <3>1, <3>2 DEF LogOrdered
  <2>5. CASE log' = log
    BY <1>2, <2>2, <2>5 DEF LogOrdered
  <2>6. QED
    BY <2>3, <2>4, <2>5, StepFrames DEF StepFrame
<1>4. ASSUME NEW u \in Uploads, DeleteInsert(u) PROVE LogOrdered'
  <2>1. log' = log /\ nextId' = nextId + 1 /\ \A v \in Uploads : del[v].pc # "commit"
    BY <1>4 DEF DeleteInsert
  <2>2. \A v \in Uploads : del'[v] = IF v = u THEN [del[u] EXCEPT !.pc = "commit", !.id = nextId]
                                     ELSE del[v]
    BY <1>4 DEF DeleteInsert, TypeOK
  <2>3. del'[u].id = nextId
    BY <1>1, <2>2 DEF Deletion
  <2>4. QED
    BY <1>1, <1>2, <2>1, <2>2, <2>3 DEF LogOrdered
<1>5. QED
  BY <1>3, <1>4

\* A sweeper's marks and its batch are older than what is to be committed.
LEMMA MarksStep ==
    ASSUME TypeOK, LogOrdered, NEW i \in Instances, MarksOrdered(i), Next
    PROVE  MarksOrdered(i)'
<1>1. lastPurgeID[i] \in Nat /\ sw[i].maxID \in Nat /\ sw[i].entries \subseteq Entry /\ log \subseteq Entry
  BY SweepFields DEF TypeOK
<1>2. \A n \in Nat : Below(n) => Below(n)'
  BY BelowStep
<1>3. Below(0)
  BY <1>1 DEF MarksOrdered, Below, TypeOK, Deletion
<1>4. CASE Sweeping(i)
  <2>1. SweepReads(i) /\ log' = log
    BY <1>4, SweepReadsStep, SweepLocal DEF SweepFrame, dbVars
  <2>2. lastPurgeID'[i] \in Nat /\ Below(lastPurgeID'[i])
    BY <1>1, <2>1 DEF SweepReads, MarksOrdered, Entry
  <2>3. sw'[i].maxID \in Nat /\ Below(sw'[i].maxID)
    BY <1>1, <1>3, <2>1 DEF SweepReads, MarksOrdered, LogOrdered, Entry
  <2>4. \A e \in sw'[i].entries :
           e.id \in Nat /\ Below(e.id) /\ \A f \in log \cup sw'[i].entries : e.id = f.id => e = f
    BY <1>1, <2>1 DEF SweepReads, MarksOrdered, LogOrdered, Entry
  <2>5. QED
    BY <1>2, <2>1, <2>2, <2>3, <2>4 DEF MarksOrdered, Below
<1>5. CASE Crash(i)
  <2>1. lastPurgeID'[i] = 0 /\ sw'[i] = NoSweep
    BY <1>5 DEF Crash, TypeOK
  <2>2. Below(0)'
    BY <1>2, <1>3
  <2>3. QED
    BY <2>1, <2>2 DEF MarksOrdered, NoSweep, Below
<1>6. CASE ~Sweeping(i) /\ ~Crash(i)
  <2>1. sw'[i] = sw[i] /\ lastPurgeID'[i] = lastPurgeID[i]
    <3>1. CASE TwelveHours(i)
      BY <3>1 DEF TwelveHours
    <3>2. QED
      BY <1>6, <3>1, StepFrames DEF StepFrame, SweeperRests
  <2>2. \A e \in sw[i].entries : e.id \in Nat /\ Below(e.id)'
    BY <1>1, <1>2 DEF MarksOrdered, Entry
  <2>3. Below(lastPurgeID[i])' /\ Below(sw[i].maxID)'
    BY <1>1, <1>2, <2>1, BelowStep DEF MarksOrdered, Below
  <2>4. ASSUME NEW e \in sw[i].entries, NEW f \in log', e.id = f.id PROVE e = f
    <3>1. CASE f \in log
      BY <2>4, <3>1 DEF MarksOrdered
    <3>2. CASE f \notin log
      <4>1. PICK u \in Uploads : del[u].pc = "commit" /\ f = [id |-> del[u].id, key |-> KeyOf[u]]
        <5>1. log' # log /\ ~\E g \in log : Prune(g.id)
          BY <3>2 DEF Prune
        <5>2. PICK u \in Uploads : DeleteCommit(u)
          BY <5>1, StepFrames DEF StepFrame
        <5>3. QED
          BY <3>2, <5>2 DEF DeleteCommit
      <4>2. e.id < f.id /\ e.id \in Nat
        BY <1>1, <4>1 DEF MarksOrdered, Below, Entry
      <4>3. QED
        BY <2>4, <4>2
    <3>3. QED
      BY <3>1, <3>2
  <2>5. QED
    BY <2>1, <2>2, <2>3, <2>4 DEF MarksOrdered, Below
<1>7. QED
  BY <1>4, <1>5, <1>6

-----------------------------------------------------------------------------
(* The parts of the invariant that concern one sweeper.                     *)

\* Where settings do not change, private caching stays off.
LEMMA PrivateStep ==
    ASSUME TypeOK, NEW i \in Instances, NeverPrivate(i), Next
    PROVE  NeverPrivate(i)'
<1> SUFFICES ASSUME MaxToggles = 0
             PROVE  ~private' /\ ~privateAllowed'[i] /\ ~sw'[i].privateNow
  BY DEF NeverPrivate
<1>1. ~private /\ ~privateAllowed[i] /\ ~sw[i].privateNow
  BY DEF NeverPrivate
<1>2. ~SetPrivate
  BY DEF SetPrivate, TypeOK
<1>3. ~private'
  BY <1>1, <1>2, StepFrames DEF StepFrame
<1>4. CASE Sweeping(i)
  BY <1>1, <1>3, <1>4, SweepReadsStep DEF SweepReads
<1>5. CASE Crash(i)
  BY <1>3, <1>5 DEF Crash, NoSweep, TypeOK
<1>6. CASE TwelveHours(i)
  BY <1>1, <1>3, <1>6 DEF TwelveHours
<1>7. CASE ~Sweeping(i) /\ ~Crash(i) /\ ~TwelveHours(i)
  BY <1>1, <1>3, <1>7, StepFrames DEF StepFrame, SweeperRests
<1>8. QED
  BY <1>4, <1>5, <1>6, <1>7

\* What a sweeper still owes: the parts of SweepInv that its steps discharge.
Owing(i) == ReconcileRepeats(i) /\ ReconcileOwes(i) /\ TailOwes(i) /\ Owed(i)

\* The steps that finish a batch or evict leave the marks alone and owe nothing.
LEMMA EvictionOwing ==
    ASSUME TypeOK, NEW i \in Instances,
           \/ Applied(i) \/ EvictSnapshot(i) \/ BatchEnds(i) \/ SweepEnds(i) \/ SweepReadFails(i)
           \/ \E v \in sw[i].oldest, ok \in BOOLEAN : EvictOne(i, v, ok)
    PROVE  /\ sw'[i].pc \in {"idle", "tail", "evict", "evicting"}
           /\ lastPurgeID'[i] = lastPurgeID[i] /\ lastReconcile'[i] = lastReconcile[i]
<1>1. CASE Applied(i) \/ BatchEnds(i)
  <2>1. PICK l \in {"tail", "evict"} : sw'[i] = [NoSweep EXCEPT !.pc = l]
    BY <1>1 DEF Applied, BatchEnds, Sets, TypeOK
  <2>2. QED
    BY <1>1, <2>1 DEF Applied, BatchEnds, NoSweep, markVars
<1>2. CASE SweepEnds(i) \/ SweepReadFails(i)
  <2>1. sw'[i] = NoSweep
    BY <1>2 DEF SweepEnds, SweepReadFails, Returns, Sets, TypeOK
  <2>2. QED
    BY <1>2, <2>1 DEF SweepEnds, SweepReadFails, NoSweep, markVars
<1>3. CASE EvictSnapshot(i)
  <2>1. PICK vs : sw'[i] = [sw[i] EXCEPT !.pc = "evicting", !.oldest = vs]
    BY <1>3 DEF EvictSnapshot, Sets, TypeOK
  <2>2. QED
    BY <1>3, <2>1, SweepFields DEF EvictSnapshot, Sweep, markVars
<1>4. ASSUME NEW v \in sw[i].oldest, NEW ok \in BOOLEAN, EvictOne(i, v, ok)
      PROVE  /\ sw'[i].pc \in {"idle", "tail", "evict", "evicting"}
             /\ lastPurgeID'[i] = lastPurgeID[i] /\ lastReconcile'[i] = lastReconcile[i]
  <2>1. PICK b : sw'[i] = [sw[i] EXCEPT !.oldest = @ \ {v}, !.evicted = b]
    BY <1>4 DEF EvictOne, Sets, TypeOK
  <2>2. sw'[i].pc = sw[i].pc /\ sw[i].pc = "evicting"
    BY <1>4, <2>1, SweepFields DEF EvictOne, At, Sweep
  <2>3. QED
    BY <1>4, <2>2 DEF EvictOne, markVars
<1>5. QED
  BY <1>1, <1>2, <1>3, <1>4

\* A batch read from the log has no gap: entries that were left out for the size
\* of the batch come after all that are in it.
LEMMA BatchHasNoGap ==
    ASSUME TypeOK, IsFiniteSet(log), NEW i \in Instances, NEW f \in log, f.id > lastPurgeID[i],
           f \notin PurgeLogSince(i), NEW e \in PurgeLogSince(i)
    PROVE  e.id < f.id
<1> DEFINE later == {g \in log : g.id > lastPurgeID[i]}
           Before(g) == {h \in later : h.id < g.id}
<1>1. e \in later /\ Cardinality(Before(e)) < Batch /\ ~(Cardinality(Before(f)) < Batch)
  BY DEF PurgeLogSince
<1>2. e.id \in Nat /\ f.id \in Nat /\ \A h \in later : h.id \in Nat
  BY <1>1 DEF TypeOK, Entry
<1>3. IsFiniteSet(Before(e)) /\ IsFiniteSet(Before(f))
  BY FS_Subset
<1>4. SUFFICES ASSUME ~(e.id < f.id) PROVE FALSE
  OBVIOUS
<1>5. Before(f) \subseteq Before(e)
  BY <1>2, <1>4
<1>6. Cardinality(Before(f)) <= Cardinality(Before(e))
  BY <1>3, <1>5, FS_Subset
<1>7. Cardinality(Before(f)) \in Nat /\ Cardinality(Before(e)) \in Nat /\ Batch \in Nat
  BY <1>3, FS_CardinalityType, CacheAssumption
<1>8. QED
  BY <1>1, <1>6, <1>7

\* No step of a sweep worker forgets what it owes.
LEMMA SweepingStep ==
    ASSUME TypeOK, LogOrdered, MaxToggles = 0 \/ "unlink" \notin Faults,
           NEW i \in Instances, SweepInv(i), Sweeping(i)
    PROVE  Owing(i)'
<1>1. /\ MarksOrdered(i) /\ StoreSound(i) /\ NeverPrivate(i) /\ ReconcileRepeats(i)
      /\ ReconcileOwes(i) /\ TailOwes(i) /\ Owed(i)
  BY DEF SweepInv
<1>2. SweepFrame(i) /\ log' = log /\ up[i]
  BY SweepLocal DEF SweepFrame, dbVars
<1>3. \A k \in Keys : Loose(i, k)' => Loose(i, k)
  BY <1>2, LooseFrame DEF SweepFrame, Live, PurgeUnderWay, dbVars
<1>4. SweepReads(i) /\ sw[i] \in Sweep /\ lastReconcile[i] \in {"never", "recent", "old"}
  BY SweepReadsStep, SweepFields DEF TypeOK
<1>5. lastPurgeID'[i] = lastPurgeID[i] /\ lastReconcile'[i] = lastReconcile[i] => Owed(i)'
  BY <1>1, <1>2, <1>3 DEF Owed, PurgePending
<1>6. /\ sw'[i].pc \notin {"max", "snapshot", "lookup", "drop"} => ReconcileRepeats(i)'
      /\ sw'[i].pc \notin {"snapshot", "lookup", "drop"} => ReconcileOwes(i)'
      /\ sw'[i].pc # "apply" => TailOwes(i)'
  BY DEF ReconcileRepeats, ReconcileOwes, TailOwes
<1>7. sw[i].pc \in {"max", "snapshot", "lookup", "drop"} /\ lastReconcile'[i] = lastReconcile[i]
         => ReconcileRepeats(i)'
  BY <1>1, <1>4 DEF ReconcileRepeats, SweepReads
<1>8. ASSUME Tick(i) PROVE Owing(i)'
  <2>1. lastPurgeID'[i] = lastPurgeID[i] /\ lastReconcile'[i] = lastReconcile[i]
    BY <1>8 DEF Tick
  <2>2. CASE ~MustReconcile(i)
    <3>1. sw'[i] = [NoSweep EXCEPT !.pc = "tail"]
      BY <1>8, <2>2 DEF Tick, Sets, TypeOK
    <3>2. sw'[i].pc = "tail"
      BY <3>1 DEF NoSweep
    <3>3. QED
      BY <1>5, <1>6, <2>1, <3>2 DEF Owing
  <2>3. CASE MustReconcile(i)
    <3>1. sw'[i] = [NoSweep EXCEPT !.pc = "max", !.privateNow = private]
      BY <1>8, <2>3 DEF Tick, Sets, TypeOK
    <3>2. sw'[i].pc = "max" /\ ~sw'[i].stuck
      BY <3>1 DEF NoSweep
    <3>3. lastReconcile[i] \in {"never", "old"} \/ "unlink" \notin Faults
      BY <1>1, <2>3 DEF MustReconcile, NeverPrivate
    <3>4. ReconcileRepeats(i)'
      BY <2>1, <3>2, <3>3 DEF ReconcileRepeats
    <3>5. QED
      BY <1>5, <1>6, <2>1, <3>2, <3>4 DEF Owing
  <2>4. QED
    BY <2>2, <2>3
<1>9. ASSUME NEW m \in {0} \cup {e.id : e \in log}, ReadMax(i, m) PROVE Owing(i)'
  <2>1. sw'[i] = [sw[i] EXCEPT !.pc = "snapshot", !.maxID = m]
    BY <1>9 DEF ReadMax, Sets, TypeOK
  <2>2. sw'[i].pc = "snapshot" /\ sw[i].pc = "max" /\ UNCHANGED markVars
    BY <1>4, <1>9, <2>1 DEF ReadMax, At, Sweep
  <2>3. ReconcileOwes(i)'
    BY <2>2 DEF ReconcileOwes
  <2>4. QED
    BY <1>5, <1>6, <1>7, <2>2, <2>3 DEF Owing, markVars
<1>10. ASSUME Snapshot(i) PROVE Owing(i)'
  <2>1. sw'[i] = [sw[i] EXCEPT !.pc = "lookup", !.victims = Indexed(i)]
    BY <1>10 DEF Snapshot, Sets, TypeOK
  <2>2. /\ sw'[i].pc = "lookup" /\ sw'[i].victims = Indexed(i)
        /\ sw[i].pc = "snapshot" /\ UNCHANGED markVars
    BY <1>4, <1>10, <2>1 DEF Snapshot, At, Sweep
  <2>3. \A k \in Keys : Loose(i, k) => k \in sw'[i].victims
    BY <1>1, <1>2, <2>2 DEF Loose, StoreSound
  <2>4. ReconcileOwes(i)'
    BY <1>3, <2>3 DEF ReconcileOwes
  <2>5. QED
    BY <1>5, <1>6, <1>7, <2>2, <2>4 DEF Owing, markVars
<1>11. ASSUME Lookup(i) PROVE Owing(i)'
  <2>1. PICK vis \in CacheKeyVisibility(sw[i].victims) :
           Sets(i, [sw[i] EXCEPT !.pc = "drop", !.victims = {k \in @ : ~Keeps(vis[k], sw[i].privateNow)}])
    BY <1>11 DEF Lookup
  <2>2. sw'[i] = [sw[i] EXCEPT !.pc = "drop", !.victims = {k \in @ : ~Keeps(vis[k], sw[i].privateNow)}]
    BY <2>1 DEF Sets, TypeOK
  <2>3. /\ sw'[i].pc = "drop" /\ sw'[i].maxID = sw[i].maxID /\ sw'[i].stuck = sw[i].stuck
        /\ sw'[i].victims = {k \in sw[i].victims : ~Keeps(vis[k], sw[i].privateNow)}
    BY <1>4, <2>2 DEF Sweep
  <2>4. sw[i].pc = "lookup" /\ UNCHANGED markVars
    BY <1>11 DEF Lookup, At
  <2>5. \A k \in sw[i].victims : ~Live(k) => vis[k] = "none"
    BY <2>1 DEF CacheKeyVisibility
  <2>6. \A k \in sw[i].victims : ~Live(k) => k \in sw'[i].victims
    BY <2>3, <2>5 DEF Keeps
  <2>7. ASSUME NEW k \in Keys, Loose(i, k)'
        PROVE  \/ k \in sw'[i].victims \/ sw'[i].stuck
               \/ \E e \in log' : e.key = k /\ e.id > sw'[i].maxID /\ e.id > lastPurgeID'[i]
    <3>1. Loose(i, k) /\ ~Live(k)
      BY <1>3, <2>7 DEF Loose
    <3>2. \/ k \in sw[i].victims \/ sw[i].stuck
          \/ \E e \in log : e.key = k /\ e.id > sw[i].maxID /\ e.id > lastPurgeID[i]
      BY <1>1, <2>4, <3>1 DEF ReconcileOwes
    <3>3. QED
      BY <1>2, <2>3, <2>4, <2>6, <3>1, <3>2 DEF markVars
  <2>8. ReconcileOwes(i)'
    BY <2>7 DEF ReconcileOwes
  <2>9. QED
    BY <1>5, <1>6, <1>7, <2>3, <2>4, <2>8 DEF Owing, markVars
<1>12. ASSUME NEW l \in Keys, NEW ok \in BOOLEAN, DropVictim(i, l, ok) PROVE Owing(i)'
  <2>1. sw'[i] = [sw[i] EXCEPT !.victims = @ \ {l}, !.stuck = @ \/ ~ok]
    BY <1>12 DEF DropVictim, Sets, TypeOK
  <2>2. /\ sw'[i].pc = sw[i].pc /\ sw'[i].maxID = sw[i].maxID
        /\ sw'[i].victims = sw[i].victims \ {l} /\ sw'[i].stuck = (sw[i].stuck \/ ~ok)
    BY <1>4, <2>1 DEF Sweep
  <2>3. sw[i].pc = "drop" /\ UNCHANGED markVars
    BY <1>12 DEF DropVictim, At
  <2>4. ok => l \notin disk'[i]
    BY <1>12, DropKeeps DEF DropVictim
  <2>5. ASSUME NEW k \in Keys, Loose(i, k)'
        PROVE  \/ k \in sw'[i].victims \/ sw'[i].stuck
               \/ \E e \in log' : e.key = k /\ e.id > sw'[i].maxID /\ e.id > lastPurgeID'[i]
    <3>1. Loose(i, k) /\ k \in disk'[i]
      BY <1>3, <2>5 DEF Loose
    <3>2. \/ k \in sw[i].victims \/ sw[i].stuck
          \/ \E e \in log : e.key = k /\ e.id > sw[i].maxID /\ e.id > lastPurgeID[i]
      BY <1>1, <2>3, <3>1 DEF ReconcileOwes
    <3>3. QED
      BY <1>2, <2>2, <2>3, <2>4, <3>1, <3>2 DEF markVars
  <2>6. ReconcileOwes(i)'
    BY <2>5 DEF ReconcileOwes
  <2>7. QED
    BY <1>5, <1>6, <1>7, <2>2, <2>3, <2>6 DEF Owing, markVars
<1>13. ASSUME Reconciled(i) PROVE Owing(i)'
  <2>1. sw'[i] = [NoSweep EXCEPT !.pc = "tail"]
    BY <1>13 DEF Reconciled, Sets, TypeOK
  <2>2. sw'[i].pc = "tail"
    BY <2>1 DEF NoSweep
  <2>3. /\ sw[i].pc = "drop" /\ sw[i].victims = {} /\ lastPurgeID'[i] = sw[i].maxID
        /\ sw[i].stuck => lastReconcile'[i] = lastReconcile[i]
    BY <1>13 DEF Reconciled, At, TypeOK
  <2>4. ASSUME NEW k \in Keys, Loose(i, k)' PROVE PurgePending(i, k)'
    <3>1. sw[i].stuck \/ \E e \in log : e.key = k /\ e.id > sw[i].maxID
      BY <1>1, <1>3, <2>3, <2>4 DEF ReconcileOwes
    <3>2. sw[i].stuck => lastReconcile'[i] \in {"never", "old"}
      BY <1>1, <2>3 DEF ReconcileRepeats
    <3>3. QED
      BY <1>2, <2>3, <3>1, <3>2 DEF PurgePending
  <2>5. QED
    BY <1>6, <2>2, <2>4 DEF Owing, Owed
<1>14. ASSUME ReadTail(i) PROVE Owing(i)'
  <2>1. UNCHANGED markVars
    BY <1>14 DEF ReadTail
  <2>2. CASE PurgeLogSince(i) = {}
    <3>1. Sets(i, [NoSweep EXCEPT !.pc = "evict"])
      BY <1>14, <2>2 DEF ReadTail
    <3>2. sw'[i].pc = "evict"
      BY <3>1 DEF Sets, NoSweep, TypeOK
    <3>3. QED
      BY <1>5, <1>6, <2>1, <3>2 DEF Owing, markVars
  <2>3. CASE PurgeLogSince(i) # {}
    <3>1. Sets(i, [sw[i] EXCEPT !.pc = "apply", !.entries = PurgeLogSince(i),
                                !.full = Cardinality(PurgeLogSince(i)) = Batch])
      BY <1>14, <2>3 DEF ReadTail
    <3>2. sw'[i] = [sw[i] EXCEPT !.pc = "apply", !.entries = PurgeLogSince(i),
                                 !.full = Cardinality(PurgeLogSince(i)) = Batch]
      BY <3>1 DEF Sets, TypeOK
    <3>3. sw'[i].pc = "apply" /\ sw'[i].entries = PurgeLogSince(i)
      BY <1>4, <3>2 DEF Sweep
    <3>4. \A e \in PurgeLogSince(i) : e.id > lastPurgeID[i]
      BY DEF PurgeLogSince
    <3>5. \A f \in log : f.id > lastPurgeID[i] =>
             f \in PurgeLogSince(i) \/ \A e \in PurgeLogSince(i) : e.id < f.id
      BY BatchHasNoGap DEF LogOrdered
    <3>6. TailOwes(i)'
      BY <1>2, <2>1, <3>3, <3>4, <3>5 DEF TailOwes, markVars
    <3>7. QED
      BY <1>5, <1>6, <2>1, <3>3, <3>6 DEF Owing, markVars
  <2>4. QED
    BY <2>2, <2>3
<1>15. ASSUME NEW e \in sw[i].entries, NEW ok \in BOOLEAN, Apply(i, e, ok) PROVE Owing(i)'
  <2>1. sw'[i] = [sw[i] EXCEPT !.entries = @ \ {e}, !.stalled = @ \/ ~ok]
    BY <1>15 DEF Apply, Sets, TypeOK
  <2>2. /\ sw'[i].pc = sw[i].pc /\ sw'[i].entries = sw[i].entries \ {e}
        /\ sw'[i].stalled = (sw[i].stalled \/ ~ok)
    BY <1>4, <2>1 DEF Sweep
  <2>3. /\ sw[i].pc = "apply" /\ \A f \in sw[i].entries : e.id <= f.id
        /\ lastReconcile'[i] = lastReconcile[i]
    BY <1>15 DEF Apply, At
  <2>4. /\ e.key \in Keys /\ \A f \in log \cup sw[i].entries : f.id \in Nat
        /\ lastPurgeID[i] \in Nat
    BY SweepFields DEF TypeOK, Entry
  <2>5. CASE ~ok \/ sw[i].stalled
    <3>1. lastPurgeID'[i] = lastPurgeID[i]
      BY <1>15, <2>5 DEF Apply, Advance
    <3>2. TailOwes(i)'
      BY <2>2, <2>5 DEF TailOwes
    <3>3. QED
      BY <1>5, <1>6, <2>2, <2>3, <3>1, <3>2 DEF Owing
  <2>6. CASE ok /\ ~sw[i].stalled
    <3>1. lastPurgeID'[i] = e.id
      BY <1>15, <2>6 DEF Apply, Advance, TypeOK
    <3>2. e.id > lastPurgeID[i]
      BY <1>1, <2>3, <2>6 DEF TailOwes
    <3>3. \A f \in sw[i].entries \ {e} : f.id > e.id
      BY <1>1, <2>3, <2>4 DEF MarksOrdered
    <3>4. \A f \in log : f.id > lastPurgeID[i] =>
             f \in sw[i].entries \/ \A g \in sw[i].entries : g.id < f.id
      BY <1>1, <2>3, <2>6 DEF TailOwes
    <3>5. \A f \in log : f.id > e.id =>
             f \in sw[i].entries \ {e} \/ \A g \in sw[i].entries \ {e} : g.id < f.id
      BY <2>4, <3>2, <3>4
    <3>6. TailOwes(i)'
      BY <1>2, <2>2, <3>1, <3>3, <3>5 DEF TailOwes
    <3>7. e.key \notin disk'[i]
      BY <1>15, <2>4, <2>6, DropKeeps DEF Apply
    <3>8. ASSUME NEW k \in Keys, Loose(i, k)' PROVE PurgePending(i, k)'
      <4>1. k \in disk'[i] /\ PurgePending(i, k)
        BY <1>1, <1>3, <3>8 DEF Loose, Owed
      <4>2. CASE lastReconcile[i] \in {"never", "old"}
        BY <2>3, <4>2 DEF PurgePending
      <4>3. ASSUME NEW f \in log, f.key = k, f.id > lastPurgeID[i] PROVE f.id > e.id
        <5>1. CASE f \in sw[i].entries
          BY <3>3, <3>7, <4>1, <4>3, <5>1
        <5>2. CASE f \notin sw[i].entries
          BY <2>4, <3>4, <4>3, <5>2
        <5>3. QED
          BY <5>1, <5>2
      <4>4. QED
        BY <1>2, <3>1, <4>1, <4>2, <4>3 DEF PurgePending
    <3>9. QED
      BY <1>6, <2>2, <2>3, <3>6, <3>8 DEF Owing, Owed
  <2>7. QED
    BY <2>5, <2>6
<1>16. CASE \/ Applied(i) \/ EvictSnapshot(i) \/ BatchEnds(i) \/ SweepEnds(i) \/ SweepReadFails(i)
            \/ \E v \in sw[i].oldest, ok \in BOOLEAN : EvictOne(i, v, ok)
  <2>1. /\ sw'[i].pc \in {"idle", "tail", "evict", "evicting"}
        /\ lastPurgeID'[i] = lastPurgeID[i] /\ lastReconcile'[i] = lastReconcile[i]
    BY <1>16, EvictionOwing
  <2>2. QED
    BY <1>5, <1>6, <2>1 DEF Owing
<1>17. QED
  BY <1>8, <1>9, <1>10, <1>11, <1>12, <1>13, <1>14, <1>15, <1>16
     DEF Sweeping, Reconciling, Tailing, Evicting

-----------------------------------------------------------------------------
(* What the other actors do to a sweeper.                                   *)

\* No entry ahead of a running instance's mark leaves the log.
LEMMA LogAhead ==
    ASSUME TypeOK, "prune" \notin Faults, NEW i \in Instances, up[i], Next,
           NEW e \in log, e.id > lastPurgeID[i]
    PROVE  e \in log'
<1>1. ASSUME NEW f \in log, Prune(f.id) PROVE e \in log'
  <2>1. lastPurgeID[i] >= f.id /\ log' = {g \in log : g.id > f.id}
    BY <1>1 DEF Prune
  <2>2. e.id \in Nat /\ f.id \in Nat /\ lastPurgeID[i] \in Nat
    BY DEF TypeOK, Entry
  <2>3. QED
    BY <2>1, <2>2
<1>2. ASSUME NEW u \in Uploads, DeleteCommit(u) PROVE e \in log'
  BY <1>2 DEF DeleteCommit
<1>3. QED
  BY <1>1, <1>2, StepFrames DEF StepFrame

\* A copy that becomes loose on an instance that was running has a new entry in
\* the log, with an id above all that anyone has read of it.
LEMMA LooseOrLogged ==
    ASSUME TypeOK, RequestsHaveRows, "verifyRead" \notin Faults, Next,
           NEW i \in Instances, up[i], NEW k \in Keys, Loose(i, k)'
    PROVE  Loose(i, k) \/ \E e \in log' : e.key = k /\ \A n \in Nat : Below(n) => e.id > n
<1>1. \A found \in SUBSET Keys : ~Boot(i, found)
  BY DEF Boot
<1>2. ASSUME NEW u \in Uploads, DeleteCommit(u)
      PROVE  Loose(i, k) \/ \E e \in log' : e.key = k /\ \A n \in Nat : Below(n) => e.id > n
  <2>1. CASE KeyOf[u] = k
    <3>1. PICK e \in log' : e = [id |-> del[u].id, key |-> k]
      BY <1>2, <2>1 DEF DeleteCommit
    <3>2. del[u].id \in Nat /\ del[u].pc = "commit"
      BY <1>2 DEF DeleteCommit, TypeOK, Deletion
    <3>3. e.key = k /\ \A n \in Nat : Below(n) => e.id > n
      BY <3>1, <3>2 DEF Below
    <3>4. QED
      BY <3>3
  <2>2. CASE KeyOf[u] # k
    <3>1. Live(k) => Live(k)'
      BY <1>2, <2>2 DEF DeleteCommit, Live, TypeOK
    <3>2. PurgeUnderWay(i, k) => PurgeUnderWay(i, k)'
      BY <1>2, <2>2 DEF DeleteCommit, PurgeUnderWay, TypeOK
    <3>3. QED
      BY <1>2, <3>1, <3>2, LooseFrame DEF DeleteCommit, storeVars, envVars
  <2>3. QED
    BY <2>1, <2>2
<1>3. CASE \A u \in Uploads : ~DeleteCommit(u)
  BY <1>1, <1>3, LooseStep
<1>4. QED
  BY <1>2, <1>3

\* Nothing that happens elsewhere makes a sweeper forget what it owes.
LEMMA OwingStep ==
    ASSUME TypeOK, LogOrdered, RequestsHaveRows, Benign, NEW i \in Instances, SweepInv(i), Next
    PROVE  Owing(i)'
<1>1. /\ MarksOrdered(i) /\ StoreSound(i) /\ NeverPrivate(i) /\ ReconcileRepeats(i)
      /\ ReconcileOwes(i) /\ TailOwes(i) /\ Owed(i)
  BY DEF SweepInv
<1>2. /\ "verifyRead" \notin Faults /\ "prune" \notin Faults
      /\ MaxToggles = 0 \/ "unlink" \notin Faults
  BY DEF Benign
<1>3. CASE Sweeping(i)
  BY <1>2, <1>3, SweepingStep
<1>4. CASE Crash(i)
  <2>1. sw'[i].pc = "idle" /\ lastReconcile'[i] = "never"
    BY <1>4 DEF Crash, NoSweep, TypeOK
  <2>2. QED
    BY <2>1 DEF Owing, ReconcileRepeats, ReconcileOwes, TailOwes, Owed, PurgePending
<1>5. CASE ~Sweeping(i) /\ ~Crash(i)
  <2>1. /\ sw'[i] = sw[i] /\ lastPurgeID'[i] = lastPurgeID[i]
        /\ lastReconcile'[i] = lastReconcile[i] \/ lastReconcile'[i] = "old"
    <3>1. CASE TwelveHours(i)
      BY <3>1 DEF TwelveHours, TypeOK
    <3>2. QED
      BY <1>5, <3>1, StepFrames DEF StepFrame, SweeperRests
  <2>2. ReconcileRepeats(i)'
    BY <1>1, <2>1 DEF ReconcileRepeats
  <2>3. CASE ~up[i]
    <3>1. sw'[i].pc = "idle" /\ lastReconcile'[i] \in {"never", "old"}
      BY <1>1, <2>1, <2>3 DEF StoreSound
    <3>2. QED
      BY <2>2, <3>1 DEF Owing, ReconcileOwes, TailOwes, Owed, PurgePending
  <2>4. CASE up[i]
    <3>1. \A e \in log : e.id > lastPurgeID[i] => e \in log'
      BY <1>2, <2>4, LogAhead
    <3>2. /\ lastPurgeID[i] \in Nat /\ Below(lastPurgeID[i])
          /\ sw[i].maxID \in Nat /\ Below(sw[i].maxID)
          /\ \A e \in sw[i].entries : e.id \in Nat /\ Below(e.id)
      BY <1>1, SweepFields DEF MarksOrdered, TypeOK, Entry
    <3>3. ASSUME NEW k \in Keys, Loose(i, k)'
          PROVE  \/ Loose(i, k)
                 \/ \E e \in log' : e.key = k /\ e.id > lastPurgeID[i] /\ e.id > sw[i].maxID
      BY <1>2, <2>4, <3>2, <3>3, LooseOrLogged
    <3>4. Owed(i)'
      <4>1. ASSUME NEW k \in Keys, Loose(i, k)' PROVE PurgePending(i, k)'
        <5>1. CASE Loose(i, k)
          <6>1. PurgePending(i, k)
            BY <1>1, <5>1 DEF Owed
          <6>2. QED
            BY <2>1, <3>1, <6>1 DEF PurgePending
        <5>2. CASE ~Loose(i, k)
          BY <2>1, <3>3, <4>1, <5>2 DEF PurgePending
        <5>3. QED
          BY <5>1, <5>2
      <4>2. QED
        BY <4>1 DEF Owed
    <3>5. ReconcileOwes(i)'
      <4>1. ASSUME NEW k \in Keys, sw[i].pc \in {"snapshot", "lookup", "drop"}, Loose(i, k)'
            PROVE  \/ sw[i].pc = "snapshot" \/ k \in sw[i].victims \/ sw[i].stuck
                   \/ \E e \in log' : e.key = k /\ e.id > sw[i].maxID /\ e.id > lastPurgeID[i]
        <5>1. CASE Loose(i, k)
          <6>1. \/ sw[i].pc = "snapshot" \/ k \in sw[i].victims \/ sw[i].stuck
                \/ \E e \in log : e.key = k /\ e.id > sw[i].maxID /\ e.id > lastPurgeID[i]
            BY <1>1, <4>1, <5>1 DEF ReconcileOwes
          <6>2. QED
            BY <3>1, <6>1
        <5>2. CASE ~Loose(i, k)
          BY <3>3, <4>1, <5>2
        <5>3. QED
          BY <5>1, <5>2
      <4>2. QED
        BY <2>1, <4>1 DEF ReconcileOwes
    <3>6. TailOwes(i)'
      <4>1. ASSUME NEW f \in log' \ log PROVE \A e \in sw[i].entries : e.id < f.id
        <5>1. log' # log /\ ~\E g \in log : Prune(g.id)
          BY <4>1 DEF Prune
        <5>2. PICK u \in Uploads : DeleteCommit(u)
          BY <5>1, StepFrames DEF StepFrame
        <5>3. f = [id |-> del[u].id, key |-> KeyOf[u]] /\ del[u].pc = "commit"
          BY <4>1, <5>2 DEF DeleteCommit
        <5>4. QED
          BY <3>2, <5>3 DEF Below
      <4>2. QED
        BY <1>1, <2>1, <4>1 DEF TailOwes
    <3>7. QED
      BY <2>2, <3>4, <3>5, <3>6 DEF Owing
  <2>5. QED
    BY <2>3, <2>4
<1>6. QED
  BY <1>3, <1>4, <1>5

-----------------------------------------------------------------------------
(* The theorems.                                                            *)

\* The invariant holds at the start and is kept by every step.
LEMMA InvariantInductive ==
    ASSUME Benign
    PROVE  /\ Init => TypeOK /\ IInv
           /\ TypeOK /\ IInv /\ [Next]_vars => (TypeOK /\ IInv)'
<1>1. ASSUME Init PROVE TypeOK /\ IInv
  <2>1. TypeOK /\ RequestsHaveRows
    BY <1>1, TypeAtInit
  <2>2. LogOrdered
    BY <1>1, FS_EmptySet DEF Init, LogOrdered, NoDelete
  <2>3. ASSUME NEW i \in Instances PROVE SweepInv(i)
    <3>1. /\ sw[i] = NoSweep /\ lastPurgeID[i] = 0 /\ lastReconcile[i] = "never"
          /\ disk[i] = {} /\ index[i] = [k \in Keys |-> 0]
      BY <1>1 DEF Init
    <3>2. ready[i] /\ up[i] /\ ~private /\ ~privateAllowed[i]
      BY <1>1 DEF Init
    <3>3. Below(0)
      BY <1>1 DEF Init, Below, NoDelete
    <3>4. MarksOrdered(i)
      BY <3>1, <3>3 DEF MarksOrdered, NoSweep
    <3>5. StoreSound(i)
      BY <3>1, <3>2 DEF StoreSound, Indexed
    <3>6. NeverPrivate(i)
      BY <3>1, <3>2 DEF NeverPrivate, NoSweep
    <3>7. ReconcileRepeats(i) /\ ReconcileOwes(i) /\ TailOwes(i) /\ Owed(i)
      BY <3>1 DEF ReconcileRepeats, ReconcileOwes, TailOwes, Owed, PurgePending, NoSweep
    <3>8. QED
      BY <3>4, <3>5, <3>6, <3>7 DEF SweepInv
  <2>4. QED
    BY <2>1, <2>2, <2>3 DEF IInv
<1>2. ASSUME TypeOK, IInv, Next, NEW i \in Instances PROVE LogOrdered' /\ SweepInv(i)'
  <2>1. LogOrdered /\ RequestsHaveRows /\ SweepInv(i)
    BY <1>2 DEF IInv
  <2>2. /\ SerialDeletes /\ "scan" \notin Faults
        /\ MarksOrdered(i) /\ StoreSound(i) /\ NeverPrivate(i)
    BY <2>1 DEF SweepInv, Benign
  <2>3. LogOrdered' /\ MarksOrdered(i)' /\ NeverPrivate(i)'
    BY <1>2, <2>1, <2>2, LogOrderedStep, MarksStep, PrivateStep
  <2>4. StoreSound(i)'
    BY <1>2, <2>1, <2>2, StoreStep
  <2>5. Owing(i)'
    BY <1>2, <2>1, OwingStep
  <2>6. QED
    BY <2>3, <2>4, <2>5 DEF SweepInv, Owing
<1>3. ASSUME TypeOK, IInv, Next PROVE (TypeOK /\ IInv)'
  <2>1. TypeOK' /\ RequestsHaveRows'
    BY <1>3, TypeStep, RowsStep DEF IInv
  <2>2. Instances # {}
    BY CacheAssumption
  <2>3. QED
    BY <1>2, <1>3, <2>1, <2>2 DEF IInv
<1>4. ASSUME TypeOK, IInv, UNCHANGED vars PROVE (TypeOK /\ IInv)'
  <2>1. TypeOK' /\ RequestsHaveRows'
    BY <1>4 DEF TypeOK, IInv, RequestsHaveRows, vars, dbVars, storeVars, markVars, envVars
  <2>2. \A i \in Instances, k \in Keys : Loose(i, k)' <=> Loose(i, k)
    BY <1>4 DEF Loose, Live, PurgeUnderWay, vars, dbVars, storeVars, envVars
  <2>3. LogOrdered'
    BY <1>4 DEF IInv, LogOrdered, Below, vars, dbVars
  <2>4. ASSUME NEW i \in Instances PROVE SweepInv(i)'
    <3>1. MarksOrdered(i)'
      BY <1>4 DEF IInv, SweepInv, MarksOrdered, Below, vars, dbVars, markVars
    <3>2. StoreSound(i)' /\ NeverPrivate(i)' /\ ReconcileRepeats(i)' /\ TailOwes(i)'
      BY <1>4 DEF IInv, SweepInv, StoreSound, Indexed, NeverPrivate, ReconcileRepeats, TailOwes,
                  vars, dbVars, storeVars, markVars
    <3>3. ReconcileOwes(i)' /\ Owed(i)'
      BY <1>4, <2>2 DEF IInv, SweepInv, ReconcileOwes, Owed, PurgePending, vars, dbVars,
         markVars
    <3>4. QED
      BY <3>1, <3>2, <3>3 DEF SweepInv
  <2>5. QED
    BY <2>1, <2>3, <2>4 DEF IInv
<1>5. QED
  BY <1>1, <1>3, <1>4

\* The inductive invariant holds in every behaviour, for every fleet, batch size
\* and bound, when the faults are those that the code's argument admits.
THEOREM SweepInvariant == Benign => (Spec => []IInv)
<1> SUFFICES ASSUME Benign PROVE Spec => []IInv
  OBVIOUS
<1>1. Init => TypeOK /\ IInv
  BY InvariantInductive
<1>2. TypeOK /\ IInv /\ [Next]_vars => (TypeOK /\ IInv)'
  BY InvariantInductive
<1>3. QED
  BY <1>1, <1>2, PTL DEF Spec

\* A cached copy of a deleted upload on a running instance always has someone
\* committed to removing it (propagatePurges, reconcile, UploadService.Delete).
THEOREM PurgeIsOwed == Benign => (Spec => []PurgeOwed)
<1>1. IInv => PurgeOwed
  BY DEF IInv, SweepInv, PurgeOwed
<1>2. QED
  BY <1>1, SweepInvariant, PTL

-----------------------------------------------------------------------------
(* Deletion and eviction.                                                   *)

\* A promoter on the instance of x is about to look at the row of its content.
Taken(x) ==
    \E p \in Requests : /\ req[p].pc \in {"verify", "undo"}
                        /\ req[p].i = x[1] /\ KeyOf[req[p].u] = x[2]

\* What an answered deletion left behind: no row, and no copy that a promoter is
\* not about to take back.
Shredding ==
    \A x \in shredded :
        ~Live(x[2]) /\ (x \notin reported /\ x[2] \in disk[x[1]] => Taken(x))

\* Steps that bring neither rows nor copies back and take no promoter away.
LEMMA ShreddingFrame ==
    ASSUME Shredding, shredded' \subseteq shredded, reported \subseteq reported',
           \A x \in shredded' : /\ x[2] \in disk'[x[1]] => x[2] \in disk[x[1]]
                                /\ Live(x[2])' => Live(x[2])
                                /\ Taken(x) => Taken(x)'
    PROVE  Shredding'
BY DEF Shredding

\* No step uncovers a copy of content whose deletion was answered.
LEMMA ShreddingStep ==
    ASSUME TypeOK, RequestsHaveRows, "verifyRead" \notin Faults, Shredding, Next
    PROVE  Shredding'
<1>0. \A x \in shredded : x \in Instances \X Keys /\ x[1] \in Instances /\ x[2] \in Keys
  BY DEF TypeOK
<1>1. ASSUME NEW p \in Requests, NEW u \in Uploads, NEW seed \in BOOLEAN, Complete(p, u, seed)
      PROVE  Shredding'
  <2>1. \A x \in shredded : Taken(x) => Taken(x)'
    BY <1>1 DEF Complete, Taken, TypeOK
  <2>2. \A x \in shredded' : x \in shredded /\ x[2] # KeyOf[u]
    BY <1>1 DEF Complete
  <2>3. \A x \in shredded' : Live(x[2])' => Live(x[2])
    BY <1>1, <2>2 DEF Complete, Live, TypeOK
  <2>4. QED
    BY <1>1, <2>1, <2>2, <2>3, ShreddingFrame DEF Complete, storeVars
<1>2. ASSUME NEW p \in Requests, NEW u \in Uploads, NEW j \in Instances, Download(p, j, u)
      PROVE  Shredding'
  <2>1. \A x \in shredded : Taken(x) => Taken(x)'
    BY <1>2 DEF Download, Taken, TypeOK
  <2>2. QED
    BY <1>2, <2>1, ShreddingFrame DEF Download, Live, dbVars, storeVars, envVars
<1>3. ASSUME NEW u \in Uploads, NEW j \in Hosts, DeleteBegin(u, j) PROVE Shredding'
  BY <1>3, ShreddingFrame DEF DeleteBegin, Taken, Live, dbVars, storeVars, envVars
<1>4. ASSUME NEW u \in Uploads, MarkPublished(u) PROVE Shredding'
  BY <1>4, ShreddingFrame DEF MarkPublished, Taken, Live, dbVars, storeVars, envVars
<1>5. ASSUME NEW e \in log, Prune(e.id) PROVE Shredding'
  BY <1>5, ShreddingFrame DEF Prune, Taken, Live, dbVars, storeVars, envVars
<1>6. ASSUME SetPrivate PROVE Shredding'
  BY <1>6, ShreddingFrame DEF SetPrivate, Taken, Live, dbVars, storeVars, envVars
<1>7. ASSUME DisableCache PROVE Shredding'
  BY <1>7, ShreddingFrame DEF DisableCache, Taken, Live, dbVars, storeVars, envVars
<1>8. ASSUME NEW p \in Requests, Open(p) PROVE Shredding'
  <2>1. req[p] \in Request /\ KeyOf[req[p].u] \in Keys
    BY CacheAssumption DEF TypeOK, Request
  <2>2. \A j \in Instances : disk'[j] \subseteq disk[j]
    BY <1>8, <2>1, DropGenKeeps DEF Open, storeVars
  <2>3. \A x \in shredded : Taken(x) => Taken(x)'
    BY <1>8 DEF Open, Taken, TypeOK
  <2>4. QED
    BY <1>8, <1>0, <2>2, <2>3, ShreddingFrame DEF Open, Live, dbVars
<1>9. ASSUME NEW p \in Requests, PromoteFetched(p) PROVE Shredding'
  <2>1. req[p] \in Request /\ KeyOf[req[p].u] \in Keys
    BY CacheAssumption DEF TypeOK, Request
  <2>2. \A x \in shredded : Taken(x) => Taken(x)'
    BY <1>9 DEF PromoteFetched, Taken, TypeOK
  <2>3. \A x \in shredded : req[p].i = x[1] /\ KeyOf[req[p].u] = x[2] => Taken(x)'
    BY <1>9, <2>1 DEF PromoteFetched, Taken, TypeOK, Request
  <2>4. \A x \in shredded : x[2] \in disk'[x[1]] =>
           x[2] \in disk[x[1]] \/ (req[p].i = x[1] /\ KeyOf[req[p].u] = x[2])
    BY <1>9, <1>0 DEF PromoteFetched, Promote, TypeOK
  <2>5. UNCHANGED <<shredded, reported, row>>
    BY <1>9 DEF PromoteFetched, dbVars, envVars
  <2>6. QED
    BY <2>2, <2>3, <2>4, <2>5 DEF Shredding, Live
<1>10. ASSUME NEW p \in Requests, NotPromoted(p) PROVE Shredding'
  <2>1. \A x \in shredded : Taken(x) => Taken(x)'
    BY <1>10 DEF NotPromoted, Taken, TypeOK
  <2>2. QED
    BY <1>10, <2>1, ShreddingFrame DEF NotPromoted, Live, dbVars, storeVars, envVars
<1>11. ASSUME NEW p \in Requests, NEW ok \in BOOLEAN, Verify(p, ok) PROVE Shredding'
  <2>1. ok
    BY <1>11 DEF Verify, Broken
  <2>2. req[p] \in Request /\ req[p].u \in Uploads /\ row[req[p].u] \in {"stored", "deleted"}
    BY <1>11 DEF Verify, TypeOK, Request, RequestsHaveRows
  <2>3. ASSUME NEW x \in shredded, Taken(x) PROVE Taken(x)'
    <3>1. PICK q \in Requests : /\ req[q].pc \in {"verify", "undo"}
                                /\ req[q].i = x[1] /\ KeyOf[req[q].u] = x[2]
      BY <2>3 DEF Taken
    <3>2. CASE q = p
      <4>1. row[req[p].u] = "deleted"
        BY <2>2, <3>1, <3>2 DEF Shredding, Live
      <4>2. req' = [req EXCEPT ![p].pc = "undo"]
        BY <1>11, <2>1, <4>1 DEF Verify
      <4>3. QED
        BY <2>2, <3>1, <3>2, <4>2 DEF Taken, TypeOK, Request
    <3>3. CASE q # p
      BY <1>11, <3>1, <3>3 DEF Verify, Taken, TypeOK
    <3>4. QED
      BY <3>2, <3>3
  <2>4. QED
    BY <1>11, <2>3, ShreddingFrame DEF Verify, Live, dbVars, storeVars
<1>12. ASSUME NEW p \in Requests, NEW ok \in BOOLEAN, Undo(p, ok) PROVE Shredding'
  <2>1. req[p] \in Request /\ KeyOf[req[p].u] \in Keys
    BY CacheAssumption DEF TypeOK, Request
  <2>2. \A j \in Instances : disk'[j] \subseteq disk[j]
    BY <1>12, <2>1, DropKeeps DEF Undo
  <2>3. UNCHANGED <<shredded, row>> /\ reported \subseteq reported'
    BY <1>12 DEF Undo, dbVars
  <2>4. ASSUME NEW x \in shredded
        PROVE  ~Live(x[2])' /\ (x \notin reported' /\ x[2] \in disk'[x[1]] => Taken(x)')
    <3>1. CASE req[p].i = x[1] /\ KeyOf[req[p].u] = x[2]
      <4>1. x[2] \notin disk'[x[1]] \/ <<x[1], x[2]>> \in reported'
        BY <1>12, <1>0, <2>1, <3>1, DropKeeps DEF Undo
      <4>2. x = <<x[1], x[2]>>
        BY <1>0
      <4>3. QED
        BY <2>3, <4>1, <4>2 DEF Shredding, Live
    <3>2. CASE ~(req[p].i = x[1] /\ KeyOf[req[p].u] = x[2])
      <4>1. Taken(x) => Taken(x)'
        BY <1>12, <3>2 DEF Undo, Taken, TypeOK
      <4>2. QED
        BY <1>0, <2>2, <2>3, <4>1 DEF Shredding, Live
    <3>3. QED
      BY <3>1, <3>2
  <2>5. QED
    BY <2>3, <2>4 DEF Shredding
<1>13. ASSUME NEW u \in Uploads, DeleteInsert(u) PROVE Shredding'
  BY <1>13, ShreddingFrame DEF DeleteInsert, Taken, Live, dbVars, storeVars, envVars
<1>14. ASSUME NEW u \in Uploads, DeleteCommit(u) PROVE Shredding'
  <2>1. \A x \in shredded : Live(x[2])' => Live(x[2])
    BY <1>14 DEF DeleteCommit, Live, TypeOK
  <2>2. QED
    BY <1>14, <2>1, ShreddingFrame DEF DeleteCommit, Taken, storeVars, envVars
<1>15. ASSUME NEW u \in Uploads, DeleteRefused(u) PROVE Shredding'
  BY <1>15, ShreddingFrame DEF DeleteRefused, Taken, Live, dbVars, storeVars, envVars
<1>16. ASSUME NEW u \in Uploads, NEW ok \in BOOLEAN, DeletePurge(u, ok) PROVE Shredding'
  <2>1. \A j \in Instances : disk'[j] \subseteq disk[j]
    BY <1>16, CacheAssumption, DropAtKeeps DEF DeletePurge
  <2>2. QED
    BY <1>16, <1>0, <2>1, ShreddingFrame DEF DeletePurge, Taken, Live, dbVars
<1>17. ASSUME NEW u \in Uploads, NEW ok \in BOOLEAN, DeletePurgeAgain(u, ok) PROVE Shredding'
  <2>1. \A j \in Instances : disk'[j] \subseteq disk[j]
    BY <1>17, CacheAssumption, DropAtKeeps DEF DeletePurgeAgain
  <2>2. UNCHANGED <<row, req>> /\ reported \subseteq reported'
    BY <1>17 DEF DeletePurgeAgain, dbVars
  <2>3. \A x \in shredded : Live(x[2])' = Live(x[2]) /\ Taken(x)' = Taken(x)
    BY <2>2 DEF Live, Taken
  <2>4. ASSUME NEW x \in shredded', x \notin shredded
        PROVE  ~Live(x[2])' /\ (x \notin reported' => x[2] \notin disk'[x[1]])
    <3>1. x = <<del[u].i, KeyOf[u]>> /\ ~Live(KeyOf[u]) /\ del[u].i # Elsewhere
      BY <1>17, <2>4 DEF DeletePurgeAgain, Answered
    <3>2. x[1] = del[u].i /\ x[2] = KeyOf[u] /\ del[u].i \in Instances
      BY <3>1 DEF TypeOK, Deletion, Hosts
    <3>3. KeyOf[u] \notin disk'[del[u].i] \/ <<del[u].i, KeyOf[u]>> \in reported'
      BY <1>17, <3>2, CacheAssumption, DropAtKeeps DEF DeletePurgeAgain
    <3>4. QED
      BY <2>2, <3>1, <3>2, <3>3 DEF Live
  <2>5. QED
    BY <1>0, <2>1, <2>2, <2>3, <2>4 DEF Shredding
<1>18. ASSUME NEW j \in Instances, TwelveHours(j) PROVE Shredding'
  BY <1>18, ShreddingFrame DEF TwelveHours, Taken, Live, dbVars, storeVars, envVars
<1>19. ASSUME NEW j \in Instances, Crash(j) PROVE Shredding'
  <2>1. \A x \in shredded' : x \in shredded /\ x[1] # j
    BY <1>19 DEF Crash
  <2>2. \A x \in shredded' : Taken(x) => Taken(x)'
    BY <1>19, <2>1 DEF Crash, Taken
  <2>3. QED
    BY <1>19, <2>1, <2>2, ShreddingFrame DEF Crash, Live, dbVars
<1>20. ASSUME NEW j \in Instances, NEW found \in SUBSET Keys, Boot(j, found) PROVE Shredding'
  BY <1>20, ShreddingFrame DEF Boot, Taken, Live, dbVars
<1>21. ASSUME NEW j \in Instances, Sweeping(j) PROVE Shredding'
  <2>1. SweepFrame(j)
    BY <1>21, SweepLocal
  <2>2. QED
    BY <1>0, <2>1, ShreddingFrame DEF SweepFrame, Taken, Live, dbVars
<1>22. QED
  BY <1>1, <1>2, <1>3, <1>4, <1>5, <1>6, <1>7, <1>8, <1>9, <1>10, <1>11, <1>12,
     <1>13, <1>14, <1>15, <1>16, <1>17, <1>18, <1>19, <1>20, <1>21
     DEF Next, Serving, Operating, Filling, Deleting, Running

\* After DeleteUpload has answered, a copy on its instance is one that a late
\* download is about to take back (V2-824), for every fleet and whatever unlinks,
\* sweeps, scans and prunes fail.
THEOREM DeletionsShred == "verifyRead" \notin Faults => (Spec => []DeletionShreds)
<1> SUFFICES ASSUME "verifyRead" \notin Faults PROVE Spec => []DeletionShreds
  OBVIOUS
<1>1. Init => TypeOK /\ RequestsHaveRows /\ Shredding
  <2>1. Init => Shredding
    BY DEF Init, Shredding
  <2>2. QED
    BY <2>1, TypeAtInit
<1>2. TypeOK /\ RequestsHaveRows /\ Shredding /\ [Next]_vars
         => (TypeOK /\ RequestsHaveRows /\ Shredding)'
  <2>1. CASE Next
    BY <2>1, TypeStep, RowsStep, ShreddingStep
  <2>2. CASE UNCHANGED vars
    BY <2>2 DEF TypeOK, RequestsHaveRows, Shredding, Live, Taken, vars, dbVars, storeVars,
                markVars, envVars
  <2>3. QED
    BY <2>1, <2>2
<1>3. Shredding => DeletionShreds
  BY DEF Shredding, DeletionShreds, Taken
<1>4. QED
  BY <1>1, <1>2, <1>3, PTL DEF Spec

\* An eviction batch drops only what it has listed, in the generation it has
\* listed (DropGen), for every cache and budget.
THEOREM EvictionSpares == Spec => EvictionSparesFresh
<1> DEFINE Spares ==
      \A i \in Instances, k \in Keys :
          (index[i][k] # 0 /\ index'[i][k] = 0 /\ sw[i].pc = "evicting" /\ sw'[i] # sw[i]
              /\ up'[i])
              => <<k, index[i][k]>> \in sw[i].oldest
<1>1. TypeOK /\ [Next]_vars => [Spares]_vars
  <2> SUFFICES ASSUME TypeOK, Next, NEW i \in Instances, NEW k \in Keys,
                      index[i][k] # 0, index'[i][k] = 0, sw[i].pc = "evicting",
                      sw'[i] # sw[i], up'[i]
               PROVE  <<k, index[i][k]>> \in sw[i].oldest
    OBVIOUS
  <2>1. ~Crash(i) /\ ~TwelveHours(i)
    BY DEF Crash, TwelveHours, TypeOK
  <2>2. Sweeping(i)
    BY <2>1, StepFrames DEF StepFrame, SweeperRests
  <2>3. PICK v \in sw[i].oldest, ok \in BOOLEAN : EvictOne(i, v, ok)
    <3>1. ~BatchEnds(i) /\ ~SweepEnds(i)
      BY DEF BatchEnds, SweepEnds, storeVars
    <3>2. QED
      BY <2>2, <3>1 DEF Sweeping, Reconciling, Tailing, Evicting, Tick, ReadMax,
         Snapshot, Lookup,
                        Reconciled, DropVictim, ReadTail, Applied, Apply, EvictSnapshot,
                        SweepReadFails, At
  <2>4. v[1] \in Keys /\ v = <<v[1], v[2]>>
    BY SweepFields
  <2>5. DropGen(i, v[1], v[2], ok)
    BY <2>3 DEF EvictOne
  <2>6. index[i][v[1]] = v[2] /\ Remove(i, v[1])
    BY <2>5 DEF DropGen, Drop, storeVars
  <2>7. k = v[1]
    BY <2>4, <2>6 DEF Remove, TypeOK
  <2>8. QED
    BY <2>4, <2>6, <2>7
<1>2. QED
  BY <1>1, TypeCorrect, PTL DEF Spec, EvictionSparesFresh

-----------------------------------------------------------------------------
(* Bytes.                                                                   *)

\* The size of a set of objects is a number.
LEMMA SizeType ==
    ASSUME NEW ks \in SUBSET Keys
    PROVE  /\ TotalSize(ks) \in Nat
           /\ IsFiniteSet(UNION {{k} \X (1..Size[k]) : k \in ks})
<1> DEFINE part(k) == {k} \X (1..Size[k])
           parts == {part(k) : k \in ks}
           pick == [k \in ks |-> part(k)]
<1>1. IsFiniteSet(ks)
  BY CacheAssumption, FS_Subset
<1>2. pick \in Surjection(ks, parts)
  BY DEF Surjection
<1>3. IsFiniteSet(parts)
  BY <1>1, <1>2, FS_Surjection
<1>4. ASSUME NEW k \in ks  PROVE IsFiniteSet(part(k))
  <2>1. Size[k] \in Int  BY CacheAssumption
  <2>2. IsFiniteSet(1..Size[k])  BY <2>1, FS_Interval
  <2>3. QED  BY <2>2, FS_Singleton, FS_Product
<1>5. IsFiniteSet(UNION parts)
  <2>1. \A T \in parts : IsFiniteSet(T)  BY <1>4
  <2> HIDE DEF parts
  <2>2. QED  BY <1>3, <2>1, FS_UNION
<1>6. QED  BY <1>5, FS_CardinalityType DEF TotalSize

\* One more object adds its size.
LEMMA SizeAdd ==
    ASSUME NEW ks \in SUBSET Keys, NEW k \in Keys, k \notin ks
    PROVE  TotalSize(ks \cup {k}) = TotalSize(ks) + Size[k]
<1> DEFINE own == {k} \X (1..Size[k])
           old == UNION {{l} \X (1..Size[l]) : l \in ks}
           n == Size[k]
<1>1. n \in Nat  BY CacheAssumption
<1>2. IsFiniteSet(own) /\ Cardinality(own) = n
  <2>1. IsFiniteSet(1..n) /\ Cardinality(1..n) = n
    <3> HIDE DEF n
    <3>1. IsFiniteSet(1..n) /\ Cardinality(1..n) = IF 1 > n THEN 0 ELSE n - 1 + 1
      BY <1>1, FS_Interval
    <3>2. QED  BY <1>1, <3>1
  <2>2. IsFiniteSet({k}) /\ Cardinality({k}) = 1
    BY FS_Singleton
  <2>3. Cardinality(own) = 1 * n /\ IsFiniteSet(own)
    BY <2>1, <2>2, FS_Product
  <2> HIDE DEF n, own
  <2>4. QED  BY <1>1, <2>3
<1>3. UNION {{l} \X (1..Size[l]) : l \in ks \cup {k}} = old \cup own
  OBVIOUS
<1>4. old \cap own = {}
  OBVIOUS
<1>5. IsFiniteSet(old) /\ Cardinality(old) \in Nat /\ Cardinality(old) = TotalSize(ks)
  BY SizeType DEF TotalSize
<1>6. TotalSize(ks \cup {k}) = Cardinality(old \cup own)
  BY <1>3 DEF TotalSize
<1> HIDE DEF own, old, n
<1>7. Cardinality(old \cup own) = Cardinality(old) + Cardinality(own) - Cardinality(old \cap own)
  BY <1>2, <1>5, FS_Union
<1>8. Cardinality(old \cap own) = 0
  BY <1>4, FS_EmptySet
<1>9. TotalSize(ks \cup {k}) = TotalSize(ks) + n
  BY <1>1, <1>2, <1>5, <1>6, <1>7, <1>8
<1>10. QED  BY <1>9 DEF n

\* An object's share of the size of a set that may list it, and the size without it.
LEMMA SizeRemove ==
    ASSUME NEW ks \in SUBSET Keys, NEW k \in Keys
    PROVE  /\ TotalSize(ks \ {k}) = TotalSize(ks) - (IF k \in ks THEN Size[k] ELSE 0)
           /\ TotalSize(ks \cup {k}) = TotalSize(ks) + Size[k] - (IF k \in ks THEN Size[k] ELSE 0)
           /\ TotalSize(ks \ {k}) <= TotalSize(ks)
<1> DEFINE n == Size[k]
           all == TotalSize(ks)
           less == TotalSize(ks \ {k})
           more == TotalSize(ks \cup {k})
<1>1. n \in Nat /\ all \in Nat /\ less \in Nat /\ more \in Nat
  BY CacheAssumption, SizeType
<1>2. k \in ks => all = less + n /\ more = all
  <2> SUFFICES ASSUME k \in ks PROVE all = less + n /\ more = all
    OBVIOUS
  <2>1. TotalSize((ks \ {k}) \cup {k}) = TotalSize(ks \ {k}) + Size[k]
    BY SizeAdd
  <2>2. (ks \ {k}) \cup {k} = ks /\ ks \cup {k} = ks
    OBVIOUS
  <2>3. QED  BY <2>1, <2>2
<1>3. k \notin ks => more = all + n /\ less = all
  <2> SUFFICES ASSUME k \notin ks PROVE more = all + n /\ less = all
    OBVIOUS
  <2>1. TotalSize(ks \cup {k}) = TotalSize(ks) + Size[k]
    BY SizeAdd
  <2>2. ks \ {k} = ks
    OBVIOUS
  <2>3. QED  BY <2>1, <2>2
<1> HIDE DEF n, all, less, more
<1>4. /\ less = all - (IF k \in ks THEN n ELSE 0)
      /\ more = all + n - (IF k \in ks THEN n ELSE 0)
      /\ less <= all
  BY <1>1, <1>2, <1>3
<1>5. QED  BY <1>4 DEF n, all, less, more

\* What a step may do to the stores: nothing, unlink one object, promote one that
\* fits, lose the memory of one instance, or scan one directory.
StoreMove ==
    \/ UNCHANGED storeVars
    \/ \E i \in Instances, k \in Keys : Remove(i, k)
    \/ \E i \in Instances, k \in Keys : Fits(i, k) /\ Promote(i, k)
    \/ \E i \in Instances : Crash(i)
    \/ \E i \in Instances, found \in SUBSET Keys : Boot(i, found)

\* A purge, with or without a generation, unlinks one object or nothing.
LEMMA DropMoves ==
    ASSUME NEW i \in Instances, NEW k \in Keys, NEW gen, NEW done \in BOOLEAN,
           Drop(i, k, done) \/ DropGen(i, k, gen, done)
    PROVE  StoreMove
BY DEF Drop, DropGen, StoreMove

\* Every step moves the stores in one of these ways.
LEMMA StepMoves ==
    ASSUME TypeOK, RequestsHaveRows, [Next]_vars
    PROVE  StoreMove
<1>1. CASE UNCHANGED storeVars
  BY <1>1 DEF StoreMove
<1>2. CASE Serving \/ Operating
  BY <1>1, <1>2 DEF Serving, Operating, Complete, Download, DeleteBegin, MarkPublished, Prune,
                    SetPrivate, DisableCache
<1>3. ASSUME NEW p \in Requests, Filling(p)  PROVE StoreMove
  <2>1. req[p] \in Request /\ KeyOf[req[p].u] \in Keys /\ (req[p].pc # "idle" => req[p].i \in Instances)
    BY CacheAssumption DEF TypeOK, Request, RequestsHaveRows
  <2>2. CASE Open(p)
    <3>1. req[p].i \in Instances  BY <2>1, <2>2 DEF Open
    <3>2. CASE KeyOf[req[p].u] \in disk[req[p].i]
      BY <1>1, <2>2, <3>2 DEF Open
    <3>3. CASE KeyOf[req[p].u] \notin disk[req[p].i]
      <4>1. DropGen(req[p].i, KeyOf[req[p].u], req[p].gen, TRUE)
        BY <2>2, <3>3 DEF Open
      <4>2. QED  BY <2>1, <3>1, <4>1, DropMoves
    <3>4. QED  BY <3>2, <3>3
  <2>3. CASE PromoteFetched(p)
    BY <2>1, <2>3 DEF PromoteFetched, StoreMove
  <2>4. ASSUME NEW ok \in BOOLEAN, Undo(p, ok)  PROVE StoreMove
    <3>1. req[p].i \in Instances /\ Drop(req[p].i, KeyOf[req[p].u], ok)
      BY <2>1, <2>4 DEF Undo
    <3>2. QED  BY <2>1, <3>1, DropMoves
  <2>5. CASE NotPromoted(p) \/ \E ok \in BOOLEAN : Verify(p, ok)
    BY <1>1, <2>5 DEF NotPromoted, Verify
  <2>6. QED  BY <1>3, <2>2, <2>3, <2>4, <2>5 DEF Filling
<1>4. ASSUME NEW u \in Uploads, Deleting(u)  PROVE StoreMove
  <2>1. KeyOf[u] \in Keys  BY CacheAssumption
  <2>2. ASSUME NEW ok \in BOOLEAN, DeletePurge(u, ok) \/ DeletePurgeAgain(u, ok)  PROVE StoreMove
    <3>1. DropAt(del[u].i, KeyOf[u], ok)
      BY <2>2 DEF DeletePurge, DeletePurgeAgain
    <3>2. QED  BY <1>1, <2>1, <3>1, DropMoves DEF DropAt
  <2>3. CASE DeleteInsert(u) \/ DeleteCommit(u) \/ DeleteRefused(u)
    BY <1>1, <2>3 DEF DeleteInsert, DeleteCommit, DeleteRefused
  <2>4. QED  BY <1>4, <2>2, <2>3 DEF Deleting
<1>5. ASSUME NEW i \in Instances, Sweeping(i)  PROVE StoreMove
  <2>1. ASSUME NEW k \in Keys, NEW ok \in BOOLEAN, DropVictim(i, k, ok)  PROVE StoreMove
    BY <2>1, DropMoves DEF DropVictim
  <2>2. ASSUME NEW e \in sw[i].entries, NEW ok \in BOOLEAN, Apply(i, e, ok)  PROVE StoreMove
    <3>1. e.key \in Keys  BY SweepFields DEF Entry
    <3>2. QED  BY <2>2, <3>1, DropMoves DEF Apply
  <2>3. ASSUME NEW v \in sw[i].oldest, NEW ok \in BOOLEAN, EvictOne(i, v, ok)  PROVE StoreMove
    <3>1. v[1] \in Keys  BY SweepFields
    <3>2. QED  BY <2>3, <3>1, DropMoves DEF EvictOne
  <2>4. CASE \/ Tick(i) \/ SweepReadFails(i) \/ Snapshot(i) \/ Lookup(i) \/ Reconciled(i)
             \/ ReadTail(i) \/ Applied(i) \/ EvictSnapshot(i) \/ BatchEnds(i) \/ SweepEnds(i)
             \/ \E m \in {0} \cup {e.id : e \in log} : ReadMax(i, m)
    BY <1>1, <2>4 DEF Tick, SweepReadFails, Snapshot, Lookup, Reconciled, ReadTail, Applied,
                      EvictSnapshot, BatchEnds, SweepEnds, ReadMax
  <2>5. QED  BY <1>5, <2>1, <2>2, <2>3, <2>4 DEF Sweeping, Reconciling, Tailing, Evicting
<1>6. ASSUME NEW i \in Instances, Running(i)  PROVE StoreMove
  BY <1>1, <1>6 DEF Running, TwelveHours, StoreMove
<1>7. CASE UNCHANGED vars
  BY <1>1, <1>7 DEF vars, storeVars
<1>8. QED  BY <1>2, <1>3, <1>4, <1>5, <1>6, <1>7 DEF Next

\* The books of one instance: what Accounted says, and that its directory fits.
Books(i) ==
    /\ Indexed(i) \subseteq disk[i]
    /\ ready[i] => Indexed(i) = disk[i]
    /\ bytes[i] = TotalSize(Indexed(i))
    /\ TotalSize(disk[i]) <= Budget

BooksInv == \A i \in Instances : Books(i)

\* An unlink takes the object out of directory, index and total.
LEMMA RemoveBooks ==
    ASSUME TypeOK, BooksInv, NEW i \in Instances, NEW k \in Keys, Remove(i, k)
    PROVE  BooksInv'
<1> SUFFICES ASSUME NEW j \in Instances PROVE Books(j)'
  BY DEF BooksInv
<1>1. ready' = ready /\ \A l \in Keys : index'[j][l] = IF j = i /\ l = k THEN 0 ELSE index[j][l]
  BY DEF Remove, TypeOK
<1>2. CASE j # i
  <2>1. disk'[j] = disk[j] /\ bytes'[j] = bytes[j]
    BY <1>2 DEF Remove, TypeOK
  <2>2. Indexed(j)' = Indexed(j)
    BY <1>1, <1>2 DEF Indexed
  <2>3. QED  BY <1>1, <2>1, <2>2 DEF BooksInv, Books
<1>3. CASE j = i
  <2>1. disk'[i] = disk[i] \ {k} /\ bytes'[i] = bytes[i] - SizeIn(i, k)
    BY DEF Remove, TypeOK
  <2>2. Indexed(i)' = Indexed(i) \ {k}
    BY <1>1, <1>3 DEF Indexed
  <2>3. SizeIn(i, k) = IF k \in Indexed(i) THEN Size[k] ELSE 0
    BY DEF SizeIn, Indexed
  <2>4. Indexed(i) \in SUBSET Keys /\ disk[i] \in SUBSET Keys
    BY DEF Indexed, TypeOK
  <2>5. bytes'[i] = TotalSize(Indexed(i)')
    <3>1. TotalSize(Indexed(i) \ {k}) = TotalSize(Indexed(i)) - (IF k \in Indexed(i) THEN Size[k] ELSE 0)
      BY <2>4, SizeRemove
    <3>2. bytes[i] = TotalSize(Indexed(i))
      BY DEF BooksInv, Books
    <3>3. bytes'[i] = TotalSize(Indexed(i)) - (IF k \in Indexed(i) THEN Size[k] ELSE 0)
      BY <2>1, <2>3, <3>2
    <3>4. bytes'[i] = TotalSize(Indexed(i) \ {k})
      BY <3>1, <3>3, Zenon
    <3>5. QED  BY <2>2, <3>4, Zenon
  <2>6. TotalSize(disk'[i]) <= Budget
    <3>1. TotalSize(disk[i] \ {k}) <= TotalSize(disk[i]) /\ TotalSize(disk[i]) <= Budget
      BY <2>4, SizeRemove DEF BooksInv, Books
    <3>2. TotalSize(disk[i] \ {k}) \in Nat /\ TotalSize(disk[i]) \in Nat /\ Budget \in Nat
      BY <2>4, SizeType, CacheAssumption
    <3>3. QED  BY <2>1, <3>1, <3>2
  <2>7. QED  BY <1>1, <1>3, <2>1, <2>2, <2>5, <2>6 DEF BooksInv, Books
<1>4. QED  BY <1>2, <1>3

\* A promotion that fits: the store is ready, so its total is the size of the
\* directory, and the object it replaces is counted once.
LEMMA PromoteBooks ==
    ASSUME TypeOK, BooksInv, NEW i \in Instances, NEW k \in Keys, Fits(i, k), Promote(i, k)
    PROVE  BooksInv'
<1> SUFFICES ASSUME NEW j \in Instances PROVE Books(j)'
  BY DEF BooksInv
<1>1. ready' = ready
  BY DEF Promote
<1>2. \A l \in Keys : index'[j][l] = IF j = i /\ l = k THEN genSeq[j] + 1 ELSE index[j][l]
  BY DEF Promote, TypeOK
<1>3. CASE j # i
  <2>1. disk'[j] = disk[j] /\ bytes'[j] = bytes[j]
    BY <1>3 DEF Promote, TypeOK
  <2>2. Indexed(j)' = Indexed(j)
    BY <1>2, <1>3 DEF Indexed
  <2>3. QED  BY <1>1, <2>1, <2>2 DEF BooksInv, Books
<1>4. CASE j = i
  <2>1. disk'[i] = disk[i] \cup {k} /\ bytes'[i] = bytes[i] + Size[k] - SizeIn(i, k)
    BY DEF Promote, TypeOK
  <2>2. genSeq[i] + 1 # 0
    BY DEF TypeOK
  <2>3. Indexed(i)' = Indexed(i) \cup {k}
    BY <1>2, <1>4, <2>2 DEF Indexed
  <2>4. SizeIn(i, k) = IF k \in Indexed(i) THEN Size[k] ELSE 0
    BY DEF SizeIn, Indexed
  <2>5. Indexed(i) \in SUBSET Keys /\ Indexed(i) = disk[i] /\ bytes[i] = TotalSize(Indexed(i))
    BY DEF Indexed, BooksInv, Books, Fits
  <2>6. bytes'[i] = TotalSize(Indexed(i) \cup {k})
    <3>1. TotalSize(Indexed(i) \cup {k})
            = TotalSize(Indexed(i)) + Size[k] - (IF k \in Indexed(i) THEN Size[k] ELSE 0)
      BY <2>5, SizeRemove
    <3>2. bytes'[i] = TotalSize(Indexed(i)) + Size[k] - (IF k \in Indexed(i) THEN Size[k] ELSE 0)
      BY <2>1, <2>4, <2>5, Zenon
    <3>3. QED  BY <3>1, <3>2, Zenon
  <2>7. bytes'[i] <= Budget
    BY <2>1 DEF Fits
  <2>8. QED  BY <1>1, <1>4, <2>1, <2>3, <2>5, <2>6, <2>7 DEF Books
<1>5. QED  BY <1>3, <1>4

\* A crash forgets the index and leaves the directory.
LEMMA CrashBooks ==
    ASSUME TypeOK, BooksInv, NEW i \in Instances, Crash(i)
    PROVE  BooksInv'
<1> SUFFICES ASSUME NEW j \in Instances PROVE Books(j)'
  BY DEF BooksInv
<1>1. disk' = disk  BY DEF Crash
<1>2. CASE j # i
  <2>1. bytes'[j] = bytes[j] /\ index'[j] = index[j] /\ ready'[j] = ready[j]
    BY <1>2 DEF Crash, TypeOK
  <2>2. Indexed(j)' = Indexed(j)
    BY <2>1 DEF Indexed
  <2>3. QED  BY <1>1, <2>1, <2>2 DEF BooksInv, Books
<1>3. CASE j = i
  <2>1. bytes'[i] = 0 /\ ~ ready'[i] /\ index'[i] = [k \in Keys |-> 0]
    BY DEF Crash, TypeOK
  <2>2. Indexed(i)' = {}
    BY <2>1 DEF Indexed
  <2>3. TotalSize({}) = 0
    BY FS_EmptySet DEF TotalSize
  <2>4. QED  BY <1>1, <1>3, <2>1, <2>2, <2>3 DEF BooksInv, Books
<1>4. QED  BY <1>2, <1>3

\* A scan indexes what it found, and is ready only if that was everything.
LEMMA BootBooks ==
    ASSUME TypeOK, BooksInv, NEW i \in Instances, NEW found \in SUBSET Keys, Boot(i, found)
    PROVE  BooksInv'
<1> SUFFICES ASSUME NEW j \in Instances PROVE Books(j)'
  BY DEF BooksInv
<1>1. disk' = disk  BY DEF Boot
<1>2. CASE j # i
  <2>1. bytes'[j] = bytes[j] /\ index'[j] = index[j] /\ ready'[j] = ready[j]
    BY <1>2 DEF Boot, TypeOK
  <2>2. Indexed(j)' = Indexed(j)
    BY <2>1 DEF Indexed
  <2>3. QED  BY <1>1, <2>1, <2>2 DEF BooksInv, Books
<1>3. CASE j = i
  <2>1. PICK order \in [found -> 1..Cardinality(found)] :
           index' = [index EXCEPT ![i] = [k \in Keys |-> IF k \in found THEN order[k] ELSE 0]]
    BY DEF Boot
  <2>2. Cardinality(found) \in Nat
    BY CacheAssumption, FS_Subset, FS_CardinalityType
  <2>3. \A k \in found : order[k] # 0
    BY <2>2
  <2>4. Indexed(i)' = found
    BY <2>1, <2>3 DEF Indexed, TypeOK
  <2>5. bytes'[i] = TotalSize(found) /\ found \subseteq disk[i]
    BY DEF Boot, TypeOK
  <2>6. ready'[i] => found = disk[i]
    BY DEF Boot, TypeOK
  <2>7. QED  BY <1>1, <1>3, <2>4, <2>5, <2>6 DEF BooksInv, Books
<1>4. QED  BY <1>2, <1>3

\* The books are kept from the start, by every step.
LEMMA BooksKept ==
    /\ Init => BooksInv
    /\ TypeOK /\ RequestsHaveRows /\ BooksInv /\ [Next]_vars => BooksInv'
<1>1. ASSUME Init PROVE BooksInv
  <2>1. TotalSize({}) = 0
    BY FS_EmptySet DEF TotalSize
  <2>2. \A i \in Instances : Indexed(i) = {} /\ disk[i] = {} /\ bytes[i] = 0
    BY <1>1 DEF Init, Indexed
  <2>3. \A i \in Instances : TotalSize(Indexed(i)) = 0 /\ TotalSize(disk[i]) = 0
    BY <2>1, <2>2, Zenon
  <2>4. 0 <= Budget  BY CacheAssumption
  <2>5. QED  BY <2>2, <2>3, <2>4 DEF BooksInv, Books
<1>2. ASSUME TypeOK, RequestsHaveRows, BooksInv, [Next]_vars PROVE BooksInv'
  <2>1. CASE UNCHANGED storeVars
    BY <1>2, <2>1 DEF storeVars, BooksInv, Books, Indexed
  <2>2. QED
    BY <1>2, <2>1, StepMoves, RemoveBooks, PromoteBooks, CrashBooks, BootBooks DEF StoreMove
<1>3. QED  BY <1>1, <1>2

\* Types, books and the requests' rows hold together in every behaviour.
LEMMA BooksHold == Spec => [](TypeOK /\ RequestsHaveRows /\ BooksInv)
<1>1. TypeOK /\ RequestsHaveRows /\ [Next]_vars => (TypeOK /\ RequestsHaveRows)'
  <2>1. CASE Next
    BY <2>1, TypeStep, RowsStep
  <2>2. CASE UNCHANGED vars
    BY <2>2 DEF TypeOK, RequestsHaveRows, vars, dbVars, storeVars, markVars, envVars
  <2>3. QED
    BY <2>1, <2>2
<1>2. QED
  BY <1>1, BooksKept, TypeAtInit, PTL DEF Spec

\* The index never loses a file and the running total is the size of what it
\* lists, for every number of instances, requests, failed unlinks, partial scans
\* and restarts (Store.Drop, Scan, PromoteIfFits).
THEOREM IndexIsAccounted == Spec => []Accounted
<1>1. BooksInv => Accounted
  BY DEF BooksInv, Books, Accounted
<1>2. QED  BY <1>1, BooksHold, PTL

\* No directory ever grows beyond the budget, whatever the boot scans missed.
THEOREM BudgetIsKept == Spec => []DiskWithinBudget
<1>1. BooksInv => DiskWithinBudget
  BY DEF BooksInv, Books, DiskWithinBudget
<1>2. QED  BY <1>1, BooksHold, PTL
=============================================================================
