--------------------------- MODULE DownloadFlight ---------------------------
(***************************************************************************)
(* How the downloads of one instance wait for each other.  DownloadUpload  *)
(* (handlers/uploads.go) lets concurrent misses of one object share a fill *)
(* (downloadcache/flight.go): a leader fetches, the others wait for it and *)
(* look in the cache again.  Whoever fetches first takes a slot of the     *)
(* download gate (handlers/download_gate.go), whose limit an operator may  *)
(* change at any time, and keeps it until the response is written.         *)
(*                                                                         *)
(* A closed channel is modelled by the flag `woken` of everybody who had   *)
(* taken it.  What the cache holds is a set of keys: DownloadCache has the *)
(* store, the sweeper and the deletions.                                   *)
(***************************************************************************)
EXTENDS Integers, FiniteSets, FiniteSetsExt

CONSTANTS
    Requests,      \* goroutines that serve downloads
    Keys,          \* objects
    Limits,        \* values of max_concurrent_downloads
    MaxRounds,     \* maxFillRounds (4 in the code)
    MaxArrivals,   \* bound on downloads for each goroutine
    MaxChanges,    \* bound on changes of the limit
    MaxEvictions,  \* bound on evictions
    None           \* nobody leads the fill

ASSUME FlightAssumption ==
    /\ Limits \subseteq Nat \ {0} /\ Limits # {}
    /\ MaxRounds \in Nat /\ MaxArrivals \in Nat /\ MaxChanges \in Nat /\ MaxEvictions \in Nat
    /\ None \notin Requests /\ IsFiniteSet(Requests)

VARIABLES
    r,          \* each request's place in DownloadUpload and its local variables
    inflight,   \* Flight.inflight: who leads the fill of a key
    inFlight,   \* downloadGate.inFlight
    limit,      \* the setting max_concurrent_downloads
    cached,     \* the keys the store would open
    arrivals, changes, evictions

bounds == <<arrivals, changes, evictions>>
vars == <<r, inflight, inFlight, limit, cached, bounds>>

\* key: the object.  promotes: cacheKey is still set.  leads: flights.Finish is
\* deferred.  slot: a gate slot is held.  lim: the limit the gate last read.
Gone == [pc |-> "gone", key |-> None, promotes |-> FALSE, leads |-> FALSE, round |-> 0,
         woken |-> FALSE, slot |-> FALSE, lim |-> 0]

Init ==
    /\ r = [q \in Requests |-> Gone]
    /\ inflight = [k \in Keys |-> None]
    /\ inFlight = 0
    /\ limit \in Limits
    /\ cached = {}
    /\ arrivals = [q \in Requests |-> 0] /\ changes = 0 /\ evictions = 0

At(q, l) == r[q].pc = l
Goto(q, l) == r' = [r EXCEPT ![q].pc = l]

\* A download that is neither refused nor answered by its ETag.  Only an object
\* the cache may hold is looked for there.
DownloadUpload(q, k, eligible) ==
    /\ At(q, "gone") /\ arrivals[q] < MaxArrivals
    /\ arrivals' = [arrivals EXCEPT ![q] = @ + 1]
    /\ r' = [r EXCEPT ![q] = [Gone EXCEPT !.pc = IF eligible THEN "open" ELSE "limit",
                                          !.key = k, !.promotes = eligible]]
    /\ UNCHANGED <<inflight, inFlight, limit, cached, changes, evictions>>

-----------------------------------------------------------------------------
(* Sharing a fill *)

Open(q) ==
    /\ At(q, "open")
    /\ Goto(q, IF r[q].key \in cached THEN "leave" ELSE "begin")
    /\ UNCHANGED <<inflight, inFlight, limit, cached, bounds>>

\* Begin: the first one leads; the others wait, unless they have waited for
\* too many fills already.
Begin(q) ==
    LET k == r[q].key IN
    /\ At(q, "begin")
    /\ \/ /\ inflight[k] = None
          /\ inflight' = [inflight EXCEPT ![k] = q]
          /\ r' = [r EXCEPT ![q].leads = TRUE, ![q].pc = "limit"]
       \/ /\ inflight[k] # None /\ r[q].round >= MaxRounds
          /\ r' = [r EXCEPT ![q].promotes = FALSE, ![q].pc = "limit"]
          /\ UNCHANGED inflight
       \/ /\ inflight[k] # None /\ r[q].round < MaxRounds
          /\ r' = [r EXCEPT ![q].pc = "follow", ![q].woken = FALSE]
          /\ UNCHANGED inflight
    /\ UNCHANGED <<inFlight, limit, cached, bounds>>

FillEnded(q) ==
    /\ At(q, "follow") /\ r[q].woken
    /\ r' = [r EXCEPT ![q].pc = "open", ![q].round = @ + 1]
    /\ UNCHANGED <<inflight, inFlight, limit, cached, bounds>>

\* Mutant: a follower that gave up still promotes.
MutFillTimeout(q) ==
    /\ At(q, "follow")
    /\ r' = [r EXCEPT ![q].pc = "limit"]
    /\ UNCHANGED <<inflight, inFlight, limit, cached, bounds>>

\* A follower whose time is up fetches for itself and never promotes.
FillTimeout(q) ==
    /\ At(q, "follow")
    /\ r' = [r EXCEPT ![q].promotes = FALSE, ![q].pc = "limit"]
    /\ UNCHANGED <<inflight, inFlight, limit, cached, bounds>>

-----------------------------------------------------------------------------
(* The gate *)

\* limitFn is called outside the mutex, afresh for every attempt.
ReadLimit(q) ==
    /\ At(q, "limit")
    /\ r' = [r EXCEPT ![q].lim = limit, ![q].pc = "acquire"]
    /\ UNCHANGED <<inflight, inFlight, limit, cached, bounds>>

\* Under the mutex: a slot, or the channel that the next release closes.
acquire(q) ==
    /\ At(q, "acquire")
    /\ IF inFlight < r[q].lim
       THEN inFlight' = inFlight + 1 /\ r' = [r EXCEPT ![q].slot = TRUE, ![q].pc = "recheck"]
       ELSE r' = [r EXCEPT ![q].woken = FALSE, ![q].pc = "parked"] /\ UNCHANGED inFlight
    /\ UNCHANGED <<inflight, limit, cached, bounds>>

Retry(q) ==
    /\ At(q, "parked") /\ r[q].woken
    /\ Goto(q, "limit")
    /\ UNCHANGED <<inflight, inFlight, limit, cached, bounds>>

\* The wait is over, or the client has gone: downloads_saturated.
Saturated(q) ==
    /\ At(q, "parked")
    /\ Goto(q, "leave")
    /\ UNCHANGED <<inflight, inFlight, limit, cached, bounds>>

\* A channel is closed: those who have taken it can go on.
Woken(from) == [q \in Requests |-> [r[q] EXCEPT !.woken = @ \/ q \in from]]
Parked == {q \in Requests : At(q, "parked")}

\* Mutant: the channel is not closed.
MutRelease(q, l) ==
    /\ inFlight' = inFlight - 1
    /\ r' = [r EXCEPT ![q].slot = FALSE, ![q].pc = l]

\* release closes the channel that everybody parked has taken.
release(q, l) ==
    /\ inFlight' = inFlight - 1
    /\ r' = [Woken(Parked) EXCEPT ![q].slot = FALSE, ![q].pc = l]

-----------------------------------------------------------------------------
(* Fetching *)

\* Mutant: the hit is served and the slot forgotten.
MutRecheckHit(q) ==
    /\ At(q, "recheck") /\ r[q].promotes /\ r[q].key \in cached
    /\ r' = [r EXCEPT ![q].slot = FALSE, ![q].pc = "leave"]
    /\ UNCHANGED <<inflight, inFlight, limit, cached, bounds>>

\* The object came while this request waited: the slot goes back before the hit
\* is served.
RecheckHit(q) ==
    /\ At(q, "recheck") /\ r[q].promotes /\ r[q].key \in cached
    /\ release(q, "leave")
    /\ UNCHANGED <<inflight, limit, cached, bounds>>

RecheckMiss(q) ==
    /\ At(q, "recheck") /\ ~(r[q].promotes /\ r[q].key \in cached)
    /\ Goto(q, "fetch")
    /\ UNCHANGED <<inflight, inFlight, limit, cached, bounds>>

FetchFails(q) ==
    /\ At(q, "fetch")
    /\ Goto(q, "leave")
    /\ UNCHANGED <<inflight, inFlight, limit, cached, bounds>>

\* The bytes are kept, or not: min_uses, the size, the budget, no scan yet.
Fetched(q, kept) ==
    /\ At(q, "fetch")
    /\ kept => r[q].promotes
    /\ cached' = IF kept THEN cached \cup {r[q].key} ELSE cached
    /\ Goto(q, "serve")
    /\ UNCHANGED <<inflight, inFlight, limit, bounds>>

\* ServeContent, for as long as the client reads.
Serve(q) ==
    /\ At(q, "serve")
    /\ Goto(q, "leave")
    /\ UNCHANGED <<inflight, inFlight, limit, cached, bounds>>

\* The client goes away while this request waits for a fill.
Disconnect(q) ==
    /\ At(q, "follow")
    /\ Goto(q, "leave")
    /\ UNCHANGED <<inflight, inFlight, limit, cached, bounds>>

-----------------------------------------------------------------------------
(* The deferred calls, last registered first *)

Release(q) ==
    /\ At(q, "leave") /\ r[q].slot
    /\ release(q, "leave")
    /\ UNCHANGED <<inflight, limit, cached, bounds>>

Followers(k) == {q \in Requests : At(q, "follow") /\ r[q].key = k}

Finish(q) ==
    /\ At(q, "leave") /\ ~r[q].slot /\ r[q].leads
    /\ inflight' = [inflight EXCEPT ![r[q].key] = None]
    /\ r' = [Woken(Followers(r[q].key)) EXCEPT ![q] = Gone]
    /\ UNCHANGED <<inFlight, limit, cached, bounds>>

Return(q) ==
    /\ At(q, "leave") /\ ~r[q].slot /\ ~r[q].leads
    /\ r' = [r EXCEPT ![q] = Gone]
    /\ UNCHANGED <<inflight, inFlight, limit, cached, bounds>>

-----------------------------------------------------------------------------
ChangeLimit(n) ==
    /\ changes < MaxChanges /\ n # limit
    /\ limit' = n /\ changes' = changes + 1
    /\ UNCHANGED <<r, inflight, inFlight, cached, arrivals, evictions>>

Evict(k) ==
    /\ evictions < MaxEvictions /\ k \in cached
    /\ cached' = cached \ {k} /\ evictions' = evictions + 1
    /\ UNCHANGED <<r, inflight, inFlight, limit, arrivals, changes>>

\* What a request does without anybody's patience running out.
Progress(q) ==
    \/ Open(q) \/ Begin(q) \/ FillEnded(q)
    \/ ReadLimit(q) \/ acquire(q) \/ Retry(q)
    \/ RecheckHit(q) \/ RecheckMiss(q) \/ FetchFails(q)
    \/ \E kept \in BOOLEAN : Fetched(q, kept)
    \/ Serve(q) \/ Release(q) \/ Finish(q) \/ Return(q)

Next ==
    \/ \E q \in Requests :
        \/ Progress(q) \/ FillTimeout(q) \/ Saturated(q) \/ Disconnect(q)
        \/ \E k \in Keys, eligible \in BOOLEAN : DownloadUpload(q, k, eligible)
    \/ \E n \in Limits : ChangeLimit(n)
    \/ \E k \in Keys : Evict(k)

Spec == Init /\ [][Next]_vars

\* Goroutines are scheduled, a fetch ends by its timeout and a response by the
\* server's.  Nothing is assumed of the waiting times: no timer need ever fire.
FairSpec == Spec /\ \A q \in Requests : WF_vars(Progress(q))

-----------------------------------------------------------------------------
(* Properties *)

TypeOK ==
    /\ r \in [Requests -> [pc : {"gone", "open", "begin", "follow", "limit", "acquire", "parked",
                                 "recheck", "fetch", "serve", "leave"},
                           key : Keys \cup {None}, promotes : BOOLEAN, leads : BOOLEAN,
                           round : 0..MaxRounds, woken : BOOLEAN, slot : BOOLEAN,
                           lim : Limits \cup {0}]]
    /\ inflight \in [Keys -> Requests \cup {None}]
    /\ inFlight \in Nat /\ limit \in Limits /\ cached \subseteq Keys
    /\ arrivals \in [Requests -> 0..MaxArrivals]
    /\ changes \in 0..MaxChanges /\ evictions \in 0..MaxEvictions

Holders == {q \in Requests : r[q].slot}

\* The gate counts exactly the requests that hold a slot, on every path out of
\* DownloadUpload, and they are never more than the largest limit one of them
\* was admitted under, however the limit is lowered meanwhile (acquire, release:
\* "every true return must be paired with exactly one release").
SlotsBounded ==
    /\ inFlight = Cardinality(Holders)
    /\ Holders # {} => inFlight <= Max({r[q].lim : q \in Holders})

\* At most one request at a time fetches an object in order to keep it, and
\* whoever waits for a fill waits for one whose leader is still at work: a
\* follower that gave up does not promote ("a timed-out waiter caching its
\* response reintroduces the stampede"), and no leader leaves without Finish.
Filling(q) == r[q].promotes /\ r[q].pc \in {"limit", "acquire", "parked", "recheck", "fetch"}

OneFill ==
    \A k \in Keys :
        /\ \A p, q \in Requests :
             (Filling(p) /\ Filling(q) /\ r[p].key = k /\ r[q].key = k) => p = q
        /\ \A q \in Followers(k) : ~r[q].woken => inflight[k] # None
        /\ inflight[k] # None => r[inflight[k]].leads /\ r[inflight[k]].key = k

\* Fills and slots never wait for each other in a circle, and no wake-up is
\* lost: every download is answered although no timer fires, whichever fetches
\* fail and however the limit changes (Flight.Finish, downloadGate.release).
Answered == \A q \in Requests : r[q].pc # "gone" ~> r[q].pc = "gone"
=============================================================================
