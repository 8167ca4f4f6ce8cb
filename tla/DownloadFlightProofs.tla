------------------------ MODULE DownloadFlightProofs ------------------------
(***************************************************************************)
(* That fills are shared and slots counted (DownloadFlight), for any number *)
(* of requests, keys, limits and rounds.                                    *)
(*                                                                          *)
(* OneFill needs to know where leadership comes from: only Begin gives it,  *)
(* the map and the flag agree on it, and whoever still means to promote on  *)
(* its way to a fetch has it.  SlotsBounded needs more than itself: when    *)
(* the request with the largest limit returns its slot, the others must     *)
(* fit under theirs, so the inductive form counts, for every number m, the  *)
(* holders that were admitted under a limit of at most m.                   *)
(***************************************************************************)
EXTENDS DownloadFlight, FiniteSetTheorems, WellFoundedInduction, TLAPS

Places == {"gone", "open", "begin", "follow", "limit", "acquire", "parked",
           "recheck", "fetch", "serve", "leave"}

Request == [pc : Places, key : Keys \cup {None}, promotes : BOOLEAN, leads : BOOLEAN,
            round : 0 .. MaxRounds, woken : BOOLEAN, slot : BOOLEAN, lim : Limits \cup {0}]

\* What the record of one request says of the two waits.
Sane(j) ==
    /\ j.pc # "gone" => j.key \in Keys
    /\ j.pc = "follow" => j.round < MaxRounds
    /\ j.slot => j.pc \in {"recheck", "fetch", "serve", "leave"}
    /\ j.pc \in {"recheck", "fetch", "serve"} => j.slot
    /\ (j.promotes /\ j.pc \in {"limit", "acquire", "parked", "recheck", "fetch"}) => j.leads
    /\ j.leads => j.pc \notin {"gone", "open", "begin", "follow"}

\* The map of fills and the requests agree on who leads what, and a follower
\* that nobody has woken has a leader.
FillInv ==
    /\ \A q \in Requests : r[q].leads => inflight[r[q].key] = q
    /\ \A k \in Keys : inflight[k] # None => r[inflight[k]].leads /\ r[inflight[k]].key = k
    /\ \A q \in Requests : (r[q].pc = "follow" /\ ~r[q].woken) => inflight[r[q].key] # None

\* The holders admitted under a limit of at most m.
AtMost(m) == {q \in Holders : r[q].lim <= m}

SlotInv ==
    /\ inFlight = Cardinality(Holders)
    /\ \A m \in Nat : Cardinality(AtMost(m)) <= m

FlightInv == TypeOK /\ (\A q \in Requests : Sane(r[q])) /\ FillInv /\ SlotInv

-----------------------------------------------------------------------------
(* One request moves *)

\* A step that gives one request a new record and leaves the others alone,
\* except that it may wake some of them.
Moves(q, j) ==
    /\ r' \in [Requests -> Request]
    /\ r'[q] = j
    /\ \A p \in Requests \ {q} :
         /\ r'[p].pc = r[p].pc /\ r'[p].key = r[p].key /\ r'[p].promotes = r[p].promotes
         /\ r'[p].leads = r[p].leads /\ r'[p].round = r[p].round
         /\ r'[p].slot = r[p].slot /\ r'[p].lim = r[p].lim
         /\ r[p].woken => r'[p].woken

\* A plain assignment moves one request.
LEMMA AssignMoves ==
    ASSUME TypeOK, NEW q \in Requests, NEW j \in Request, r' = [r EXCEPT ![q] = j]
    PROVE  Moves(q, j)
  BY DEF TypeOK, Moves, Request, Places

\* A closed channel changes nothing but the flags of those who have taken it.
LEMMA WokenType ==
    ASSUME TypeOK, NEW from \in SUBSET Requests
    PROVE  /\ Woken(from) \in [Requests -> Request]
           /\ \A p \in Requests :
                LET j == Woken(from)[p] IN
                /\ j.pc = r[p].pc /\ j.key = r[p].key /\ j.promotes = r[p].promotes
                /\ j.leads = r[p].leads /\ j.round = r[p].round
                /\ j.slot = r[p].slot /\ j.lim = r[p].lim
                /\ j.woken = (r[p].woken \/ p \in from)
<1> DEFINE w == Woken(from)
<1> SUFFICES ASSUME NEW p \in Requests
             PROVE  /\ w[p] \in Request
                    /\ w[p].pc = r[p].pc /\ w[p].key = r[p].key
                    /\ w[p].promotes = r[p].promotes
                    /\ w[p].leads = r[p].leads /\ w[p].round = r[p].round
                    /\ w[p].slot = r[p].slot /\ w[p].lim = r[p].lim
                    /\ w[p].woken = (r[p].woken \/ p \in from)
  BY DEF Woken
<1>1. w[p] = [r[p] EXCEPT !.woken = r[p].woken \/ p \in from]  BY DEF Woken
<1>2. r[p] \in Request  BY DEF TypeOK, Request, Places
<1>3. (r[p].woken \/ p \in from) \in BOOLEAN  OBVIOUS
<1> QED  BY <1>1, <1>2, <1>3 DEF Request

\* Closing a channel moves one request, too.
LEMMA WakeMoves ==
    ASSUME TypeOK, NEW q \in Requests, NEW j \in Request, NEW from \in SUBSET Requests,
           r' = [Woken(from) EXCEPT ![q] = j]
    PROVE  /\ Moves(q, j)
           /\ \A p \in Requests \ {q} : r'[p].woken = (r[p].woken \/ p \in from)
<1>1. r[q] \in Request /\ \A p \in Requests : r[p].woken \in BOOLEAN
  BY DEF TypeOK, Request, Places
<1> QED  BY <1>1, WokenType DEF Moves

\* The others' slots and limits are not touched.
LEMMA OthersHold ==
    ASSUME TypeOK, NEW q \in Requests, NEW j \in Request, Moves(q, j)
    PROVE  /\ Holders' \ {q} = Holders \ {q}
           /\ q \in Holders' <=> j.slot
           /\ \A m \in Nat : /\ AtMost(m)' \ {q} = AtMost(m) \ {q}
                             /\ q \in AtMost(m)' <=> j.slot /\ j.lim <= m
  BY DEF TypeOK, Moves, Holders, AtMost

\* The sets that are counted are finite.
LEMMA HoldersFinite ==
    /\ IsFiniteSet(Holders) /\ Cardinality(Holders) \in Nat
    /\ \A m : /\ IsFiniteSet(AtMost(m)) /\ Cardinality(AtMost(m)) \in Nat
              /\ Cardinality(AtMost(m)) <= Cardinality(Holders)
<1>1. IsFiniteSet(Holders) /\ Cardinality(Holders) \in Nat
  BY FlightAssumption, FS_Subset, FS_CardinalityType DEF Holders
<1>2. ASSUME NEW m
      PROVE  /\ IsFiniteSet(AtMost(m)) /\ Cardinality(AtMost(m)) \in Nat
             /\ Cardinality(AtMost(m)) <= Cardinality(Holders)
  <2>1. AtMost(m) \in SUBSET Holders  BY DEF AtMost
  <2> QED  BY <1>1, <2>1, FS_Subset, FS_CardinalityType
<1> QED  BY <1>1, <1>2

\* A limit of the gate is a number.
LEMMA LimitsNat == \A n \in Limits \cup {0} : n \in Nat
  BY FlightAssumption

\* Nobody takes or returns a slot.
LEMMA SlotsKept ==
    ASSUME TypeOK, SlotInv, NEW q \in Requests, NEW j \in Request, Moves(q, j),
           j.slot = r[q].slot, j.slot => j.lim = r[q].lim, inFlight' = inFlight
    PROVE  SlotInv'
<1>1. Holders' = Holders  BY OthersHold DEF Holders
<1>2. \A m \in Nat : AtMost(m)' = AtMost(m)  BY OthersHold DEF AtMost, Holders
<1> QED  BY <1>1, <1>2 DEF SlotInv

\* A slot is returned.
LEMMA SlotReturned ==
    ASSUME TypeOK, SlotInv, NEW q \in Requests, NEW j \in Request, Moves(q, j),
           r[q].slot, ~j.slot, inFlight' = inFlight - 1
    PROVE  SlotInv' /\ inFlight' \in Nat
<1>1. Holders' = Holders \ {q} /\ q \in Holders  BY OthersHold DEF Holders
<1>2. Cardinality(Holders') = Cardinality(Holders) - 1
  BY <1>1, HoldersFinite, FS_RemoveElement
<1>3. Cardinality(Holders') \in Nat
  BY <1>1, HoldersFinite, FS_RemoveElement, FS_CardinalityType
<1>4. ASSUME NEW m \in Nat  PROVE Cardinality(AtMost(m)') <= m
  <2>1. AtMost(m)' \in SUBSET AtMost(m)  BY OthersHold DEF AtMost, Holders
  <2>2. Cardinality(AtMost(m)') <= Cardinality(AtMost(m)) /\ Cardinality(AtMost(m)') \in Nat
    BY <2>1, HoldersFinite, FS_Subset, FS_CardinalityType
  <2> QED  BY <2>2, HoldersFinite DEF SlotInv
<1> QED  BY <1>2, <1>3, <1>4 DEF SlotInv

\* A slot is taken under the limit that was read.
LEMMA SlotTaken ==
    ASSUME TypeOK, SlotInv, NEW q \in Requests, NEW j \in Request, Moves(q, j),
           ~r[q].slot, j.slot, inFlight < j.lim, inFlight' = inFlight + 1
    PROVE  SlotInv'
<1>0. j.lim \in Nat
  <2>1. j.lim \in Limits \cup {0}  BY DEF Request
  <2> QED  BY <2>1, LimitsNat
<1>1. Holders' = Holders \cup {q} /\ q \notin Holders  BY OthersHold DEF Holders
<1>2. Cardinality(Holders') = Cardinality(Holders) + 1
  BY <1>1, HoldersFinite, FS_AddElement
<1>3. ASSUME NEW m \in Nat  PROVE Cardinality(AtMost(m)') <= m
  <2>1. CASE j.lim <= m
    <3>1. AtMost(m)' = AtMost(m) \cup {q} /\ q \notin AtMost(m)
      BY <2>1, OthersHold DEF AtMost, Holders
    <3>2. Cardinality(AtMost(m)') = Cardinality(AtMost(m)) + 1
      BY <3>1, HoldersFinite, FS_AddElement
    <3> QED  BY <1>0, <2>1, <3>2, HoldersFinite DEF SlotInv
  <2>2. CASE ~(j.lim <= m)
    <3>1. AtMost(m)' = AtMost(m)  BY <2>2, OthersHold DEF AtMost, Holders
    <3> QED  BY <3>1 DEF SlotInv
  <2> QED  BY <2>1, <2>2
<1> QED  BY <1>2, <1>3 DEF SlotInv

\* Nobody begins or ends to lead.
LEMMA FillsKept ==
    ASSUME TypeOK, FillInv, NEW q \in Requests, NEW j \in Request, Moves(q, j),
           j.leads = r[q].leads, j.leads => j.key = r[q].key, inflight' = inflight,
           (j.pc = "follow" /\ ~j.woken) => inflight[j.key] # None
    PROVE  FillInv'
<1> USE DEF TypeOK, Moves, FillInv
<1>1. \A p \in Requests : r'[p].leads => inflight'[r'[p].key] = p  OBVIOUS
<1>2. ASSUME NEW k \in Keys, inflight'[k] # None
      PROVE  r'[inflight'[k]].leads /\ r'[inflight'[k]].key = k
  <2>1. inflight[k] \in Requests /\ r[inflight[k]].leads /\ r[inflight[k]].key = k
    BY <1>2
  <2>2. CASE inflight[k] = q  BY <2>1, <2>2
  <2>3. CASE inflight[k] # q  BY <2>1, <2>3
  <2> QED  BY <2>2, <2>3
<1>3. \A p \in Requests : (r'[p].pc = "follow" /\ ~r'[p].woken) => inflight'[r'[p].key] # None
  OBVIOUS
<1> QED  BY <1>1, <1>2, <1>3

\* Everybody's record stays sane.
LEMMA SaneKept ==
    ASSUME \A p \in Requests : Sane(r[p]), NEW q \in Requests, NEW j \in Request,
           Moves(q, j), Sane(j)
    PROVE  \A p \in Requests : Sane(r'[p])
  BY DEF Moves, Sane

-----------------------------------------------------------------------------
(* The actions *)

\* The parts of the state that no request owns.
SharedOK ==
    /\ inflight \in [Keys -> Requests \cup {None}]
    /\ inFlight \in Nat /\ limit \in Limits /\ cached \subseteq Keys
    /\ arrivals \in [Requests -> 0 .. MaxArrivals]
    /\ changes \in 0 .. MaxChanges /\ evictions \in 0 .. MaxEvictions

\* TypeOK, as the requests and what they share.
LEMMA TypeParts == TypeOK <=> r \in [Requests -> Request] /\ SharedOK
  BY DEF TypeOK, SharedOK, Request, Places

\* A request that keeps what it leads and holds.
LEMMA Step ==
    ASSUME FlightInv, NEW q \in Requests, NEW j \in Request, Moves(q, j), Sane(j),
           j.slot = r[q].slot, j.slot => j.lim = r[q].lim,
           j.leads = r[q].leads, j.leads => j.key = r[q].key,
           (j.pc = "follow" /\ ~j.woken) => inflight[j.key] # None,
           inflight' = inflight, inFlight' = inFlight, SharedOK'
    PROVE  FlightInv'
<1>1. TypeOK'
  BY TypeParts DEF Moves, TypeOK, SharedOK, Request, Places
<1> QED  BY <1>1, SlotsKept, FillsKept, SaneKept DEF FlightInv

\* The record of an answered request.
LEMMA GoneType == Gone \in Request /\ Gone.slot = FALSE /\ Gone.leads = FALSE /\ Gone.pc = "gone"
  BY FlightAssumption DEF Gone, Request, Places

\* The initial state.
LEMMA FlightInit == Init => FlightInv
<1> SUFFICES ASSUME Init PROVE FlightInv  OBVIOUS
<1> USE DEF Init
<1>1. Gone \in Request  BY GoneType
<1>2. TypeOK  BY <1>1, TypeParts, FlightAssumption DEF SharedOK
<1>3. \A q \in Requests : Sane(r[q])  BY DEF Sane, Gone
<1>4. FillInv  BY DEF FillInv, Gone
<1>5. Holders = {} /\ \A m \in Nat : AtMost(m) = {}  BY DEF Holders, AtMost, Gone
<1>6. SlotInv  BY <1>5, FS_EmptySet DEF SlotInv
<1> QED  BY <1>2, <1>3, <1>4, <1>6 DEF FlightInv

\* Arriving, looking in the cache, waiting for a fill.
LEMMA SharingSteps ==
    ASSUME FlightInv, NEW q \in Requests,
           \/ \E k \in Keys, eligible \in BOOLEAN : DownloadUpload(q, k, eligible)
           \/ Open(q) \/ FillEnded(q) \/ FillTimeout(q) \/ Disconnect(q)
    PROVE  FlightInv'
<1> USE FlightAssumption DEF FlightInv
<1>0. r[q] \in Request /\ SharedOK /\ Sane(r[q])  BY TypeParts
<1>1. ASSUME NEW k \in Keys, NEW eligible \in BOOLEAN, DownloadUpload(q, k, eligible)
      PROVE  FlightInv'
  <2> DEFINE j == [Gone EXCEPT !.pc = IF eligible THEN "open" ELSE "limit",
                               !.key = k, !.promotes = eligible]
  <2>1. /\ j \in Request /\ Sane(j)
        /\ ~j.slot /\ ~j.leads /\ j.pc # "follow"
    <3>1. /\ j \in Request /\ j.key = k /\ j.promotes = eligible
          /\ j.pc = IF eligible THEN "open" ELSE "limit"
          /\ j.slot = Gone.slot /\ j.leads = Gone.leads
      BY GoneType DEF Request, Places
    <3> HIDE DEF j
    <3> QED  BY <3>1, GoneType DEF Sane
  <2>2. r' = [r EXCEPT ![q] = j] /\ r[q].pc = "gone"  BY <1>1 DEF DownloadUpload, At
  <2> HIDE DEF j
  <2>3. ~r[q].slot /\ ~r[q].leads  BY <1>0, <2>2 DEF Sane
  <2>4. j.slot = r[q].slot /\ j.leads = r[q].leads  BY <1>0, <2>1, <2>3 DEF Request
  <2>5. inflight' = inflight /\ inFlight' = inFlight  BY <1>1 DEF DownloadUpload
  <2>6. SharedOK'
    <3>1. /\ arrivals' = [arrivals EXCEPT ![q] = arrivals[q] + 1]
          /\ arrivals[q] < MaxArrivals /\ arrivals \in [Requests -> 0 .. MaxArrivals]
      BY <1>0, <1>1 DEF DownloadUpload, SharedOK
    <3>2. arrivals[q] + 1 \in 0 .. MaxArrivals  BY <3>1
    <3>3. arrivals' \in [Requests -> 0 .. MaxArrivals]  BY <3>1, <3>2
    <3> QED  BY <1>0, <1>1, <3>3 DEF DownloadUpload, SharedOK
  <2> QED  BY <2>1, <2>2, <2>4, <2>5, <2>6, AssignMoves, Step
<1>2. CASE Open(q)
  <2> DEFINE j == [r[q] EXCEPT !.pc = IF r[q].key \in cached THEN "leave" ELSE "begin"]
  <2>1. r' = [r EXCEPT ![q] = j] /\ r[q].pc = "open"  BY <1>2 DEF Open, At, Goto
  <2>2. /\ j \in Request /\ Sane(j) /\ j.slot = r[q].slot /\ j.lim = r[q].lim
        /\ j.leads = r[q].leads /\ j.key = r[q].key /\ j.pc # "follow"
    BY <1>0, <2>1 DEF Request, Places, Sane
  <2> HIDE DEF j
  <2>3. inflight' = inflight /\ inFlight' = inFlight /\ SharedOK'
    BY <1>0, <1>2 DEF Open, SharedOK, bounds
  <2> QED  BY <2>1, <2>2, <2>3, AssignMoves, Step
<1>3. CASE FillEnded(q)
  <2> DEFINE j == [r[q] EXCEPT !.pc = "open", !.round = r[q].round + 1]
  <2>1. r' = [r EXCEPT ![q] = j] /\ r[q].pc = "follow"
    BY <1>3 DEF FillEnded, At, TypeOK
  <2>2. /\ j \in Request /\ j.pc = "open" /\ j.slot = r[q].slot /\ j.lim = r[q].lim
        /\ j.leads = r[q].leads /\ j.key = r[q].key
    <3>1. r[q].round + 1 \in 0 .. MaxRounds  BY <1>0, <2>1 DEF Request, Sane
    <3> QED  BY <1>0, <3>1 DEF Request, Places
  <2> HIDE DEF j
  <2>4. Sane(j)  BY <1>0, <2>1, <2>2 DEF Sane
  <2>3. inflight' = inflight /\ inFlight' = inFlight /\ SharedOK'
    BY <1>0, <1>3 DEF FillEnded, SharedOK, bounds
  <2> QED  BY <2>1, <2>2, <2>3, <2>4, AssignMoves, Step
<1>4. CASE FillTimeout(q)
  <2> DEFINE j == [r[q] EXCEPT !.promotes = FALSE, !.pc = "limit"]
  <2>1. r' = [r EXCEPT ![q] = j] /\ r[q].pc = "follow"
    BY <1>4 DEF FillTimeout, At, TypeOK
  <2>2. /\ j \in Request /\ Sane(j) /\ j.slot = r[q].slot /\ j.lim = r[q].lim
        /\ j.leads = r[q].leads /\ j.key = r[q].key /\ j.pc # "follow"
    BY <1>0, <2>1 DEF Request, Places, Sane
  <2> HIDE DEF j
  <2>3. inflight' = inflight /\ inFlight' = inFlight /\ SharedOK'
    BY <1>0, <1>4 DEF FillTimeout, SharedOK, bounds
  <2> QED  BY <2>1, <2>2, <2>3, AssignMoves, Step
<1>5. CASE Disconnect(q)
  <2> DEFINE j == [r[q] EXCEPT !.pc = "leave"]
  <2>1. r' = [r EXCEPT ![q] = j] /\ r[q].pc = "follow"  BY <1>5 DEF Disconnect, At, Goto
  <2>2. /\ j \in Request /\ Sane(j) /\ j.slot = r[q].slot /\ j.lim = r[q].lim
        /\ j.leads = r[q].leads /\ j.key = r[q].key /\ j.pc # "follow"
    BY <1>0, <2>1 DEF Request, Places, Sane
  <2> HIDE DEF j
  <2>3. inflight' = inflight /\ inFlight' = inFlight /\ SharedOK'
    BY <1>0, <1>5 DEF Disconnect, SharedOK, bounds
  <2> QED  BY <2>1, <2>2, <2>3, AssignMoves, Step
<1> QED  BY <1>1, <1>2, <1>3, <1>4, <1>5

\* Begin: whoever finds no fill leads one.
LEMMA BeginStep ==
    ASSUME FlightInv, NEW q \in Requests, Begin(q)
    PROVE  FlightInv'
<1> USE FlightAssumption DEF FlightInv
<1> DEFINE k == r[q].key
<1>0. /\ r[q] \in Request /\ SharedOK /\ Sane(r[q]) /\ r[q].pc = "begin" /\ k \in Keys
      /\ inFlight' = inFlight /\ ~r[q].leads /\ ~r[q].slot
  BY TypeParts DEF Begin, At, Sane
<1>1. CASE inflight[k] = None
  <2> DEFINE j == [r[q] EXCEPT !.leads = TRUE, !.pc = "limit"]
  <2>1. r' = [r EXCEPT ![q] = j] /\ inflight' = [inflight EXCEPT ![k] = q]
    BY <1>1 DEF Begin, TypeOK
  <2>2. /\ j \in Request /\ j.slot = r[q].slot /\ j.lim = r[q].lim /\ j.leads = TRUE
        /\ j.key = k /\ j.pc = "limit"
    BY <1>0 DEF Request, Places
  <2> HIDE DEF j
  <2>3. Moves(q, j)  BY <2>1, <2>2, AssignMoves
  <2>4. SharedOK'  BY <1>0, <2>1 DEF Begin, SharedOK, bounds
  <2>5. TypeOK'  BY <2>3, <2>4, TypeParts DEF Moves, TypeOK, SharedOK, Request, Places
  <2>6. \A p \in Requests : Sane(r'[p])
    BY <1>0, <2>2, <2>3, SaneKept DEF Sane
  <2>7. SlotInv'  BY <1>0, <2>2, <2>3, SlotsKept
  <2>8. ASSUME NEW p \in Requests, r'[p].leads  PROVE inflight'[r'[p].key] = p
    <3>1. CASE p = q  BY <1>0, <2>1, <2>2, <2>3, <3>1 DEF Moves, SharedOK
    <3>2. CASE p # q
      <4>1. r[p].leads /\ r[p].key = r'[p].key /\ inflight[r[p].key] = p
        BY <2>3, <2>8, <3>2 DEF Moves, FillInv
      <4>2. r[p].key # k  BY <1>1, <4>1
      <4> QED  BY <1>0, <2>1, <4>1, <4>2 DEF SharedOK
    <3> QED  BY <3>1, <3>2
  <2>9. ASSUME NEW l \in Keys, inflight'[l] # None
        PROVE  r'[inflight'[l]].leads /\ r'[inflight'[l]].key = l
    <3>1. CASE l = k  BY <1>0, <2>1, <2>2, <2>3, <3>1 DEF Moves, SharedOK
    <3>2. CASE l # k
      <4>1. inflight'[l] = inflight[l] /\ inflight[l] \in Requests
        BY <1>0, <2>1, <2>9, <3>2 DEF SharedOK
      <4>2. r[inflight[l]].leads /\ r[inflight[l]].key = l  BY <2>9, <4>1 DEF FillInv
      <4> QED  BY <1>0, <2>3, <4>1, <4>2 DEF Moves
    <3> QED  BY <3>1, <3>2
  <2>10. ASSUME NEW p \in Requests, r'[p].pc = "follow", ~r'[p].woken
         PROVE  inflight'[r'[p].key] # None
    <3>1. p # q  BY <2>2, <2>3, <2>10 DEF Moves
    <3>2. /\ r[p].pc = "follow" /\ ~r[p].woken /\ r'[p].key = r[p].key
          /\ inflight[r[p].key] # None
      BY <2>3, <2>10, <3>1 DEF Moves, FillInv
    <3>3. r[p].key \in Keys  BY <3>2 DEF Sane
    <3> QED  BY <1>0, <1>1, <2>1, <3>2, <3>3 DEF SharedOK
  <2>11. FillInv'  BY <2>8, <2>9, <2>10 DEF FillInv
  <2> QED  BY <2>5, <2>6, <2>7, <2>11
<1>2. CASE inflight[k] # None /\ r[q].round >= MaxRounds
  <2> DEFINE j == [r[q] EXCEPT !.promotes = FALSE, !.pc = "limit"]
  <2>1. r' = [r EXCEPT ![q] = j] /\ inflight' = inflight
    <3>1. r[q].round \in 0 .. MaxRounds  BY <1>0 DEF Request
    <3>2. ~(r[q].round < MaxRounds)  BY <1>2, <3>1
    <3> QED  BY <1>2, <3>2 DEF Begin, TypeOK
  <2>2. /\ j \in Request /\ Sane(j) /\ j.slot = r[q].slot /\ j.lim = r[q].lim
        /\ j.leads = r[q].leads /\ j.key = r[q].key /\ j.pc # "follow"
    BY <1>0 DEF Request, Places, Sane
  <2> HIDE DEF j
  <2>3. SharedOK'  BY <1>0, <2>1 DEF Begin, SharedOK, bounds
  <2> QED  BY <1>0, <2>1, <2>2, <2>3, AssignMoves, Step
<1>3. CASE inflight[k] # None /\ r[q].round < MaxRounds
  <2> DEFINE j == [r[q] EXCEPT !.pc = "follow", !.woken = FALSE]
  <2>1. r' = [r EXCEPT ![q] = j] /\ inflight' = inflight
    <3>1. r[q].round \in 0 .. MaxRounds  BY <1>0 DEF Request
    <3>2. ~(r[q].round >= MaxRounds)  BY <1>3, <3>1
    <3> QED  BY <1>3, <3>2 DEF Begin, TypeOK
  <2>2. /\ j \in Request /\ j.slot = r[q].slot /\ j.lim = r[q].lim
        /\ j.leads = r[q].leads /\ j.key = r[q].key /\ j.pc = "follow" /\ j.round = r[q].round
    BY <1>0 DEF Request, Places
  <2> HIDE DEF j
  <2>3. SharedOK'  BY <1>0, <2>1 DEF Begin, SharedOK, bounds
  <2>4. Sane(j)  BY <1>0, <1>3, <2>2 DEF Sane
  <2>5. inflight[j.key] # None  BY <1>3, <2>2
  <2> QED  BY <1>0, <2>1, <2>2, <2>3, <2>4, <2>5, AssignMoves, Step
<1> QED  BY <1>1, <1>2, <1>3 DEF Begin

\* Steps between the waits.
LEMMA PlainSteps ==
    ASSUME FlightInv, NEW q \in Requests,
           \/ ReadLimit(q) \/ Retry(q) \/ Saturated(q) \/ RecheckMiss(q) \/ FetchFails(q)
           \/ (\E kept \in BOOLEAN : Fetched(q, kept)) \/ Serve(q)
    PROVE  FlightInv'
<1> USE FlightAssumption DEF FlightInv
<1>0. r[q] \in Request /\ SharedOK /\ Sane(r[q])  BY TypeParts
<1>1. CASE ReadLimit(q)
  <2> DEFINE j == [r[q] EXCEPT !.lim = limit, !.pc = "acquire"]
  <2>1. r' = [r EXCEPT ![q] = j] /\ r[q].pc = "limit"  BY <1>1 DEF ReadLimit, At, TypeOK
  <2>2. /\ j \in Request /\ j.slot = r[q].slot /\ j.promotes = r[q].promotes
        /\ j.leads = r[q].leads /\ j.key = r[q].key /\ j.pc = "acquire"
    BY <1>0, <2>1 DEF Request, Places, SharedOK
  <2> HIDE DEF j
  <2>3. inflight' = inflight /\ inFlight' = inFlight /\ SharedOK'
    BY <1>0, <1>1 DEF ReadLimit, SharedOK, bounds
  <2>4. Sane(j) /\ ~j.slot  BY <1>0, <2>1, <2>2 DEF Sane
  <2> QED  BY <2>1, <2>2, <2>3, <2>4, AssignMoves, Step
<1>2. CASE Retry(q)
  <2> DEFINE j == [r[q] EXCEPT !.pc = "limit"]
  <2>1. r' = [r EXCEPT ![q] = j] /\ r[q].pc = "parked"  BY <1>2 DEF Retry, At, Goto, TypeOK
  <2>2. /\ j \in Request /\ Sane(j) /\ j.slot = r[q].slot /\ j.lim = r[q].lim
        /\ j.leads = r[q].leads /\ j.key = r[q].key /\ j.pc # "follow"
    BY <1>0, <2>1 DEF Request, Places, Sane
  <2> HIDE DEF j
  <2>3. inflight' = inflight /\ inFlight' = inFlight /\ SharedOK'
    BY <1>0, <1>2 DEF Retry, SharedOK, bounds
  <2> QED  BY <2>1, <2>2, <2>3, AssignMoves, Step
<1>3. CASE Saturated(q)
  <2> DEFINE j == [r[q] EXCEPT !.pc = "leave"]
  <2>1. r' = [r EXCEPT ![q] = j] /\ r[q].pc = "parked"  BY <1>3 DEF Saturated, At, Goto, TypeOK
  <2>2. /\ j \in Request /\ Sane(j) /\ j.slot = r[q].slot /\ j.lim = r[q].lim
        /\ j.leads = r[q].leads /\ j.key = r[q].key /\ j.pc # "follow"
    BY <1>0, <2>1 DEF Request, Places, Sane
  <2> HIDE DEF j
  <2>3. inflight' = inflight /\ inFlight' = inFlight /\ SharedOK'
    BY <1>0, <1>3 DEF Saturated, SharedOK, bounds
  <2> QED  BY <2>1, <2>2, <2>3, AssignMoves, Step
<1>4. CASE RecheckMiss(q)
  <2> DEFINE j == [r[q] EXCEPT !.pc = "fetch"]
  <2>1. r' = [r EXCEPT ![q] = j] /\ r[q].pc = "recheck"  BY <1>4 DEF RecheckMiss, At, Goto, TypeOK
  <2>2. /\ j \in Request /\ Sane(j) /\ j.slot = r[q].slot /\ j.lim = r[q].lim
        /\ j.leads = r[q].leads /\ j.key = r[q].key /\ j.pc # "follow"
    BY <1>0, <2>1 DEF Request, Places, Sane
  <2> HIDE DEF j
  <2>3. inflight' = inflight /\ inFlight' = inFlight /\ SharedOK'
    BY <1>0, <1>4 DEF RecheckMiss, SharedOK, bounds
  <2> QED  BY <2>1, <2>2, <2>3, AssignMoves, Step
<1>5. CASE FetchFails(q)
  <2> DEFINE j == [r[q] EXCEPT !.pc = "leave"]
  <2>1. r' = [r EXCEPT ![q] = j] /\ r[q].pc = "fetch"  BY <1>5 DEF FetchFails, At, Goto, TypeOK
  <2>2. /\ j \in Request /\ Sane(j) /\ j.slot = r[q].slot /\ j.lim = r[q].lim
        /\ j.leads = r[q].leads /\ j.key = r[q].key /\ j.pc # "follow"
    BY <1>0, <2>1 DEF Request, Places, Sane
  <2> HIDE DEF j
  <2>3. inflight' = inflight /\ inFlight' = inFlight /\ SharedOK'
    BY <1>0, <1>5 DEF FetchFails, SharedOK, bounds
  <2> QED  BY <2>1, <2>2, <2>3, AssignMoves, Step
<1>6. CASE Serve(q)
  <2> DEFINE j == [r[q] EXCEPT !.pc = "leave"]
  <2>1. r' = [r EXCEPT ![q] = j] /\ r[q].pc = "serve"  BY <1>6 DEF Serve, At, Goto, TypeOK
  <2>2. /\ j \in Request /\ Sane(j) /\ j.slot = r[q].slot /\ j.lim = r[q].lim
        /\ j.leads = r[q].leads /\ j.key = r[q].key /\ j.pc # "follow"
    BY <1>0, <2>1 DEF Request, Places, Sane
  <2> HIDE DEF j
  <2>3. inflight' = inflight /\ inFlight' = inFlight /\ SharedOK'
    BY <1>0, <1>6 DEF Serve, SharedOK, bounds
  <2> QED  BY <2>1, <2>2, <2>3, AssignMoves, Step
<1>7. ASSUME NEW kept \in BOOLEAN, Fetched(q, kept)  PROVE FlightInv'
  <2> DEFINE j == [r[q] EXCEPT !.pc = "serve"]
  <2>1. r' = [r EXCEPT ![q] = j] /\ r[q].pc = "fetch"  BY <1>7 DEF Fetched, At, Goto
  <2>2. /\ j \in Request /\ Sane(j) /\ j.slot = r[q].slot /\ j.lim = r[q].lim
        /\ j.leads = r[q].leads /\ j.key = r[q].key /\ j.pc # "follow"
    BY <1>0, <2>1 DEF Request, Places, Sane
  <2> HIDE DEF j
  <2>3. inflight' = inflight /\ inFlight' = inFlight  BY <1>7 DEF Fetched
  <2>4. r[q].key \in Keys  BY <1>0, <2>1 DEF Sane
  <2>5. SharedOK'  BY <1>0, <1>7, <2>4 DEF Fetched, SharedOK, bounds
  <2> QED  BY <2>1, <2>2, <2>3, <2>5, AssignMoves, Step
<1> QED  BY <1>1, <1>2, <1>3, <1>4, <1>5, <1>6, <1>7

\* acquire: a slot, or a place among the parked.
LEMMA AcquireStep ==
    ASSUME FlightInv, NEW q \in Requests, acquire(q)
    PROVE  FlightInv'
<1> USE FlightAssumption DEF FlightInv
<1>0. r[q] \in Request /\ SharedOK /\ Sane(r[q]) /\ r[q].pc = "acquire" /\ inflight' = inflight
  BY TypeParts DEF acquire, At
<1>1. CASE inFlight < r[q].lim
  <2> DEFINE j == [r[q] EXCEPT !.slot = TRUE, !.pc = "recheck"]
  <2>1. r' = [r EXCEPT ![q] = j] /\ inFlight' = inFlight + 1
    BY <1>1 DEF acquire, TypeOK
  <2>2. /\ j \in Request /\ j.slot = TRUE /\ j.lim = r[q].lim /\ j.promotes = r[q].promotes
        /\ j.leads = r[q].leads /\ j.key = r[q].key /\ j.pc = "recheck"
    BY <1>0 DEF Request, Places
  <2> HIDE DEF j
  <2>3. Moves(q, j)  BY <2>1, <2>2, AssignMoves
  <2>4. Sane(j) /\ ~r[q].slot  BY <1>0, <2>2 DEF Sane
  <2>5. SharedOK'  BY <1>0, <2>1 DEF acquire, SharedOK, bounds
  <2>6. TypeOK'  BY <2>3, <2>5, TypeParts DEF Moves, TypeOK, SharedOK, Request, Places
  <2>7. SlotInv'  BY <1>1, <2>1, <2>2, <2>3, <2>4, SlotTaken
  <2>8. FillInv'  BY <1>0, <2>2, <2>3, FillsKept
  <2> QED  BY <2>2, <2>3, <2>4, <2>6, <2>7, <2>8, SaneKept
<1>2. CASE ~(inFlight < r[q].lim)
  <2> DEFINE j == [r[q] EXCEPT !.woken = FALSE, !.pc = "parked"]
  <2>1. r' = [r EXCEPT ![q] = j] /\ inFlight' = inFlight  BY <1>2 DEF acquire, TypeOK
  <2>2. /\ j \in Request /\ j.slot = r[q].slot /\ j.lim = r[q].lim /\ j.promotes = r[q].promotes
        /\ j.leads = r[q].leads /\ j.key = r[q].key /\ j.pc = "parked"
    BY <1>0 DEF Request, Places
  <2> HIDE DEF j
  <2>3. SharedOK'  BY <1>0, <2>1 DEF acquire, SharedOK, bounds
  <2>4. Sane(j)  BY <1>0, <2>2 DEF Sane
  <2> QED  BY <1>0, <2>1, <2>2, <2>3, <2>4, AssignMoves, Step
<1> QED  BY <1>1, <1>2

\* A slot goes back, on either path, and the parked are woken.
LEMMA ReleaseStep ==
    ASSUME FlightInv, NEW q \in Requests, RecheckHit(q) \/ Release(q)
    PROVE  FlightInv'
<1> USE FlightAssumption DEF FlightInv
<1>0. /\ r[q] \in Request /\ SharedOK /\ Sane(r[q]) /\ r[q].pc \in {"recheck", "leave"}
      /\ r[q].slot /\ release(q, "leave") /\ inflight' = inflight
      /\ limit' = limit /\ cached' = cached /\ bounds' = bounds
  BY TypeParts DEF RecheckHit, Release, At, Sane
<1> DEFINE w == Woken(Parked)
           i == w[q]
           j == [i EXCEPT !.slot = FALSE, !.pc = "leave"]
<1>1. /\ w \in [Requests -> Request] /\ i \in Request
      /\ i.leads = r[q].leads /\ i.key = r[q].key /\ i.promotes = r[q].promotes
  <2>1. Parked \in SUBSET Requests  BY DEF Parked
  <2> QED  BY <2>1, WokenType
<1>2. r' = [w EXCEPT ![q] = j] /\ inFlight' = inFlight - 1
  <2>1. r' = [w EXCEPT ![q].slot = FALSE, ![q].pc = "leave"] /\ inFlight' = inFlight - 1
    BY <1>0 DEF release
  <2> HIDE DEF w
  <2> QED  BY <1>1, <2>1
<1> HIDE DEF i
<1>3. /\ j \in Request /\ ~j.slot /\ j.leads = i.leads /\ j.key = i.key /\ j.pc = "leave"
  BY <1>1 DEF Request, Places
<1> HIDE DEF j
<1>4. Moves(q, j)  BY <1>2, <1>3, WakeMoves DEF Parked
<1>5. SlotInv' /\ inFlight' \in Nat  BY <1>0, <1>2, <1>3, <1>4, SlotReturned
<1>6. SharedOK'  BY <1>0, <1>5 DEF SharedOK, bounds
<1>7. TypeOK'  BY <1>4, <1>6, TypeParts DEF Moves, TypeOK, SharedOK, Request, Places
<1>8. FillInv'  BY <1>0, <1>1, <1>3, <1>4, FillsKept
<1>9. Sane(j)  BY <1>0, <1>1, <1>3 DEF Sane
<1> QED  BY <1>3, <1>4, <1>5, <1>7, <1>8, <1>9, SaneKept

\* Finish: the leader leaves, and all who wait for it are woken.
LEMMA FinishStep ==
    ASSUME FlightInv, NEW q \in Requests, Finish(q)
    PROVE  FlightInv'
<1> USE FlightAssumption DEF FlightInv
<1> DEFINE k == r[q].key
<1>0. /\ SharedOK /\ Sane(r[q]) /\ k \in Keys /\ ~r[q].slot /\ r[q].leads
      /\ inflight' = [inflight EXCEPT ![k] = None] /\ inFlight' = inFlight
      /\ r' = [Woken(Followers(k)) EXCEPT ![q] = Gone]
  BY TypeParts DEF Finish, At, Sane
<1>1. /\ Moves(q, Gone)
      /\ \A p \in Requests \ {q} : r'[p].woken = (r[p].woken \/ p \in Followers(k))
  <2>1. Followers(k) \in SUBSET Requests  BY DEF Followers
  <2> QED  BY <1>0, <2>1, GoneType, WakeMoves
<1>2. SharedOK'  BY <1>0 DEF Finish, SharedOK, bounds
<1>3. TypeOK'  BY <1>1, <1>2, TypeParts DEF Moves, TypeOK, SharedOK, Request, Places
<1>4. \A p \in Requests : Sane(r'[p])
  <2>1. Sane(Gone)  BY DEF Sane, Gone
  <2> QED  BY <1>1, <2>1, GoneType, SaneKept
<1>5. SlotInv'
  <2>1. Gone.slot = r[q].slot
    <3>1. r[q].slot \in BOOLEAN  BY DEF TypeOK
    <3> QED  BY <1>0, <3>1, GoneType
  <2> QED  BY <1>0, <1>1, <2>1, GoneType, SlotsKept
<1>6. ASSUME NEW p \in Requests, r'[p].leads  PROVE inflight'[r'[p].key] = p
  <2>1. p # q  BY <1>1, <1>6, GoneType DEF Moves
  <2>2. r[p].leads /\ r[p].key = r'[p].key /\ inflight[r[p].key] = p
    BY <1>1, <1>6, <2>1 DEF Moves, FillInv
  <2>3. inflight[k] = q  BY <1>0 DEF FillInv
  <2> QED  BY <1>0, <2>1, <2>2, <2>3 DEF SharedOK
<1>7. ASSUME NEW l \in Keys, inflight'[l] # None
      PROVE  r'[inflight'[l]].leads /\ r'[inflight'[l]].key = l
  <2>1. l # k /\ inflight'[l] = inflight[l] /\ inflight[l] \in Requests
    BY <1>0, <1>7 DEF SharedOK
  <2>2. r[inflight[l]].leads /\ r[inflight[l]].key = l  BY <1>7, <2>1 DEF FillInv
  <2>3. inflight[l] # q  BY <2>1, <2>2
  <2> QED  BY <1>1, <2>1, <2>2, <2>3 DEF Moves
<1>8. ASSUME NEW p \in Requests, r'[p].pc = "follow", ~r'[p].woken
      PROVE  inflight'[r'[p].key] # None
  <2>1. p # q  BY <1>1, <1>8, GoneType DEF Moves
  <2>2. r[p].pc = "follow" /\ r'[p].key = r[p].key  BY <1>1, <1>8, <2>1 DEF Moves
  <2>3. p \notin Followers(k) /\ ~r[p].woken  BY <1>1, <1>8, <2>1
  <2>4. r[p].key # k /\ r[p].key \in Keys  BY <2>2, <2>3 DEF Followers, At, Sane
  <2>5. inflight[r[p].key] # None  BY <2>2, <2>3 DEF FillInv
  <2> QED  BY <1>0, <2>2, <2>4, <2>5 DEF SharedOK
<1>9. FillInv'  BY <1>6, <1>7, <1>8 DEF FillInv
<1> QED  BY <1>3, <1>4, <1>5, <1>9

\* A request that leads nothing returns.
LEMMA ReturnStep ==
    ASSUME FlightInv, NEW q \in Requests, Return(q)
    PROVE  FlightInv'
<1> USE FlightAssumption DEF FlightInv
<1>0. SharedOK /\ ~r[q].slot /\ ~r[q].leads /\ r' = [r EXCEPT ![q] = Gone]
  BY TypeParts DEF Return
<1>1. Sane(Gone)  BY DEF Sane, Gone
<1>2. r[q].slot = Gone.slot /\ r[q].leads = Gone.leads
  <2>1. r[q].slot \in BOOLEAN /\ r[q].leads \in BOOLEAN  BY DEF TypeOK
  <2> QED  BY <1>0, <2>1, GoneType
<1>3. inflight' = inflight /\ inFlight' = inFlight /\ SharedOK'
  BY <1>0 DEF Return, SharedOK, bounds
<1> QED  BY <1>0, <1>1, <1>2, <1>3, GoneType, AssignMoves, Step

\* The operator and the eviction move no request.
LEMMA QuietStep ==
    ASSUME FlightInv, SharedOK', r' = r, inflight' = inflight, inFlight' = inFlight
    PROVE  FlightInv'
<1> USE DEF FlightInv
<1>1. TypeOK'  BY DEF TypeOK, SharedOK
<1>2. Holders' = Holders /\ \A m \in Nat : AtMost(m)' = AtMost(m)  BY DEF Holders, AtMost
<1>3. SlotInv'  BY <1>2 DEF SlotInv
<1>4. FillInv'  BY DEF FillInv
<1> QED  BY <1>1, <1>3, <1>4

\* FlightInv is inductive.
LEMMA FlightNext == FlightInv /\ [Next]_vars => FlightInv'
<1> SUFFICES ASSUME FlightInv, [Next]_vars PROVE FlightInv'  OBVIOUS
<1>0. SharedOK  BY TypeParts DEF FlightInv
<1>1. ASSUME NEW q \in Requests, Progress(q)  PROVE FlightInv'
  BY <1>1, SharingSteps, BeginStep, PlainSteps, AcquireStep, ReleaseStep, FinishStep, ReturnStep
     DEF Progress
<1>2. ASSUME NEW q \in Requests, FillTimeout(q) \/ Disconnect(q)  PROVE FlightInv'
  BY <1>2, SharingSteps
<1>3. ASSUME NEW q \in Requests, Saturated(q)  PROVE FlightInv'
  BY <1>3, PlainSteps
<1>4. ASSUME NEW q \in Requests, \E k \in Keys, eligible \in BOOLEAN : DownloadUpload(q, k, eligible)
      PROVE  FlightInv'
  BY <1>4, SharingSteps
<1>5. ASSUME NEW n \in Limits, ChangeLimit(n)  PROVE FlightInv'
  <2>1. SharedOK'  BY <1>0, <1>5, FlightAssumption DEF ChangeLimit, SharedOK
  <2> QED  BY <1>5, <2>1, QuietStep DEF ChangeLimit
<1>6. ASSUME NEW k \in Keys, Evict(k)  PROVE FlightInv'
  <2>1. SharedOK'  BY <1>0, <1>6, FlightAssumption DEF Evict, SharedOK
  <2> QED  BY <1>6, <2>1, QuietStep DEF Evict
<1>7. CASE UNCHANGED vars
  <2>1. SharedOK'  BY <1>0, <1>7 DEF vars, bounds, SharedOK
  <2> QED  BY <1>7, <2>1, QuietStep DEF vars
<1> QED  BY <1>1, <1>2, <1>3, <1>4, <1>5, <1>6, <1>7 DEF Next

-----------------------------------------------------------------------------
(* What follows *)

\* Among the holders there is one whose limit is the largest.
LEMMA LargestLimit ==
    ASSUME TypeOK, Holders # {}
    PROVE  \E q \in Holders : \A p \in Holders : r[p].lim <= r[q].lim
<1> DEFINE above(q) == {p \in Holders : r[p].lim > r[q].lim}
           T == {above(q) : q \in Holders}
<1>0. \A q \in Holders : r[q].lim \in Nat
  BY LimitsNat DEF TypeOK, Holders
<1>1. T \subseteq FiniteSubsetsOf(Holders)
  <2>1. \A q : above(q) \in SUBSET Holders /\ IsFiniteSet(above(q))
    BY HoldersFinite, FS_Subset
  <2> QED  BY <2>1 DEF FiniteSubsetsOf
<1>2. T # {}  OBVIOUS
<1> HIDE DEF T
<1>3. PICK S \in T : \A y \in T : ~(<<y, S>> \in StrictSubsetOrdering(Holders))
  BY <1>1, <1>2, WFMin, FS_StrictSubsetOrderingWellFounded
<1>4. PICK q \in Holders : S = above(q)  BY <1>3 DEF T
<1>5. ASSUME NEW p \in Holders, ~(r[p].lim <= r[q].lim)  PROVE FALSE
  <2>1. above(p) \in T  BY DEF T
  <2>2. above(p) \subseteq above(q)  BY <1>0, <1>5
  <2>3. p \in above(q) /\ p \notin above(p)  BY <1>0, <1>5
  <2>4. above(p) \in SUBSET Holders /\ above(q) \in SUBSET Holders  OBVIOUS
  <2> HIDE DEF above
  <2>5. <<above(p), above(q)>> \in StrictSubsetOrdering(Holders)
    BY <2>2, <2>3, <2>4 DEF StrictSubsetOrdering
  <2> QED  BY <1>3, <1>4, <2>1, <2>5
<1> QED  BY <1>5

\* The invariant gives the two properties.
LEMMA FlightInvImplies == FlightInv => TypeOK /\ OneFill /\ SlotsBounded
<1> SUFFICES ASSUME FlightInv PROVE OneFill /\ SlotsBounded  BY DEF FlightInv
<1> USE DEF FlightInv
<1>1. OneFill
  <2>1. ASSUME NEW k \in Keys, NEW p \in Requests, NEW q \in Requests,
               Filling(p), Filling(q), r[p].key = k, r[q].key = k
        PROVE  p = q
    BY <2>1 DEF Filling, Sane, FillInv
  <2>2. ASSUME NEW k \in Keys, NEW q \in Followers(k), ~r[q].woken  PROVE inflight[k] # None
    BY <2>2 DEF Followers, At, FillInv
  <2> QED  BY <2>1, <2>2 DEF OneFill, FillInv
<1>2. ASSUME Holders # {}  PROVE inFlight <= Max({r[q].lim : q \in Holders})
  <2> DEFINE L == {r[q].lim : q \in Holders}
  <2>1. PICK q \in Holders : \A p \in Holders : r[p].lim <= r[q].lim  BY <1>2, LargestLimit
  <2>2. \A p \in Holders : r[p].lim \in Nat  BY LimitsNat DEF TypeOK, Holders
  <2>3. r[q].lim \in L /\ \A y \in L : r[q].lim >= y  BY <2>1, <2>2
  <2>4. Max(L) \in L /\ \A y \in L : Max(L) >= y
    <3> HIDE DEF L
    <3> QED  BY <2>3 DEF Max
  <2>5. Max(L) \in Nat /\ \A p \in Holders : r[p].lim <= Max(L)  BY <2>2, <2>4
  <2> HIDE DEF L
  <2>6. AtMost(Max(L)) = Holders  BY <2>5 DEF AtMost
  <2>7. Cardinality(AtMost(Max(L))) <= Max(L)  BY <2>5 DEF SlotInv
  <2>8. inFlight <= Max(L)  BY <2>6, <2>7 DEF SlotInv
  <2> QED  BY <2>8 DEF L
<1> QED  BY <1>1, <1>2 DEF SlotsBounded, SlotInv

\* The inductive invariant holds in every behaviour.
THEOREM FlightInvariant == Spec => []FlightInv
  BY FlightInit, FlightNext, PTL DEF Spec

\* The types, the map of fills and the gate's counter stay as declared.
THEOREM FlightTypes == Spec => []TypeOK
  BY FlightInvariant, FlightInvImplies, PTL

\* At most one request fetches an object in order to keep it, and nobody waits
\* for a fill without a leader: Begin, Finish and the give-up paths of
\* DownloadUpload, for any number of requests and rounds.
THEOREM FillsAreShared == Spec => []OneFill
  BY FlightInvariant, FlightInvImplies, PTL

\* The gate's counter is the number of requests that hold a slot, and never
\* more than a limit one of them was admitted under (acquire, release).
THEOREM GateCounts == Spec => []SlotsBounded
  BY FlightInvariant, FlightInvImplies, PTL

=============================================================================
