----------------------------- MODULE MCCatalog -----------------------------
(* Instances of Catalog, and of the Admission it extends, for TLC.          *)
EXTENDS Catalog

CONSTANTS c1, c2, u1, u2, g1, d1, f1, f2, none, k1, k2, a, b, w1, w2, q1, q2, t1, t2, col1

Budget(r) == [s \in Spendings |-> IF s \in DOMAIN r THEN r[s] ELSE 0]

\* Quotas over two uploads, with a request or failure that moves one, or with a
\* change of a quota; two quotas over one upload; wallets and gates; a
\* collection's tags and the owner's; two uploads; rules; errors.
Scenes ==
    {Budget([create |-> 2, quota |-> 1, attempt |-> 2, move |-> 1]),
     Budget([create |-> 2, quota |-> 1, requota |-> 1, attempt |-> 2]),
     Budget([create |-> 1, quota |-> 2, requota |-> 1, attempt |-> 1]),
     Budget([create |-> 1, wallet |-> 4, pause |-> 1]),
     Budget([create |-> 1, catalog |-> 4]),
     Budget([create |-> 2, catalog |-> 3]),
     Budget([create |-> 1, rule |-> 2, move |-> 2, catalog |-> 2]),
     Budget([create |-> 1, rule |-> 1, catalog |-> 3, fault |-> 1])}

ClientSymmetry == Permutations(Clients) \cup Permutations(Wallets) \cup Permutations(Files)
                  \cup Permutations(QuotaIds)

OneGroup == (g1 :> {u1, u2})

Tag(vs, ws) == (k1 :> vs) @@ (k2 :> ws)
SomeTags == {Tag({}, {}), Tag({a, b}, {a})}

\* A tagged file sent with a token of d1, and one of another user from the web.
TwoKinds == {[user |-> u1, dept |-> d1, size |-> 2, attr |-> t1, tags |-> Tag({a}, {})],
             [user |-> u2, dept |-> none, size |-> 1, attr |-> t2, tags |-> Tag({}, {})]}

TwoBulks == {[add |-> Tag({b}, {}), drop |-> {}], [add |-> Tag({}, {b}), drop |-> {k1}]}
OneSelector == {{[op |-> "notin", key |-> k1, vals |-> {b}]}}
=============================================================================
