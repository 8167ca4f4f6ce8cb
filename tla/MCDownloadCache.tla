-------------------------- MODULE MCDownloadCache --------------------------
(* Instances of DownloadCache for TLC.                                      *)
EXTENDS DownloadCache, TLC

CONSTANTS u1, u2, k1, k2, i1, p1, p2

OneKey   == [u \in Uploads |-> k1]
TwoKeys  == (u1 :> k1) @@ (u2 :> k2)
Unit     == [k \in Keys |-> 1]

RequestSymmetry == Permutations(Requests)

=============================================================================
