--------------------------- MODULE MCPublication ---------------------------
(* Instances of Publication for TLC.                                       *)
EXTENDS Publication, TLC

CONSTANTS j1, j2, u1, u2, up1, up2, r1, r2, w1, w2, k1, k2, l1, l2

MCSHA256 == [up \in Uploads |-> CASE up = up1 -> r1 [] up = up2 -> r2]

Symmetry == Permutations(Jobs) \cup Permutations(Users) \cup Permutations(Workers)
            \cup Permutations(Keys) \cup Permutations(Leases)
=============================================================================
