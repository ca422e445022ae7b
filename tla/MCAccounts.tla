----------------------------- MODULE MCAccounts ----------------------------
(* Instances of Accounts for TLC.                                          *)
EXTENDS Accounts, TLC

CONSTANTS ann, bob, eve, b1

Symmetry == Permutations(Users \ {Founder})
=============================================================================
