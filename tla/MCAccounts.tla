----------------------------- MODULE MCAccounts -----------------------------
(* Instances of Accounts for TLC.                                          *)
EXTENDS Accounts, TLC

CONSTANTS c1, c2, i1, i2, n1, n2, g1, g2, m1, m2

Perms == Permutations(Conns) \cup Permutations(Ids) \cup Permutations(Names)
           \cup Permutations(GroupIds) \cup Permutations(GroupNames)
=============================================================================
