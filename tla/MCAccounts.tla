----------------------------- MODULE MCAccounts -----------------------------
(* Small instances of Accounts for TLC. *)
EXTENDS Accounts, TLC

CONSTANTS i1, i2, m1, m2, p1, p2

(* IDs and processes are interchangeable; all the properties are safety. *)
Symmetry == Permutations(Ids) \cup Permutations(Procs)
=============================================================================
