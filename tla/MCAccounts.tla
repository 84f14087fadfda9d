------------------------------ MODULE MCAccounts ------------------------------
(* A small instance of Accounts for TLC. *)
EXTENDS Accounts, TLC

CONSTANTS u1, u2, d1

\* Each deposit credits two units; u1 owns the first, u2 the others.
Owners == [d \in Deposits |-> IF d = d1 THEN u1 ELSE u2]
TwoUnits == [d \in Deposits |-> 2]
UnitPostings == {-1, 1}

JobSymmetry == Permutations(Jobs)
===============================================================================
