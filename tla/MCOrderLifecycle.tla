--------------------------- MODULE MCOrderLifecycle ---------------------------
(* Small instances of OrderLifecycle for TLC. *)
EXTENDS OrderProperties, TLC

CONSTANTS o1, o2

OneOwner == [o \in Orders |-> CHOOSE u \in Users : TRUE]
AllSaldo == [o \in Orders |-> "SALDO"]
AllH2H == [o \in Orders |-> "SALDO_H2H"]
AllTripay == [o \in Orders |-> "TRIPAY"]
SaldoAndH2H == [o \in Orders |-> IF o = o1 THEN "SALDO" ELSE "SALDO_H2H"]
UnitPrice == [o \in Orders |-> 1]
TwoPrices == [o \in Orders |-> IF o = o1 THEN 2 ELSE 3]

JobSymmetry == Permutations(Jobs)
===============================================================================
