------------------------------ MODULE OrderLedger ------------------------------
(***************************************************************************)
(* What the order handlers promise about money, without handlers: an       *)
(* invoice is charged when its owner's balance covers it, given back at    *)
(* most once and only after a charge, and each of these moves the balance  *)
(* and the record of the mutation in one step (UserRepository.UpdateBalance *)
(* called from internal/service/transaction_service.go).                   *)
(***************************************************************************)
EXTENDS Integers

CONSTANTS Orders, Users, Owner, Price, InitBalance

VARIABLES balance, debits, refunds

vars == <<balance, debits, refunds>>

Init ==
    /\ balance = [u \in Users |-> InitBalance]
    /\ debits = [o \in Orders |-> 0]
    /\ refunds = [o \in Orders |-> 0]

Charge(o) ==
    /\ balance[Owner[o]] >= Price[o]
    /\ balance' = [balance EXCEPT ![Owner[o]] = @ - Price[o]]
    /\ debits' = [debits EXCEPT ![o] = @ + 1]
    /\ UNCHANGED refunds

GiveBack(o) ==
    /\ refunds[o] = 0
    /\ debits[o] > 0
    /\ balance' = [balance EXCEPT ![Owner[o]] = @ + Price[o]]
    /\ refunds' = [refunds EXCEPT ![o] = 1]
    /\ UNCHANGED debits

Next == \E o \in Orders : Charge(o) \/ GiveBack(o)

Spec == Init /\ [][Next]_vars
================================================================================
