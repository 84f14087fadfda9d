--------------------------- MODULE OrderProperties ---------------------------
(***************************************************************************)
(* What the order handlers promise.  The first group holds whatever an      *)
(* admin does; the second is about the automatic handlers; the last group   *)
(* states what comments and docs of the repository say and the code does    *)
(* not keep.                                                                *)
(***************************************************************************)
EXTENDS OrderLifecycle, FiniteSetsExt

\* Every variable has its type; the money counters only count.
TypeOK ==
    /\ row \in [Orders -> Rows]
    /\ fresh \in [Orders -> BOOLEAN]
    /\ balance \in [Users -> Nat]
    /\ debits \in [Orders -> Nat]
    /\ refunds \in [Orders -> Nat]
    /\ marks \in [Orders -> Nat]
    /\ placed \in [Orders -> Seq(PlacedOrders)]
    /\ \A o \in Orders : Len(placed[o]) <= MaxPlaced
    /\ route \in Providers
    /\ lastRef \in [Orders -> 0 .. MaxRefs]
    /\ job \in [Jobs -> JobStates]
    /\ adminCalls \in 0 .. MaxAdmin
    /\ crashes \in 0 .. MaxCrashes

Quiet == \A j \in Jobs : job[j] = IdleJob

-------------------------------------------------------------------------------
(* Money, under every handler.                                             *)

\* The buyer of an invoice is credited at most once, however many handlers
\* reach safeRefundTransaction and pass its optimistic test together.
RefundAtMostOnce == \A o \in Orders : refunds[o] <= 1

\* Money is returned only for an invoice that was charged before.
RefundedOnlyIfCharged == \A o \in Orders : refunds[o] <= debits[o]

\* A row marked refunded has been credited: ManualRefund gives up before it
\* writes the row when the credit fails, and no stale copy invents the status.
RefundedMeansCredited ==
    \A o \in Orders : IsSaldo(o) /\ row[o].status = "refunded" => refunds[o] >= 1

\* Handlers, faults and restarts included, the orders implement the ledger:
\* each step of a handler is one entry of it, or none.
Ledger == INSTANCE OrderLedger WITH
    Orders <- Orders, Users <- Users, Owner <- Owner, Price <- Price,
    InitBalance <- InitBalance,
    balance <- balance, debits <- debits, refunds <- refunds
ImplementsLedger == Ledger!Spec

\* Why the three hold: a row of a balance order is charged before it exists ...
RowsAreCharged ==
    \A o \in Orders : IsSaldo(o) /\ row[o].status # "none" => debits[o] >= 1

\* ... a handler works on a charged order unless it is about to charge it ...
Charged(h) ==
    h.plan # <<>> /\ IsSaldo(h.ord) =>
        debits[h.ord] >= 1 \/ h.plan = <<"debit", "insert", "purchase">>

\* ... a credit is planned for balance orders only ...
PlansCredit(plan) == \E i \in DOMAIN plan : plan[i] \in {"credit", "creditOrAbort"}
CreditsSaldo(h) == PlansCredit(h.plan) => IsSaldo(h.ord)

\* ... and a copy marked refunded is ManualRefund's, which credits or gives up
\* before it writes the copy.
CopyCredited(h) ==
    h.plan # <<>> /\ IsSaldo(h.ord) /\ h.tx.status = "refunded" =>
        \/ refunds[h.ord] >= 1
        \/ h.plan = <<"hasRefund", "creditOrAbort", "save", "status">>
        \/ h.plan = <<"creditOrAbort", "save", "status">>

\* The inductive invariant: charged before credited, credited before marked.
GoodJob(h) == Charged(h) /\ CreditsSaldo(h) /\ CopyCredited(h)
MoneyInv ==
    /\ RefundAtMostOnce
    /\ RefundedOnlyIfCharged
    /\ RefundedMeansCredited
    /\ RowsAreCharged
    /\ \A j \in Jobs : GoodJob(job[j])

-------------------------------------------------------------------------------
(* Automatic handlers, with a provider that keeps a ref_id unique.         *)

\* Kiosgamer's answers do not tell whether it delivered: a lost answer of a
\* purchase reads as a failure, and an open or somebody else's order as a success.
TrueToState(o) == row[o].prov \notin Kiosgamer

\* A buyer who got the money back gets no goods: a refund follows a final
\* failure, and no handler buys the order again after it.
NoGoodsAfterRefund ==
    \A o \in Orders : refunds[o] > 0 /\ TrueToState(o) =>
        \A i \in DOMAIN placed[o] : placed[o][i].state = "failed"

\* A row says success only when the provider delivered.
SuccessIsDelivered ==
    \A o \in Orders : row[o].status = "success" /\ TrueToState(o) =>
        \E i \in DOMAIN placed[o] : placed[o][i].state = "success"

\* Lost answers, restarts and racing handlers never leave two provider orders
\* for one invoice that deliver or still may.
NoDoubleDelivery ==
    \A o \in Orders :
        Cardinality({i \in DOMAIN placed[o] : placed[o][i].state # "failed"}) <= 1

\* When no handler is in progress, an order that failed has been refunded in
\* full and any other order has been paid exactly once.
SettledWhenQuiet ==
    Quiet => \A o \in Orders : IsSaldo(o) /\ row[o].status # "none" =>
        /\ row[o].status = "failed" => refunds[o] = debits[o]
        /\ row[o].status \in {"processing", "success"} => debits[o] = 1

\* Duplicate and concurrent payment webhooks start one fulfilment.
PaymentAcceptedOnce == \A o \in Orders : marks[o] <= 1

\* A gateway order reaches a provider only after its payment was accepted.
UnpaidNeverSubmitted ==
    \A o \in Orders : Method[o] = "TRIPAY" /\ placed[o] # <<>> => marks[o] >= 1

\* An order paid with another amount than its own is never fulfilled by itself.
MismatchNeverFulfilled == \A o \in Mismatched : placed[o] = <<>>

-------------------------------------------------------------------------------
(* Liveness.  The reconciler's ticker comes back to every queued order, the  *)
(* order ages while nobody touches it, a handler goes on while the process   *)
(* runs, and a provider that is asked again and again answers at last.      *)

Answered(j) == Check(j) /\ job'[j].reply \notin Refusals

Fairness ==
    /\ \A j \in Jobs : WF_vars(Statement(j) \/ Call(j)) /\ SF_vars(Answered(j))
    /\ \A o \in Orders : WF_vars(Age(o))
    /\ \A o \in Orders :
          SF_vars(\E j \in Jobs : ReconcileProcessingTransaction(j, o))

FairSpec == Spec /\ Fairness

InState(o, s) == \E i \in DOMAIN placed[o] : placed[o][i].state = s

\* A delivery at the provider reaches the row although the answer of the
\* purchase was lost and no callback ever comes.
DeliveryReachesRow ==
    \A o \in Orders : InState(o, "success") ~> row[o].status = "success"

\* A failure at the provider reaches the buyer's balance in the same way.
FailureReachesBuyer ==
    \A o \in Orders : InState(o, "failed") ~> refunds[o] = 1

-------------------------------------------------------------------------------
(* Statements of the repository that the code does not keep.               *)

\* No step of handler k takes an order out of a final status.
KeepsFinal(k) ==
    \A j \in Jobs, o \in Orders :
        /\ job[j].kind = k /\ job'[j] # job[j]
        /\ isFinalTransactionStatus(row[o].status)
        => row'[o].status = row[o].status

\* transaction_service.go:576: reconciliation does not reapply a stale result
\* over a final state.
ReconcileKeepsFinal == [][KeepsFinal("reconcile")]_vars

\* transaction_service.go:982: an order retried after a refund is not free.
SuccessIsPaid ==
    Quiet => \A o \in Orders :
        IsSaldo(o) /\ row[o].status = "success" => debits[o] > refunds[o]

\* transaction_bulk_service.go:251: an order an admin marks failed has its
\* money returned.
FailedIsRefunded ==
    Quiet => \A o \in Orders :
        IsSaldo(o) /\ row[o].status = "failed" => refunds[o] = debits[o]

\* transaction_service.go:1024, :461: an order that may exist at one provider is
\* not sent to another (the risk of a double order), and a row names the
\* provider its order is at.
OneProviderAtATime ==
    \A o \in Orders : \A i, k \in DOMAIN placed[o] :
        placed[o][i].prov # placed[o][k].prov =>
            "failed" \in {placed[o][i].state, placed[o][k].state}
===============================================================================
