------------------------------ MODULE OrderRules ------------------------------
(***************************************************************************)
(* The data of an order and the pure decisions the transaction service     *)
(* takes about it: what a row of the transactions table holds, which rows  *)
(* a handler accepts, what a provider may answer, and what applyResult      *)
(* makes of an answer (internal/service/transaction_service.go).           *)
(*                                                                         *)
(* Abstractions of the data.  A provider_status text is one of the classes *)
(* the code's substring tests tell apart; a ref_id is a number per order    *)
(* (NewReferences never hands out one twice); a provider order id is the    *)
(* position of the order among those of its invoice, 0 when it is empty,    *)
(* and Foreign when it is an order somebody else bought at Kiosgamer.       *)
(***************************************************************************)
EXTENDS Integers, Sequences, FiniteSets

CONSTANTS
    Orders,        \* invoices
    Users,         \* accounts that hold a balance
    Providers,     \* adapters in the registry
    Owner,         \* the account an order belongs to
    Method,        \* the payment method of an order
    Price,         \* TotalAmount of an order
    Kiosgamer,     \* providers with Kiosgamer's rules
    Digiflazz,     \* providers with Digiflazz's rules
    Dedup,         \* providers that treat ref_id as an idempotency key
    Outcomes,      \* provider troubles an instance considers
    MaxRefs,       \* bound: ref_ids generated per order
    MaxPlaced      \* bound: provider-side orders per order

Methods == {"SALDO", "SALDO_H2H", "TRIPAY"}
SaldoMethods == {"SALDO", "SALDO_H2H"}
Troubles == {"timeout", "balance", "session", "config", "route"}

ASSUME OrderAssumption ==
    /\ Providers # {}
    /\ Owner \in [Orders -> Users]
    /\ Method \in [Orders -> Methods]
    /\ Price \in [Orders -> Nat \ {0}]

ASSUME ProviderAssumption ==
    /\ Kiosgamer \subseteq Providers
    /\ Digiflazz \subseteq Providers \ Kiosgamer
    /\ Dedup \subseteq Providers \ Kiosgamer
    /\ Outcomes \subseteq Troubles

ASSUME BoundAssumption == MaxRefs \in Nat \ {0} /\ MaxPlaced \in Nat

-------------------------------------------------------------------------------
(* Rows of the transactions table and what is known of them.               *)

Statuses == {"none", "pending", "processing", "success", "failed", "refunded"}
FinalStatuses == {"success", "failed", "refunded"}

\* Classes of provider_status: empty; "pending" without and with "saldo";
\* "process"; "Retrying (saldo ...)"; every text with none of these words.
ProviderStatuses == {"none", "pending", "saldo", "process", "retrysaldo", "held"}
ContainsPending == {"pending", "saldo"}
QueuedOnlyPending == {"none", "pending", "saldo"}
ReconcileQueued == {"none", "pending", "saldo", "process"}
BalanceHold == {"saldo", "retrysaldo"}

Foreign == MaxPlaced + 1
Ids == 0 .. Foreign

Rows == [status : Statuses, verified : BOOLEAN, ref : 0 .. MaxRefs,
         prov : Providers, id : Ids, exch : BOOLEAN,
         pst : ProviderStatuses]

NoRow == [status |-> "none", verified |-> FALSE, ref |-> 0,
          prov |-> CHOOSE p \in Providers : TRUE, id |-> 0, exch |-> FALSE,
          pst |-> "none"]

IsSaldo(o) == Method[o] \in SaldoMethods

\* The row CreateOrder and ProcessTransaction insert; only a SALDO order is
\* stamped payment_verified_at, and only a Tripay order starts unpaid.
NewRow(o, p, r) ==
    [NoRow EXCEPT !.status = IF IsSaldo(o) THEN "processing" ELSE "pending",
                  !.verified = Method[o] = "SALDO",
                  !.ref = r, !.prov = p]

hasProviderOrder(tx) == tx.id # 0
providerOrderMayExist(tx) == hasProviderOrder(tx) \/ tx.exch
isFinalTransactionStatus(s) == s \in FinalStatuses

\* The provider a purchase goes to: the recorded one once the order may have
\* been sent, the product's current one before that.
RouteOf(tx, nominalProvider) ==
    IF providerOrderMayExist(tx) THEN tx.prov ELSE nominalProvider

\* A check of such a row purchases; the variant forgets Kiosgamer, which does
\* not know a repeated ref_id.
PurchaseAlsoAtKiosgamer(tx) ==
    tx.status = "processing" /\ tx.pst \in ContainsPending /\ ~hasProviderOrder(tx)
shouldPurchaseInsteadOfCheck(tx) ==
    /\ tx.status = "processing"
    /\ tx.pst \in ContainsPending
    /\ ~hasProviderOrder(tx)
    /\ tx.prov \notin Kiosgamer

\* A retry may not move an order that may exist at its old provider to a new
\* one unless the row says the old one failed.
SwitchRefused(tx, nominalProvider) ==
    /\ providerOrderMayExist(tx)
    /\ nominalProvider # tx.prov
    /\ tx.status # "failed"

\* The row a retry works on: after a provider switch it is detached from the
\* old provider and gets the new ref r.
prepareProviderSwitchForRetry(tx, nominalProvider, r) ==
    IF providerOrderMayExist(tx) /\ nominalProvider # tx.prov
    THEN [tx EXCEPT !.ref = r, !.id = 0, !.exch = FALSE]
    ELSE tx

-------------------------------------------------------------------------------
(* Provider answers and their effect.                                      *)

\* Result statuses and ProviderError kinds applyResult tells apart.
ReplyKinds == {"success", "failed", "pending", "hold",
               "errHold", "errConfig", "errFinal"}
Errors == {"errHold", "errConfig", "errFinal"}
Replies == [kind : ReplyKinds, id : Ids, pst : ProviderStatuses]
Reply(k, i, s) == [kind |-> k, id |-> i, pst |-> s]
NoReply == Reply("errHold", 0, "none")

Sources == {"fulfill", "check", "callback", "reconcile"}

\* Answers about order i, by the state the order is in at its provider.
VerdictReplies(i, state) ==
    CASE state = "open"    -> {Reply("pending", i, "process"), Reply("pending", 0, "pending")}
      [] state = "success" -> {Reply("success", i, "held")}
      [] OTHER             -> {Reply("failed", i, "held")}

\* Kiosgamer's, polled under id i: an unreadable answer is pending, an order
\* shown without a status word is a success, open or not, and a failure whose
\* text speaks of money or of the shop's own trouble is a hold.
PollReplies(i, state) ==
    {Reply("pending", i, "pending")} \cup
    CASE state = "failed" -> {Reply("failed", i, "held"), Reply("hold", 0, "saldo"),
                              Reply("hold", i, "pending")}
      [] OTHER            -> {Reply("success", i, "held")}

\* What a purchase at Kiosgamer makes of any error before or at pay/init but a
\* dead session or a challenge: a failure, or one of these holds by its text.
PayFailures == {Reply("failed", 0, "held"), Reply("hold", 0, "saldo"),
                Reply("hold", 0, "pending")}

\* A status call whose error text reads as the buyer's mistake ("invalid").
AskFailure == Reply("errFinal", 0, "held")

\* Answers that create nothing at the provider.
RefusalOf(trouble) ==
    CASE trouble = "timeout" -> Reply("errHold", 0, "pending")
      [] trouble = "balance" -> Reply("hold", 0, "saldo")
      [] trouble = "session" -> Reply("errHold", 0, "held")
      [] OTHER               -> Reply("errConfig", 0, "held")
Refusals == {RefusalOf(t) : t \in Outcomes \ {"route"}}

\* A row operation of a handler, carried out by an action of its own.
Ops == {"debit", "insert", "mark", "claim", "load", "redebit", "purchase",
        "check", "reread", "status", "save", "saveOrAbort",
        "hasRefund", "credit", "creditOrAbort"}

\* safeRefundTransaction: nothing for an order not paid from a balance.  In
\* applyResult its error is ignored, elsewhere it ends the handler.  Variants:
\* web orders only, and an error that is always ignored.
RefundOnlyWeb(o) == IF Method[o] = "SALDO" THEN <<"hasRefund", "credit">> ELSE <<>>
RefundIgnoringErrors(o) == IF IsSaldo(o) THEN <<"hasRefund", "credit">> ELSE <<>>
safeRefundTransaction(o) == IF IsSaldo(o) THEN <<"hasRefund", "credit">> ELSE <<>>
RefundOrAbort(o) == IF IsSaldo(o) THEN <<"hasRefund", "creditOrAbort">> ELSE <<>>

\* The status applyResult gives the in-memory transaction.  The variant takes
\* a final verdict for a success whatever it is.
FinalIsSuccess(tx, reply, src) ==
    IF reply.kind \in {"success", "failed"} THEN "success" ELSE "processing"
ResultStatus(tx, reply, src) ==
    CASE reply.kind = "success" -> "success"
      [] reply.kind \in {"failed", "errFinal"} -> "failed"
      [] reply.kind = "pending" /\ src # "fulfill" -> tx.status
      [] OTHER -> "processing"

\* applyResult, the edits of the in-memory transaction.
applyResult(tx, reply, src) ==
    [tx EXCEPT !.pst = reply.pst,
               !.exch = TRUE,
               !.id = IF reply.id # 0 THEN reply.id ELSE tx.id,
               !.status = ResultStatus(tx, reply, src)]

\* applyResult, the writes that follow, in program order.  The variant
\* refunds a held error too.
HoldRefunds(o, reply, src) ==
    CASE reply.kind = "failed"    -> <<"status">> \o safeRefundTransaction(o) \o <<"save">>
      [] reply.kind \in Errors    -> <<"save", "status">> \o safeRefundTransaction(o)
      [] reply.kind = "pending" /\ src # "fulfill" -> <<"save">>
      [] OTHER                    -> <<"status", "save">>
ResultWrites(o, reply, src) ==
    CASE reply.kind = "failed"    -> <<"status">> \o safeRefundTransaction(o) \o <<"save">>
      [] reply.kind = "errFinal"  -> <<"save", "status">> \o safeRefundTransaction(o)
      [] reply.kind = "errConfig" -> <<"save", "status">>
      [] reply.kind = "errHold" \/ (reply.kind = "pending" /\ src # "fulfill") -> <<"save">>
      [] OTHER                    -> <<"status", "save">>

\* A check drops an error before any effect.
Dropped(reply, src) == src = "check" /\ reply.kind \in Errors

\* recordConfigurationError: no route or SKU, the order is parked.
recordConfigurationError(tx) == [tx EXCEPT !.status = "processing", !.pst = "held"]
===============================================================================
