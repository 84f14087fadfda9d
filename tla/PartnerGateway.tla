---------------------------- MODULE PartnerGateway ----------------------------
(***************************************************************************)
(* How an H2H partner buys and hears the end of what it bought:            *)
(* internal/service/H2H_service.go and its callbacks to the partner in     *)
(* internal/service/webhook_service.go.  One partner, its balance, the     *)
(* requests it repeats and the answers and callbacks it misses.  What a     *)
(* provider does with an order is OrderLifecycle's; here an order is       *)
(* settled in one step.                                                    *)
(***************************************************************************)
EXTENDS Integers, Sequences, FiniteSets

CONSTANTS
    Refs,          \* ref_ids the partner uses
    Requests,      \* goroutines in ProcessTransaction
    Uses,          \* sets of refs a partner may use together
    Impatient,     \* refs sent again while a request of them may still run
    Faulty,        \* refs whose debits, inserts and saves may fail
    Outages,       \* refs whose lookups and give-backs may fail unnoticed
    Touched,       \* refs whose orders admins retry, complete or refund
    Deposit,       \* the partner's opening balance
    Tariff,        \* price of the partner's tier
    Attempts,      \* len(retryDelays) + 1
    MaxInvoices,   \* bound: invoices issued
    MaxSends,      \* bound: requests per ref
    MaxTouches     \* bound: admin actions

ASSUME GatewayAssumption ==
    /\ Refs # {} /\ Uses \subseteq SUBSET Refs
    /\ Impatient \cup Faulty \cup Outages \cup Touched \subseteq Refs
    /\ Deposit \in Nat /\ Tariff \in Nat \ {0}
    /\ Attempts \in Nat \ {0}
    /\ MaxInvoices \in Nat /\ MaxSends \in Nat /\ MaxTouches \in Nat

VARIABLES
    saldo,      \* users.balance of the partner
    charged,    \* debits of an invoice
    returned,   \* REFUND credits of an invoice
    orders,     \* the partner's rows, in the order of their ids
    request,    \* what each goroutine in ProcessTransaction does
    posts,      \* goroutines in deliver
    heard,      \* the last status the partner heard of a ref
    uses,       \* the refs the partner uses
    issued,     \* the ref of each invoice number handed out
    sent, touches

money == <<saldo, charged, returned>>
bounds == <<uses, sent, issued, touches>>
gatewayVars == <<saldo, charged, returned, orders, request, posts, heard, uses, sent, issued, touches>>

Invoices == 1 .. MaxInvoices
OrderStatuses == {"processing", "success", "failed", "refunded"}
\* A status with its rc: "Gagal" comes with 02 of an order that failed, with 07
\* or 17 of a product or a balance that is short (Short), and with 40 of
\* anything else (Rejected), which alone says nothing of an order.
Words == {"Sukses", "Pending", "Gagal", "Short", "Rejected"}
RequestSteps == {"idle", "lookup", "debit", "create", "giveBack", "fulfil"}
IdleRequest == [at |-> "idle", ref |-> CHOOSE r \in Refs : TRUE, inv |-> 0, seen |-> 0]

GatewayInit ==
    /\ saldo = Deposit
    /\ charged = [i \in Invoices |-> 0]
    /\ returned = [i \in Invoices |-> 0]
    /\ orders = <<>>
    /\ request = [c \in Requests |-> IdleRequest]
    /\ posts = {}
    /\ heard = [r \in Refs |-> "nothing"]
    /\ uses \in Uses
    /\ sent = [r \in Refs |-> 0]
    /\ issued = <<>>
    /\ touches = 0

\* The status word of the partner protocol; the variant forgets refunds.
statusWithoutRefund(s) ==
    IF s = "success" THEN "Sukses" ELSE IF s = "failed" THEN "Gagal" ELSE "Pending"
statusToDigiflazz(s) ==
    IF s = "success" THEN "Sukses"
    ELSE IF s \in {"failed", "refunded"} THEN "Gagal" ELSE "Pending"

\* First(): of the rows of a ref the one with the lowest id.
RowsOf(r) == {k \in DOMAIN orders : orders[k].ref = r}
FirstRow(r) == orders[CHOOSE k \in RowsOf(r) : \A l \in RowsOf(r) : k <= l]

Hears(r, word) == heard' = [heard EXCEPT ![r] = word]
Proceed(c, step) == request' = [request EXCEPT ![c].at = step]

\* The answer ends the request; it may get lost on its way.
Answer(c, word) ==
    /\ request' = [request EXCEPT ![c] = IdleRequest]
    /\ Hears(request[c].ref, word) \/ UNCHANGED heard

-------------------------------------------------------------------------------
(* The balance statements of UserRepository.UpdateBalance.                 *)

Debit(i) ==
    /\ saldo >= Tariff
    /\ saldo' = saldo - Tariff
    /\ charged' = [charged EXCEPT ![i] = @ + 1]
    /\ UNCHANGED returned

\* A second REFUND of an invoice is no error and moves nothing; the variant
\* does not look for the first.
CreditAgain(i) ==
    /\ saldo' = saldo + Tariff
    /\ returned' = [returned EXCEPT ![i] = 1]
    /\ UNCHANGED charged
Credit(i) ==
    IF returned[i] > 0 THEN UNCHANGED money
    ELSE /\ saldo' = saldo + Tariff
         /\ returned' = [returned EXCEPT ![i] = 1]
         /\ UNCHANGED charged

-------------------------------------------------------------------------------
(* ProcessTransaction.                                                     *)

Busy(r) == \E c \in Requests : request[c].at # "idle" /\ request[c].ref = r

\* The partner sends a request; AuthenticatePartner reads its account.
Send(c, r) ==
    /\ request[c].at = "idle"
    /\ r \in uses /\ sent[r] < MaxSends
    /\ r \in Impatient \/ ~Busy(r)
    /\ request' = [request EXCEPT ![c] = [at |-> "lookup", ref |-> r, inv |-> 0, seen |-> saldo]]
    /\ sent' = [sent EXCEPT ![r] = @ + 1]
    /\ Hears(r, "nothing")
    /\ UNCHANGED <<money, orders, posts, uses, issued, touches>>

\* The error of the lookup is dropped: a failed lookup finds nothing.  The
\* variant looks for open orders only.
FindsOpen(c) == \E k \in RowsOf(request[c].ref) : orders[k].status = "processing"
FindsNone(c) == RowsOf(request[c].ref) = {}
Known(c) == ~FindsNone(c)

\* An order of this ref exists: its status is the answer.
Repeat(c) ==
    /\ Known(c)
    /\ Answer(c, statusToDigiflazz(FirstRow(request[c].ref).status))
    /\ UNCHANGED issued

\* Key, signature, user_id and callback URL are judged before the ref is looked
\* for, target and margin after it: the rc is the same.
Reject(c) == Answer(c, "Rejected") /\ UNCHANGED issued

\* There is no such product, or no balance for it.
Refuse(c) ==
    /\ ~Known(c) \/ request[c].ref \in Outages
    /\ Answer(c, "Short")
    /\ UNCHANGED issued

\* NewReferences hands out an invoice number nobody has.
Accept(c) ==
    /\ ~Known(c) \/ request[c].ref \in Outages
    /\ request[c].seen >= Tariff
    /\ Len(issued) < MaxInvoices
    /\ issued' = Append(issued, request[c].ref)
    /\ request' = [request EXCEPT ![c].at = "debit", ![c].inv = Len(issued) + 1]
    /\ UNCHANGED heard

Lookup(c) ==
    /\ request[c].at = "lookup"
    /\ Repeat(c) \/ Reject(c) \/ Refuse(c) \/ Accept(c)
    /\ UNCHANGED <<money, orders, posts, uses, sent, touches>>

\* The balance is tested again under the lock of the account.
DebitPartner(c) ==
    /\ request[c].at = "debit"
    /\ \/ Debit(request[c].inv) /\ Proceed(c, "create") /\ UNCHANGED heard
       \/ /\ saldo < Tariff \/ request[c].ref \in Faulty
          /\ Answer(c, "Short")
          /\ UNCHANGED money
    /\ UNCHANGED <<orders, posts, bounds>>

\* After a failed insert the debit is given back; the variant forgets it.
JustAnswer(c) == Answer(c, "Rejected")
InsertFailed(c) == Proceed(c, "giveBack") /\ UNCHANGED heard

CreateTransaction(c) ==
    /\ request[c].at = "create"
    /\ \/ /\ orders' = Append(orders, [inv |-> request[c].inv, ref |-> request[c].ref,
                                       status |-> "processing"])
          /\ Proceed(c, "fulfil")
          /\ UNCHANGED heard
       \/ /\ request[c].ref \in Faulty
          /\ InsertFailed(c)
          /\ UNCHANGED orders
    /\ UNCHANGED <<money, posts, bounds>>

GiveBack(c) ==
    /\ request[c].at = "giveBack"
    /\ Credit(request[c].inv) \/ (request[c].ref \in Outages /\ UNCHANGED money)
    /\ Answer(c, "Rejected")
    /\ UNCHANGED <<orders, posts, bounds>>

-------------------------------------------------------------------------------
(* The end of an order.                                                    *)

\* A goroutine posts the status as it is now; not for an order still open.
Serial == touches
NotifyTransaction(k, s) ==
    posts' = posts \cup {[inv |-> orders[k].inv, no |-> Serial, ref |-> orders[k].ref,
                          word |-> statusToDigiflazz(s), left |-> Attempts]}

SetStatus(k, s) == orders' = [orders EXCEPT ![k].status = s]

\* applyResult with a result: a failure is refunded, the end is announced
\* unless the last Save fails.
ApplyResult(k, s) ==
    /\ SetStatus(k, s)
    /\ IF s = "failed" THEN Credit(orders[k].inv) ELSE UNCHANGED money
    /\ NotifyTransaction(k, s) \/ (orders[k].ref \in Faulty /\ UNCHANGED posts)

\* applyResult with a final error of Kiosgamer returns before the callback.
ApplyFinalError(k) ==
    /\ SetStatus(k, "failed")
    /\ Credit(orders[k].inv)
    /\ UNCHANGED posts

Ends(k, s) == ApplyResult(k, s) \/ (s = "failed" /\ ApplyFinalError(k))

RowOf(i) == CHOOSE k \in DOMAIN orders : orders[k].inv = i
InRequest(k) == \E c \in Requests : request[c].at = "fulfil" /\ request[c].inv = orders[k].inv

\* FulfillOrder inside the request: the provider ends the order at once, or
\* the partner hears that it is pending.
FulfillOrder(c) ==
    LET k == RowOf(request[c].inv)
    IN /\ request[c].at = "fulfil"
       /\ \/ \E s \in {"success", "failed"} : Ends(k, s) /\ Answer(c, statusToDigiflazz(s))
          \/ Answer(c, "Pending") /\ UNCHANGED <<money, orders, posts>>
       /\ UNCHANGED bounds

\* A callback or reconciliation ends it later.
Settle(k) ==
    /\ orders[k].status = "processing" /\ ~InRequest(k)
    /\ \E s \in {"success", "failed"} : Ends(k, s)
    /\ UNCHANGED <<request, heard, bounds>>

\* ManualRetry and ManualSetSuccess charge an order again that gave its money
\* back; ManualRefund returns it.  None of them tells the partner.
ChargeAgain(k) ==
    IF returned[orders[k].inv] > 0 \/ orders[k].status \in {"failed", "refunded"}
    THEN Debit(orders[k].inv) ELSE UNCHANGED money

Touch(k) ==
    /\ orders[k].ref \in Touched /\ ~InRequest(k)
    /\ touches < MaxTouches
    /\ \/ ChargeAgain(k) /\ SetStatus(k, "processing")
       \/ orders[k].status # "success" /\ ChargeAgain(k) /\ SetStatus(k, "success")
       \/ orders[k].status # "refunded" /\ Credit(orders[k].inv) /\ SetStatus(k, "refunded")
    /\ touches' = touches + 1
    /\ UNCHANGED <<request, posts, heard, uses, sent, issued>>

-------------------------------------------------------------------------------
(* What reaches the partner later.                                         *)

\* One POST of deliver: 2xx ends it, anything else costs an attempt, also when
\* the partner did read it.
Deliver(p) ==
    /\ \/ Hears(p.ref, p.word) /\ posts' = posts \ {p}
       \/ /\ Hears(p.ref, p.word) \/ UNCHANGED heard
          /\ posts' = (posts \ {p}) \cup (IF p.left = 1 THEN {}
                                          ELSE {[p EXCEPT !.left = @ - 1]})
    /\ UNCHANGED <<money, orders, request, bounds>>

\* The partner asks while it knows no end and no request of it runs.
Asks(r) == sent[r] > 0 /\ ~Busy(r) /\ heard[r] \notin {"Sukses", "Gagal"}
CheckStatus(r) ==
    /\ Asks(r)
    /\ Hears(r, IF RowsOf(r) = {} THEN "Rejected" ELSE statusToDigiflazz(FirstRow(r).status))
    /\ heard' # heard
    /\ UNCHANGED <<money, orders, request, posts, bounds>>

\* The key or the query failed.
CheckFails(r) ==
    /\ Asks(r)
    /\ Hears(r, "Rejected")
    /\ heard' # heard
    /\ UNCHANGED <<money, orders, request, posts, bounds>>

\* A stop waits for requests and not for the goroutines in deliver.
Restart ==
    /\ posts # {} /\ \A c \in Requests : request[c] = IdleRequest
    /\ posts' = {}
    /\ UNCHANGED <<money, orders, request, heard, bounds>>

-------------------------------------------------------------------------------
Step(c) ==
    Lookup(c) \/ DebitPartner(c) \/ CreateTransaction(c) \/ GiveBack(c) \/ FulfillOrder(c)

GatewayNext ==
    \/ \E c \in Requests, r \in Refs : Send(c, r)
    \/ \E c \in Requests : Step(c)
    \/ \E k \in DOMAIN orders : Settle(k) \/ Touch(k)
    \/ \E p \in posts : Deliver(p)
    \/ \E r \in Refs : CheckStatus(r) \/ CheckFails(r)
    \/ Restart

GatewaySpec == GatewayInit /\ [][GatewayNext]_gatewayVars

-------------------------------------------------------------------------------
GatewayTypeOK ==
    /\ saldo \in Nat
    /\ charged \in [Invoices -> Nat]
    /\ returned \in [Invoices -> {0, 1}]
    /\ orders \in Seq([inv : Invoices, ref : Refs, status : OrderStatuses])
    /\ request \in [Requests -> [at : RequestSteps, ref : Refs, inv : 0 .. MaxInvoices, seen : Nat]]
    /\ posts \subseteq [inv : Invoices, no : 0 .. MaxTouches, ref : Refs, word : Words,
                        left : 1 .. Attempts]
    /\ heard \in [Refs -> Words \cup {"nothing"}]
    /\ uses \in Uses
    /\ sent \in [Refs -> 0 .. MaxSends]
    /\ issued \in Seq(Refs) /\ Len(issued) <= MaxInvoices
    /\ touches \in 0 .. MaxTouches

\* The invoices a ref led to.
InvoicesOf(r) == {i \in DOMAIN issued : issued[i] = r}

\* A partner that waits for an answer, or for its own timeout to be longer
\* than the server's, and repeats the ref_id is charged once for it.
ChargedOncePerRef ==
    \A r \in Refs \ (Impatient \cup Outages \cup Touched) :
        Cardinality({i \in InvoicesOf(r) : charged[i] > returned[i]}) <= 1

\* A partner that was told that its order failed or that it cannot pay for it,
\* by an answer, a status check or a callback, has its money back, and so has
\* one whose ref led to no order.
Told == {"Gagal", "Short"}
GagalIsFree ==
    \A r \in Refs \ (Impatient \cup Outages \cup Touched) :
        heard[r] \in Told \/ (RowsOf(r) = {} /\ ~Busy(r)) =>
            \A i \in InvoicesOf(r) : charged[i] = returned[i]

\* With every callback lost and checks that fail, a partner that asks learns how each of its orders
\* ended, and later callbacks do not tell it otherwise; of an order an admin
\* moves on after its end it learns an end.
PartnerLearnsEnd ==
    <>[](\A r \in Refs \ (Impatient \cup Outages) : RowsOf(r) # {} =>
            /\ FirstRow(r).status # "processing"
            /\ heard[r] \in {"Sukses", "Gagal"}
            /\ r \notin Touched => heard[r] = statusToDigiflazz(FirstRow(r).status))

\* The gateway moves the partner's money as the ledger of orders allows: each
\* invoice is charged against a balance that covers it and given back once.
GatewayLedger == INSTANCE OrderLedger WITH
    Orders <- Invoices, Users <- {"partner"},
    Owner <- [i \in Invoices |-> "partner"], Price <- [i \in Invoices |-> Tariff],
    InitBalance <- Deposit,
    balance <- [u \in {"partner"} |-> saldo], debits <- charged, refunds <- returned
GatewayImplementsLedger == GatewayLedger!Spec
===============================================================================
