---------------------------- MODULE OrderLifecycle ----------------------------
(***************************************************************************)
(* The life of an order: the transactions table, the balances, the orders   *)
(* placed at providers, and the handlers of                                 *)
(* internal/service/transaction_service.go that work on them concurrently.  *)
(*                                                                         *)
(* A handler (HTTP request, pool task, reconciler goroutine) is a job.  It  *)
(* reads a row once, edits its own copy, and carries out a plan of          *)
(* operations; each database statement and each provider call is a step of  *)
(* its own, so other handlers run between the read and the writes.  Save    *)
(* writes the whole copy back (gorm Save), which is how a stale copy bites. *)
(***************************************************************************)
EXTENDS OrderRules

CONSTANTS
    Jobs,          \* handlers that can be in progress at once
    Kinds,         \* the handlers an instance lets run
    Mismatched,    \* orders whose gateway reports another amount than the row
    InvoiceLookup, \* TRUE when FindByInvoiceNumber finds the row it is asked for
    InitBalance,   \* opening balance of every account
    DBFaults,      \* TRUE when a database statement may fail
    MaxAdmin,      \* bound: admin actions that change an order
    MaxCrashes     \* bound: restarts of the process

AllKinds == {"order", "pay", "callback", "check", "reconcile", "holdRetry",
             "retry", "setSuccess", "refund", "setFailed", "switch", "regen", "reroute"}

ASSUME LifecycleAssumption ==
    /\ Orders # {}
    /\ Kinds \subseteq AllKinds
    /\ Mismatched \subseteq Orders
    /\ InvoiceLookup \in BOOLEAN
    /\ InitBalance \in Nat
    /\ DBFaults \in BOOLEAN
    /\ MaxAdmin \in Nat
    /\ MaxCrashes \in Nat

VARIABLES
    row,        \* transactions table
    fresh,      \* updated_at is younger than the reconciler's minimum age
    balance,    \* users.balance
    debits,     \* debit mutations recorded for an invoice
    refunds,    \* REFUND mutations recorded for an invoice
    marks,      \* history: payment webhooks that won the pending row
    placed,     \* orders at the providers
    route,      \* the provider the product is routed to
    lastRef,    \* last ref_id NewReferences generated for an order
    job,        \* handlers in progress
    adminCalls, \* bound counter
    crashes     \* bound counter

vars == <<row, fresh, balance, debits, refunds, marks, placed, route,
          lastRef, job, adminCalls, crashes>>
money == <<balance, debits, refunds>>
bounds == <<adminCalls, crashes>>

PlacedStates == {"open", "success", "failed"}
JobKinds == AllKinds \cup {"idle"}
PlacedOrders == [prov : Providers, ref : 0 .. MaxRefs, state : PlacedStates]

JobStates == [kind : JobKinds, ord : Orders, tx : Rows,
              plan : Seq(Ops), reply : Replies, src : Sources]
IdleJob == [kind |-> "idle", ord |-> CHOOSE o \in Orders : TRUE, tx |-> NoRow,
            plan |-> <<>>, reply |-> NoReply, src |-> "fulfill"]

Init ==
    /\ row = [o \in Orders |-> NoRow]
    /\ fresh = [o \in Orders |-> FALSE]
    /\ balance = [u \in Users |-> InitBalance]
    /\ debits = [o \in Orders |-> 0]
    /\ refunds = [o \in Orders |-> 0]
    /\ marks = [o \in Orders |-> 0]
    /\ placed = [o \in Orders |-> <<>>]
    /\ route \in Providers
    /\ lastRef = [o \in Orders |-> 0]
    /\ job = [j \in Jobs |-> IdleJob]
    /\ adminCalls = 0
    /\ crashes = 0

-------------------------------------------------------------------------------
(* Running a job.                                                          *)

\* Job j starts handler k on order o with the transaction tx in memory.
Start(j, k, o, tx, plan) ==
    /\ k \in Kinds
    /\ job[j] = IdleJob
    /\ job' = [job EXCEPT ![j] = [IdleJob EXCEPT !.kind = k, !.ord = o,
                                                 !.tx = tx, !.plan = plan]]

At(j, op) == job[j].plan # <<>> /\ Head(job[j].plan) = op

Rest(j) == Tail(job[j].plan)

\* The handler goes on with tx and plan, and is over when nothing is left.
Continue(j, tx, plan) ==
    job' = [job EXCEPT ![j] =
        IF plan = <<>> THEN IdleJob
        ELSE [job[j] EXCEPT !.tx = tx, !.plan = plan,
                            !.reply = NoReply, !.src = "fulfill"]]

Proceed(j) == Continue(j, job[j].tx, Rest(j))

Abort(j) == job' = [job EXCEPT ![j] = IdleJob]

\* applyResult up to its first write.
Apply(j, tx, reply, src) ==
    IF Dropped(reply, src)
    THEN Abort(j)
    ELSE Continue(j, applyResult(tx, reply, src),
                  ResultWrites(job[j].ord, reply, src))

-------------------------------------------------------------------------------
(* The statements of a plan, on the tables.                                *)

\* The test of the balance under the row lock, and a version without it.
SufficientUnchecked(o) == TRUE
Sufficient(o) == balance[Owner[o]] >= Price[o]

\* UserRepository.UpdateBalance, a debit.
Debit(j) ==
    LET o == job[j].ord
        u == Owner[o]
    IN /\ At(j, "debit")
       /\ IF Sufficient(o)
          THEN /\ balance' = [balance EXCEPT ![u] = @ - Price[o]]
               /\ debits' = [debits EXCEPT ![o] = @ + 1]
               /\ Proceed(j)
               /\ UNCHANGED refunds
          ELSE Abort(j) /\ UNCHANGED money
       /\ UNCHANGED <<row, fresh, marks, placed, route, lastRef, bounds>>

\* Whether a REFUND of the invoice is recorded, read under the row lock; and a
\* version that trusts the optimistic test.
RefundUnchecked(o) == FALSE
RefundRecorded(o) == refunds[o] > 0

\* safeRefundTransaction credits TotalAmount; a version that forgets the fee.
CreditWithoutFee(o) == Price[o] - 1
CreditAmount(o) == Price[o]

\* UserRepository.UpdateBalance, a REFUND credit.
Credit(j) ==
    LET o == job[j].ord
        u == Owner[o]
    IN /\ At(j, "credit") \/ At(j, "creditOrAbort")
       /\ IF RefundRecorded(o)
          THEN UNCHANGED money
          ELSE /\ balance' = [balance EXCEPT ![u] = @ + CreditAmount(o)]
               /\ refunds' = [refunds EXCEPT ![o] = @ + 1]
               /\ UNCHANGED debits
       /\ Proceed(j)
       /\ UNCHANGED <<row, fresh, marks, placed, route, lastRef, bounds>>

\* The optimistic HasMutation test of safeRefundTransaction.
HasRefund(j) ==
    /\ At(j, "hasRefund")
    /\ Continue(j, job[j].tx,
                IF refunds[job[j].ord] > 0 THEN SubSeq(job[j].plan, 3, Len(job[j].plan)) ELSE Rest(j))
    /\ UNCHANGED <<row, fresh, money, marks, placed, route, lastRef, bounds>>

\* What ManualRetry and ManualSetSuccess make of the row once it is paid for.
Reopened(k, tx) ==
    IF k = "setSuccess"
    THEN [tx EXCEPT !.status = "success", !.pst = "held", !.verified = TRUE]
    ELSE [tx EXCEPT !.status = "processing", !.pst = "held"]

\* Their test whether the buyer got the money back and has to pay again.
Owed(tx, refunded) == refunded \/ tx.status \in {"failed", "refunded"}
Redebit(j, refunded) ==
    LET tx == job[j].tx
    IN Continue(j, Reopened(job[j].kind, tx),
                (IF Owed(tx, refunded) THEN <<"debit">> ELSE <<>>) \o Rest(j))

RedebitCheck(j) ==
    /\ At(j, "redebit")
    /\ Redebit(j, refunds[job[j].ord] > 0)
    /\ UNCHANGED <<row, fresh, money, marks, placed, route, lastRef, bounds>>

\* TransactionRepository.Create.
Insert(j) ==
    LET o == job[j].ord
    IN /\ At(j, "insert")
       /\ row' = [row EXCEPT ![o] = job[j].tx]
       /\ fresh' = [fresh EXCEPT ![o] = TRUE]
       /\ Proceed(j)
       /\ UNCHANGED <<money, marks, placed, route, lastRef, bounds>>

\* The condition of the update, and an unconditional update.
MarksAny(o) == TRUE
MarksPending(o) == row[o].status = "pending"

\* MarkAsProcessingIfPending: only one webhook finds the row pending.
Mark(j) ==
    LET o == job[j].ord
    IN /\ At(j, "mark")
       /\ IF MarksPending(o)
          THEN /\ row' = [row EXCEPT ![o].status = "processing",
                                     ![o].verified = TRUE]
               /\ fresh' = [fresh EXCEPT ![o] = TRUE]
               /\ marks' = [marks EXCEPT ![o] = @ + 1]
               /\ Proceed(j)
          ELSE Abort(j) /\ UNCHANGED <<row, fresh, marks>>
       /\ UNCHANGED <<money, placed, route, lastRef, bounds>>

\* ClaimProcessingForReconciliation: wins a processing row not touched lately.
Claim(j) ==
    LET o == job[j].ord
    IN /\ At(j, "claim")
       /\ IF row[o].status = "processing" /\ ~fresh[o]
          THEN fresh' = [fresh EXCEPT ![o] = TRUE] /\ Proceed(j)
          ELSE Abort(j) /\ UNCHANGED fresh
       /\ UNCHANGED <<row, money, marks, placed, route, lastRef, bounds>>

\* UpdateStatus: the status column alone, whatever it was.
UpdateStatus(j) ==
    LET o == job[j].ord
    IN /\ At(j, "status")
       /\ row' = [row EXCEPT ![o].status = job[j].tx.status]
       /\ fresh' = [fresh EXCEPT ![o] = TRUE]
       /\ Proceed(j)
       /\ UNCHANGED <<money, marks, placed, route, lastRef, bounds>>

\* TransactionRepository.Update: every column of the copy.
Save(j) ==
    LET o == job[j].ord
    IN /\ At(j, "save") \/ At(j, "saveOrAbort")
       /\ row' = [row EXCEPT ![o] = job[j].tx]
       /\ fresh' = [fresh EXCEPT ![o] = TRUE]
       /\ Proceed(j)
       /\ UNCHANGED <<money, marks, placed, route, lastRef, bounds>>

\* The reconciler's goroutine reads the row it claimed.
Load(j) ==
    LET o == job[j].ord
    IN /\ At(j, "load")
       /\ IF row[o].status = "processing"
          THEN Continue(j, row[o], Rest(j))
          ELSE Abort(j)
       /\ UNCHANGED <<row, fresh, money, marks, placed, route, lastRef, bounds>>

\* After the provider answered, reconciliation reads the row again, drops the
\* answer when the row is final, and applies it to the new copy otherwise.
Reread(j) ==
    LET o == job[j].ord
    IN /\ At(j, "reread")
       /\ IF row[o].status = "processing"
          THEN Apply(j, row[o], job[j].reply, job[j].src)
          ELSE Abort(j)
       /\ UNCHANGED <<row, fresh, money, marks, placed, route, lastRef, bounds>>

\* A statement fails.  Most errors are ignored; the others end the handler.
StatementFails(j) ==
    LET op == Head(job[j].plan)
        o == job[j].ord
    IN /\ DBFaults
       /\ job[j].plan # <<>>
       /\ op \notin {"purchase", "check"}
       /\ CASE op = "insert" /\ IsSaldo(o) -> Continue(j, job[j].tx, <<"credit">>)
            [] op = "redebit" -> Redebit(j, FALSE)
            [] op \in {"status", "save", "credit", "hasRefund"} -> Proceed(j)
            [] OTHER -> Abort(j)
       /\ UNCHANGED <<row, fresh, money, marks, placed, route, lastRef, bounds>>

-------------------------------------------------------------------------------
(* Calls to a provider.                                                    *)

\* Orders of o that provider p can mean when it is asked about tx.
Known(o, p, tx) ==
    {i \in DOMAIN placed[o] :
        /\ placed[o][i].prov = p
        /\ IF p \notin Digiflazz /\ tx.id # 0
           THEN i = tx.id
           ELSE placed[o][i].ref = tx.ref}

\* Whether the call can create an order.  A Digiflazz status check is the same
\* POST as a purchase; elsewhere an existing order id turns a purchase into a
\* poll.
Buys(p, tx, call) ==
    p \in Digiflazz \/ (call = "purchase" /\ ~hasProviderOrder(tx))

\* A call ends with one of these replies and no new order, or with the order
\* bought, in a state s, and one of replies[s].
Hears(o, replies) == {[reply |-> r, orders |-> placed[o]] : r \in replies}
Bought(o, p, tx, replies) ==
    LET new(s) == Append(placed[o], [prov |-> p, ref |-> tx.ref, state |-> s])
    IN IF Len(placed[o]) < MaxPlaced
       THEN UNION {{[reply |-> r, orders |-> new(s)] : r \in replies[s]} : s \in PlacedStates}
       ELSE {}
Lost == {RefusalOf(t) : t \in Outcomes \cap {"timeout"}}

\* What a call for order o can return, with the provider's orders after it.
Exchange(o, p, tx, call) ==
    LET known == Known(o, p, tx)
        verdict == [s \in PlacedStates |-> Lost \cup VerdictReplies(Len(placed[o]) + 1, s)]
    IN Hears(o, Refusals) \cup
       (IF Buys(p, tx, call) /\ (p \notin Dedup \/ known = {}) THEN Bought(o, p, tx, verdict)
        ELSE IF known = {} THEN Hears(o, {Reply("pending", 0, "pending")})
        ELSE Hears(o, UNION {VerdictReplies(i, placed[o][i].state) : i \in known}))

\* Kiosgamer, which knows no ref_id.  A purchase buys, and one whose answer is
\* lost is a failure like one that bought nothing.  An order id is polled; for a
\* check without one the latest order of the account is a success, whoever
\* bought it and however it stands.
KiosgamerExchange(o, p, tx, call) ==
    LET own == {i \in DOMAIN placed[o] : placed[o][i].prov = p}
        latest == {i \in own : \A k \in own : k <= i} \cup {Foreign}
        recent == {Reply("success", i, "held") : i \in latest}
                     \cup (IF own = {} THEN {Reply("pending", 0, "pending")} ELSE {})
        polled == IF tx.id \in own THEN {placed[o][tx.id].state} ELSE PlacedStates
        sessionLost == {RefusalOf(t) : t \in Outcomes \cap {"session"}}
        payLost == IF "timeout" \in Outcomes THEN PayFailures ELSE {}
        verdict == [s \in PlacedStates |->
                       sessionLost \cup payLost \cup PollReplies(Len(placed[o]) + 1, s)]
    IN Hears(o, Refusals) \cup
       (IF hasProviderOrder(tx)
        THEN Hears(o, {AskFailure} \cup UNION {PollReplies(tx.id, s) : s \in polled})
        ELSE IF call = "check" THEN Hears(o, {AskFailure} \cup recent)
        ELSE Hears(o, PayFailures) \cup Bought(o, p, tx, verdict))

Answers(o, p, tx, call) ==
    IF p \in Kiosgamer THEN KiosgamerExchange(o, p, tx, call) ELSE Exchange(o, p, tx, call)

\* resolveProviderCode notes the provider in the copy, but Save puts the one
\* back that a row was read with (Preload); only the creator's copy has none.
Noted(j, p) ==
    IF job[j].kind = "order" THEN [job[j].tx EXCEPT !.prov = p] ELSE job[j].tx

\* fulfillOrderRegistry and retryProviderOrder.
Purchase(j) ==
    LET o == job[j].ord
        p == RouteOf(job[j].tx, route)
    IN /\ At(j, "purchase")
       /\ \/ /\ "route" \in Outcomes
             /\ \E q \in {job[j].tx.prov, p} :
                   Continue(j, recordConfigurationError(Noted(j, q)), <<"save">>)
             /\ UNCHANGED placed
          \/ \E x \in Answers(o, p, job[j].tx, "purchase") :
                /\ placed' = [placed EXCEPT ![o] = x.orders]
                /\ Apply(j, Noted(j, p), x.reply, "fulfill")
       /\ UNCHANGED <<row, fresh, money, marks, route, lastRef, bounds>>

\* checkProviderStatusRegistry once the row is read: it purchases instead when
\* the copy has no provider order.  Reconciliation reads the row again before
\* it applies the answer.
Check(j) ==
    LET o == job[j].ord
        tx == job[j].tx
        buy == shouldPurchaseInsteadOfCheck(tx)
        src == IF buy THEN "fulfill" ELSE job[j].kind
    IN /\ At(j, "check")
       /\ \/ "route" \in Outcomes /\ Abort(j) /\ UNCHANGED placed
          \/ \E x \in Answers(o, tx.prov, tx, IF buy THEN "purchase" ELSE "check") :
                /\ placed' = [placed EXCEPT ![o] = x.orders]
                /\ IF job[j].kind = "reconcile"
                   THEN job' = [job EXCEPT ![j].tx = NoRow, ![j].plan = <<"reread">>,
                                           ![j].reply = x.reply, ![j].src = src]
                   ELSE Apply(j, tx, x.reply, src)
       /\ UNCHANGED <<row, fresh, money, marks, route, lastRef, bounds>>

-------------------------------------------------------------------------------
(* Entry points.                                                           *)

EntryFrame == UNCHANGED <<row, fresh, money, marks, placed, route, crashes>>

\* A balance order is debited, inserted and fulfilled; a gateway order waits
\* for its payment.  The variant does not wait.
FulfilUnpaid(o) ==
    IF IsSaldo(o) THEN <<"debit", "insert", "purchase">> ELSE <<"insert", "purchase">>
CreatePlan(o) ==
    IF IsSaldo(o) THEN <<"debit", "insert", "purchase">> ELSE <<"insert">>

\* TransactionService.CreateOrder and H2HService.ProcessTransaction.
CreateOrder(j, o) ==
    LET ref == lastRef[o] + 1
    IN /\ row[o] = NoRow
       /\ debits[o] = 0
       /\ \A k \in Jobs : job[k].kind = "idle" \/ job[k].ord # o
       /\ ref <= MaxRefs
       /\ IsSaldo(o) => balance[Owner[o]] >= Price[o]
       /\ lastRef' = [lastRef EXCEPT ![o] = ref]
       /\ Start(j, "order", o, NewRow(o, route, ref), CreatePlan(o))
       /\ EntryFrame /\ UNCHANGED adminCalls

\* The lookup of HandlePaymentSuccess.  It preloads a relation a Transaction does
\* not have, and then fails for every invoice: InvoiceLookup is FALSE.
FindByInvoiceNumber(o) == InvoiceLookup /\ row[o].status # "none"

\* HandlePaymentSuccess: the gateway says order o is paid.  The variant does not
\* compare the amount.
PaymentOfAnyAmount(j, o) ==
    /\ Method[o] = "TRIPAY"
    /\ FindByInvoiceNumber(o)
    /\ Start(j, "pay", o, row[o], <<"mark", "purchase">>)
    /\ EntryFrame /\ UNCHANGED <<lastRef, adminCalls>>
HandlePaymentSuccess(j, o) ==
    /\ Method[o] = "TRIPAY"
    /\ FindByInvoiceNumber(o)
    /\ IF o \in Mismatched
       THEN Start(j, "pay", o, [row[o] EXCEPT !.status = "failed"], <<"status">>)
       ELSE Start(j, "pay", o, row[o], <<"mark", "purchase">>)
    /\ EntryFrame /\ UNCHANGED <<lastRef, adminCalls>>

\* HandleProviderCallback: a provider that has a callback reports its order i,
\* which is looked up by provider order id or by ref.
HandleProviderCallback(j, o, i) ==
    LET order == placed[o][i]
    IN /\ order.prov \notin Kiosgamer
       /\ row[o].status # "none" /\ ~isFinalTransactionStatus(row[o].status)
       /\ row[o].id = i \/ row[o].ref = order.ref
       /\ \E r \in VerdictReplies(i, order.state) :
             Start(j, "callback", o, applyResult(row[o], r, "callback"),
                   ResultWrites(o, r, "callback"))
       /\ EntryFrame /\ UNCHANGED <<lastRef, adminCalls>>

\* CheckProviderStatus: an admin asks for the status of any order.
CheckProviderStatus(j, o) ==
    /\ row[o].status # "none"
    /\ Start(j, "check", o, row[o], <<"check">>)
    /\ EntryFrame /\ UNCHANGED <<lastRef, adminCalls>>

\* One goroutine runs each background loop and waits for its batch, so a loop
\* works at most once on an order at a time.
LoopFree(k, o) == \A j \in Jobs : job[j].kind # k \/ job[j].ord # o

\* ReconcilerWorker.runOnce picks the order from the queue it queried.
ReconcileProcessingTransaction(j, o) ==
    /\ LoopFree("reconcile", o)
    /\ row[o].status = "processing"
    /\ row[o].pst \in ReconcileQueued
    /\ row[o].prov \in Kiosgamer => hasProviderOrder(row[o])
    /\ ~fresh[o]
    /\ Start(j, "reconcile", o, NoRow, <<"claim", "load", "check">>)
    /\ EntryFrame /\ UNCHANGED <<lastRef, adminCalls>>

\* RetryDigiflazzBalanceHolds, one candidate: its copy is as old as the query.
RetryDigiflazzBalanceHolds(j, o) ==
    /\ LoopFree("holdRetry", o)
    /\ row[o].status = "processing"
    /\ row[o].prov \in Digiflazz
    /\ row[o].pst \in BalanceHold
    /\ ~hasProviderOrder(row[o])
    /\ Start(j, "holdRetry", o, [row[o] EXCEPT !.pst = "retrysaldo"],
             <<"claim", "save", "purchase">>)
    /\ EntryFrame /\ UNCHANGED <<lastRef, adminCalls>>

AdminCall ==
    /\ adminCalls < MaxAdmin
    /\ adminCalls' = adminCalls + 1

\* Starts a retry or a manual success; an order paid from a balance is first
\* tested for a refund.
StartReopening(j, k, o, tx, plan) ==
    IF IsSaldo(o)
    THEN Start(j, k, o, tx, <<"redebit">> \o plan)
    ELSE Start(j, k, o, Reopened(k, tx), plan)

ManualRetry(j, o) ==
    LET tx == row[o]
        switched == prepareProviderSwitchForRetry(tx, route, lastRef[o] + 1)
    IN /\ tx.status # "none"
       /\ ~(tx.status = "pending" /\ ~tx.verified)
       /\ ~SwitchRefused(tx, route)
       /\ switched.ref <= MaxRefs
       /\ lastRef' = [lastRef EXCEPT ![o] = IF switched = tx THEN @ ELSE @ + 1]
       /\ AdminCall
       /\ StartReopening(j, "retry", o, switched, <<"save", "purchase">>)
       /\ EntryFrame

ManualSetSuccess(j, o) ==
    /\ row[o].status \notin {"none", "success"}
    /\ AdminCall
    /\ StartReopening(j, "setSuccess", o, row[o], <<"save", "status">>)
    /\ EntryFrame /\ UNCHANGED lastRef

ManualRefund(j, o) ==
    /\ row[o].status \notin {"none", "refunded"}
    /\ AdminCall
    /\ Start(j, "refund", o, [row[o] EXCEPT !.status = "refunded", !.pst = "held"],
             RefundOrAbort(o) \o <<"save", "status">>)
    /\ EntryFrame /\ UNCHANGED lastRef

\* Reached through BulkManualAction only, for processing orders.
ManualSetFailed(j, o) ==
    /\ row[o].status = "processing"
    /\ AdminCall
    /\ Start(j, "setFailed", o, [row[o] EXCEPT !.status = "failed", !.pst = "held"],
             RefundOrAbort(o) \o <<"save">>)
    /\ EntryFrame /\ UNCHANGED lastRef

\* One order of the bulk move to the product's current provider: the ref is
\* kept, what is known of the old provider is cleared, and its name in the row
\* stays (Save).
BulkRetryWithProvider(j, o) ==
    /\ row[o].status = "processing"
    /\ row[o].pst \in ContainsPending
    /\ ~hasProviderOrder(row[o])
    /\ AdminCall
    /\ Start(j, "switch", o,
             [row[o] EXCEPT !.exch = FALSE, !.pst = "held"],
             <<"saveOrAbort", "purchase">>)
    /\ EntryFrame /\ UNCHANGED lastRef

RegenerateProviderRefID(j, o) ==
    LET ref == lastRef[o] + 1
    IN /\ row[o].status \notin {"none", "success", "refunded"}
       /\ ~hasProviderOrder(row[o])
       /\ ref <= MaxRefs
       /\ lastRef' = [lastRef EXCEPT ![o] = ref]
       /\ AdminCall
       /\ Start(j, "regen", o, [row[o] EXCEPT !.ref = ref], <<"save">>)
       /\ EntryFrame

-------------------------------------------------------------------------------
(* The world around the handlers.                                          *)

\* The provider finishes an order it had accepted.
Decide(o, i) ==
    /\ placed[o][i].state = "open"
    /\ \E s \in {"success", "failed"} :
          placed' = [placed EXCEPT ![o][i].state = s]
    /\ UNCHANGED <<row, fresh, money, marks, route, lastRef, job, bounds>>

\* An admin routes the product to another provider.
SwitchProvider ==
    /\ "reroute" \in Kinds
    /\ AdminCall
    /\ route' \in Providers \ {route}
    /\ UNCHANGED <<row, fresh, money, marks, placed, lastRef, job, crashes>>

\* Time passes: an untouched order reaches the reconciler's minimum age.
Age(o) ==
    /\ fresh[o]
    /\ fresh' = [fresh EXCEPT ![o] = FALSE]
    /\ UNCHANGED <<row, money, marks, placed, route, lastRef, job, bounds>>

\* The process stops: the pool's queue and every running handler are gone.
Crash ==
    /\ crashes < MaxCrashes
    /\ crashes' = crashes + 1
    /\ job' = [j \in Jobs |-> IdleJob]
    /\ UNCHANGED <<row, fresh, money, marks, placed, route, lastRef, adminCalls>>

Statement(j) ==
    \/ Debit(j) \/ Credit(j) \/ HasRefund(j) \/ RedebitCheck(j) \/ Insert(j)
    \/ Mark(j) \/ Claim(j) \/ UpdateStatus(j) \/ Save(j) \/ Load(j) \/ Reread(j)

Call(j) == Purchase(j) \/ Check(j)

AutomaticEntry(j, o) ==
    \/ CreateOrder(j, o)
    \/ HandlePaymentSuccess(j, o)
    \/ \E i \in DOMAIN placed[o] : HandleProviderCallback(j, o, i)
    \/ CheckProviderStatus(j, o)
    \/ ReconcileProcessingTransaction(j, o)
    \/ RetryDigiflazzBalanceHolds(j, o)

AdminEntry(j, o) ==
    \/ ManualRetry(j, o) \/ ManualSetSuccess(j, o) \/ ManualRefund(j, o)
    \/ ManualSetFailed(j, o) \/ BulkRetryWithProvider(j, o)
    \/ RegenerateProviderRefID(j, o)

World ==
    \/ \E o \in Orders : Age(o) \/ \E i \in DOMAIN placed[o] : Decide(o, i)
    \/ SwitchProvider
    \/ Crash

Next ==
    \/ \E j \in Jobs : Statement(j) \/ Call(j) \/ StatementFails(j)
    \/ \E j \in Jobs, o \in Orders : AutomaticEntry(j, o) \/ AdminEntry(j, o)
    \/ World

Spec == Init /\ [][Next]_vars
===============================================================================
