---------------------------- MODULE ProviderAdapters ----------------------------
(***************************************************************************)
(* One order between the server and a provider: what each adapter of        *)
(* internal/provider makes of the answers, losses and callbacks it may get,  *)
(* and what that leaves in the row (applyResult of the transaction service). *)
(*                                                                         *)
(* An adapter is a record of decisions: what a status word becomes, what a  *)
(* refused request becomes, how it finds an order again, and how a callback *)
(* names the order.  The status texts are grouped as the adapters' tables   *)
(* group them: a word is one of five classes.  One call is in progress at a *)
(* time; handlers that race each other are the subject of OrderLifecycle.   *)
(* A provider keeps one order per ref_id and answers a repeated create with  *)
(* it, or refuses the repetition (external, the adapters rely on it).        *)
(***************************************************************************)
EXTENDS Naturals

CONSTANTS
    Adapters,    \* provider codes an instance considers
    MaxTries,    \* bound: purchases started by the pool or an admin
    MaxLate      \* bound: creates on their way after the adapter gave up

AdapterCodes == {"ASMARKET", "BOSTGAME", "DIGIFLAZZ", "EXCELLENTSTORE", "EXCELLSTORE",
                  "FFZSTORE", "MUMTAZSHOP", "SIPAS", "VEXAGAME"}

ASSUME AdapterAssumption ==
    Adapters \subseteq AdapterCodes /\ MaxTries \in Nat /\ MaxLate \in Nat

VARIABLES
    code,     \* the adapter of the order, fixed
    barred,   \* the provider refuses this product for this player for good, fixed
    remote,   \* the order at the provider
    late,     \* creates that may still arrive there
    exchange, \* the call in progress
    trx,      \* the row: status, provider_status, order id, saved invoice_number
    tries,    \* bound counter
    unread    \* history: SIPAS gave an id on a text no marker matches, or on no answer at all

adapterVars == <<code, barred, remote, late, exchange, trx, tries, unread>>
fixed == <<code, barred>>

-------------------------------------------------------------------------------
(* Results.                                                                *)

Words == {"success", "failed", "process", "partial", "odd"}
Refusals == {"barred", "balance", "cutoff", "disruption", "other"}
Texts == {"none", "pending", "process", "config", "other"}

\* id = 1 stands for a ProviderOrderID that is not empty.
Result(s, i, p) == [status |-> s, id |-> i, pst |-> p]
temporaryError == Result("hold", 0, "pending")
configurationError == Result("hold", 0, "config")
AllHeld == [r \in Refusals |-> temporaryError]

\* ExcellentStore, resultFromOrder.  A word of no list is kept pending.
ExcellentStoreWords == [w \in Words |->
    CASE w = "success" -> Result("success", 1, "other")
      [] w = "failed"  -> Result("failed", 1, "other")
      [] w = "process" -> Result("pending", 1, "process")
      [] OTHER         -> Result("pending", 1, "pending")]

\* BostGame's words have a partial success, neither delivered nor refunded.  The variant
\* takes it for a success.
PartialIsSuccess == [ExcellentStoreWords EXCEPT !["partial"] = Result("success", 1, "other")]
BostGameWords == [ExcellentStoreWords EXCEPT !["partial"] = Result("pending", 1, "pending")]

\* ASMarket does not rewrite its pending word.
ASMarketWords == [ExcellentStoreWords EXCEPT !["process"] = Result("pending", 1, "pending")]

\* OtoMax keeps the provider's text whatever it is.
OtomaxWords == [ExcellentStoreWords EXCEPT
    !["process"] = Result("pending", 1, "pending"),
    !["partial"] = Result("pending", 1, "other"),
    !["odd"] = Result("pending", 1, "other")]

\* BostGame: two error codes say that no order was made and none will be.  The
\* variant takes every error for one of them.
EveryCodeIsFinal == [r \in Refusals |-> Result("failed", 0, "other")]
BostGameRefused == [AllHeld EXCEPT !["barred"] = Result("failed", 0, "other")]

\* SIPAS answers with a text: three shortages come before "gagal", and leave
\* the order id empty so that a retry sends the order.  The variant keeps it.
SipasKeepsId == [r \in Refusals |->
    IF r = "barred" THEN Result("failed", 1, "other") ELSE Result("pending", 1, "pending")]
SipasRefused == [r \in Refusals |->
    CASE r = "barred" -> Result("failed", 1, "other")
      [] r = "other"  -> Result("pending", 1, "pending")
      [] OTHER        -> Result("hold", 0, "pending")]

\* Digiflazz: the response code decides; a code of no list waits for an admin.
DigiflazzRefused == [r \in Refusals |->
    IF r = "barred" THEN Result("failed", 0, "other") ELSE Result("pending", 0, "pending")]

OtomaxRefused == [AllHeld EXCEPT !["barred"] = Result("failed", 0, "other")]

-------------------------------------------------------------------------------
(* The adapters.  check: by our ref, by the provider's id, by the invoice     *)
(* number of a callback, by creating again, or never.  callback: the value   *)
(* by which the service looks for the row, if there are callbacks.           *)

Adapter(words, refused, check, lookup, callback) ==
    [words |-> words, refused |-> refused, check |-> check, lookup |-> lookup,
     callback |-> callback]

ExcellentStore == Adapter(ExcellentStoreWords, AllHeld, "ref", FALSE, "id")
MumtazShop == Adapter(ExcellentStoreWords, AllHeld, "ref", FALSE, "id")
Vexagame == Adapter(ExcellentStoreWords, AllHeld, "ref", TRUE, "ref")
BostGame == Adapter(BostGameWords, BostGameRefused, "id", FALSE, "id")
ExcellStore == Adapter(ExcellentStoreWords, AllHeld, "id", FALSE, "none")
ASMarket == Adapter(ASMarketWords, AllHeld, "id", FALSE, "none")
Sipas == Adapter(ExcellentStoreWords, SipasRefused, "never", FALSE, "ref")
Otomax == Adapter(OtomaxWords, OtomaxRefused, "invoice", FALSE, "ref")
Digiflazz == Adapter(ExcellentStoreWords, DigiflazzRefused, "create", FALSE, "ref")

Rules == CASE code = "ASMARKET"       -> ASMarket
           [] code = "BOSTGAME"       -> BostGame
           [] code = "DIGIFLAZZ"      -> Digiflazz
           [] code = "EXCELLENTSTORE" -> ExcellentStore
           [] code = "EXCELLSTORE"    -> ExcellStore
           [] code = "FFZSTORE"       -> Otomax
           [] code = "MUMTAZSHOP"     -> MumtazShop
           [] code = "SIPAS"          -> Sipas
           [] code = "VEXAGAME"       -> Vexagame

-------------------------------------------------------------------------------
(* The row.                                                                *)

Trxs == [status : {"processing", "success", "failed"}, pst : Texts, id : {0, 1},
         invoice : BOOLEAN]
NewTrx == [status |-> "processing", pst |-> "none", id |-> 0, invoice |-> FALSE]

\* applyResult; data tells what becomes of the saved invoice_number.
Applied(tx, r, data) ==
    [status |-> IF r.status \in {"success", "failed"} THEN r.status ELSE "processing",
     pst |-> r.pst,
     id |-> IF r.id = 1 THEN 1 ELSE tx.id,
     invoice |-> data]

ExchangeSteps == {"idle", "create", "lookup", "ask"}
NoExchange == [step |-> "idle", tx |-> NewTrx, src |-> "fulfill"]

\* A result ends the call.  Reconciliation drops it when the row has become
\* final and applies it to the row as it is; the others apply it to the copy
\* they were called with.  Every answer overwrites the saved data.
Ends(r, src, copy, data) ==
    /\ exchange' = NoExchange
    /\ trx' = IF src = "reconcile" /\ trx.status # "processing" THEN trx
              ELSE Applied(IF src = "reconcile" THEN trx ELSE copy, r, data)

Sends(step, src) == exchange' = [step |-> step, tx |-> trx, src |-> src] /\ UNCHANGED trx

\* CheckStatus of the adapters, as far as it comes without asking the provider.
CheckStatus(src) ==
    CASE Rules.check = "id" /\ trx.id = 0 -> Ends(temporaryError, src, trx, FALSE)
      [] Rules.check = "never" -> Ends(Result("pending", 1, "process"), src, trx, trx.invoice)
      [] Rules.check = "invoice" /\ ~trx.invoice ->
            Ends(Result("pending", 0, "pending"), src, trx, trx.invoice)
      [] Rules.check = "create" -> Sends("create", src)
      [] OTHER -> Sends("ask", src)

\* Purchase of the adapters: an order that is known is only checked.
Purchase(src) == IF trx.id = 1 THEN CheckStatus(src) ELSE Sends("create", src)

Idle == exchange.step = "idle"

\* The pool's purchase of a paid order, and later an admin's retry.
Fulfill ==
    /\ Idle /\ trx.status = "processing" /\ tries < MaxTries
    /\ tries' = tries + 1
    /\ Purchase("fulfill")
    /\ UNCHANGED <<fixed, remote, late, unread>>

Queued == trx.status = "processing" /\ trx.pst \in {"none", "pending", "process"}

\* A row without an order id that says pending is bought, not checked.  The
\* variant only ever checks.
NeverPurchases == FALSE
PurchasesInstead == trx.id = 0 /\ trx.pst = "pending"

\* checkProviderStatusRegistry on behalf of the reconciler.  Where the adapter
\* cannot ask, its invented answer gives an id to an order nobody sent.
Reconcile ==
    /\ Idle /\ Queued
    /\ IF PurchasesInstead THEN Purchase("reconcile") ELSE CheckStatus("reconcile")
    /\ unread' = (unread \/ (Rules.check = "never" /\ trx.pst = "none"))
    /\ UNCHANGED <<fixed, remote, late, tries>>

\* credentials(): the provider's record is missing, inactive or incomplete.
\* Digiflazz takes it for an error like any other.
NoCredentials == IF code = "DIGIFLAZZ" THEN temporaryError ELSE configurationError
NeedsCredentials == Rules.check # "never" \/ trx.id = 0
Unconfigured ==
    /\ Idle /\ NeedsCredentials
    /\ \/ trx.status = "processing" /\ tries < MaxTries /\ tries' = tries + 1
          /\ Ends(NoCredentials, "fulfill", trx, FALSE)
       \/ Queued /\ (Rules.check # "never" \/ PurchasesInstead) /\ UNCHANGED tries
          /\ Ends(NoCredentials, "reconcile", trx, FALSE)
    /\ UNCHANGED <<fixed, remote, late, unread>>

-------------------------------------------------------------------------------
(* The provider and the network.                                            *)

Remotes == {"none", "open", "returned", "delivered", "dead"}
OpenWords == {"process", "partial", "odd"}
WordsOf(state) == CASE state = "delivered" -> {"success"}
                    [] state = "dead"      -> {"failed"}
                    [] OTHER               -> OpenWords

Answered(r) == Ends(r, exchange.src, exchange.tx, FALSE)
NoAnswer(step) ==
    IF step = "create" /\ Rules.lookup
    THEN exchange' = [exchange EXCEPT !.step = "lookup"] /\ UNCHANGED trx
    ELSE Answered(temporaryError)

\* The answer to a create names an order, the old one if there is one.
OrderAnswered ==
    /\ exchange.step = "create"
    /\ remote # "none" \/ ~barred
    /\ remote' = IF remote = "none" THEN "open" ELSE remote
    /\ \E w \in WordsOf(remote') : Answered(Rules.words[w])
    /\ UNCHANGED <<fixed, late, tries, unread>>

\* The answer to a create is a refusal; a repetition is refused in other words.
RefusalsNow == IF remote # "none" THEN {"other"}
               ELSE IF barred THEN {"barred"} ELSE Refusals \ {"barred"}
Refused ==
    /\ exchange.step = "create"
    /\ \E r \in RefusalsNow :
          /\ IF Rules.lookup THEN NoAnswer("create") ELSE Answered(Rules.refused[r])
          /\ unread' = (unread \/ (r = "other" /\ code = "SIPAS"))
    /\ UNCHANGED <<fixed, remote, late, tries>>

\* No usable answer: the request is lost, late, or served and the answer lost.
CreateFails ==
    /\ exchange.step = "create"
    /\ NoAnswer("create")
    /\ \/ UNCHANGED <<remote, late>>
       \/ remote = "none" /\ ~barred /\ remote' = "open" /\ UNCHANGED late
       \/ late < MaxLate /\ late' = late + 1 /\ UNCHANGED remote
    /\ UNCHANGED <<fixed, tries, unread>>

LateCreate ==
    /\ late > 0 /\ late' = late - 1
    /\ remote' \in IF remote = "none" /\ ~barred THEN {"open", "none"} ELSE {remote}
    /\ UNCHANGED <<fixed, exchange, trx, tries, unread>>

\* A question is answered with the order.  OtoMax then keeps its order id.
AskAnswered ==
    /\ exchange.step \in {"lookup", "ask"} /\ remote # "none"
    /\ \E w \in WordsOf(remote) :
          Answered(IF code = "FFZSTORE" THEN [Rules.words[w] EXCEPT !.id = 0]
                   ELSE Rules.words[w])
    /\ UNCHANGED <<fixed, remote, late, tries, unread>>

\* A question is not answered, or the provider knows no such order.
AskFails ==
    /\ exchange.step \in {"lookup", "ask"}
    /\ Answered(temporaryError)
    /\ UNCHANGED <<fixed, remote, late, tries, unread>>

\* The provider works on an order; SIPAS may give it back for a shortage.
RemoteMoves ==
    /\ remote = "open"
    /\ remote' \in {"delivered", "dead"} \cup (IF code = "SIPAS" THEN {"returned"} ELSE {})
    /\ UNCHANGED <<fixed, late, exchange, trx, tries, unread>>

\* A callback sent at any time since the order was made, any number of times.
CallbackWords == CASE remote = "none"     -> {}
                   [] remote = "returned" -> OpenWords \cup {"held"}
                   [] OTHER               -> OpenWords \cup WordsOf(remote)

\* HandleProviderCallback: the row is found by the value the adapter returns,
\* and a final row is left alone.  OtoMax's callback brings the invoice_number.
HandleProviderCallback ==
    /\ Rules.callback = "ref" \/ (Rules.callback = "id" /\ trx.id = 1)
    /\ trx.status = "processing"
    /\ \E w \in CallbackWords :
          trx' = Applied(trx, IF w = "held" THEN Rules.refused["balance"] ELSE Rules.words[w],
                         code = "FFZSTORE")
    /\ UNCHANGED <<fixed, remote, late, exchange, tries, unread>>

-------------------------------------------------------------------------------
AdapterInit ==
    /\ code \in Adapters /\ barred \in BOOLEAN
    /\ remote = "none" /\ late = 0
    /\ exchange = NoExchange /\ trx = NewTrx
    /\ tries = 0 /\ unread = FALSE

Network == OrderAnswered \/ Refused \/ CreateFails \/ AskAnswered \/ AskFails

AdapterNext ==
    \/ Fulfill \/ Reconcile \/ Unconfigured
    \/ Network \/ LateCreate \/ RemoteMoves \/ HandleProviderCallback

AdapterTypeOK ==
    /\ code \in Adapters /\ barred \in BOOLEAN
    /\ remote \in Remotes /\ late \in 0 .. MaxLate
    /\ exchange \in [step : ExchangeSteps, tx : Trxs, src : {"fulfill", "reconcile"}]
    /\ trx \in Trxs /\ tries \in 0 .. MaxTries /\ unread \in BOOLEAN

-------------------------------------------------------------------------------
\* An order is refunded only when the provider gave it up or will never take it:
\* no error, loss, shortage or unknown word may end it, nor a late create revive it.
FailureIsFinal == trx.status = "failed" => remote = "dead" \/ (barred /\ remote = "none")

\* A buyer is told success only of an order that was delivered in full.
SuccessIsFulfilled == trx.status = "success" => remote = "delivered"

\* A row that waits with an order id, and so is never sent again, has an order
\* at the provider, unless the refusal could not be read.
IdMeansOrder == trx.status = "processing" /\ trx.id = 1 => remote # "none" \/ unread

\* Where an adapter can ask, the provider's verdict reaches the row without any
\* callback, whatever was lost before: while the provider stays configured, the
\* reconciler still looks at the order, and a create with a known ref is
\* answered with the old order in the end.
Polled == Rules.check \in {"ref", "id", "create"}
PolledVerdictArrives ==
    []<>(Polled /\ remote \in {"delivered", "dead"}
            => trx.status # "processing" \/ trx.pst = "config")

-------------------------------------------------------------------------------
(* Inductive invariant: the id a call started from means an order too, and   *)
(* an order that says "process" has an id where the adapter cannot ask.       *)

AdapterSpec == AdapterInit /\ [][AdapterNext]_adapterVars

CopyMeansOrder == exchange.tx.id = 1 => remote # "none" \/ unread
ProcessHasId ==
    Rules.check = "never" /\ trx.status = "processing" /\ trx.pst = "process" => trx.id = 1

AdapterInv ==
    /\ AdapterTypeOK /\ FailureIsFinal /\ SuccessIsFulfilled
    /\ IdMeansOrder /\ CopyMeansOrder /\ ProcessHasId
===============================================================================
