------------------------- MODULE ProviderAdaptersProofs -------------------------
(***************************************************************************)
(* What every adapter keeps, whatever the provider, the network and the      *)
(* callbacks do: verdicts are the provider's, an order id means an order.    *)
(***************************************************************************)
EXTENDS ProviderAdapters, TLAPS

AdapterResults == [status : {"success", "failed", "pending", "hold"}, id : {0, 1}, pst : Texts]

\* What the table of an adapter may say of a word, and of a refusal.
WordIsRead(r, w) ==
    /\ r \in AdapterResults /\ r.id = 1
    /\ r.status = "success" => w = "success"
    /\ r.status = "failed" => w = "failed"

RefusalIsRead(r, w) ==
    /\ r \in AdapterResults /\ r.status # "success" /\ r.pst # "process"
    /\ r.status = "failed" => w = "barred"
    /\ r.id = 1 /\ r.status # "failed" => w = "other" /\ code = "SIPAS"

LEMMA WordTables ==
    ASSUME NEW w \in Words
    PROVE  /\ WordIsRead(ExcellentStoreWords[w], w) /\ WordIsRead(BostGameWords[w], w)
           /\ WordIsRead(ASMarketWords[w], w) /\ WordIsRead(OtomaxWords[w], w)
<1>1. WordIsRead(ExcellentStoreWords[w], w)
  BY DEF WordIsRead, ExcellentStoreWords, Words, AdapterResults, Result, Texts
<1>2. WordIsRead(BostGameWords[w], w)
  BY <1>1 DEF WordIsRead, BostGameWords, ExcellentStoreWords, Words, AdapterResults, Result, Texts
<1>3. WordIsRead(ASMarketWords[w], w)
  BY <1>1 DEF WordIsRead, ASMarketWords, ExcellentStoreWords, Words, AdapterResults, Result, Texts
<1>4. WordIsRead(OtomaxWords[w], w)
  BY <1>1 DEF WordIsRead, OtomaxWords, ExcellentStoreWords, Words, AdapterResults, Result, Texts
<1>5. QED
  BY <1>1, <1>2, <1>3, <1>4

LEMMA RefusalTables ==
    ASSUME NEW w \in Refusals
    PROVE  /\ RefusalIsRead(AllHeld[w], w) /\ RefusalIsRead(BostGameRefused[w], w)
           /\ RefusalIsRead(DigiflazzRefused[w], w) /\ RefusalIsRead(OtomaxRefused[w], w)
           /\ code = "SIPAS" => RefusalIsRead(SipasRefused[w], w)
<1> USE DEF RefusalIsRead, AllHeld, Refusals, AdapterResults, Result, Texts, temporaryError
<1>1. RefusalIsRead(AllHeld[w], w)
  OBVIOUS
<1>2. RefusalIsRead(BostGameRefused[w], w)
  BY DEF BostGameRefused
<1>3. RefusalIsRead(DigiflazzRefused[w], w)
  BY DEF DigiflazzRefused
<1>4. RefusalIsRead(OtomaxRefused[w], w)
  BY DEF OtomaxRefused
<1>5. code = "SIPAS" => RefusalIsRead(SipasRefused[w], w)
  BY DEF SipasRefused
<1>6. QED
  BY <1>1, <1>2, <1>3, <1>4, <1>5

\* The adapter of any code reads words and refusals so.
LEMMA RulesRead ==
    ASSUME code \in AdapterCodes
    PROVE  /\ \A w \in Words : WordIsRead(Rules.words[w], w)
           /\ \A w \in Refusals : RefusalIsRead(Rules.refused[w], w)
           /\ Rules.check = "never" => code = "SIPAS"
<1>1. CASE code \in {"ASMARKET", "BOSTGAME", "DIGIFLAZZ"}
  BY <1>1, WordTables, RefusalTables DEF Rules, ASMarket, BostGame, Digiflazz, Adapter
<1>2. CASE code \in {"EXCELLENTSTORE", "EXCELLSTORE", "MUMTAZSHOP", "VEXAGAME"}
  BY <1>2, WordTables, RefusalTables
     DEF Rules, ExcellentStore, ExcellStore, MumtazShop, Vexagame, Adapter
<1>3. CASE code \in {"FFZSTORE", "SIPAS"}
  BY <1>3, WordTables, RefusalTables DEF Rules, Otomax, Sipas, Adapter
<1>4. QED
  BY <1>1, <1>2, <1>3 DEF AdapterCodes

-------------------------------------------------------------------------------
(* Every step keeps what the properties rely on at the provider.             *)

Stays ==
    /\ code' = code /\ barred' = barred /\ (unread => unread')
    /\ remote # "none" => remote' # "none"
    /\ remote = "delivered" => remote' = "delivered"
    /\ remote = "dead" => remote' = "dead"
    /\ barred /\ remote = "none" => remote' = "none"
    /\ remote' \in Remotes /\ late' \in 0 .. MaxLate
    /\ tries' \in 0 .. MaxTries /\ unread' \in BOOLEAN

\* A result that may be applied in the new state.
Sound(r) ==
    /\ r \in AdapterResults
    /\ r.status = "success" => remote' = "delivered"
    /\ r.status = "failed" => remote' = "dead" \/ (barred /\ remote' = "none")
    /\ r.status # "failed" /\ r.id = 1 => remote' # "none" \/ unread'
    /\ r.pst = "process" => r.id = 1

LEMMA TemporaryIsSound == Sound(temporaryError)
  BY DEF Sound, temporaryError, Result, AdapterResults, Texts

LEMMA NoCredentialsIsSound == Sound(NoCredentials)
  BY DEF Sound, NoCredentials, configurationError, temporaryError, Result, AdapterResults, Texts

LEMMA WaitingIsSound == Sound(Result("pending", 0, "pending"))
  BY DEF Sound, Result, AdapterResults, Texts

\* A word the provider may say of its order is sound.
LEMMA WordIsSound ==
    ASSUME code \in AdapterCodes, NEW w \in Words, remote' # "none",
           w = "success" => remote' = "delivered",
           w = "failed" => remote' = "dead"
    PROVE  Sound(Rules.words[w])
  BY RulesRead DEF Sound, WordIsRead

LEMMA AppliedIsSound ==
    ASSUME NEW tx \in Trxs, NEW r, Sound(r), NEW data \in BOOLEAN,
           tx.id = 1 => remote' # "none" \/ unread',
           trx' = Applied(tx, r, data), code' = code, barred' = barred
    PROVE  /\ trx' \in Trxs /\ FailureIsFinal' /\ SuccessIsFulfilled'
           /\ IdMeansOrder' /\ ProcessHasId'
<1>1. /\ trx'.status = IF r.status \in {"success", "failed"} THEN r.status ELSE "processing"
      /\ trx'.pst = r.pst /\ trx'.id = (IF r.id = 1 THEN 1 ELSE tx.id)
      /\ trx' \in Trxs
  BY DEF Applied, Trxs, Sound, AdapterResults
<1>2. FailureIsFinal' /\ SuccessIsFulfilled'
  BY <1>1 DEF FailureIsFinal, SuccessIsFulfilled, Sound
<1>3. IdMeansOrder'
  BY <1>1 DEF IdMeansOrder, Sound
<1>4. ProcessHasId'
  BY <1>1 DEF ProcessHasId, Sound
<1>5. QED
  BY <1>1, <1>2, <1>3, <1>4

\* An untouched row keeps its part of the invariant.
LEMMA SameRow ==
    ASSUME AdapterInv, Stays, trx' = trx
    PROVE  /\ trx' \in Trxs /\ FailureIsFinal' /\ SuccessIsFulfilled'
           /\ IdMeansOrder' /\ ProcessHasId'
<1>1. trx' \in Trxs
  BY DEF AdapterInv, AdapterTypeOK
<1>2. FailureIsFinal' /\ SuccessIsFulfilled' /\ IdMeansOrder'
  BY DEF AdapterInv, Stays, FailureIsFinal, SuccessIsFulfilled, IdMeansOrder
<1>3. Rules' = Rules
  BY DEF Stays, Rules, ExcellentStore, MumtazShop, Vexagame, BostGame, ExcellStore, ASMarket,
         Sipas, Otomax, Digiflazz
<1>4. ProcessHasId'
  BY <1>3 DEF AdapterInv, ProcessHasId
<1>5. QED
  BY <1>1, <1>2, <1>4

LEMMA InvFromParts ==
    ASSUME AdapterInv, Stays, trx' \in Trxs, FailureIsFinal', SuccessIsFulfilled',
           IdMeansOrder', ProcessHasId', CopyMeansOrder',
           exchange' \in [step : ExchangeSteps, tx : Trxs, src : {"fulfill", "reconcile"}]
    PROVE  AdapterInv'
  BY DEF AdapterInv, AdapterTypeOK, Stays

LEMMA NewExchange ==
    /\ NoExchange \in [step : ExchangeSteps, tx : Trxs, src : {"fulfill", "reconcile"}]
    /\ NoExchange.tx.id = 0 /\ NewTrx \in Trxs
  BY DEF NoExchange, NewTrx, Trxs, Texts, ExchangeSteps

\* The end of a call.
LEMMA EndKeeps ==
    ASSUME AdapterInv, Stays, NEW r, Sound(r), NEW src, NEW copy \in Trxs,
           copy.id = 1 => remote' # "none" \/ unread', NEW data \in BOOLEAN,
           Ends(r, src, copy, data)
    PROVE  AdapterInv'
<1>1. exchange' = NoExchange
  BY DEF Ends
<1>2. CopyMeansOrder'
  BY <1>1, NewExchange DEF CopyMeansOrder
<1>3. /\ trx' \in Trxs /\ FailureIsFinal' /\ SuccessIsFulfilled'
      /\ IdMeansOrder' /\ ProcessHasId'
  <2>1. CASE src = "reconcile" /\ trx.status # "processing"
    BY <2>1, SameRow DEF Ends
  <2>2. CASE src = "reconcile" /\ trx.status = "processing"
    <3>1. trx' = Applied(trx, r, data)
      BY <2>2 DEF Ends
    <3>2. trx \in Trxs /\ (trx.id = 1 => remote' # "none" \/ unread')
      BY <2>2 DEF AdapterInv, AdapterTypeOK, IdMeansOrder, Stays
    <3>3. QED
      BY <3>1, <3>2, AppliedIsSound DEF Stays
  <2>3. CASE src # "reconcile"
    <3>1. trx' = Applied(copy, r, data)
      BY <2>3 DEF Ends
    <3>2. QED
      BY <3>1, AppliedIsSound DEF Stays
  <2>4. QED
    BY <2>1, <2>2, <2>3
<1>4. QED
  BY <1>1, <1>2, <1>3, NewExchange, InvFromParts

\* A request that goes out.
LEMMA SendKeeps ==
    ASSUME AdapterInv, Stays, trx.status = "processing", NEW step \in ExchangeSteps,
           NEW src \in {"fulfill", "reconcile"}, Sends(step, src)
    PROVE  AdapterInv'
<1>1. exchange' = [step |-> step, tx |-> trx, src |-> src] /\ trx' = trx
  BY DEF Sends
<1>2. CopyMeansOrder'
  BY <1>1 DEF CopyMeansOrder, AdapterInv, IdMeansOrder, Stays
<1>3. exchange' \in [step : ExchangeSteps, tx : Trxs, src : {"fulfill", "reconcile"}]
  BY <1>1 DEF AdapterInv, AdapterTypeOK
<1>4. QED
  BY <1>1, <1>2, <1>3, SameRow, InvFromParts

-------------------------------------------------------------------------------
(* The steps.                                                              *)

LEMMA AnsweredKeeps ==
    ASSUME AdapterInv, Stays, NEW r, Sound(r), Answered(r)
    PROVE  AdapterInv'
<1>1. exchange.tx \in Trxs /\ (exchange.tx.id = 1 => remote' # "none" \/ unread')
  BY DEF AdapterInv, AdapterTypeOK, CopyMeansOrder, Stays
<1>2. QED
  BY <1>1, EndKeeps DEF Answered

LEMMA NoAnswerKeeps ==
    ASSUME AdapterInv, Stays, NEW step, NoAnswer(step)
    PROVE  AdapterInv'
<1>1. CASE step = "create" /\ Rules.lookup
  <2>1. exchange' = [exchange EXCEPT !.step = "lookup"] /\ trx' = trx
    BY <1>1 DEF NoAnswer
  <2>2. exchange' \in [step : ExchangeSteps, tx : Trxs, src : {"fulfill", "reconcile"}]
    BY <2>1 DEF AdapterInv, AdapterTypeOK, ExchangeSteps
  <2>3. CopyMeansOrder'
    BY <2>1 DEF AdapterInv, AdapterTypeOK, CopyMeansOrder, Stays
  <2>4. QED
    BY <2>1, <2>2, <2>3, SameRow, InvFromParts
<1>2. CASE ~(step = "create" /\ Rules.lookup)
  BY <1>2, AnsweredKeeps, TemporaryIsSound DEF NoAnswer
<1>3. QED
  BY <1>1, <1>2

\* A check keeps the invariant, if the adapters that only pretend to ask are
\* asked of an order with an id, or of one that unread remembers.
LEMMA CheckKeeps ==
    ASSUME AdapterInv, Stays, trx.status = "processing",
           NEW src \in {"fulfill", "reconcile"}, CheckStatus(src),
           Rules.check = "never" => remote' # "none" \/ unread'
    PROVE  AdapterInv'
<1>1. /\ trx \in Trxs /\ trx.invoice \in BOOLEAN
      /\ trx.id = 1 => remote' # "none" \/ unread'
  BY DEF AdapterInv, AdapterTypeOK, IdMeansOrder, Stays, Trxs
<1>2. CASE Ends(temporaryError, src, trx, FALSE)
  BY <1>1, <1>2, EndKeeps, TemporaryIsSound
<1>3. CASE Rules.check = "never" /\ Ends(Result("pending", 1, "process"), src, trx, trx.invoice)
  <2>1. Sound(Result("pending", 1, "process"))
    BY <1>3 DEF Sound, Result, AdapterResults, Texts
  <2>2. QED
    BY <1>1, <1>3, <2>1, EndKeeps
<1>4. CASE Ends(Result("pending", 0, "pending"), src, trx, trx.invoice)
  BY <1>1, <1>4, EndKeeps, WaitingIsSound
<1>5. CASE Sends("create", src) \/ Sends("ask", src)
  BY <1>5, SendKeeps DEF ExchangeSteps
<1>6. QED
  BY <1>2, <1>3, <1>4, <1>5 DEF CheckStatus

LEMMA FulfillKeeps == ASSUME AdapterInv, Fulfill PROVE AdapterInv'
<1>1. Stays
  BY AdapterAssumption DEF Fulfill, fixed, Stays, AdapterInv, AdapterTypeOK
<1>2. CASE trx.id = 1
  <2>1. CheckStatus("fulfill") /\ (remote' # "none" \/ unread')
    BY <1>1, <1>2 DEF Fulfill, Purchase, AdapterInv, IdMeansOrder, Stays
  <2>2. QED
    BY <1>1, <2>1, CheckKeeps DEF Fulfill
<1>3. CASE trx.id # 1
  BY <1>1, <1>3, SendKeeps DEF Fulfill, Purchase, ExchangeSteps
<1>4. QED
  BY <1>2, <1>3

LEMMA ReconcileKeeps == ASSUME AdapterInv, Reconcile PROVE AdapterInv'
<1>1. Stays
  BY DEF Reconcile, fixed, Stays, AdapterInv, AdapterTypeOK
<1>2. trx.status = "processing"
  BY DEF Reconcile, Queued
<1>3. CASE PurchasesInstead
  BY <1>1, <1>2, <1>3, SendKeeps DEF Reconcile, Purchase, PurchasesInstead, ExchangeSteps
<1>4. CASE ~PurchasesInstead
  <2>1. Rules.check = "never" => remote' # "none" \/ unread'
    <3> SUFFICES ASSUME Rules.check = "never" PROVE remote' # "none" \/ unread'
      OBVIOUS
    <3>1. CASE trx.id = 1
      BY <1>1, <1>2, <3>1 DEF AdapterInv, IdMeansOrder, Stays
    <3>2. CASE trx.id = 0
      <4>1. trx.pst = "none"
        BY <1>2, <1>4, <3>2 DEF Reconcile, Queued, PurchasesInstead, AdapterInv, ProcessHasId
      <4>2. QED
        BY <4>1 DEF Reconcile
    <3>3. QED
      BY <3>1, <3>2 DEF AdapterInv, AdapterTypeOK, Trxs
  <2>2. QED
    BY <1>1, <1>2, <1>4, <2>1, CheckKeeps DEF Reconcile
<1>5. QED
  BY <1>3, <1>4

LEMMA UnconfiguredKeeps == ASSUME AdapterInv, Unconfigured PROVE AdapterInv'
<1>1. Stays
  <2>1. tries' \in 0 .. MaxTries /\ late' \in 0 .. MaxLate
    <3>1. late' = late /\ (tries' = tries \/ (tries < MaxTries /\ tries' = tries + 1))
      BY DEF Unconfigured
    <3>2. late \in 0 .. MaxLate /\ tries \in 0 .. MaxTries
      BY DEF AdapterInv, AdapterTypeOK
    <3>3. QED
      BY <3>1, <3>2, AdapterAssumption
  <2>2. QED
    BY <2>1 DEF Unconfigured, fixed, Stays, AdapterInv, AdapterTypeOK
<1>2. trx.status = "processing"
  BY DEF Unconfigured, Queued
<1>3. trx \in Trxs /\ (trx.id = 1 => remote' # "none" \/ unread')
  BY <1>1, <1>2 DEF AdapterInv, AdapterTypeOK, IdMeansOrder, Stays
<1>4. QED
  BY <1>1, <1>3, EndKeeps, NoCredentialsIsSound DEF Unconfigured

LEMMA OrderAnsweredKeeps == ASSUME AdapterInv, OrderAnswered PROVE AdapterInv'
<1>1. Stays /\ remote' # "none" /\ code \in AdapterCodes
  BY AdapterAssumption DEF OrderAnswered, fixed, Stays, AdapterInv, AdapterTypeOK, Remotes
<1>2. PICK w \in WordsOf(remote') : Answered(Rules.words[w])
  BY DEF OrderAnswered
<1>3. /\ w \in Words /\ (w = "success" => remote' = "delivered")
      /\ w = "failed" => remote' = "dead"
  BY <1>1, <1>2 DEF WordsOf, OpenWords, Words
<1>4. QED
  BY <1>1, <1>2, <1>3, WordIsSound, AnsweredKeeps

LEMMA RefusedKeeps == ASSUME AdapterInv, Refused PROVE AdapterInv'
<1>1. PICK r \in RefusalsNow :
          /\ IF Rules.lookup THEN NoAnswer("create") ELSE Answered(Rules.refused[r])
          /\ unread' = (unread \/ (r = "other" /\ code = "SIPAS"))
  BY DEF Refused
<1>2. Stays /\ code \in AdapterCodes
  BY <1>1, AdapterAssumption DEF Refused, fixed, Stays, AdapterInv, AdapterTypeOK
<1>3. r \in Refusals /\ (r = "barred" => barred /\ remote = "none")
  BY <1>1 DEF RefusalsNow, Refusals
<1>4. Sound(Rules.refused[r])
  BY <1>1, <1>2, <1>3, RulesRead DEF Sound, RefusalIsRead, Refused
<1>5. QED
  BY <1>1, <1>2, <1>4, NoAnswerKeeps, AnsweredKeeps

LEMMA CreateFailsKeeps == ASSUME AdapterInv, CreateFails PROVE AdapterInv'
<1>1. Stays
  BY AdapterAssumption DEF CreateFails, fixed, Stays, AdapterInv, AdapterTypeOK, Remotes
<1>2. QED
  BY <1>1, NoAnswerKeeps DEF CreateFails

LEMMA LateCreateKeeps == ASSUME AdapterInv, LateCreate PROVE AdapterInv'
<1>1. Stays /\ trx' = trx /\ exchange' = exchange
  BY AdapterAssumption DEF LateCreate, fixed, Stays, AdapterInv, AdapterTypeOK, Remotes
<1>2. CopyMeansOrder'
  BY <1>1 DEF AdapterInv, CopyMeansOrder, Stays
<1>3. QED
  BY <1>1, <1>2, SameRow, InvFromParts DEF AdapterInv, AdapterTypeOK

LEMMA AskAnsweredKeeps == ASSUME AdapterInv, AskAnswered PROVE AdapterInv'
<1>1. Stays /\ remote' = remote /\ remote # "none" /\ code \in AdapterCodes
  BY AdapterAssumption DEF AskAnswered, fixed, Stays, AdapterInv, AdapterTypeOK
<1>2. PICK w \in WordsOf(remote) :
          Answered(IF code = "FFZSTORE" THEN [Rules.words[w] EXCEPT !.id = 0] ELSE Rules.words[w])
  BY DEF AskAnswered
<1>3. /\ w \in Words /\ (w = "success" => remote' = "delivered")
      /\ w = "failed" => remote' = "dead"
  BY <1>1, <1>2 DEF WordsOf, OpenWords, Words
<1>4. Sound(Rules.words[w])
  BY <1>1, <1>3, WordIsSound
<1>5. CASE code = "FFZSTORE"
  <2>1. Rules.words[w] = OtomaxWords[w] /\ Rules.words[w].pst # "process"
    BY <1>3, <1>5 DEF Rules, Otomax, Adapter, OtomaxWords, ExcellentStoreWords, Words, Result
  <2>2. Sound([Rules.words[w] EXCEPT !.id = 0])
    BY <1>4, <2>1 DEF Sound, AdapterResults
  <2>3. QED
    BY <1>1, <1>2, <1>5, <2>2, AnsweredKeeps
<1>6. CASE code # "FFZSTORE"
  BY <1>1, <1>2, <1>4, <1>6, AnsweredKeeps
<1>7. QED
  BY <1>5, <1>6

LEMMA AskFailsKeeps == ASSUME AdapterInv, AskFails PROVE AdapterInv'
<1>1. Stays
  BY DEF AskFails, fixed, Stays, AdapterInv, AdapterTypeOK
<1>2. QED
  BY <1>1, AnsweredKeeps, TemporaryIsSound DEF AskFails

LEMMA RemoteMovesKeeps == ASSUME AdapterInv, RemoteMoves PROVE AdapterInv'
<1>1. Stays /\ trx' = trx /\ exchange' = exchange
  BY DEF RemoteMoves, fixed, Stays, AdapterInv, AdapterTypeOK, Remotes
<1>2. CopyMeansOrder'
  BY <1>1 DEF AdapterInv, CopyMeansOrder, Stays
<1>3. QED
  BY <1>1, <1>2, SameRow, InvFromParts DEF AdapterInv, AdapterTypeOK

LEMMA CallbackKeeps == ASSUME AdapterInv, HandleProviderCallback PROVE AdapterInv'
<1>1. /\ Stays /\ exchange' = exchange /\ remote' = remote /\ code \in AdapterCodes
      /\ trx \in Trxs /\ (trx.id = 1 => remote' # "none" \/ unread')
  BY AdapterAssumption
  DEF HandleProviderCallback, fixed, Stays, AdapterInv, AdapterTypeOK, IdMeansOrder
<1>2. PICK w \in CallbackWords :
          trx' = Applied(trx, IF w = "held" THEN Rules.refused["balance"] ELSE Rules.words[w],
                         code = "FFZSTORE")
  BY DEF HandleProviderCallback
<1>3. Sound(IF w = "held" THEN Rules.refused["balance"] ELSE Rules.words[w])
  <2>1. remote # "none"
    BY <1>2 DEF CallbackWords
  <2>2. CASE w = "held"
    BY <1>1, <2>2, RulesRead DEF Sound, RefusalIsRead, Refusals
  <2>3. CASE w # "held"
    <3>1. /\ w \in Words /\ (w = "success" => remote' = "delivered")
          /\ w = "failed" => remote' = "dead"
      BY <1>1, <1>2, <2>3 DEF CallbackWords, WordsOf, OpenWords, Words
    <3>2. QED
      BY <1>1, <2>1, <2>3, <3>1, WordIsSound
  <2>4. QED
    BY <2>2, <2>3
<1>4. /\ trx' \in Trxs /\ FailureIsFinal' /\ SuccessIsFulfilled'
      /\ IdMeansOrder' /\ ProcessHasId'
  BY <1>1, <1>2, <1>3, AppliedIsSound DEF Stays
<1>5. CopyMeansOrder'
  BY <1>1 DEF AdapterInv, CopyMeansOrder, Stays
<1>6. QED
  BY <1>1, <1>4, <1>5, InvFromParts DEF AdapterInv, AdapterTypeOK

-------------------------------------------------------------------------------
LEMMA AdapterInvInit == AdapterInit => AdapterInv
<1> SUFFICES ASSUME AdapterInit PROVE AdapterInv
  OBVIOUS
<1>1. AdapterTypeOK
  <2>1. late \in 0 .. MaxLate /\ tries \in 0 .. MaxTries
    BY AdapterAssumption DEF AdapterInit
  <2>2. QED
    BY <2>1, NewExchange DEF AdapterInit, AdapterTypeOK, Remotes
<1>2. trx.status = "processing" /\ trx.id = 0 /\ trx.pst = "none" /\ exchange.tx.id = 0
  BY NewExchange DEF AdapterInit, NewTrx
<1>3. QED
  BY <1>1, <1>2 DEF AdapterInv, FailureIsFinal, SuccessIsFulfilled, IdMeansOrder,
                    CopyMeansOrder, ProcessHasId

LEMMA AdapterStepKeeps == AdapterInv /\ [AdapterNext]_adapterVars => AdapterInv'
<1> SUFFICES ASSUME AdapterInv, [AdapterNext]_adapterVars PROVE AdapterInv'
  OBVIOUS
<1>1. CASE Fulfill
  BY <1>1, FulfillKeeps
<1>2. CASE Reconcile
  BY <1>2, ReconcileKeeps
<1>3. CASE Unconfigured
  BY <1>3, UnconfiguredKeeps
<1>4. CASE Network
  BY <1>4, OrderAnsweredKeeps, RefusedKeeps, CreateFailsKeeps, AskAnsweredKeeps, AskFailsKeeps
  DEF Network
<1>5. CASE LateCreate
  BY <1>5, LateCreateKeeps
<1>6. CASE RemoteMoves
  BY <1>6, RemoteMovesKeeps
<1>7. CASE HandleProviderCallback
  BY <1>7, CallbackKeeps
<1>8. CASE UNCHANGED adapterVars
  <2>1. Stays /\ trx' = trx /\ exchange' = exchange
    BY <1>8 DEF adapterVars, Stays, AdapterInv, AdapterTypeOK
  <2>2. CopyMeansOrder'
    BY <2>1 DEF AdapterInv, CopyMeansOrder, Stays
  <2>3. QED
    BY <2>1, <2>2, SameRow, InvFromParts DEF AdapterInv, AdapterTypeOK
<1>9. QED
  BY <1>1, <1>2, <1>3, <1>4, <1>5, <1>6, <1>7, <1>8 DEF AdapterNext

\* The invariant the three results follow from holds of every behaviour.
THEOREM AdapterInvariant == AdapterSpec => []AdapterInv
  BY AdapterInvInit, AdapterStepKeeps, PTL DEF AdapterSpec

\* Whatever is refused, lost, late or said in odd words (resultFromOrder and
\* applyResult of every adapter), only a final verdict of the provider ends
\* an order as failed.
THEOREM FailuresAreFinal == AdapterSpec => []FailureIsFinal
<1>1. AdapterInv => FailureIsFinal
  BY DEF AdapterInv
<1>2. QED
  BY <1>1, AdapterInvariant, PTL

\* Success is reported of delivered orders only.
THEOREM SuccessesAreFulfilled == AdapterSpec => []SuccessIsFulfilled
<1>1. AdapterInv => SuccessIsFulfilled
  BY DEF AdapterInv
<1>2. QED
  BY <1>1, AdapterInvariant, PTL

\* A waiting row with an order id has an order at the provider, up to what
\* SIPAS lets through on texts it cannot read.
THEOREM IdsMeanOrders == AdapterSpec => []IdMeansOrder
<1>1. AdapterInv => IdMeansOrder
  BY DEF AdapterInv
<1>2. QED
  BY <1>1, AdapterInvariant, PTL
===============================================================================
