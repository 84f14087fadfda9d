----------------------------- MODULE GatewaysProofs -----------------------------
(* Theorems of the three gateways: what a partner is charged and told, which *)
(* provider a nominal is bought at, and whose order a Kiosgamer transaction   *)
(* hears of, for any sizes, failures and admins.                             *)
EXTENDS MCGateways, FiniteSetTheorems, TLAPS

\* Refs whose requests the partner sends one after the other, whose lookups
\* and give-backs work, and whose orders no admin moves.
Plain == Refs \ (Impatient \cup Outages \cup Touched)

Numbered(c) == request[c].at \in {"debit", "create", "giveBack", "fulfil"}
Unplaced(c) == request[c].at \in {"debit", "create", "giveBack"}
Holds(c) == request[c].at \in {"create", "giveBack"}

\* The invoice of a request or a row was issued for its ref ...
NumbersIssued ==
    /\ \A c \in Requests : Numbered(c) =>
          request[c].inv \in DOMAIN issued /\ issued[request[c].inv] = request[c].ref
    /\ \A k \in DOMAIN orders :
          orders[k].inv \in DOMAIN issued /\ issued[orders[k].inv] = orders[k].ref

\* ... to this one alone, until a request has become a row.
NumbersApart ==
    /\ \A c, e \in Requests :
          Numbered(c) /\ Numbered(e) /\ request[c].inv = request[e].inv => c = e
    /\ \A k, l \in DOMAIN orders : orders[k].inv = orders[l].inv => k = l
    /\ \A c \in Requests, k \in DOMAIN orders :
          Unplaced(c) => orders[k].inv # request[c].inv
    /\ \A c \in Requests : request[c].at = "fulfil" =>
          \E k \in DOMAIN orders : orders[k].inv = request[c].inv

\* Whose money is where: nothing before the debit, the price after it.
MoneyKnown ==
    /\ \A i \in Invoices : returned[i] <= charged[i]
    /\ \A i \in Invoices \ DOMAIN issued : charged[i] = 0
    /\ \A c \in Requests : request[c].at = "debit" => charged[request[c].inv] = 0
    /\ \A c \in Requests : Holds(c) =>
          charged[request[c].inv] = 1 /\ returned[request[c].inv] = 0
    /\ \A k \in DOMAIN orders : charged[orders[k].inv] > 0

\* A plain ref has one request at a time, and one row, which comes after it.
OneAtATime ==
    \A r \in Plain :
        /\ \A c, e \in Requests :
              /\ request[c].at # "idle" /\ request[c].ref = r
              /\ request[e].at # "idle" /\ request[e].ref = r
              => c = e
        /\ \A k, l \in RowsOf(r) : k = l
        /\ \A c \in Requests : Unplaced(c) /\ request[c].ref = r => RowsOf(r) = {}

\* A plain row was charged once, and gave it back if it failed.
PlainOrders ==
    \A k \in DOMAIN orders : orders[k].ref \in Plain =>
        /\ charged[orders[k].inv] = 1
        /\ orders[k].status \in {"processing", "success", "failed"}
        /\ orders[k].status = "failed" => returned[orders[k].inv] = 1
        /\ \A c \in Requests : request[c].at = "fulfil" /\ request[c].inv = orders[k].inv
              => orders[k].status = "processing"

\* Money a plain invoice holds belongs to a row or to the request at work.
Accounted ==
    \A i \in DOMAIN issued : issued[i] \in Plain =>
        \/ charged[i] = returned[i]
        \/ \E k \in DOMAIN orders : orders[k].inv = i /\ orders[k].status # "failed"
        \/ \E c \in Requests : Holds(c) /\ request[c].inv = i

\* A failure was heard of a row that failed, or while there was nothing at all;
\* what is still to be posted says the same.
FailedRow(r) == \E k \in RowsOf(r) : orders[k].status = "failed"
GagalIsTrue ==
    /\ \A r \in Plain : heard[r] \in Told => FailedRow(r) \/ (RowsOf(r) = {} /\ ~Busy(r))
    /\ \A p \in posts : p.ref \in Plain /\ p.word \in Told => FailedRow(p.ref)

GatewayInv ==
    /\ GatewayTypeOK /\ NumbersIssued /\ NumbersApart /\ MoneyKnown
    /\ OneAtATime /\ PlainOrders /\ Accounted /\ GagalIsTrue

-------------------------------------------------------------------------------
(* What the statements do.                                                 *)

LEMMA WordOfStatus ==
    ASSUME NEW s
    PROVE  /\ statusToDigiflazz(s) \in Words
           /\ statusToDigiflazz(s) \in Told <=> s \in {"failed", "refunded"}
BY DEF statusToDigiflazz, Words, Told

LEMMA ElementTyped ==
    ASSUME NEW S, NEW q \in Seq(S), NEW k \in DOMAIN q PROVE q[k] \in S
OBVIOUS

LEMMA OrderTyped ==
    ASSUME GatewayTypeOK, NEW k \in DOMAIN orders
    PROVE  /\ orders[k] \in [inv : Invoices, ref : Refs, status : OrderStatuses]
           /\ orders[k].inv \in Invoices /\ orders[k].ref \in Refs
<1>1. orders \in Seq([inv : Invoices, ref : Refs, status : OrderStatuses])
  BY DEF GatewayTypeOK
<1>2. orders[k] \in [inv : Invoices, ref : Refs, status : OrderStatuses]
  BY <1>1, ElementTyped
<1>3. QED
  BY <1>2

LEMMA RequestTyped ==
    ASSUME GatewayTypeOK, NEW c \in Requests
    PROVE  /\ request \in [Requests -> [at : RequestSteps, ref : Refs, inv : 0 .. MaxInvoices,
                                        seen : Nat]]
           /\ request[c].ref \in Refs /\ request[c].at \in RequestSteps
BY DEF GatewayTypeOK

LEMMA IssuedInRange ==
    ASSUME GatewayTypeOK PROVE DOMAIN issued \subseteq Invoices
<1>1. issued \in Seq(Refs) /\ Len(issued) <= MaxInvoices /\ MaxInvoices \in Nat
  BY GatewayAssumption DEF GatewayTypeOK
<1>2. QED
  BY <1>1 DEF Invoices

LEMMA IdleIsIdle == IdleRequest.at = "idle" /\ IdleRequest.ref \in Refs
                    /\ IdleRequest \in [at : RequestSteps, ref : Refs, inv : 0 .. MaxInvoices, seen : Nat]
BY GatewayAssumption DEF IdleRequest, RequestSteps

LEMMA AnswerEffect ==
    ASSUME GatewayTypeOK, NEW c \in Requests, NEW w \in Words, Answer(c, w)
    PROVE  /\ request' = [request EXCEPT ![c] = IdleRequest]
           /\ request'[c].at = "idle"
           /\ \A e \in Requests : e # c => request'[e] = request[e]
           /\ request' \in [Requests -> [at : RequestSteps, ref : Refs, inv : 0 .. MaxInvoices,
                                         seen : Nat]]
           /\ heard' \in [Refs -> Words \cup {"nothing"}]
           /\ heard' \in {heard, [heard EXCEPT ![request[c].ref] = w]}
<1>1. request' = [request EXCEPT ![c] = IdleRequest]
  BY DEF Answer
<1>2. /\ request[c].ref \in Refs /\ heard \in [Refs -> Words \cup {"nothing"}]
      /\ request \in [Requests -> [at : RequestSteps, ref : Refs, inv : 0 .. MaxInvoices,
                                   seen : Nat]]
  BY DEF GatewayTypeOK
<1>3. heard' = heard \/ heard' = [heard EXCEPT ![request[c].ref] = w]
  BY DEF Answer, Hears
<1>4. QED
  BY <1>1, <1>2, <1>3, IdleIsIdle

LEMMA ProceedEffect ==
    ASSUME GatewayTypeOK, NEW c \in Requests, NEW s \in RequestSteps, Proceed(c, s)
    PROVE  /\ request' = [request EXCEPT ![c].at = s]
           /\ request'[c].at = s
           /\ request'[c].ref = request[c].ref /\ request'[c].inv = request[c].inv
           /\ \A e \in Requests : e # c => request'[e] = request[e]
           /\ request' \in [Requests -> [at : RequestSteps, ref : Refs, inv : 0 .. MaxInvoices,
                                         seen : Nat]]
BY DEF GatewayTypeOK, Proceed

LEMMA DebitEffect ==
    ASSUME GatewayTypeOK, NEW i \in Invoices, Debit(i)
    PROVE  /\ saldo' \in Nat
           /\ charged' = [charged EXCEPT ![i] = @ + 1]
           /\ charged' \in [Invoices -> Nat]
           /\ returned' = returned
BY GatewayAssumption DEF GatewayTypeOK, Debit

LEMMA CreditEffect ==
    ASSUME GatewayTypeOK, NEW i \in Invoices, Credit(i)
    PROVE  /\ saldo' \in Nat
           /\ charged' = charged
           /\ returned' = [returned EXCEPT ![i] = 1]
           /\ returned' \in [Invoices -> {0, 1}]
<1>1. /\ saldo \in Nat /\ returned \in [Invoices -> {0, 1}] /\ Tariff \in Nat
  BY GatewayAssumption DEF GatewayTypeOK
<1>2. CASE returned[i] > 0
  <2>1. returned[i] = 1 /\ UNCHANGED <<saldo, charged, returned>>
    BY <1>1, <1>2 DEF Credit, money
  <2>2. QED
    BY <1>1, <2>1
<1>3. CASE ~(returned[i] > 0)
  <2>1. saldo' = saldo + Tariff /\ returned' = [returned EXCEPT ![i] = 1] /\ charged' = charged
    BY <1>3 DEF Credit
  <2>2. QED
    BY <1>1, <2>1
<1>4. QED
  BY <1>2, <1>3

Post(k, s) == [inv |-> orders[k].inv, no |-> touches, ref |-> orders[k].ref,
               word |-> statusToDigiflazz(s), left |-> Attempts]

LEMMA EndEffect ==
    ASSUME GatewayTypeOK, NEW k \in DOMAIN orders, NEW s \in {"success", "failed"}, Ends(k, s)
    PROVE  /\ orders' = [orders EXCEPT ![k].status = s]
           /\ posts' \in {posts, posts \cup {Post(k, s)}}
           /\ saldo' \in Nat
           /\ charged' = charged
           /\ returned' = IF s = "failed" THEN [returned EXCEPT ![orders[k].inv] = 1] ELSE returned
           /\ returned' \in [Invoices -> {0, 1}]
<1>1. orders[k].inv \in Invoices
  BY OrderTyped
<1>2. orders' = [orders EXCEPT ![k].status = s]
  BY DEF Ends, ApplyResult, ApplyFinalError, SetStatus
<1>3. posts' \in {posts, posts \cup {Post(k, s)}}
  BY DEF Ends, ApplyResult, ApplyFinalError, NotifyTransaction, Post, Serial
<1>4. IF s = "failed" THEN Credit(orders[k].inv) ELSE UNCHANGED money
  BY DEF Ends, ApplyResult, ApplyFinalError
<1>5. CASE s = "failed"
  BY <1>1, <1>2, <1>3, <1>4, <1>5, CreditEffect
<1>6. CASE s # "failed"
  <2>1. UNCHANGED <<saldo, charged, returned>>
    BY <1>4, <1>6 DEF money
  <2>2. saldo \in Nat /\ returned \in [Invoices -> {0, 1}]
    BY DEF GatewayTypeOK
  <2>3. QED
    BY <1>2, <1>3, <1>6, <2>1, <2>2
<1>7. QED
  BY <1>5, <1>6

LEMMA StatusEffect ==
    ASSUME GatewayTypeOK, NEW k \in DOMAIN orders, NEW s \in OrderStatuses,
           orders' = [orders EXCEPT ![k].status = s]
    PROVE  /\ orders' \in Seq([inv : Invoices, ref : Refs, status : OrderStatuses])
           /\ DOMAIN orders' = DOMAIN orders
           /\ \A l \in DOMAIN orders : /\ orders'[l].inv = orders[l].inv
                                       /\ orders'[l].ref = orders[l].ref
           /\ orders'[k].status = s
           /\ \A l \in DOMAIN orders : l # k => orders'[l] = orders[l]
<1>1. orders \in Seq([inv : Invoices, ref : Refs, status : OrderStatuses])
  BY DEF GatewayTypeOK
<1>2. orders[k] \in [inv : Invoices, ref : Refs, status : OrderStatuses]
  BY OrderTyped
<1>3. QED
  BY <1>1, <1>2

LEMMA PostTyped ==
    ASSUME GatewayTypeOK, NEW k \in DOMAIN orders, NEW s
    PROVE  Post(k, s) \in [inv : Invoices, no : 0 .. MaxTouches, ref : Refs, word : Words,
                           left : 1 .. Attempts]
<1>1. orders[k].inv \in Invoices /\ orders[k].ref \in Refs
  BY OrderTyped
<1>2. Attempts \in 1 .. Attempts
  BY GatewayAssumption
<1>3. touches \in 0 .. MaxTouches
  BY DEF GatewayTypeOK
<1>4. QED
  BY <1>1, <1>2, <1>3, WordOfStatus DEF Post

-------------------------------------------------------------------------------
(* The start, and steps that only end a request.                           *)

LEMMA GatewayInvInit == GatewayInit => GatewayInv
<1> SUFFICES ASSUME GatewayInit PROVE GatewayInv
  OBVIOUS
<1>1. /\ orders = <<>> /\ posts = {} /\ issued = <<>>
      /\ \A c \in Requests : request[c] = IdleRequest
      /\ \A i \in Invoices : charged[i] = 0 /\ returned[i] = 0
      /\ \A r \in Refs : heard[r] = "nothing"
  BY DEF GatewayInit
<1>2. GatewayTypeOK
  <2>1. saldo \in Nat /\ touches \in 0 .. MaxTouches /\ Len(issued) <= MaxInvoices
    BY <1>1, GatewayAssumption DEF GatewayInit
  <2>2. orders \in Seq([inv : Invoices, ref : Refs, status : OrderStatuses]) /\ issued \in Seq(Refs)
    BY <1>1
  <2>3. charged \in [Invoices -> Nat] /\ returned \in [Invoices -> {0, 1}]
    BY DEF GatewayInit
  <2>4. /\ heard \in [Refs -> Words \cup {"nothing"}] /\ uses \in Uses
        /\ posts \subseteq [inv : Invoices, no : 0 .. MaxTouches, ref : Refs, word : Words,
                            left : 1 .. Attempts]
    BY DEF GatewayInit
  <2>5. sent \in [Refs -> 0 .. MaxSends]
    BY GatewayAssumption DEF GatewayInit
  <2>6. request \in [Requests -> [at : RequestSteps, ref : Refs, inv : 0 .. MaxInvoices, seen : Nat]]
    BY IdleIsIdle DEF GatewayInit
  <2>7. QED
    BY <2>1, <2>2, <2>3, <2>4, <2>5, <2>6 DEF GatewayTypeOK
<1>3. \A c \in Requests : request[c].at = "idle"
  BY <1>1, IdleIsIdle
<1>4. DOMAIN orders = {} /\ DOMAIN issued = {}
  BY <1>1
<1>5. NumbersIssued /\ NumbersApart
  BY <1>3, <1>4 DEF NumbersIssued, NumbersApart, Numbered, Unplaced
<1>6. MoneyKnown
  BY <1>1, <1>3, <1>4 DEF MoneyKnown, Holds
<1>7. OneAtATime /\ PlainOrders /\ Accounted
  BY <1>3, <1>4 DEF OneAtATime, PlainOrders, Accounted, RowsOf
<1>8. GagalIsTrue
  BY <1>1, <1>4 DEF GagalIsTrue, Plain, Told
<1>9. QED
  BY <1>2, <1>5, <1>6, <1>7, <1>8 DEF GatewayInv

\* A request that holds no money may end at any time.
LEMMA RetireKeeps ==
    ASSUME GatewayInv, NEW c \in Requests, ~Holds(c),
           request'[c].at = "idle",
           \A e \in Requests : e # c => request'[e] = request[e],
           UNCHANGED <<orders, issued, charged, returned>>
    PROVE  /\ NumbersIssued' /\ NumbersApart' /\ MoneyKnown'
           /\ OneAtATime' /\ PlainOrders' /\ Accounted'
<1>1. NumbersIssued' /\ NumbersApart'
  BY DEF GatewayInv, NumbersIssued, NumbersApart, Numbered, Unplaced
<1>2. MoneyKnown'
  BY DEF GatewayInv, MoneyKnown, Holds
<1>3. OneAtATime'
  BY DEF GatewayInv, OneAtATime, Unplaced, RowsOf
<1>4. PlainOrders'
  BY DEF GatewayInv, PlainOrders
<1>5. Accounted'
  BY DEF GatewayInv, Accounted, Holds
<1>6. QED
  BY <1>1, <1>2, <1>3, <1>4, <1>5

\* "Gagal" may be answered when the row failed or there is none.
LEMMA AnswerIsTrue ==
    ASSUME GatewayInv, NEW c \in Requests, request[c].at # "idle",
           NEW w \in Words, Answer(c, w), UNCHANGED <<orders, posts>>,
           w \in Told /\ request[c].ref \in Plain =>
               FailedRow(request[c].ref) \/ RowsOf(request[c].ref) = {}
    PROVE  GagalIsTrue'
<1>1. /\ request'[c].at = "idle" /\ \A e \in Requests : e # c => request'[e] = request[e]
      /\ heard' \in {heard, [heard EXCEPT ![request[c].ref] = w]}
  BY AnswerEffect DEF GatewayInv
<1>2. heard \in [Refs -> Words \cup {"nothing"}] /\ Plain \subseteq Refs
  BY DEF GatewayInv, GatewayTypeOK, Plain
<1>3. \A r : FailedRow(r)' <=> FailedRow(r)
  BY DEF FailedRow, RowsOf
<1>4. \A r : RowsOf(r)' = RowsOf(r)
  BY DEF RowsOf
<1>5. ASSUME NEW r \in Plain, heard'[r] \in Told
      PROVE  FailedRow(r)' \/ (RowsOf(r)' = {} /\ ~Busy(r)')
  <2>1. CASE heard'[r] = heard[r]
    <3>1. FailedRow(r) \/ (RowsOf(r) = {} /\ ~Busy(r))
      BY <1>5, <2>1 DEF GatewayInv, GagalIsTrue
    <3>2. ~Busy(r) => ~Busy(r)'
      BY <1>1 DEF Busy
    <3>3. QED
      BY <1>3, <1>4, <3>1, <3>2
  <2>2. CASE heard'[r] # heard[r]
    <3>1. r = request[c].ref /\ w \in Told
      BY <1>1, <1>2, <1>5, <2>2
    <3>2. ~Busy(r)'
      BY <1>1, <3>1 DEF GatewayInv, OneAtATime, Busy
    <3>3. QED
      BY <1>3, <1>4, <3>1, <3>2
  <2>3. QED
    BY <2>1, <2>2
<1>6. ASSUME NEW p \in posts', p.ref \in Plain, p.word \in Told PROVE FailedRow(p.ref)'
  BY <1>3, <1>6 DEF GatewayInv, GagalIsTrue
<1>7. QED
  BY <1>5, <1>6 DEF GagalIsTrue

LEMMA SendKeeps ==
    ASSUME GatewayInv, NEW c \in Requests, NEW r \in Refs, Send(c, r) PROVE GatewayInv'
<1>1. /\ request' = [request EXCEPT ![c] = [at |-> "lookup", ref |-> r, inv |-> 0, seen |-> saldo]]
      /\ request[c].at = "idle" /\ heard' = [heard EXCEPT ![r] = "nothing"]
      /\ UNCHANGED <<saldo, charged, returned, orders, posts, uses, issued, touches>>
  BY DEF Send, Hears, money
<1>2. /\ request'[c].at = "lookup" /\ request'[c].ref = r
      /\ \A e \in Requests : e # c => request'[e] = request[e]
  BY <1>1, RequestTyped DEF GatewayInv
<1>3. GatewayTypeOK'
  <2>1. [at |-> "lookup", ref |-> r, inv |-> 0, seen |-> saldo] \in
            [at : RequestSteps, ref : Refs, inv : 0 .. MaxInvoices, seen : Nat]
    BY GatewayAssumption DEF GatewayInv, GatewayTypeOK, RequestSteps
  <2>2. request' \in [Requests -> [at : RequestSteps, ref : Refs, inv : 0 .. MaxInvoices, seen : Nat]]
    BY <1>1, <2>1, RequestTyped DEF GatewayInv
  <2>3. sent' \in [Refs -> 0 .. MaxSends]
    BY GatewayAssumption DEF GatewayInv, GatewayTypeOK, Send
  <2>4. heard' \in [Refs -> Words \cup {"nothing"}]
    BY <1>1 DEF GatewayInv, GatewayTypeOK
  <2>5. QED
    BY <1>1, <2>2, <2>3, <2>4 DEF GatewayInv, GatewayTypeOK
<1>4. NumbersIssued' /\ NumbersApart'
  BY <1>1, <1>2 DEF GatewayInv, NumbersIssued, NumbersApart, Numbered, Unplaced
<1>5. MoneyKnown'
  BY <1>1, <1>2 DEF GatewayInv, MoneyKnown, Holds
<1>6. OneAtATime'
  <2>1. ASSUME NEW q \in Plain, NEW e \in Requests, NEW f \in Requests,
               request'[e].at # "idle", request'[e].ref = q,
               request'[f].at # "idle", request'[f].ref = q
        PROVE  e = f
    <3>1. CASE q = r
      <4>1. r \notin Impatient
        BY <3>1 DEF Plain
      <4>2. ~Busy(r)
        BY <4>1 DEF Send
      <4>3. e = c /\ f = c
        BY <1>2, <2>1, <3>1, <4>2 DEF Busy
      <4>4. QED
        BY <4>3
    <3>2. CASE q # r
      BY <1>2, <2>1, <3>2 DEF GatewayInv, OneAtATime
    <3>3. QED
      BY <3>1, <3>2
  <2>2. \A q \in Plain : \A k, l \in RowsOf(q)' : k = l
    BY <1>1 DEF GatewayInv, OneAtATime, RowsOf
  <2>3. \A q \in Plain : \A e \in Requests :
            Unplaced(e)' /\ request'[e].ref = q => RowsOf(q)' = {}
    BY <1>1, <1>2 DEF GatewayInv, OneAtATime, RowsOf, Unplaced
  <2>4. QED
    BY <2>1, <2>2, <2>3 DEF OneAtATime
<1>7. PlainOrders' /\ Accounted'
  BY <1>1, <1>2 DEF GatewayInv, PlainOrders, Accounted, Holds
<1>8. GagalIsTrue'
  <2>1. \A q : (FailedRow(q)' <=> FailedRow(q)) /\ RowsOf(q)' = RowsOf(q)
    BY <1>1 DEF FailedRow, RowsOf
  <2>2. ASSUME NEW q \in Plain, heard'[q] \in Told PROVE q # r /\ heard[q] \in Told
    BY <1>1, <2>2 DEF GatewayInv, GatewayTypeOK, Plain, Told
  <2>3. \A q \in Plain : q # r /\ ~Busy(q) => ~Busy(q)'
    BY <1>2 DEF Busy
  <2>4. QED
    BY <1>1, <2>1, <2>2, <2>3 DEF GatewayInv, GagalIsTrue
<1>9. QED
  BY <1>3, <1>4, <1>5, <1>6, <1>7, <1>8 DEF GatewayInv

\* A row that is not plain may be anything; a plain one is the only of its ref.
LEMMA FirstRowIsTheRow ==
    ASSUME GatewayInv, NEW r \in Plain, NEW k \in RowsOf(r)
    PROVE  FirstRow(r) = orders[k]
<1>1. \A l \in RowsOf(r) : l = k
  BY DEF GatewayInv, OneAtATime
<1>2. k <= k
  <2>1. k \in DOMAIN orders /\ DOMAIN orders = 1 .. Len(orders) /\ Len(orders) \in Nat
    BY DEF RowsOf, GatewayInv, GatewayTypeOK
  <2>2. QED
    BY <2>1
<1>3. QED
  BY <1>1, <1>2 DEF FirstRow

\* What a lookup or a status check says of a plain ref with a row.
LEMMA RowIsTold ==
    ASSUME GatewayInv, NEW r \in Plain, RowsOf(r) # {},
           statusToDigiflazz(FirstRow(r).status) \in Told
    PROVE  FailedRow(r)
<1>1. PICK k \in RowsOf(r) : TRUE
  OBVIOUS
<1>2. orders[k].status \in {"failed", "refunded"}
  BY <1>1, FirstRowIsTheRow, WordOfStatus
<1>3. k \in DOMAIN orders /\ orders[k].ref = r
  BY <1>1 DEF RowsOf
<1>4. orders[k].status = "failed"
  BY <1>2, <1>3 DEF GatewayInv, PlainOrders
<1>5. QED
  BY <1>1, <1>4 DEF FailedRow

LEMMA AnswerKeeps ==
    ASSUME GatewayInv, NEW c \in Requests, request[c].at # "idle", ~Holds(c),
           NEW w \in Words, Answer(c, w),
           UNCHANGED <<money, orders, posts, uses, sent, issued, touches>>,
           w \in Told /\ request[c].ref \in Plain =>
               FailedRow(request[c].ref) \/ RowsOf(request[c].ref) = {}
    PROVE  GatewayInv'
<1>1. /\ request'[c].at = "idle" /\ \A e \in Requests : e # c => request'[e] = request[e]
      /\ request' \in [Requests -> [at : RequestSteps, ref : Refs, inv : 0 .. MaxInvoices,
                                    seen : Nat]]
      /\ heard' \in [Refs -> Words \cup {"nothing"}]
  BY AnswerEffect DEF GatewayInv
<1>2. UNCHANGED <<saldo, charged, returned>>
  BY DEF money
<1>3. GatewayTypeOK'
  BY <1>1, <1>2 DEF GatewayInv, GatewayTypeOK
<1>4. /\ NumbersIssued' /\ NumbersApart' /\ MoneyKnown'
      /\ OneAtATime' /\ PlainOrders' /\ Accounted'
  BY <1>1, <1>2, RetireKeeps
<1>5. GagalIsTrue'
  BY AnswerIsTrue
<1>6. QED
  BY <1>3, <1>4, <1>5 DEF GatewayInv

-------------------------------------------------------------------------------
(* A new order.                                                            *)

LEMMA AcceptKeeps ==
    ASSUME GatewayInv, NEW c \in Requests, request[c].at = "lookup", Accept(c),
           UNCHANGED <<money, orders, posts, uses, sent, touches>>
    PROVE  GatewayInv'
<1> DEFINE n == Len(issued) + 1
<1>1. /\ issued \in Seq(Refs) /\ Len(issued) \in Nat /\ Len(issued) < MaxInvoices
      /\ request[c].ref \in Refs /\ MaxInvoices \in Nat
  BY GatewayAssumption, RequestTyped DEF GatewayInv, GatewayTypeOK, Accept
<1>2. /\ issued' \in Seq(Refs) /\ Len(issued') = n /\ DOMAIN issued' = DOMAIN issued \cup {n}
      /\ issued'[n] = request[c].ref /\ \A i \in DOMAIN issued : issued'[i] = issued[i]
      /\ n \in Invoices \ DOMAIN issued
  BY <1>1 DEF Accept, Invoices
<1>3. /\ request'[c].at = "debit" /\ request'[c].inv = n /\ request'[c].ref = request[c].ref
      /\ \A e \in Requests : e # c => request'[e] = request[e]
  BY RequestTyped DEF GatewayInv, Accept
<1>4. UNCHANGED <<saldo, charged, returned, orders, posts, uses, sent, touches, heard>>
  BY DEF Accept, money
<1>5. GatewayTypeOK'
  <2>1. n \in 0 .. MaxInvoices
    BY <1>1
  <2>2. request' \in [Requests -> [at : RequestSteps, ref : Refs, inv : 0 .. MaxInvoices, seen : Nat]]
    <3>1. request' = [request EXCEPT ![c].at = "debit", ![c].inv = n]
      BY DEF Accept
    <3>2. QED
      BY <2>1, <3>1, RequestTyped DEF GatewayInv, RequestSteps
  <2>3. issued' \in Seq(Refs) /\ Len(issued') <= MaxInvoices
    BY <1>1, <1>2
  <2>4. QED
    BY <1>4, <2>2, <2>3 DEF GatewayInv, GatewayTypeOK
<1> HIDE DEF n
<1>6. NumbersIssued'
  <2>1. \A e \in Requests : Numbered(e)' =>
            request'[e].inv \in DOMAIN issued' /\ issued'[request'[e].inv] = request'[e].ref
    BY <1>2, <1>3 DEF GatewayInv, NumbersIssued, Numbered
  <2>2. \A k \in DOMAIN orders' :
            orders'[k].inv \in DOMAIN issued' /\ issued'[orders'[k].inv] = orders'[k].ref
    BY <1>2, <1>4 DEF GatewayInv, NumbersIssued
  <2>3. QED
    BY <2>1, <2>2 DEF NumbersIssued
<1>7. NumbersApart'
  BY <1>2, <1>3, <1>4 DEF GatewayInv, NumbersIssued, NumbersApart, Numbered, Unplaced
<1>8. MoneyKnown'
  BY <1>2, <1>3, <1>4 DEF GatewayInv, MoneyKnown, Holds
<1>9. OneAtATime'
  <2>1. request[c].ref \in Plain => RowsOf(request[c].ref) = {}
    BY DEF Accept, Plain, Known, FindsNone
  <2>2. QED
    BY <1>3, <1>4, <2>1 DEF GatewayInv, OneAtATime, RowsOf, Unplaced
<1>10. PlainOrders'
  BY <1>3, <1>4 DEF GatewayInv, PlainOrders
<1>11. Accounted'
  <2>1. charged[n] = returned[n]
    <3>1. charged[n] = 0 /\ returned[n] <= charged[n]
      BY <1>2 DEF GatewayInv, MoneyKnown
    <3>2. returned[n] \in {0, 1}
      BY <1>2 DEF GatewayInv, GatewayTypeOK
    <3>3. QED
      BY <3>1, <3>2
  <2>2. QED
    BY <1>2, <1>3, <1>4, <2>1 DEF GatewayInv, Accounted, Holds
<1>12. GagalIsTrue'
  BY <1>3, <1>4 DEF GatewayInv, GagalIsTrue, FailedRow, RowsOf, Busy
<1>13. QED
  BY <1>5, <1>6, <1>7, <1>8, <1>9, <1>10, <1>11, <1>12 DEF GatewayInv

LEMMA LookupKeeps ==
    ASSUME GatewayInv, NEW c \in Requests, Lookup(c) PROVE GatewayInv'
<1>1. /\ request[c].at = "lookup" /\ request[c].at # "idle" /\ ~Holds(c)
      /\ UNCHANGED <<money, orders, posts, uses, sent, touches>>
  BY DEF Lookup, Holds
<1>2. CASE Repeat(c)
  <2>1. Answer(c, statusToDigiflazz(FirstRow(request[c].ref).status)) /\ UNCHANGED issued
    BY <1>2 DEF Repeat
  <2>2. RowsOf(request[c].ref) # {}
    BY <1>2 DEF Repeat, Known, FindsNone
  <2>3. QED
    BY <1>1, <2>1, <2>2, AnswerKeeps, WordOfStatus, RowIsTold
<1>3. CASE Refuse(c)
  <2>1. Answer(c, "Short") /\ "Short" \in Words /\ UNCHANGED issued
    BY <1>3 DEF Refuse, Words
  <2>2. request[c].ref \in Plain => RowsOf(request[c].ref) = {}
    BY <1>3 DEF Refuse, Plain, Known, FindsNone
  <2>3. QED
    BY <1>1, <2>1, <2>2, AnswerKeeps
<1>4. CASE Reject(c)
  <2>1. Answer(c, "Rejected") /\ "Rejected" \in Words \ Told /\ UNCHANGED issued
    BY <1>4 DEF Reject, Words, Told
  <2>2. QED
    BY <1>1, <2>1, AnswerKeeps
<1>5. CASE Accept(c)
  BY <1>1, <1>5, AcceptKeeps
<1>6. QED
  BY <1>2, <1>3, <1>4, <1>5 DEF Lookup

LEMMA DebitKeeps ==
    ASSUME GatewayInv, NEW c \in Requests, request[c].at = "debit",
           Debit(request[c].inv), Proceed(c, "create"), UNCHANGED <<heard, orders, posts, bounds>>
    PROVE  GatewayInv'
<1> DEFINE i == request[c].inv
<1>1. i \in DOMAIN issued /\ i \in Invoices
  <2>1. i \in DOMAIN issued
    BY DEF GatewayInv, NumbersIssued, Numbered
  <2>2. QED
    BY <2>1, IssuedInRange DEF GatewayInv
<1>2. /\ request'[c].at = "create" /\ request'[c].ref = request[c].ref /\ request'[c].inv = i
      /\ \A e \in Requests : e # c => request'[e] = request[e]
      /\ request' \in [Requests -> [at : RequestSteps, ref : Refs, inv : 0 .. MaxInvoices,
                                    seen : Nat]]
  BY ProceedEffect DEF GatewayInv, RequestSteps
<1>3. /\ saldo' \in Nat /\ charged' = [charged EXCEPT ![i] = @ + 1]
      /\ charged' \in [Invoices -> Nat] /\ returned' = returned
  BY <1>1, DebitEffect DEF GatewayInv
<1>4. UNCHANGED <<heard, orders, posts, uses, sent, issued, touches>>
  BY DEF bounds
<1>5. charged[i] = 0 /\ returned[i] = 0 /\ charged'[i] = 1 /\ returned'[i] = 0
  <2>1. charged[i] = 0 /\ returned[i] <= charged[i]
    BY <1>1 DEF GatewayInv, MoneyKnown
  <2>2. returned[i] \in {0, 1} /\ charged \in [Invoices -> Nat]
    BY <1>1 DEF GatewayInv, GatewayTypeOK
  <2>3. QED
    BY <1>1, <1>3, <2>1, <2>2
<1>6. \A j \in Invoices : j # i => charged'[j] = charged[j]
  BY <1>3 DEF GatewayInv, GatewayTypeOK
<1>7. /\ \A e \in Requests : e # c /\ Numbered(e) => request[e].inv # i /\ request[e].inv \in Invoices
      /\ \A k \in DOMAIN orders : orders[k].inv # i /\ orders[k].inv \in Invoices
  <2>1. /\ \A e \in Requests : e # c /\ Numbered(e) => request[e].inv # i
        /\ \A k \in DOMAIN orders : orders[k].inv # i
    BY DEF GatewayInv, NumbersApart, Numbered, Unplaced
  <2>2. \A e \in Requests : Numbered(e) => request[e].inv \in DOMAIN issued
    BY DEF GatewayInv, NumbersIssued
  <2>3. QED
    BY <2>1, <2>2, IssuedInRange, OrderTyped DEF GatewayInv
<1>8. GatewayTypeOK'
  BY <1>2, <1>3, <1>4 DEF GatewayInv, GatewayTypeOK
<1>9. NumbersIssued' /\ NumbersApart'
  BY <1>2, <1>4 DEF GatewayInv, NumbersIssued, NumbersApart, Numbered, Unplaced
<1>10. MoneyKnown'
  <2>1. \A j \in Invoices : returned'[j] <= charged'[j]
    BY <1>3, <1>5, <1>6 DEF GatewayInv, MoneyKnown
  <2>2. \A j \in Invoices \ DOMAIN issued' : charged'[j] = 0
    BY <1>1, <1>4, <1>6 DEF GatewayInv, MoneyKnown
  <2>3. \A e \in Requests : request'[e].at = "debit" => charged'[request'[e].inv] = 0
    BY <1>2, <1>6, <1>7 DEF GatewayInv, MoneyKnown, Numbered
  <2>4. \A e \in Requests : Holds(e)' =>
            charged'[request'[e].inv] = 1 /\ returned'[request'[e].inv] = 0
    BY <1>2, <1>3, <1>5, <1>6, <1>7 DEF GatewayInv, MoneyKnown, Numbered, Holds
  <2>5. \A k \in DOMAIN orders' : charged'[orders'[k].inv] > 0
    BY <1>4, <1>6, <1>7 DEF GatewayInv, MoneyKnown
  <2>6. QED
    BY <2>1, <2>2, <2>3, <2>4, <2>5 DEF MoneyKnown
<1>11. OneAtATime'
  BY <1>2, <1>4 DEF GatewayInv, OneAtATime, RowsOf, Unplaced
<1>12. PlainOrders'
  BY <1>2, <1>3, <1>4, <1>6, <1>7 DEF GatewayInv, PlainOrders
<1>13. Accounted'
  <2>1. ASSUME NEW j \in DOMAIN issued', issued'[j] \in Plain
        PROVE  \/ charged'[j] = returned'[j]
               \/ \E k \in DOMAIN orders' : orders'[k].inv = j /\ orders'[k].status # "failed"
               \/ \E e \in Requests : Holds(e)' /\ request'[e].inv = j
    <3>1. CASE j = i
      BY <1>2, <3>1 DEF Holds
    <3>2. CASE j # i
      <4>1. j \in Invoices /\ j \in DOMAIN issued /\ issued[j] \in Plain
        BY <1>4, <2>1, IssuedInRange DEF GatewayInv
      <4>2. \A e \in Requests : Holds(e) => e # c
        BY DEF Holds
      <4>3. QED
        BY <1>2, <1>3, <1>4, <1>6, <3>2, <4>1, <4>2 DEF GatewayInv, Accounted, Holds
    <3>3. QED
      BY <3>1, <3>2
  <2>2. QED
    BY <2>1 DEF Accounted
<1>14. GagalIsTrue'
  BY <1>2, <1>4 DEF GatewayInv, GagalIsTrue, FailedRow, RowsOf, Busy
<1>15. QED
  BY <1>8, <1>9, <1>10, <1>11, <1>12, <1>13, <1>14 DEF GatewayInv

\* A row n after the others, of the invoice of the request.
LEMMA RowAdded ==
    ASSUME GatewayInv, NEW c \in Requests, request[c].at = "create", NEW n,
           orders' \in Seq([inv : Invoices, ref : Refs, status : OrderStatuses]),
           DOMAIN orders' = DOMAIN orders \cup {n}, n \notin DOMAIN orders,
           orders'[n].inv = request[c].inv, orders'[n].ref = request[c].ref,
           orders'[n].status = "processing",
           \A k \in DOMAIN orders : orders'[k] = orders[k],
           Proceed(c, "fulfil"), UNCHANGED <<heard, money, posts, bounds>>
    PROVE  GatewayInv'
<1> DEFINE i == request[c].inv
           r == request[c].ref
<1>1. i \in DOMAIN issued /\ i \in Invoices /\ issued[i] = r /\ r \in Refs
  BY IssuedInRange, RequestTyped DEF GatewayInv, NumbersIssued, Numbered
<1>2. /\ request'[c].at = "fulfil" /\ request'[c].ref = r /\ request'[c].inv = i
      /\ \A e \in Requests : e # c => request'[e] = request[e]
  BY ProceedEffect DEF GatewayInv, RequestSteps
<1>3. UNCHANGED <<saldo, charged, returned, heard, posts, uses, sent, issued, touches>>
  BY DEF bounds, money
<1>5. orders'[n].inv = i /\ orders'[n].ref = r
  OBVIOUS
<1> HIDE DEF i, r
<1>6. i = request[c].inv /\ r = request[c].ref
  BY DEF i, r
<1>7. /\ \A k \in DOMAIN orders : orders[k].inv # i
      /\ \A e \in Requests : e # c /\ Numbered(e) => request[e].inv # i
  BY <1>6 DEF GatewayInv, NumbersApart, Numbered, Unplaced
<1>8. charged[i] = 1
  BY <1>6 DEF GatewayInv, MoneyKnown, Holds
<1>9. /\ \A q : RowsOf(q)' = RowsOf(q) \cup (IF q = r THEN {n} ELSE {})
      /\ \A q : FailedRow(q) => FailedRow(q)'
  BY <1>5, <1>6 DEF RowsOf, FailedRow
<1>10. GatewayTypeOK'
  <2>1. request' \in [Requests -> [at : RequestSteps, ref : Refs, inv : 0 .. MaxInvoices,
                                   seen : Nat]]
    BY ProceedEffect DEF GatewayInv, RequestSteps
  <2>2. QED
    BY <1>3, <2>1 DEF GatewayInv, GatewayTypeOK
<1>11. NumbersIssued'
  <2>1. \A e \in Requests : Numbered(e)' =>
            request'[e].inv \in DOMAIN issued' /\ issued'[request'[e].inv] = request'[e].ref
    BY <1>1, <1>2, <1>3 DEF GatewayInv, NumbersIssued, Numbered
  <2>2. \A k \in DOMAIN orders' :
            orders'[k].inv \in DOMAIN issued' /\ issued'[orders'[k].inv] = orders'[k].ref
    BY <1>1, <1>3, <1>5, <1>6 DEF GatewayInv, NumbersIssued
  <2>3. QED
    BY <2>1, <2>2 DEF NumbersIssued
<1>12. NumbersApart'
  <2>1. \A e, f \in Requests :
            Numbered(e)' /\ Numbered(f)' /\ request'[e].inv = request'[f].inv => e = f
    <3>1. \A e \in Requests : Numbered(e)' => Numbered(e) /\ request'[e].inv = request[e].inv
      BY <1>2, <1>6 DEF Numbered
    <3>2. QED
      BY <3>1 DEF GatewayInv, NumbersApart
  <2>2. \A k, l \in DOMAIN orders' : orders'[k].inv = orders'[l].inv => k = l
    BY <1>5, <1>6, <1>7 DEF GatewayInv, NumbersApart
  <2>3. \A e \in Requests, k \in DOMAIN orders' : Unplaced(e)' => orders'[k].inv # request'[e].inv
    <3>1. ASSUME NEW e \in Requests, NEW k \in DOMAIN orders', Unplaced(e)'
          PROVE  orders'[k].inv # request'[e].inv
      <4>1. e # c /\ request'[e] = request[e] /\ Unplaced(e) /\ Numbered(e)
        BY <1>2, <3>1 DEF Unplaced, Numbered
      <4>2. CASE k = n
        BY <1>5, <1>7, <4>1, <4>2
      <4>3. CASE k \in DOMAIN orders
        BY <4>1, <4>3 DEF GatewayInv, NumbersApart
      <4>4. QED
        BY <4>2, <4>3
    <3>2. QED
      BY <3>1
  <2>4. \A e \in Requests : request'[e].at = "fulfil" =>
            \E k \in DOMAIN orders' : orders'[k].inv = request'[e].inv
    BY <1>2, <1>5, <1>6 DEF GatewayInv, NumbersApart
  <2>5. QED
    BY <2>1, <2>2, <2>3, <2>4 DEF NumbersApart
<1>13. MoneyKnown'
  <2>1. \A e \in Requests : (request'[e].at = "debit" => request[e].at = "debit") /\ (Holds(e)' => Holds(e))
                            /\ (Holds(e)' => request'[e] = request[e])
    BY <1>2 DEF Holds
  <2>2. \A k \in DOMAIN orders' : charged'[orders'[k].inv] > 0
    BY <1>3, <1>5, <1>6, <1>8 DEF GatewayInv, MoneyKnown
  <2>3. \A e \in Requests : request'[e].at = "debit" => charged'[request'[e].inv] = 0
    BY <1>2, <1>3 DEF GatewayInv, MoneyKnown
  <2>4. QED
    BY <1>3, <2>1, <2>2, <2>3 DEF GatewayInv, MoneyKnown
<1>14. OneAtATime'
  <2>1. r \in Plain => RowsOf(r) = {} /\ \A e \in Requests :
            request[e].at # "idle" /\ request[e].ref = r => e = c
    BY <1>6 DEF GatewayInv, OneAtATime, Unplaced
  <2>2. ASSUME NEW q \in Plain, NEW e \in Requests, NEW f \in Requests,
               request'[e].at # "idle", request'[e].ref = q,
               request'[f].at # "idle", request'[f].ref = q
        PROVE  e = f
    <3>1. /\ request[e].at # "idle" /\ request[e].ref = q
          /\ request[f].at # "idle" /\ request[f].ref = q
      BY <1>2, <1>6, <2>2
    <3>2. QED
      BY <3>1 DEF GatewayInv, OneAtATime
  <2>3. ASSUME NEW q \in Plain PROVE \A k, l \in RowsOf(q)' : k = l
    BY <1>9, <2>1 DEF GatewayInv, OneAtATime
  <2>4. ASSUME NEW q \in Plain, NEW e \in Requests, Unplaced(e)', request'[e].ref = q
        PROVE  RowsOf(q)' = {}
    <3>1. e # c /\ request'[e] = request[e] /\ Unplaced(e) /\ request[e].ref = q
      BY <1>2, <2>4 DEF Unplaced
    <3>2. q # r
      BY <2>1, <3>1 DEF Unplaced
    <3>3. QED
      BY <1>9, <3>1, <3>2 DEF GatewayInv, OneAtATime
  <2>5. QED
    BY <2>2, <2>3, <2>4 DEF OneAtATime
<1>15. PlainOrders'
  <2>1. ASSUME NEW k \in DOMAIN orders, orders[k].ref \in Plain
        PROVE  /\ charged'[orders'[k].inv] = 1
               /\ orders'[k].status \in {"processing", "success", "failed"}
               /\ orders'[k].status = "failed" => returned'[orders'[k].inv] = 1
               /\ \A e \in Requests : request'[e].at = "fulfil" /\ request'[e].inv = orders'[k].inv
                     => orders'[k].status = "processing"
    <3>1. orders'[k] = orders[k] /\ orders[k].inv # i
      BY <1>7
    <3>2. \A e \in Requests : request'[e].at = "fulfil" /\ request'[e].inv = orders[k].inv
              => request[e].at = "fulfil" /\ request[e].inv = orders[k].inv
      BY <1>2, <3>1
    <3>3. QED
      BY <1>3, <2>1, <3>1, <3>2 DEF GatewayInv, PlainOrders
  <2>2. ASSUME NEW k \in DOMAIN orders', orders'[k].ref \in Plain
        PROVE  /\ charged'[orders'[k].inv] = 1
               /\ orders'[k].status \in {"processing", "success", "failed"}
               /\ orders'[k].status = "failed" => returned'[orders'[k].inv] = 1
               /\ \A e \in Requests : request'[e].at = "fulfil" /\ request'[e].inv = orders'[k].inv
                     => orders'[k].status = "processing"
    <3>1. CASE k = n
      BY <1>3, <1>5, <1>8, <3>1
    <3>2. CASE k \in DOMAIN orders
      BY <2>1, <2>2, <3>2
    <3>3. QED
      BY <3>1, <3>2
  <2>3. QED
    BY <2>2 DEF PlainOrders
<1>16. Accounted'
  <2>1. ASSUME NEW j \in DOMAIN issued', issued'[j] \in Plain
        PROVE  \/ charged'[j] = returned'[j]
               \/ \E k \in DOMAIN orders' : orders'[k].inv = j /\ orders'[k].status # "failed"
               \/ \E e \in Requests : Holds(e)' /\ request'[e].inv = j
    <3>1. CASE j = i
      BY <1>5, <1>6, <3>1
    <3>2. CASE j # i
      <4>1. \A e \in Requests : Holds(e) /\ request[e].inv = j
                => Holds(e)' /\ request'[e].inv = j
        BY <1>2, <1>6, <3>2 DEF Holds
      <4>2. CASE charged[j] = returned[j]
        BY <1>3, <4>2
      <4>3. CASE \E k \in DOMAIN orders : orders[k].inv = j /\ orders[k].status # "failed"
        BY <4>3
      <4>4. QED
        BY <1>3, <2>1, <4>1, <4>2, <4>3 DEF GatewayInv, Accounted
    <3>3. QED
      BY <3>1, <3>2
  <2>2. QED
    BY <2>1 DEF Accounted
<1>17. GagalIsTrue'
  <2>1. ASSUME NEW q \in Plain, heard'[q] \in Told
        PROVE  FailedRow(q)' \/ (RowsOf(q)' = {} /\ ~Busy(q)')
    <3>1. CASE FailedRow(q)
      BY <1>9, <3>1
    <3>2. CASE RowsOf(q) = {} /\ ~Busy(q)
      <4>1. q # r
        BY <1>6, <3>2 DEF Busy
      <4>2. ~Busy(q)'
        BY <1>2, <3>2, <4>1 DEF Busy
      <4>3. QED
        BY <1>9, <3>2, <4>1, <4>2
    <3>3. QED
      BY <1>3, <2>1, <3>1, <3>2 DEF GatewayInv, GagalIsTrue
  <2>2. QED
    BY <1>3, <1>9, <2>1 DEF GatewayInv, GagalIsTrue
<1>18. QED
  BY <1>10, <1>11, <1>12, <1>13, <1>14, <1>15, <1>16, <1>17 DEF GatewayInv

LEMMA InsertKeeps ==
    ASSUME GatewayInv, NEW c \in Requests, request[c].at = "create",
           orders' = Append(orders, [inv |-> request[c].inv, ref |-> request[c].ref,
                                     status |-> "processing"]),
           Proceed(c, "fulfil"), UNCHANGED <<heard, money, posts, bounds>>
    PROVE  GatewayInv'
<1> DEFINE n == Len(orders) + 1
           new == [inv |-> request[c].inv, ref |-> request[c].ref, status |-> "processing"]
<1>1. orders \in Seq([inv : Invoices, ref : Refs, status : OrderStatuses])
  BY DEF GatewayInv, GatewayTypeOK
<1>2. new \in [inv : Invoices, ref : Refs, status : OrderStatuses]
  <2>1. request[c].inv \in Invoices /\ request[c].ref \in Refs
    BY IssuedInRange, RequestTyped DEF GatewayInv, NumbersIssued, Numbered
  <2>2. QED
    BY <2>1 DEF OrderStatuses
<1>3. new.inv = request[c].inv /\ new.ref = request[c].ref /\ new.status = "processing"
  OBVIOUS
<1> HIDE DEF new
<1>4. orders' = Append(orders, new)
  BY DEF new
<1>5. /\ orders' \in Seq([inv : Invoices, ref : Refs, status : OrderStatuses])
      /\ DOMAIN orders' = DOMAIN orders \cup {n} /\ n \notin DOMAIN orders
      /\ orders'[n] = new
      /\ \A k \in DOMAIN orders : orders'[k] = orders[k]
  BY <1>1, <1>2, <1>4
<1> HIDE DEF n
<1>6. QED
  BY <1>3, <1>5, RowAdded

LEMMA InsertFailedKeeps ==
    ASSUME GatewayInv, NEW c \in Requests, request[c].at = "create",
           Proceed(c, "giveBack"), UNCHANGED <<heard, orders, money, posts, bounds>>
    PROVE  GatewayInv'
<1>1. /\ request'[c].at = "giveBack" /\ request'[c].ref = request[c].ref
      /\ request'[c].inv = request[c].inv
      /\ \A e \in Requests : e # c => request'[e] = request[e]
      /\ request' \in [Requests -> [at : RequestSteps, ref : Refs, inv : 0 .. MaxInvoices,
                                    seen : Nat]]
  BY ProceedEffect DEF GatewayInv, RequestSteps
<1>2. UNCHANGED <<saldo, charged, returned, orders, heard, posts, uses, sent, issued, touches>>
  BY DEF bounds, money
<1>3. GatewayTypeOK'
  BY <1>1, <1>2 DEF GatewayInv, GatewayTypeOK
<1>4. NumbersIssued' /\ NumbersApart'
  BY <1>1, <1>2 DEF GatewayInv, NumbersIssued, NumbersApart, Numbered, Unplaced
<1>5. MoneyKnown'
  BY <1>1, <1>2 DEF GatewayInv, MoneyKnown, Holds
<1>6. OneAtATime'
  BY <1>1, <1>2 DEF GatewayInv, OneAtATime, RowsOf, Unplaced
<1>7. PlainOrders'
  BY <1>1, <1>2 DEF GatewayInv, PlainOrders
<1>8. Accounted'
  BY <1>1, <1>2 DEF GatewayInv, Accounted, Holds
<1>9. GagalIsTrue'
  BY <1>1, <1>2 DEF GatewayInv, GagalIsTrue, FailedRow, RowsOf, Busy
<1>10. QED
  BY <1>3, <1>4, <1>5, <1>6, <1>7, <1>8, <1>9 DEF GatewayInv

LEMMA GiveBackKeeps ==
    ASSUME GatewayInv, NEW c \in Requests, GiveBack(c) PROVE GatewayInv'
<1> DEFINE i == request[c].inv
<1>1. /\ request[c].at = "giveBack" /\ Answer(c, "Rejected") /\ "Rejected" \in Words
      /\ UNCHANGED <<orders, posts, uses, sent, issued, touches>>
  BY DEF GiveBack, bounds, Words
<1>2. /\ request'[c].at = "idle" /\ \A e \in Requests : e # c => request'[e] = request[e]
      /\ request' \in [Requests -> [at : RequestSteps, ref : Refs, inv : 0 .. MaxInvoices,
                                    seen : Nat]]
      /\ heard' \in [Refs -> Words \cup {"nothing"}]
  BY <1>1, AnswerEffect DEF GatewayInv
<1>3. i \in DOMAIN issued /\ i \in Invoices /\ issued[i] = request[c].ref
  BY <1>1, IssuedInRange DEF GatewayInv, NumbersIssued, Numbered
<1>4. /\ saldo' \in Nat /\ charged' = charged /\ returned' \in [Invoices -> {0, 1}]
      /\ returned'[i] = 1 \/ issued[i] \notin Plain
      /\ \A j \in Invoices : j # i => returned'[j] = returned[j]
  <2>1. CASE Credit(i)
    BY <1>3, <2>1, CreditEffect DEF GatewayInv, GatewayTypeOK
  <2>2. CASE request[c].ref \in Outages /\ UNCHANGED money
    BY <1>3, <2>2 DEF GatewayInv, GatewayTypeOK, money, Plain
  <2>3. QED
    BY <2>1, <2>2 DEF GiveBack
<1>5. charged[i] = 1
  BY <1>1 DEF GatewayInv, MoneyKnown, Holds
<1>6. /\ \A e \in Requests : e # c /\ Numbered(e) => request[e].inv # i /\ request[e].inv \in Invoices
      /\ \A k \in DOMAIN orders : orders[k].inv # i /\ orders[k].inv \in Invoices
  <2>1. /\ \A e \in Requests : e # c /\ Numbered(e) => request[e].inv # i
        /\ \A k \in DOMAIN orders : orders[k].inv # i
    BY <1>1 DEF GatewayInv, NumbersApart, Numbered, Unplaced
  <2>2. \A e \in Requests : Numbered(e) => request[e].inv \in DOMAIN issued
    BY DEF GatewayInv, NumbersIssued
  <2>3. QED
    BY <2>1, <2>2, IssuedInRange, OrderTyped DEF GatewayInv
<1>7. GatewayTypeOK'
  BY <1>1, <1>2, <1>4 DEF GatewayInv, GatewayTypeOK
<1>8. NumbersIssued' /\ NumbersApart'
  BY <1>1, <1>2 DEF GatewayInv, NumbersIssued, NumbersApart, Numbered, Unplaced
<1>9. MoneyKnown'
  <2>1. \A j \in Invoices : returned'[j] <= charged'[j]
    <3>1. returned'[i] \in {0, 1}
      BY <1>3, <1>4
    <3>2. QED
      BY <1>4, <1>5, <3>1 DEF GatewayInv, MoneyKnown
  <2>2. \A e \in Requests : request'[e].at = "debit" => charged'[request'[e].inv] = 0
    BY <1>2, <1>4 DEF GatewayInv, MoneyKnown
  <2>3. \A e \in Requests : Holds(e)' =>
            charged'[request'[e].inv] = 1 /\ returned'[request'[e].inv] = 0
    BY <1>2, <1>4, <1>6 DEF GatewayInv, MoneyKnown, Holds, Numbered
  <2>4. QED
    BY <1>1, <1>4, <2>1, <2>2, <2>3 DEF GatewayInv, MoneyKnown
<1>10. OneAtATime'
  BY <1>1, <1>2 DEF GatewayInv, OneAtATime, RowsOf, Unplaced
<1>11. PlainOrders'
  BY <1>1, <1>2, <1>4, <1>6 DEF GatewayInv, PlainOrders
<1>12. Accounted'
  <2>1. ASSUME NEW j \in DOMAIN issued', issued'[j] \in Plain
        PROVE  \/ charged'[j] = returned'[j]
               \/ \E k \in DOMAIN orders' : orders'[k].inv = j /\ orders'[k].status # "failed"
               \/ \E e \in Requests : Holds(e)' /\ request'[e].inv = j
    <3>1. CASE j = i
      BY <1>1, <1>4, <1>5, <2>1, <3>1
    <3>2. CASE j # i
      <4>1. j \in Invoices
        BY <1>1, <2>1, IssuedInRange DEF GatewayInv
      <4>2. QED
        BY <1>1, <1>2, <1>4, <2>1, <3>2, <4>1 DEF GatewayInv, Accounted, Holds
    <3>3. QED
      BY <3>1, <3>2
  <2>2. QED
    BY <2>1 DEF Accounted
<1>13. GagalIsTrue'
  <2>1. request[c].ref \in Plain => RowsOf(request[c].ref) = {}
    BY <1>1 DEF GatewayInv, OneAtATime, Unplaced
  <2>2. QED
    BY <1>1, <2>1, AnswerIsTrue
<1>14. QED
  BY <1>7, <1>8, <1>9, <1>10, <1>11, <1>12, <1>13 DEF GatewayInv

LEMMA CreateKeeps ==
    ASSUME GatewayInv, NEW c \in Requests, CreateTransaction(c) PROVE GatewayInv'
<1>1. request[c].at = "create" /\ UNCHANGED <<money, posts, bounds>>
  BY DEF CreateTransaction
<1>2. CASE /\ orders' = Append(orders, [inv |-> request[c].inv, ref |-> request[c].ref,
                                        status |-> "processing"])
           /\ Proceed(c, "fulfil") /\ UNCHANGED heard
  BY <1>1, <1>2, InsertKeeps
<1>3. CASE InsertFailed(c) /\ UNCHANGED orders
  BY <1>1, <1>3, InsertFailedKeeps DEF InsertFailed
<1>4. QED
  BY <1>2, <1>3 DEF CreateTransaction

LEMMA DebitPartnerKeeps ==
    ASSUME GatewayInv, NEW c \in Requests, DebitPartner(c) PROVE GatewayInv'
<1>1. request[c].at = "debit" /\ UNCHANGED <<orders, posts, bounds>>
  BY DEF DebitPartner
<1>2. CASE Debit(request[c].inv) /\ Proceed(c, "create") /\ UNCHANGED heard
  BY <1>1, <1>2, DebitKeeps
<1>3. CASE Answer(c, "Short") /\ UNCHANGED money
  <2>1. request[c].ref \in Plain => RowsOf(request[c].ref) = {}
    BY <1>1 DEF GatewayInv, OneAtATime, Unplaced
  <2>2. UNCHANGED <<uses, sent, issued, touches>> /\ "Short" \in Words
    BY <1>1 DEF bounds, Words
  <2>3. request[c].at # "idle" /\ ~Holds(c)
    BY <1>1 DEF Holds
  <2>4. QED
    BY <1>1, <1>3, <2>1, <2>2, <2>3, AnswerKeeps
<1>4. QED
  BY <1>2, <1>3 DEF DebitPartner

-------------------------------------------------------------------------------
(* The end of an order.                                                    *)

LEMMA OthersInvoices ==
    ASSUME GatewayInv, NEW k \in DOMAIN orders
    PROVE  /\ orders[k].inv \in Invoices
           /\ orders[k].inv \in DOMAIN issued /\ issued[orders[k].inv] = orders[k].ref
           /\ \A l \in DOMAIN orders : orders[l].inv \in Invoices
           /\ \A l \in DOMAIN orders : l # k => orders[l].inv # orders[k].inv
           /\ \A e \in Requests : Unplaced(e) =>
                 request[e].inv # orders[k].inv /\ request[e].inv \in Invoices
<1>1. \A e \in Requests : Numbered(e) => request[e].inv \in DOMAIN issued
  BY DEF GatewayInv, NumbersIssued
<1>2. \A e \in Requests : Unplaced(e) => Numbered(e)
  BY DEF Unplaced, Numbered
<1>3. QED
  BY <1>1, <1>2, IssuedInRange, OrderTyped DEF GatewayInv, NumbersIssued, NumbersApart

\* A plain ref is told "Gagal" by the end of its row only when that failed.
LEMMA EndIsTrue ==
    ASSUME GatewayInv, NEW k \in DOMAIN orders, NEW s \in {"success", "failed"}, Ends(k, s),
           orders[k].ref \in Plain => orders[k].status = "processing",
           \A e \in Requests : request'[e] = request[e] \/ request'[e].at = "idle",
           \A r \in Plain : heard'[r] \in Told =>
               heard[r] \in Told \/ (r = orders[k].ref /\ s = "failed")
    PROVE  GagalIsTrue'
<1>1. /\ DOMAIN orders' = DOMAIN orders /\ orders'[k].status = s
      /\ \A l \in DOMAIN orders : orders'[l].ref = orders[l].ref
      /\ \A l \in DOMAIN orders : l # k => orders'[l] = orders[l]
  BY EndEffect, StatusEffect DEF GatewayInv, OrderStatuses
<1>2. \A r : RowsOf(r)' = RowsOf(r)
  BY <1>1 DEF RowsOf
<1>3. \A r : r = orders[k].ref /\ s = "failed" => FailedRow(r)'
  BY <1>1 DEF FailedRow, RowsOf
<1>4. ASSUME NEW r \in Plain, FailedRow(r) PROVE FailedRow(r)'
  <2>1. PICK l \in RowsOf(r) : orders[l].status = "failed"
    BY <1>4 DEF FailedRow
  <2>2. l # k /\ l \in DOMAIN orders
    BY <2>1 DEF RowsOf
  <2>3. QED
    BY <1>1, <1>2, <2>1, <2>2 DEF FailedRow
<1>5. ASSUME NEW r \in Plain, heard'[r] \in Told
      PROVE  FailedRow(r)' \/ (RowsOf(r)' = {} /\ ~Busy(r)')
  <2>1. CASE heard[r] \in Told
    <3>1. ~Busy(r) => ~Busy(r)'
      BY DEF Busy
    <3>2. QED
      BY <1>2, <1>4, <2>1, <3>1 DEF GatewayInv, GagalIsTrue
  <2>2. CASE heard[r] \notin Told
    BY <1>3, <1>5, <2>2
  <2>3. QED
    BY <2>1, <2>2
<1>6. ASSUME NEW p \in posts', p.ref \in Plain, p.word \in Told PROVE FailedRow(p.ref)'
  <2>1. CASE p \in posts
    BY <1>4, <1>6, <2>1 DEF GatewayInv, GagalIsTrue
  <2>2. CASE p = Post(k, s)
    <3>1. p.ref = orders[k].ref /\ p.word = statusToDigiflazz(s)
      BY <2>2 DEF Post
    <3>2. s = "failed"
      BY <1>6, <3>1, WordOfStatus
    <3>3. QED
      BY <1>3, <3>1, <3>2
  <2>3. QED
    BY <1>6, <2>1, <2>2, EndEffect DEF GatewayInv
<1>7. QED
  BY <1>5, <1>6 DEF GagalIsTrue

LEMMA EndKeeps ==
    ASSUME GatewayInv, NEW k \in DOMAIN orders, NEW s \in {"success", "failed"}, Ends(k, s),
           orders[k].ref \in Plain => orders[k].status = "processing",
           request' \in [Requests -> [at : RequestSteps, ref : Refs, inv : 0 .. MaxInvoices,
                                      seen : Nat]],
           heard' \in [Refs -> Words \cup {"nothing"}],
           \A e \in Requests : \/ request'[e] = request[e]
                               \/ request[e].at = "fulfil" /\ request'[e].at = "idle",
           \A e \in Requests : request'[e].at = "fulfil" => request'[e].inv # orders[k].inv,
           \A r \in Plain : heard'[r] \in Told =>
               heard[r] \in Told \/ (r = orders[k].ref /\ s = "failed"),
           UNCHANGED <<uses, sent, issued, touches>>
    PROVE  GatewayInv'
<1> DEFINE i == orders[k].inv
<1>1. /\ DOMAIN orders' = DOMAIN orders /\ orders'[k].status = s
      /\ \A l \in DOMAIN orders : orders'[l].inv = orders[l].inv /\ orders'[l].ref = orders[l].ref
      /\ \A l \in DOMAIN orders : l # k => orders'[l] = orders[l]
      /\ orders' \in Seq([inv : Invoices, ref : Refs, status : OrderStatuses])
  BY EndEffect, StatusEffect DEF GatewayInv, OrderStatuses
<1>2. /\ saldo' \in Nat /\ charged' = charged /\ returned' \in [Invoices -> {0, 1}]
      /\ \A j \in Invoices : j # i => returned'[j] = returned[j]
      /\ s = "failed" => returned'[i] = 1
      /\ returned'[i] \in {0, 1}
  <2>1. returned \in [Invoices -> {0, 1}] /\ i \in Invoices
    BY OthersInvoices DEF GatewayInv, GatewayTypeOK
  <2>2. QED
    BY <2>1, EndEffect DEF GatewayInv
<1>3. /\ i \in Invoices /\ i \in DOMAIN issued /\ issued[i] = orders[k].ref
      /\ \A l \in DOMAIN orders : orders[l].inv \in Invoices
      /\ \A l \in DOMAIN orders : l # k => orders[l].inv # i
      /\ \A e \in Requests : Unplaced(e) => request[e].inv # i /\ request[e].inv \in Invoices
  BY OthersInvoices
<1>4. GatewayTypeOK'
  <2>1. posts' \subseteq [inv : Invoices, no : 0 .. MaxTouches, ref : Refs, word : Words,
                          left : 1 .. Attempts]
    <3>1. posts' \in {posts, posts \cup {Post(k, s)}}
      BY EndEffect DEF GatewayInv
    <3>2. Post(k, s) \in [inv : Invoices, no : 0 .. MaxTouches, ref : Refs, word : Words,
                          left : 1 .. Attempts]
      BY PostTyped DEF GatewayInv
    <3>3. QED
      BY <3>1, <3>2 DEF GatewayInv, GatewayTypeOK
  <2>2. charged' \in [Invoices -> Nat]
    BY <1>2 DEF GatewayInv, GatewayTypeOK
  <2>3. QED
    BY <1>1, <1>2, <2>1, <2>2 DEF GatewayInv, GatewayTypeOK
<1>5. \A e \in Requests : request'[e].at # "idle" => request'[e] = request[e]
  OBVIOUS
<1>6. NumbersIssued'
  <2>1. \A e \in Requests : Numbered(e)' => Numbered(e) /\ request'[e] = request[e]
    BY <1>5 DEF Numbered
  <2>2. \A e \in Requests : Numbered(e)' =>
            request'[e].inv \in DOMAIN issued' /\ issued'[request'[e].inv] = request'[e].ref
    BY <2>1 DEF GatewayInv, NumbersIssued
  <2>3. \A l \in DOMAIN orders' :
            orders'[l].inv \in DOMAIN issued' /\ issued'[orders'[l].inv] = orders'[l].ref
    BY <1>1 DEF GatewayInv, NumbersIssued
  <2>4. QED
    BY <2>2, <2>3 DEF NumbersIssued
<1>7. NumbersApart'
  <2>1. \A e \in Requests : Numbered(e)' => Numbered(e) /\ request'[e] = request[e]
    BY <1>5 DEF Numbered
  <2>2. \A e \in Requests : Unplaced(e)' => Unplaced(e) /\ request'[e] = request[e]
    BY <1>5 DEF Unplaced
  <2>3. \A e, f \in Requests :
            Numbered(e)' /\ Numbered(f)' /\ request'[e].inv = request'[f].inv => e = f
    BY <2>1 DEF GatewayInv, NumbersApart
  <2>4. \A l, m \in DOMAIN orders' : orders'[l].inv = orders'[m].inv => l = m
    BY <1>1 DEF GatewayInv, NumbersApart
  <2>5. \A e \in Requests, l \in DOMAIN orders' : Unplaced(e)' => orders'[l].inv # request'[e].inv
    <3>1. ASSUME NEW e \in Requests, NEW l \in DOMAIN orders, Unplaced(e)'
          PROVE  orders'[l].inv # request'[e].inv
      <4>1. Unplaced(e) /\ request'[e] = request[e]
        BY <2>2, <3>1
      <4>2. orders[l].inv # request[e].inv
        BY <4>1 DEF GatewayInv, NumbersApart
      <4>3. QED
        BY <1>1, <4>1, <4>2
    <3>2. QED
      BY <1>1, <3>1
  <2>6. \A e \in Requests : request'[e].at = "fulfil" =>
            \E l \in DOMAIN orders' : orders'[l].inv = request'[e].inv
    BY <1>1, <1>5 DEF GatewayInv, NumbersApart
  <2>7. QED
    BY <2>3, <2>4, <2>5, <2>6 DEF NumbersApart
<1>8. MoneyKnown'
  <2>1. \A j \in Invoices : returned'[j] <= charged'[j]
    <3>1. charged[i] > 0 /\ charged[i] \in Nat
      BY <1>3 DEF GatewayInv, GatewayTypeOK, MoneyKnown
    <3>2. returned'[i] <= charged[i]
      BY <1>2, <3>1
    <3>3. QED
      BY <1>2, <3>2 DEF GatewayInv, MoneyKnown
  <2>2. \A e \in Requests : Holds(e)' =>
            charged'[request'[e].inv] = 1 /\ returned'[request'[e].inv] = 0
    <3>1. \A e \in Requests : Holds(e)' => Holds(e) /\ Unplaced(e) /\ request'[e] = request[e]
      BY <1>5 DEF Holds, Unplaced
    <3>2. QED
      BY <1>2, <1>3, <3>1 DEF GatewayInv, MoneyKnown
  <2>3. \A e \in Requests : request'[e].at = "debit" => charged'[request'[e].inv] = 0
    BY <1>2, <1>5 DEF GatewayInv, MoneyKnown
  <2>4. \A l \in DOMAIN orders' : charged'[orders'[l].inv] > 0
    BY <1>1, <1>2 DEF GatewayInv, MoneyKnown
  <2>5. \A j \in Invoices \ DOMAIN issued' : charged'[j] = 0
    BY <1>2 DEF GatewayInv, MoneyKnown
  <2>6. QED
    BY <2>1, <2>2, <2>3, <2>4, <2>5 DEF MoneyKnown
<1>9. OneAtATime'
  <2>1. \A r : RowsOf(r)' = RowsOf(r)
    BY <1>1 DEF RowsOf
  <2>2. QED
    BY <1>5, <2>1 DEF GatewayInv, OneAtATime, Unplaced
<1>10. PlainOrders'
  <2>1. ASSUME NEW l \in DOMAIN orders', orders'[l].ref \in Plain
        PROVE  /\ charged'[orders'[l].inv] = 1
               /\ orders'[l].status \in {"processing", "success", "failed"}
               /\ orders'[l].status = "failed" => returned'[orders'[l].inv] = 1
               /\ \A e \in Requests : request'[e].at = "fulfil" /\ request'[e].inv = orders'[l].inv
                     => orders'[l].status = "processing"
    <3>1. l \in DOMAIN orders /\ orders[l].ref \in Plain /\ orders'[l].inv = orders[l].inv
      BY <1>1, <2>1
    <3>2. CASE l = k
      BY <1>1, <1>2, <3>1, <3>2 DEF GatewayInv, PlainOrders
    <3>3. CASE l # k
      <4>1. orders'[l] = orders[l] /\ returned'[orders[l].inv] = returned[orders[l].inv]
        BY <1>1, <1>2, <1>3, <3>1, <3>3
      <4>2. \A e \in Requests : request'[e].at = "fulfil" => request'[e] = request[e]
        BY <1>5
      <4>3. QED
        BY <1>2, <3>1, <4>1, <4>2 DEF GatewayInv, PlainOrders
    <3>4. QED
      BY <3>2, <3>3
  <2>2. QED
    BY <2>1 DEF PlainOrders
<1>11. Accounted'
  <2>1. ASSUME NEW j \in DOMAIN issued', issued'[j] \in Plain
        PROVE  \/ charged'[j] = returned'[j]
               \/ \E l \in DOMAIN orders' : orders'[l].inv = j /\ orders'[l].status # "failed"
               \/ \E e \in Requests : Holds(e)' /\ request'[e].inv = j
    <3>1. CASE j = i /\ s = "failed"
      <4>1. charged[i] = 1
        BY <1>3, <2>1, <3>1 DEF GatewayInv, PlainOrders
      <4>2. QED
        BY <1>2, <3>1, <4>1
    <3>2. CASE j = i /\ s # "failed"
      BY <1>1, <3>2
    <3>3. CASE j # i
      <4>1. j \in Invoices /\ returned'[j] = returned[j]
        BY <1>2, <2>1, <3>3, IssuedInRange DEF GatewayInv
      <4>2. CASE charged[j] = returned[j]
        BY <1>2, <4>1, <4>2
      <4>3. CASE \E l \in DOMAIN orders : orders[l].inv = j /\ orders[l].status # "failed"
        BY <1>1, <3>3, <4>3
      <4>4. CASE \E e \in Requests : Holds(e) /\ request[e].inv = j
        <5>1. \A e \in Requests : Holds(e) => request'[e] = request[e]
          BY DEF Holds
        <5>2. QED
          BY <4>4, <5>1 DEF Holds
      <4>5. QED
        BY <2>1, <4>2, <4>3, <4>4 DEF GatewayInv, Accounted
    <3>4. QED
      BY <3>1, <3>2, <3>3
  <2>2. QED
    BY <2>1 DEF Accounted
<1>12. GagalIsTrue'
  BY EndIsTrue
<1>13. QED
  BY <1>4, <1>6, <1>7, <1>8, <1>9, <1>10, <1>11, <1>12 DEF GatewayInv

LEMMA SettleKeeps ==
    ASSUME GatewayInv, NEW k \in DOMAIN orders, Settle(k) PROVE GatewayInv'
<1>1. /\ orders[k].status = "processing" /\ ~InRequest(k)
      /\ request' = request /\ heard' = heard /\ UNCHANGED <<uses, sent, issued, touches>>
  BY DEF Settle, bounds
<1>2. PICK s \in {"success", "failed"} : Ends(k, s)
  BY DEF Settle
<1>3. \A e \in Requests : request'[e].at = "fulfil" => request'[e].inv # orders[k].inv
  BY <1>1 DEF InRequest
<1>4. /\ request' \in [Requests -> [at : RequestSteps, ref : Refs, inv : 0 .. MaxInvoices,
                                    seen : Nat]]
      /\ heard' \in [Refs -> Words \cup {"nothing"}]
  BY <1>1 DEF GatewayInv, GatewayTypeOK
<1>5. /\ \A e \in Requests : request'[e] = request[e]
      /\ \A r \in Plain : heard'[r] \in Told => heard[r] \in Told
  BY <1>1
<1>6. QED
  BY <1>1, <1>2, <1>3, <1>4, <1>5, EndKeeps

LEMMA FulfilKeeps ==
    ASSUME GatewayInv, NEW c \in Requests, FulfillOrder(c) PROVE GatewayInv'
<1> DEFINE k == RowOf(request[c].inv)
<1>1. request[c].at = "fulfil" /\ UNCHANGED <<uses, sent, issued, touches>>
  BY DEF FulfillOrder, bounds
<1>2. k \in DOMAIN orders /\ orders[k].inv = request[c].inv
  BY <1>1 DEF GatewayInv, NumbersApart, RowOf
<1>3. orders[k].ref = request[c].ref
  BY <1>1, <1>2 DEF GatewayInv, NumbersIssued, Numbered
<1>4. orders[k].ref \in Plain => orders[k].status = "processing"
  BY <1>1, <1>2 DEF GatewayInv, PlainOrders
<1>5. (\E s \in {"success", "failed"} : Ends(k, s) /\ Answer(c, statusToDigiflazz(s)))
      \/ (Answer(c, "Pending") /\ UNCHANGED <<money, orders, posts>>)
  BY DEF FulfillOrder
<1> HIDE DEF k
<1>6. ASSUME NEW s \in {"success", "failed"}, Ends(k, s), Answer(c, statusToDigiflazz(s))
      PROVE  GatewayInv'
  <2>1. statusToDigiflazz(s) \in Words /\ (statusToDigiflazz(s) \in Told => s = "failed")
    BY WordOfStatus
  <2>2. /\ request'[c].at = "idle" /\ \A e \in Requests : e # c => request'[e] = request[e]
        /\ request' \in [Requests -> [at : RequestSteps, ref : Refs, inv : 0 .. MaxInvoices,
                                      seen : Nat]]
        /\ heard' \in [Refs -> Words \cup {"nothing"}]
        /\ heard' \in {heard, [heard EXCEPT ![request[c].ref] = statusToDigiflazz(s)]}
    BY <1>6, <2>1, AnswerEffect DEF GatewayInv
  <2>3. ASSUME NEW r \in Plain, heard'[r] \in Told
        PROVE  heard[r] \in Told \/ (r = orders[k].ref /\ s = "failed")
    <3>1. heard \in [Refs -> Words \cup {"nothing"}] /\ r \in Refs
      BY DEF GatewayInv, GatewayTypeOK, Plain
    <3>2. QED
      BY <1>3, <2>1, <2>2, <2>3, <3>1
  <2>4. ASSUME NEW e \in Requests, request'[e].at = "fulfil"
        PROVE  request'[e].inv # orders[k].inv
    <3>1. e # c /\ request'[e] = request[e]
      BY <2>2, <2>4
    <3>2. request[e].inv # request[c].inv
      BY <1>1, <2>4, <3>1 DEF GatewayInv, NumbersApart, Numbered
    <3>3. QED
      BY <1>2, <3>1, <3>2
  <2>5. \A e \in Requests : \/ request'[e] = request[e]
                            \/ request[e].at = "fulfil" /\ request'[e].at = "idle"
    BY <1>1, <2>2
  <2>6. QED
    BY <1>1, <1>2, <1>4, <1>6, <2>2, <2>3, <2>4, <2>5, EndKeeps
<1>7. CASE Answer(c, "Pending") /\ UNCHANGED <<money, orders, posts>>
  <2>1. "Pending" \in Words \ Told /\ ~Holds(c) /\ request[c].at # "idle"
    BY <1>1 DEF Words, Told, Holds
  <2>2. QED
    BY <1>1, <1>7, <2>1, AnswerKeeps
<1>8. QED
  BY <1>5, <1>6, <1>7

-------------------------------------------------------------------------------
(* Admins.                                                                 *)

LEMMA TouchEffect ==
    ASSUME GatewayInv, NEW k \in DOMAIN orders, Touch(k)
    PROVE  /\ orders[k].ref \in Touched /\ UNCHANGED <<request, posts, heard, uses, sent, issued>>
           /\ touches' \in 0 .. MaxTouches
           /\ \E s \in OrderStatuses : orders' = [orders EXCEPT ![k].status = s]
           /\ saldo' \in Nat
           /\ charged' \in [Invoices -> Nat] /\ returned' \in [Invoices -> {0, 1}]
           /\ \A j \in Invoices : j # orders[k].inv =>
                 charged'[j] = charged[j] /\ returned'[j] = returned[j]
           /\ charged'[orders[k].inv] > 0
<1> DEFINE i == orders[k].inv
<1>1. /\ orders[k].ref \in Touched /\ UNCHANGED <<request, posts, heard, uses, sent, issued>>
      /\ touches < MaxTouches /\ touches' = touches + 1
  BY DEF Touch
<1>2. touches' \in 0 .. MaxTouches
  BY <1>1, GatewayAssumption DEF GatewayInv, GatewayTypeOK
<1>3. \E s \in OrderStatuses : orders' = [orders EXCEPT ![k].status = s]
  BY DEF Touch, SetStatus, OrderStatuses
<1>4. ChargeAgain(k) \/ Credit(i)
  BY DEF Touch
<1>5. /\ i \in Invoices /\ charged[i] > 0 /\ saldo \in Nat
      /\ charged \in [Invoices -> Nat] /\ returned \in [Invoices -> {0, 1}]
  BY OthersInvoices DEF GatewayInv, GatewayTypeOK, MoneyKnown
<1>6. Debit(i) \/ Credit(i) \/ UNCHANGED <<saldo, charged, returned>>
  BY <1>4 DEF ChargeAgain, money
<1>7. /\ saldo' \in Nat
      /\ charged' \in [Invoices -> Nat] /\ returned' \in [Invoices -> {0, 1}]
      /\ \A j \in Invoices : j # i => charged'[j] = charged[j] /\ returned'[j] = returned[j]
      /\ charged'[i] > 0
  <2>1. CASE Debit(i)
    <3>1. /\ saldo' \in Nat /\ charged' = [charged EXCEPT ![i] = @ + 1]
          /\ charged' \in [Invoices -> Nat] /\ returned' = returned
      BY <1>5, <2>1, DebitEffect DEF GatewayInv
    <3>2. QED
      BY <1>5, <3>1
  <2>2. CASE Credit(i)
    <3>1. /\ saldo' \in Nat /\ charged' = charged
          /\ returned' = [returned EXCEPT ![i] = 1] /\ returned' \in [Invoices -> {0, 1}]
      BY <1>5, <2>2, CreditEffect DEF GatewayInv
    <3>2. QED
      BY <1>5, <3>1
  <2>3. CASE UNCHANGED <<saldo, charged, returned>>
    BY <1>5, <2>3
  <2>4. QED
    BY <1>6, <2>1, <2>2, <2>3
<1>8. QED
  BY <1>1, <1>2, <1>3, <1>7

LEMMA TouchKeeps ==
    ASSUME GatewayInv, NEW k \in DOMAIN orders, Touch(k) PROVE GatewayInv'
<1> DEFINE i == orders[k].inv
<1>1. /\ request' = request /\ posts' = posts /\ heard' = heard /\ issued' = issued
      /\ uses' = uses /\ sent' = sent
      /\ orders[k].ref \notin Plain /\ touches' \in 0 .. MaxTouches
      /\ saldo' \in Nat
      /\ charged' \in [Invoices -> Nat] /\ returned' \in [Invoices -> {0, 1}]
      /\ \A j \in Invoices : j # i => charged'[j] = charged[j] /\ returned'[j] = returned[j]
      /\ charged'[i] > 0
  BY TouchEffect DEF Plain
<1>2. /\ DOMAIN orders' = DOMAIN orders
      /\ \A l \in DOMAIN orders : orders'[l].inv = orders[l].inv /\ orders'[l].ref = orders[l].ref
      /\ \A l \in DOMAIN orders : l # k => orders'[l] = orders[l]
      /\ orders' \in Seq([inv : Invoices, ref : Refs, status : OrderStatuses])
  BY TouchEffect, StatusEffect DEF GatewayInv
<1>3. /\ i \in Invoices /\ i \in DOMAIN issued /\ issued[i] = orders[k].ref
      /\ \A l \in DOMAIN orders : orders[l].inv \in Invoices
      /\ \A l \in DOMAIN orders : l # k => orders[l].inv # i
      /\ \A e \in Requests : Unplaced(e) => request[e].inv # i /\ request[e].inv \in Invoices
  BY OthersInvoices
<1> HIDE DEF i
<1>4. GatewayTypeOK'
  BY <1>1, <1>2 DEF GatewayInv, GatewayTypeOK
<1>5. NumbersIssued'
  BY <1>1, <1>2 DEF GatewayInv, NumbersIssued, Numbered
<1>6. NumbersApart'
  BY <1>1, <1>2 DEF GatewayInv, NumbersApart, Numbered, Unplaced
<1>7. MoneyKnown'
  <2>1. \A j \in Invoices : returned'[j] <= charged'[j]
    <3>1. returned'[i] \in {0, 1} /\ charged'[i] \in Nat
      BY <1>1, <1>3
    <3>2. returned'[i] <= charged'[i]
      BY <1>1, <3>1
    <3>3. QED
      BY <1>1, <3>2 DEF GatewayInv, MoneyKnown
  <2>2. \A j \in Invoices \ DOMAIN issued' : charged'[j] = 0
    BY <1>1, <1>3 DEF GatewayInv, MoneyKnown
  <2>3. \A e \in Requests : request'[e].at = "debit" => charged'[request'[e].inv] = 0
    BY <1>1, <1>3 DEF GatewayInv, MoneyKnown, Unplaced
  <2>4. \A e \in Requests : Holds(e)' =>
            charged'[request'[e].inv] = 1 /\ returned'[request'[e].inv] = 0
    BY <1>1, <1>3 DEF GatewayInv, MoneyKnown, Unplaced, Holds
  <2>5. ASSUME NEW l \in DOMAIN orders PROVE charged'[orders[l].inv] > 0
    <3>1. charged[orders[l].inv] > 0 /\ orders[l].inv \in Invoices
      BY <1>3 DEF GatewayInv, MoneyKnown
    <3>2. QED
      BY <1>1, <3>1
  <2>6. QED
    BY <1>2, <2>1, <2>2, <2>3, <2>4, <2>5 DEF MoneyKnown
<1>8. \A r : RowsOf(r)' = RowsOf(r)
  BY <1>2 DEF RowsOf
<1>9. OneAtATime'
  BY <1>1, <1>8 DEF GatewayInv, OneAtATime, Unplaced
<1>10. PlainOrders'
  <2>1. ASSUME NEW l \in DOMAIN orders, orders[l].ref \in Plain
        PROVE  /\ orders'[l] = orders[l] /\ charged'[orders[l].inv] = charged[orders[l].inv]
               /\ returned'[orders[l].inv] = returned[orders[l].inv]
    BY <1>1, <1>2, <1>3, <2>1
  <2>2. ASSUME NEW l \in DOMAIN orders, orders'[l].ref \in Plain
        PROVE  /\ charged'[orders'[l].inv] = 1
               /\ orders'[l].status \in {"processing", "success", "failed"}
               /\ orders'[l].status = "failed" => returned'[orders'[l].inv] = 1
               /\ \A c \in Requests :
                      request'[c].at = "fulfil" /\ request'[c].inv = orders'[l].inv
                          => orders'[l].status = "processing"
    <3>1. orders[l].ref \in Plain
      BY <1>2, <2>2
    <3>2. /\ charged[orders[l].inv] = 1
          /\ orders[l].status \in {"processing", "success", "failed"}
          /\ orders[l].status = "failed" => returned[orders[l].inv] = 1
          /\ \A c \in Requests : request[c].at = "fulfil" /\ request[c].inv = orders[l].inv
                 => orders[l].status = "processing"
      BY <3>1 DEF GatewayInv, PlainOrders
    <3>3. QED
      BY <1>1, <2>1, <3>1, <3>2
  <2>3. DOMAIN orders' = DOMAIN orders
    BY <1>2
  <2>4. QED
    BY <2>2, <2>3 DEF PlainOrders
<1>11. Accounted'
  <2>1. ASSUME NEW j \in DOMAIN issued', issued'[j] \in Plain
        PROVE  \/ charged'[j] = returned'[j]
               \/ \E l \in DOMAIN orders' : orders'[l].inv = j /\ orders'[l].status # "failed"
               \/ \E e \in Requests : Holds(e)' /\ request'[e].inv = j
    <3>1. j # i /\ j \in Invoices /\ j \in DOMAIN issued /\ issued[j] \in Plain
      BY <1>1, <1>3, <2>1, IssuedInRange DEF GatewayInv
    <3>2. \A l \in DOMAIN orders : orders[l].inv = j => orders'[l] = orders[l]
      BY <1>2, <3>1 DEF i
    <3>3. QED
      <4>1. charged'[j] = charged[j] /\ returned'[j] = returned[j]
        BY <1>1, <3>1
      <4>2. \A e \in Requests : Holds(e) => Holds(e)' /\ request'[e].inv = request[e].inv
        BY <1>1 DEF Holds
      <4>3. \/ charged[j] = returned[j]
            \/ \E l \in DOMAIN orders : orders[l].inv = j /\ orders[l].status # "failed"
            \/ \E e \in Requests : Holds(e) /\ request[e].inv = j
        BY <3>1 DEF GatewayInv, Accounted
      <4>4. DOMAIN orders' = DOMAIN orders
        BY <1>2
      <4>5. QED
        BY <3>2, <4>1, <4>2, <4>3, <4>4
  <2>2. QED
    BY <2>1 DEF Accounted
<1>12. GagalIsTrue'
  <2>1. ASSUME NEW r \in Plain, FailedRow(r) PROVE FailedRow(r)'
    <3>1. PICK l \in RowsOf(r) : orders[l].status = "failed"
      BY <2>1 DEF FailedRow
    <3>2. l \in DOMAIN orders /\ l # k
      BY <1>1, <3>1 DEF RowsOf
    <3>3. QED
      BY <1>2, <1>8, <3>1, <3>2 DEF FailedRow
  <2>2. \A r : Busy(r)' <=> Busy(r)
    BY <1>1 DEF Busy
  <2>3. QED
    BY <1>1, <1>8, <2>1, <2>2 DEF GatewayInv, GagalIsTrue
<1>13. QED
  BY <1>4, <1>5, <1>6, <1>7, <1>9, <1>10, <1>11, <1>12 DEF GatewayInv

-------------------------------------------------------------------------------
(* What reaches the partner later.                                         *)

\* Steps that move only what is to be posted and what was heard.
LEMMA OnlyTold ==
    ASSUME GatewayInv, UNCHANGED <<money, orders, request, bounds>>,
           posts' \subseteq [inv : Invoices, no : 0 .. MaxTouches, ref : Refs, word : Words,
                             left : 1 .. Attempts],
           heard' \in [Refs -> Words \cup {"nothing"}],
           \A r \in Plain : heard'[r] \in Told => FailedRow(r) \/ (RowsOf(r) = {} /\ ~Busy(r)),
           \A p \in posts' : p.ref \in Plain /\ p.word \in Told => FailedRow(p.ref)
    PROVE  GatewayInv'
<1>1. UNCHANGED <<saldo, charged, returned, orders, request, uses, sent, issued, touches>>
  BY DEF money, bounds
<1>2. GatewayTypeOK'
  BY <1>1 DEF GatewayInv, GatewayTypeOK
<1>3. NumbersIssued' /\ NumbersApart'
  BY <1>1 DEF GatewayInv, NumbersIssued, NumbersApart, Numbered, Unplaced
<1>4. MoneyKnown'
  BY <1>1 DEF GatewayInv, MoneyKnown, Holds
<1>5. OneAtATime' /\ PlainOrders' /\ Accounted'
  BY <1>1 DEF GatewayInv, OneAtATime, PlainOrders, Accounted, RowsOf, Unplaced, Holds
<1>6. GagalIsTrue'
  BY <1>1 DEF GagalIsTrue, FailedRow, RowsOf, Busy
<1>7. QED
  BY <1>2, <1>3, <1>4, <1>5, <1>6 DEF GatewayInv

LEMMA DeliverKeeps ==
    ASSUME GatewayInv, NEW p \in posts, Deliver(p) PROVE GatewayInv'
<1> DEFINE T == [inv : Invoices, no : 0 .. MaxTouches, ref : Refs, word : Words,
                 left : 1 .. Attempts]
<1>1. p \in T /\ posts \subseteq T /\ Attempts \in Nat
  BY GatewayAssumption DEF GatewayInv, GatewayTypeOK
<1>2. UNCHANGED <<money, orders, request, bounds>>
  BY DEF Deliver
<1>3. heard' = heard \/ heard' = [heard EXCEPT ![p.ref] = p.word]
  BY DEF Deliver, Hears
<1>4. heard \in [Refs -> Words \cup {"nothing"}]
  BY DEF GatewayInv, GatewayTypeOK
<1>5. posts' \subseteq posts \/ (p.left # 1 /\ posts' \subseteq posts \cup {[p EXCEPT !.left = @ - 1]})
  BY DEF Deliver
<1>6. p.left # 1 => [p EXCEPT !.left = @ - 1] \in T
  BY <1>1
<1>7. posts' \subseteq T
  BY <1>1, <1>5, <1>6
<1>8. \A q \in posts' : \E o \in posts : q.ref = o.ref /\ q.word = o.word
  <2>1. [p EXCEPT !.left = @ - 1].ref = p.ref /\ [p EXCEPT !.left = @ - 1].word = p.word
    BY <1>1
  <2>2. QED
    BY <1>5, <2>1
<1> HIDE DEF T
<1>9. \A q \in posts' : q.ref \in Plain /\ q.word \in Told => FailedRow(q.ref)
  BY <1>8 DEF GatewayInv, GagalIsTrue
<1>10. heard' \in [Refs -> Words \cup {"nothing"}]
  BY <1>1, <1>3, <1>4 DEF T
<1>11. ASSUME NEW r \in Plain, heard'[r] \in Told
       PROVE  FailedRow(r) \/ (RowsOf(r) = {} /\ ~Busy(r))
  <2>1. heard[r] \in Told \/ (r = p.ref /\ p.word \in Told)
    BY <1>3, <1>4, <1>11 DEF Plain
  <2>2. QED
    BY <2>1 DEF GatewayInv, GagalIsTrue
<1>12. QED
  BY <1>2, <1>7, <1>9, <1>10, <1>11, OnlyTold DEF T

LEMMA CheckKeeps ==
    ASSUME GatewayInv, NEW r \in Refs, CheckStatus(r) \/ CheckFails(r) PROVE GatewayInv'
<1> DEFINE told == statusToDigiflazz(FirstRow(r).status)
<1>1. PICK w \in {"Rejected"} \cup (IF RowsOf(r) = {} THEN {} ELSE {told}) :
         heard' = [heard EXCEPT ![r] = w]
  BY DEF CheckStatus, CheckFails, Hears
<1>2. UNCHANGED <<money, orders, request, bounds>> /\ posts' = posts
  BY DEF CheckStatus, CheckFails
<1>3. w \in Words /\ (r \in Plain /\ w \in Told => FailedRow(r))
  BY <1>1, WordOfStatus, RowIsTold DEF Words, Told
<1> HIDE DEF told
<1>4. heard' \in [Refs -> Words \cup {"nothing"}]
  BY <1>1, <1>3 DEF GatewayInv, GatewayTypeOK
<1>5. ASSUME NEW q \in Plain, heard'[q] \in Told
      PROVE  FailedRow(q) \/ (RowsOf(q) = {} /\ ~Busy(q))
  <2>1. heard[q] \in Told \/ (q = r /\ w \in Told)
    BY <1>1, <1>5 DEF GatewayInv, GatewayTypeOK, Plain
  <2>2. QED
    BY <1>3, <2>1 DEF GatewayInv, GagalIsTrue
<1>6. /\ posts' \subseteq [inv : Invoices, no : 0 .. MaxTouches, ref : Refs, word : Words,
                           left : 1 .. Attempts]
      /\ \A p \in posts' : p.ref \in Plain /\ p.word \in Told => FailedRow(p.ref)
  BY <1>2 DEF GatewayInv, GatewayTypeOK, GagalIsTrue
<1>7. QED
  BY <1>2, <1>4, <1>5, <1>6, OnlyTold

LEMMA RestartKeeps == ASSUME GatewayInv, Restart PROVE GatewayInv'
<1>1. posts' = {} /\ heard' = heard /\ UNCHANGED <<money, orders, request, bounds>>
  BY DEF Restart
<1>2. heard' \in [Refs -> Words \cup {"nothing"}]
  BY <1>1 DEF GatewayInv, GatewayTypeOK
<1>3. \A r \in Plain : heard'[r] \in Told => FailedRow(r) \/ (RowsOf(r) = {} /\ ~Busy(r))
  BY <1>1 DEF GatewayInv, GagalIsTrue
<1>4. QED
  BY <1>1, <1>2, <1>3, OnlyTold

-------------------------------------------------------------------------------
(* The theorems.                                                           *)

LEMMA GatewayStep == GatewayInv /\ [GatewayNext]_gatewayVars => GatewayInv'
<1> SUFFICES ASSUME GatewayInv, [GatewayNext]_gatewayVars PROVE GatewayInv'
  OBVIOUS
<1>1. ASSUME NEW c \in Requests, NEW r \in Refs, Send(c, r) PROVE GatewayInv'
  BY <1>1, SendKeeps
<1>2. ASSUME NEW c \in Requests, Step(c) PROVE GatewayInv'
  <2>1. CASE Lookup(c)
    BY <2>1, LookupKeeps
  <2>2. CASE DebitPartner(c)
    BY <2>2, DebitPartnerKeeps
  <2>3. CASE CreateTransaction(c)
    BY <2>3, CreateKeeps
  <2>4. CASE GiveBack(c)
    BY <2>4, GiveBackKeeps
  <2>5. CASE FulfillOrder(c)
    BY <2>5, FulfilKeeps
  <2>6. QED
    BY <1>2, <2>1, <2>2, <2>3, <2>4, <2>5 DEF Step
<1>3. ASSUME NEW k \in DOMAIN orders, Settle(k) PROVE GatewayInv'
  BY <1>3, SettleKeeps
<1>4. ASSUME NEW k \in DOMAIN orders, Touch(k) PROVE GatewayInv'
  BY <1>4, TouchKeeps
<1>5. ASSUME NEW p \in posts, Deliver(p) PROVE GatewayInv'
  BY <1>5, DeliverKeeps
<1>6. ASSUME NEW r \in Refs, CheckStatus(r) \/ CheckFails(r) PROVE GatewayInv'
  BY <1>6, CheckKeeps
<1>7. CASE Restart
  BY <1>7, RestartKeeps
<1>8. CASE UNCHANGED gatewayVars
  <2>1. /\ UNCHANGED <<money, orders, request, bounds>> /\ posts' = posts /\ heard' = heard
    BY <1>8 DEF gatewayVars, money, bounds
  <2>2. heard' \in [Refs -> Words \cup {"nothing"}]
        /\ posts' \subseteq [inv : Invoices, no : 0 .. MaxTouches, ref : Refs, word : Words,
                             left : 1 .. Attempts]
    BY <2>1 DEF GatewayInv, GatewayTypeOK
  <2>3. /\ \A r \in Plain : heard'[r] \in Told => FailedRow(r) \/ (RowsOf(r) = {} /\ ~Busy(r))
        /\ \A p \in posts' : p.ref \in Plain /\ p.word \in Told => FailedRow(p.ref)
    BY <2>1 DEF GatewayInv, GagalIsTrue
  <2>4. QED
    BY <2>1, <2>2, <2>3, OnlyTold
<1>9. QED
  BY <1>1, <1>2, <1>3, <1>4, <1>5, <1>6, <1>7, <1>8 DEF GatewayNext

LEMMA GatewayInvAlways == GatewaySpec => []GatewayInv
BY GatewayInvInit, GatewayStep, PTL DEF GatewaySpec

\* Every reachable state of the gateway is well typed: an invoice is given
\* back at most once (the second REFUND of UpdateBalance moves nothing).
THEOREM GatewayTypeCorrect == GatewaySpec => []GatewayTypeOK
<1>1. GatewayInv => GatewayTypeOK
  BY DEF GatewayInv
<1>2. QED
  BY <1>1, GatewayInvAlways, PTL

\* Two invoices of a plain ref never hold money at the same time.
LEMMA OneInvoiceHolds ==
    ASSUME GatewayInv, NEW r \in Plain, NEW i \in InvoicesOf(r), NEW j \in InvoicesOf(r),
           charged[i] > returned[i], charged[j] > returned[j]
    PROVE  i = j
<1>1. /\ i \in DOMAIN issued /\ issued[i] = r /\ i \in Invoices
      /\ j \in DOMAIN issued /\ issued[j] = r /\ j \in Invoices
  BY IssuedInRange DEF InvoicesOf, GatewayInv
<1>2. charged[i] # returned[i] /\ charged[j] # returned[j]
  <2>1. /\ charged[i] \in Nat /\ returned[i] \in {0, 1}
        /\ charged[j] \in Nat /\ returned[j] \in {0, 1}
    BY <1>1 DEF GatewayInv, GatewayTypeOK
  <2>2. QED
    BY <2>1
<1>3. \A n \in {i, j} : \/ \E k \in RowsOf(r) : orders[k].inv = n
                        \/ \E c \in Requests : /\ Unplaced(c) /\ Numbered(c)
                                               /\ request[c].inv = n /\ request[c].ref = r
  <2>1. ASSUME NEW n \in {i, j}
        PROVE  \/ \E k \in RowsOf(r) : orders[k].inv = n
               \/ \E c \in Requests : /\ Unplaced(c) /\ Numbered(c)
                                      /\ request[c].inv = n /\ request[c].ref = r
    <3>1. \/ \E k \in DOMAIN orders : orders[k].inv = n
          \/ \E c \in Requests : Holds(c) /\ request[c].inv = n
      BY <1>1, <1>2 DEF GatewayInv, Accounted
    <3>2. \A c \in Requests : Holds(c) => Unplaced(c) /\ Numbered(c)
      BY DEF Holds, Unplaced, Numbered
    <3>3. QED
      BY <1>1, <3>1, <3>2 DEF GatewayInv, NumbersIssued, RowsOf
  <2>2. QED
    BY <2>1
<1>4. /\ \A k, l \in RowsOf(r) : k = l
      /\ \A c, e \in Requests :
            Numbered(c) /\ request[c].ref = r /\ Numbered(e) /\ request[e].ref = r => c = e
      /\ \A c \in Requests : Unplaced(c) /\ request[c].ref = r => RowsOf(r) = {}
  BY DEF GatewayInv, OneAtATime, Numbered
<1>5. QED
  BY <1>3, <1>4

\* A ref_id that is sent again after its answer, however often, is charged
\* once: the lookup of ProcessTransaction finds the row of the first request.
THEOREM ChargedOnce == GatewaySpec => []ChargedOncePerRef
<1>1. ASSUME GatewayInv PROVE ChargedOncePerRef
  <2>1. ASSUME NEW r \in Refs \ (Impatient \cup Outages \cup Touched)
        PROVE  Cardinality({i \in InvoicesOf(r) : charged[i] > returned[i]}) <= 1
    <3> DEFINE S == {i \in InvoicesOf(r) : charged[i] > returned[i]}
    <3>1. \A i, j \in S : i = j
      BY <1>1, OneInvoiceHolds DEF Plain
    <3>2. CASE S = {}
      BY <3>2, FS_EmptySet
    <3>3. CASE S # {}
      <4>1. PICK i \in S : TRUE
        BY <3>3
      <4>2. S = {i}
        BY <3>1, <4>1
      <4>3. Cardinality(S) = 1
        BY <4>2, FS_Singleton
      <4>4. QED
        BY <4>3
    <3>4. QED
      BY <3>2, <3>3
  <2>2. QED
    BY <2>1 DEF ChargedOncePerRef
<1>2. QED
  BY <1>1, GatewayInvAlways, PTL

\* Whoever was told that an order failed or cannot be paid (rc 02, 07, 17), by an
\* answer, a status check or a callback, has no money left in any invoice of that
\* ref, and neither has one whose ref led to no order.  The rc 40 promises nothing.
THEOREM GagalFree == GatewaySpec => []GagalIsFree
<1>1. ASSUME GatewayInv PROVE GagalIsFree
  <2>1. ASSUME NEW r \in Plain, heard[r] \in Told \/ (RowsOf(r) = {} /\ ~Busy(r)),
               NEW i \in InvoicesOf(r)
        PROVE  charged[i] = returned[i]
    <3>0. FailedRow(r) \/ (RowsOf(r) = {} /\ ~Busy(r))
      BY <1>1, <2>1 DEF GatewayInv, GagalIsTrue
    <3>1. i \in DOMAIN issued /\ issued[i] = r
      BY DEF InvoicesOf
    <3>2. ~\E k \in DOMAIN orders : orders[k].inv = i /\ orders[k].status # "failed"
      <4>1. ASSUME NEW k \in DOMAIN orders, orders[k].inv = i, orders[k].status # "failed"
            PROVE  FALSE
        <5>1. k \in RowsOf(r)
          BY <1>1, <3>1, <4>1 DEF GatewayInv, NumbersIssued, RowsOf
        <5>2. FailedRow(r)
          BY <3>0, <5>1
        <5>3. QED
          BY <1>1, <4>1, <5>1, <5>2 DEF GatewayInv, OneAtATime, FailedRow
      <4>2. QED
        BY <4>1
    <3>3. ~\E c \in Requests : Holds(c) /\ request[c].inv = i
      <4>1. ASSUME NEW c \in Requests, Holds(c), request[c].inv = i PROVE FALSE
        <5>1. Unplaced(c) /\ Numbered(c) /\ request[c].at # "idle"
          BY <4>1 DEF Holds, Unplaced, Numbered
        <5>2. request[c].ref = r
          BY <1>1, <3>1, <4>1, <5>1 DEF GatewayInv, NumbersIssued
        <5>3. RowsOf(r) = {} /\ Busy(r)
          BY <1>1, <5>1, <5>2 DEF GatewayInv, OneAtATime, Busy
        <5>4. QED
          BY <3>0, <5>3 DEF FailedRow
      <4>2. QED
        BY <4>1
    <3>4. QED
      BY <1>1, <3>1, <3>2, <3>3 DEF GatewayInv, Accounted
  <2>2. QED
    BY <2>1 DEF GagalIsFree, Plain
<1>2. QED
  BY <1>1, GatewayInvAlways, PTL

-------------------------------------------------------------------------------
(* The gateway implements the ledger of the orders.                        *)

LEMMA DebitIsCharge ==
    ASSUME GatewayTypeOK, NEW i \in Invoices, Debit(i) PROVE GatewayLedger!Next
<1>1. /\ saldo >= Tariff /\ saldo' = saldo - Tariff
      /\ charged' = [charged EXCEPT ![i] = @ + 1] /\ returned' = returned
  BY DEF Debit
<1>2. [u \in {"partner"} |-> saldo'] =
          [[u \in {"partner"} |-> saldo] EXCEPT !["partner"] = @ - Tariff]
  BY <1>1
<1>3. GatewayLedger!Charge(i)
  BY <1>1, <1>2 DEF GatewayLedger!Charge
<1>4. QED
  BY <1>3 DEF GatewayLedger!Next

LEMMA CreditIsGiveBack ==
    ASSUME GatewayTypeOK, NEW i \in Invoices, charged[i] > 0, Credit(i)
    PROVE  GatewayLedger!Next \/ UNCHANGED money
<1>1. CASE returned[i] > 0
  BY <1>1 DEF Credit
<1>2. CASE ~(returned[i] > 0)
  <2>1. returned[i] = 0
    BY <1>2 DEF GatewayTypeOK
  <2>2. /\ saldo' = saldo + Tariff
        /\ returned' = [returned EXCEPT ![i] = 1] /\ charged' = charged
    BY <1>2 DEF Credit
  <2>3. [u \in {"partner"} |-> saldo'] =
            [[u \in {"partner"} |-> saldo] EXCEPT !["partner"] = @ + Tariff]
    BY <2>2
  <2>4. GatewayLedger!GiveBack(i)
    BY <2>1, <2>2, <2>3 DEF GatewayLedger!GiveBack
  <2>5. QED
    BY <2>4 DEF GatewayLedger!Next
<1>3. QED
  BY <1>1, <1>2

\* The statements that move money, each for an invoice that was charged.
LEMMA MoneyMoves ==
    ASSUME GatewayInv, [GatewayNext]_gatewayVars
    PROVE  \/ UNCHANGED money
           \/ \E i \in Invoices : Debit(i) \/ (charged[i] > 0 /\ Credit(i))
<1>1. ASSUME NEW c \in Requests, NEW r \in Refs, Send(c, r) PROVE UNCHANGED money
  BY <1>1 DEF Send
<1>2. ASSUME NEW k \in DOMAIN orders, NEW s, Ends(k, s)
      PROVE  Credit(orders[k].inv) \/ UNCHANGED money
  BY <1>2 DEF Ends, ApplyResult, ApplyFinalError
<1>3. \A k \in DOMAIN orders : orders[k].inv \in Invoices /\ charged[orders[k].inv] > 0
  BY OthersInvoices DEF GatewayInv, MoneyKnown
<1>4. ASSUME NEW c \in Requests, Step(c)
      PROVE  UNCHANGED money \/ \E i \in Invoices : Debit(i) \/ (charged[i] > 0 /\ Credit(i))
  <2>1. Numbered(c) => request[c].inv \in Invoices
    BY IssuedInRange DEF GatewayInv, NumbersIssued
  <2>2. CASE Lookup(c) \/ CreateTransaction(c)
    BY <2>2 DEF Lookup, CreateTransaction
  <2>3. CASE DebitPartner(c)
    BY <2>1, <2>3 DEF DebitPartner, Numbered
  <2>4. CASE GiveBack(c)
    <3>1. request[c].inv \in Invoices /\ charged[request[c].inv] = 1
      BY <2>1, <2>4 DEF GiveBack, Numbered, Holds, GatewayInv, MoneyKnown
    <3>2. 1 > 0
      OBVIOUS
    <3>3. charged[request[c].inv] > 0
      BY <3>1, <3>2
    <3>4. QED
      BY <2>4, <3>1, <3>3 DEF GiveBack
  <2>5. CASE FulfillOrder(c)
    <3>1. RowOf(request[c].inv) \in DOMAIN orders
      BY <2>5 DEF FulfillOrder, RowOf, GatewayInv, NumbersApart
    <3>2. QED
      BY <1>2, <1>3, <2>5, <3>1 DEF FulfillOrder
  <2>6. QED
    BY <1>4, <2>2, <2>3, <2>4, <2>5 DEF Step
<1>5. ASSUME NEW k \in DOMAIN orders, Settle(k) \/ Touch(k)
      PROVE  UNCHANGED money \/ \E i \in Invoices : Debit(i) \/ (charged[i] > 0 /\ Credit(i))
  <2>1. CASE Settle(k)
    BY <1>2, <1>3, <2>1 DEF Settle
  <2>2. CASE Touch(k)
    BY <1>3, <2>2 DEF Touch, ChargeAgain
  <2>3. QED
    BY <1>5, <2>1, <2>2
<1>6. ASSUME NEW p \in posts, Deliver(p) PROVE UNCHANGED money
  BY <1>6 DEF Deliver
<1>7. ASSUME NEW r \in Refs, CheckStatus(r) \/ CheckFails(r) PROVE UNCHANGED money
  BY <1>7 DEF CheckStatus, CheckFails
<1>8. Restart \/ UNCHANGED gatewayVars => UNCHANGED money
  BY DEF Restart, gatewayVars, money
<1>9. QED
  BY <1>1, <1>4, <1>5, <1>6, <1>7, <1>8 DEF GatewayNext

LEMMA LedgerStep ==
    ASSUME GatewayInv, [GatewayNext]_gatewayVars
    PROVE  [GatewayLedger!Next]_(GatewayLedger!vars)
<1>1. UNCHANGED money => UNCHANGED GatewayLedger!vars
  BY DEF money, GatewayLedger!vars
<1>2. GatewayTypeOK
  BY DEF GatewayInv
<1>3. QED
  BY <1>1, <1>2, MoneyMoves, DebitIsCharge, CreditIsGiveBack

\* Whatever requests, callbacks, failing statements, admins and restarts do,
\* the partner's balance moves as the ledger allows: an invoice is charged
\* when the balance covers it and given back once, after a charge.
THEOREM GatewayLedgerImplemented == GatewaySpec => GatewayImplementsLedger
<1>1. GatewayInit => GatewayLedger!Init
  BY DEF GatewayInit, GatewayLedger!Init
<1>2. GatewayInv /\ [GatewayNext]_gatewayVars => [GatewayLedger!Next]_(GatewayLedger!vars)
  BY LedgerStep
<1>3. QED
  BY <1>1, <1>2, GatewayInvAlways, PTL DEF GatewaySpec, GatewayImplementsLedger, GatewayLedger!Spec


-------------------------------------------------------------------------------
(* The catalogue: an SKU and a price of the provider a nominal is bought at. *)

StepsLeft(plan) == {plan[i] : i \in DOMAIN plan}

\* Which steps a kind of work can still have ahead of it.
StepsOf(kind) ==
    CASE kind = "auto"   -> {"read", "upsert", "update", "drop"}
      [] kind = "switch" -> {"read", "switch", "drop"}
      [] kind = "create" -> {"insert", "upsert", "drop"}
      [] OTHER           -> WorkSteps \ {"switch"}

TaskRecords == [kind : Work, plan : Seq(WorkSteps), side : Sides, nom : Nominals,
                rows : [Sides -> ProductRows], item : Offers]

\* A switch has seen the cost it will write.
TaskTyped(t) ==
    /\ t \in TaskRecords
    /\ StepsLeft(t.plan) \subseteq StepsOf(t.kind)
    /\ "switch" \in StepsLeft(t.plan) => t.rows[t.side].cost > 0

\* SKU and price of one provider, in the row ...
Own(n) == n.sku = n.prov /\ n.base.of = n.prov

\* ... and in the copies that will be written over it.  The price run writes only
\* over a copy that buys at Digiflazz; an edit upserts for the provider it kept.
TaskRoutes(t) ==
    /\ Own(t.nom)
    /\ \A s \in Sides : t.rows[s].sku = s
    /\ t.kind = "auto" /\ "update" \in StepsLeft(t.plan) => t.nom.prov = "digi"
    /\ t.kind = "create" => t.side = t.nom.prov
    /\ t.kind = "edit" =>
          t.side = t.nom.prov \/ (t.plan # <<>> /\ Head(t.plan) \in {"read", "reread"})

RowsTyped ==
    /\ nominal \in Nominals
    /\ products \in [Sides -> ProductRows]
RestTyped ==
    /\ market \in [Sides -> Offers]
    /\ page \in Pages
    /\ mixed \in BOOLEAN
    /\ shift \in Shifts
    /\ moves \in 0 .. MaxMoves /\ edits \in 0 .. MaxEdits /\ faults \in 0 .. MaxFaults
TasksTyped ==
    /\ DOMAIN task = Dealers
    /\ task = [k \in Dealers |-> task[k]]
    /\ \A k \in Dealers : TaskTyped(task[k])
RowsRoute == Own(nominal) /\ \A s \in Sides : products[s].sku = s
TasksRoute == \A k \in Dealers : TaskRoutes(task[k])

CatalogueInv ==
    /\ RowsTyped /\ RestTyped /\ TasksTyped
    /\ ~mixed => RowsRoute /\ TasksRoute

\* Plans.
LEMMA PlanTail ==
    ASSUME NEW q \in Seq(WorkSteps), q # <<>>
    PROVE  /\ Tail(q) \in Seq(WorkSteps) /\ Head(q) \in StepsLeft(q)
           /\ StepsLeft(Tail(q)) \subseteq StepsLeft(q)
<1>1. Tail(q) \in Seq(WorkSteps) /\ Len(Tail(q)) = Len(q) - 1 /\ Len(q) \in Nat /\ Len(q) > 0
  OBVIOUS
<1>2. Head(q) = q[1] /\ 1 \in DOMAIN q
  BY <1>1
<1>3. ASSUME NEW i \in DOMAIN Tail(q)
      PROVE  i + 1 \in DOMAIN q /\ Tail(q)[i] = q[i + 1]
  BY <1>1
<1>4. QED
  BY <1>1, <1>2, <1>3 DEF StepsLeft

LEMMA EmptyPlan == <<>> \in Seq(WorkSteps) /\ StepsLeft(<<>>) = {}
  BY DEF StepsLeft

LEMMA ShortPlans ==
    ASSUME NEW x \in WorkSteps
    PROVE  /\ <<x>> \in Seq(WorkSteps) /\ StepsLeft(<<x>>) = {x} /\ Head(<<x>>) = x /\ <<x>> # <<>>
           /\ \A y \in WorkSteps :
                 <<x, y>> \in Seq(WorkSteps) /\ StepsLeft(<<x, y>>) = {x, y}
                 /\ Head(<<x, y>>) = x /\ <<x, y>> # <<>>
<1>1. <<x>> \in Seq(WorkSteps) /\ Head(<<x>>) = x /\ <<x>> # <<>>
  OBVIOUS
<1>2. StepsLeft(<<x>>) = {x}
  <2>1. DOMAIN <<x>> = {1} /\ <<x>>[1] = x
    OBVIOUS
  <2>2. QED
    BY <2>1 DEF StepsLeft
<1>3. ASSUME NEW y \in WorkSteps
      PROVE  <<x, y>> \in Seq(WorkSteps) /\ StepsLeft(<<x, y>>) = {x, y}
             /\ Head(<<x, y>>) = x /\ <<x, y>> # <<>>
  <2>1. DOMAIN <<x, y>> = {1, 2} /\ <<x, y>>[1] = x /\ <<x, y>>[2] = y
    OBVIOUS
  <2>2. StepsLeft(<<x, y>>) = {x, y}
    BY <2>1 DEF StepsLeft
  <2>3. QED
    BY <2>2
<1>4. QED
  BY <1>1, <1>2, <1>3

\* The first nominal and an idle goroutine.
LEMMA FirstTyped ==
    /\ FirstNominal \in Nominals /\ Own(FirstNominal) /\ FirstNominal.prov = "digi"
    /\ \A s \in Sides : /\ NoRow(s) \in ProductRows /\ NoRow(s).sku = s
                        /\ Row(s) \in ProductRows /\ Row(s).sku = s
    /\ [price |-> 1, up |-> TRUE] \in Offers
<1>1. 1 \in 1 .. MaxPrice /\ 1 \in 0 .. MaxPrice /\ 0 \in 0 .. MaxPrice
  BY CatalogueAssumption
<1>2. FirstNominal \in Nominals /\ Own(FirstNominal) /\ FirstNominal.prov = "digi"
  BY <1>1 DEF FirstNominal, Nominals, Prices, Sides, Own
<1>3. \A s \in Sides : /\ NoRow(s) \in ProductRows /\ NoRow(s).sku = s
                       /\ Row(s) \in ProductRows /\ Row(s).sku = s
  BY <1>1 DEF NoRow, Row, ProductRows
<1>4. QED
  BY <1>1, <1>2, <1>3 DEF Offers

LEMMA IdleTaskGood == TaskTyped(IdleTask) /\ TaskRoutes(IdleTask) /\ IdleTask.plan = <<>>
<1>1. /\ IdleTask.kind = "page" /\ IdleTask.plan = <<>> /\ IdleTask.nom = FirstNominal
      /\ IdleTask.rows = [s \in Sides |-> NoRow(s)]
  BY DEF IdleTask
<1>2. IdleTask \in TaskRecords
  BY FirstTyped, EmptyPlan DEF IdleTask, TaskRecords, Work, Sides
<1>3. TaskTyped(IdleTask)
  BY <1>1, <1>2, EmptyPlan DEF TaskTyped
<1>4. TaskRoutes(IdleTask)
  BY <1>1, FirstTyped, EmptyPlan DEF TaskRoutes
<1>5. QED
  BY <1>1, <1>3, <1>4

\* One goroutine changes what it carries.
LEMMA OneTask ==
    ASSUME TasksTyped, NEW k \in Dealers, NEW t, task' = [task EXCEPT ![k] = t], TaskTyped(t)
    PROVE  TasksTyped' /\ (TasksRoute /\ TaskRoutes(t) => TasksRoute')
<1>1. \A l \in Dealers : task'[l] = IF l = k THEN t ELSE task[l]
  BY DEF TasksTyped
<1>2. DOMAIN task' = Dealers /\ task' = [l \in Dealers |-> task'[l]]
  BY DEF TasksTyped
<1>3. TasksTyped'
  BY <1>1, <1>2 DEF TasksTyped
<1>4. TasksRoute /\ TaskRoutes(t) => TasksRoute'
  BY <1>1 DEF TasksRoute
<1>5. QED
  BY <1>3, <1>4

LEMMA LeavesKeeps ==
    ASSUME TasksTyped, NEW k \in Dealers, Leaves(k)
    PROVE  TasksTyped' /\ (TasksRoute => TasksRoute')
  BY OneTask, IdleTaskGood DEF Leaves

\* A step done, the rest of the plan stays right.
LEMMA TailGood ==
    ASSUME NEW t, TaskTyped(t), t.plan # <<>>
    PROVE  /\ TaskTyped([t EXCEPT !.plan = Tail(t.plan)])
           /\ TaskRoutes(t) /\ (t.kind = "edit" => Head(t.plan) \notin {"read", "reread"})
                => TaskRoutes([t EXCEPT !.plan = Tail(t.plan)])
<1> DEFINE u == [t EXCEPT !.plan = Tail(t.plan)]
<1>1. t \in TaskRecords /\ t.plan \in Seq(WorkSteps)
  BY DEF TaskTyped, TaskRecords
<1>2. Tail(t.plan) \in Seq(WorkSteps) /\ StepsLeft(Tail(t.plan)) \subseteq StepsLeft(t.plan)
  BY <1>1, PlanTail
<1>3. /\ u \in TaskRecords /\ u.plan = Tail(t.plan)
      /\ u.kind = t.kind /\ u.side = t.side /\ u.nom = t.nom /\ u.rows = t.rows
  BY <1>1, <1>2 DEF TaskRecords
<1>4. TaskTyped(u)
  BY <1>2, <1>3 DEF TaskTyped
<1>5. TaskRoutes(t) /\ (t.kind = "edit" => Head(t.plan) \notin {"read", "reread"}) => TaskRoutes(u)
  BY <1>2, <1>3 DEF TaskRoutes
<1>6. QED
  BY <1>4, <1>5

LEMMA OnwardKeeps ==
    ASSUME TasksTyped, NEW k \in Dealers, Onward(k), task[k].plan # <<>>,
           Head(task[k].plan) \notin {"read", "reread"}
    PROVE  TasksTyped' /\ (TasksRoute => TasksRoute')
<1>1. task' = [task EXCEPT ![k] = [task[k] EXCEPT !.plan = Tail(task[k].plan)]]
  BY DEF Onward, Plans, TasksTyped
<1>2. TaskTyped(task[k]) /\ (TasksRoute => TaskRoutes(task[k]))
  BY DEF TasksTyped, TasksRoute
<1>3. QED
  BY <1>1, <1>2, TailGood, OneTask

LEMMA StepNames ==
    /\ "read" \in WorkSteps /\ "upsert" \in WorkSteps /\ "toggle" \in WorkSteps
    /\ "update" \in WorkSteps /\ "cost" \in WorkSteps /\ "reread" \in WorkSteps
    /\ "reprice" \in WorkSteps /\ "switch" \in WorkSteps /\ "drop" \in WorkSteps
    /\ "fill" \in WorkSteps /\ "insert" \in WorkSteps /\ "unlink" \in WorkSteps
    /\ "remove" \in WorkSteps /\ "saveAll" \in WorkSteps
  BY DEF WorkSteps

\* What a piece of work plans, before and after it has read.
LEMMA PlanOfTyped ==
    ASSUME NEW k \in Work
    PROVE  /\ PlanOf(k) \in Seq(WorkSteps) /\ StepsLeft(PlanOf(k)) \subseteq StepsOf(k)
           /\ "switch" \notin StepsLeft(PlanOf(k))
           /\ k = "auto" => "update" \notin StepsLeft(PlanOf(k))
           /\ k = "edit" => PlanOf(k) # <<>> /\ Head(PlanOf(k)) = "read"
<1>1. CASE k \in {"auto", "price", "save", "kios", "switch"}
  <2>1. PlanOf(k) = <<"read">>
    BY <1>1 DEF PlanOf
  <2>2. "read" \in WorkSteps
    BY DEF WorkSteps
  <2>3. /\ <<"read">> \in Seq(WorkSteps)
        /\ StepsLeft(<<"read">>)
              = {"read"}
        /\ Head(<<"read">>) = "read" /\ <<"read">> # <<>>
    BY <2>2, ShortPlans, Zenon
  <2>4. /\ {"read"} \subseteq StepsOf(k)
        /\ "switch" \notin {"read"}
        /\ k = "auto" => "update" \notin {"read"}
    BY <1>1 DEF StepsOf, WorkSteps
  <2>5. k # "edit"
    BY <1>1
  <2>6. QED
    BY <2>1, <2>3, <2>4, <2>5, Zenon
<1>2. CASE k = "map"
  <2>1. PlanOf(k) = <<"upsert", "toggle", "reread", "reprice", "drop">>
    BY <1>2 DEF PlanOf
  <2>2. /\ "upsert" \in WorkSteps /\ "toggle" \in WorkSteps /\ "reread" \in WorkSteps
        /\ "reprice" \in WorkSteps /\ "drop" \in WorkSteps
    BY DEF WorkSteps
  <2>3. /\ <<"upsert", "toggle", "reread", "reprice", "drop">> \in Seq(WorkSteps)
        /\ StepsLeft(<<"upsert", "toggle", "reread", "reprice", "drop">>)
              = {"upsert", "toggle", "reread", "reprice", "drop"}
        /\ Head(<<"upsert", "toggle", "reread", "reprice", "drop">>) = "upsert" /\ <<"upsert", "toggle", "reread", "reprice", "drop">> # <<>>
    <3>1. /\ <<"upsert", "toggle", "reread", "reprice", "drop">> \in Seq(WorkSteps)
          /\ Head(<<"upsert", "toggle", "reread", "reprice", "drop">>) = "upsert"
          /\ <<"upsert", "toggle", "reread", "reprice", "drop">> # <<>>
      BY <2>2
    <3>2. DOMAIN <<"upsert", "toggle", "reread", "reprice", "drop">> = {1, 2, 3, 4, 5}
      OBVIOUS
    <3>3. /\ <<"upsert", "toggle", "reread", "reprice", "drop">>[1] = "upsert"
          /\ <<"upsert", "toggle", "reread", "reprice", "drop">>[2] = "toggle"
          /\ <<"upsert", "toggle", "reread", "reprice", "drop">>[3] = "reread"
          /\ <<"upsert", "toggle", "reread", "reprice", "drop">>[4] = "reprice"
          /\ <<"upsert", "toggle", "reread", "reprice", "drop">>[5] = "drop"
      OBVIOUS
    <3>4. StepsLeft(<<"upsert", "toggle", "reread", "reprice", "drop">>)
          = {"upsert", "toggle", "reread", "reprice", "drop"}
      BY <3>2, <3>3 DEF StepsLeft
    <3>5. QED
      BY <3>1, <3>4
  <2>4. /\ {"upsert", "toggle", "reread", "reprice", "drop"} \subseteq StepsOf(k)
        /\ "switch" \notin {"upsert", "toggle", "reread", "reprice", "drop"}
        /\ k = "auto" => "update" \notin {"upsert", "toggle", "reread", "reprice", "drop"}
    BY <1>2 DEF StepsOf, WorkSteps
  <2>5. k # "edit"
    BY <1>2
  <2>6. QED
    BY <2>1, <2>3, <2>4, <2>5, Zenon
<1>3. CASE k = "edit"
  <2>1. PlanOf(k) = <<"read", "reread", "update", "upsert", "drop">>
    BY <1>3 DEF PlanOf
  <2>2. /\ "read" \in WorkSteps /\ "reread" \in WorkSteps /\ "update" \in WorkSteps
        /\ "upsert" \in WorkSteps /\ "drop" \in WorkSteps
    BY DEF WorkSteps
  <2>3. /\ <<"read", "reread", "update", "upsert", "drop">> \in Seq(WorkSteps)
        /\ StepsLeft(<<"read", "reread", "update", "upsert", "drop">>)
              = {"read", "reread", "update", "upsert", "drop"}
        /\ Head(<<"read", "reread", "update", "upsert", "drop">>) = "read" /\ <<"read", "reread", "update", "upsert", "drop">> # <<>>
    <3>1. /\ <<"read", "reread", "update", "upsert", "drop">> \in Seq(WorkSteps)
          /\ Head(<<"read", "reread", "update", "upsert", "drop">>) = "read"
          /\ <<"read", "reread", "update", "upsert", "drop">> # <<>>
      BY <2>2
    <3>2. DOMAIN <<"read", "reread", "update", "upsert", "drop">> = {1, 2, 3, 4, 5}
      OBVIOUS
    <3>3. /\ <<"read", "reread", "update", "upsert", "drop">>[1] = "read"
          /\ <<"read", "reread", "update", "upsert", "drop">>[2] = "reread"
          /\ <<"read", "reread", "update", "upsert", "drop">>[3] = "update"
          /\ <<"read", "reread", "update", "upsert", "drop">>[4] = "upsert"
          /\ <<"read", "reread", "update", "upsert", "drop">>[5] = "drop"
      OBVIOUS
    <3>4. StepsLeft(<<"read", "reread", "update", "upsert", "drop">>)
          = {"read", "reread", "update", "upsert", "drop"}
      BY <3>2, <3>3 DEF StepsLeft
    <3>5. QED
      BY <3>1, <3>4
  <2>4. /\ {"read", "reread", "update", "upsert", "drop"} \subseteq StepsOf(k)
        /\ "switch" \notin {"read", "reread", "update", "upsert", "drop"}
        /\ k = "auto" => "update" \notin {"read", "reread", "update", "upsert", "drop"}
    BY <1>3 DEF StepsOf, WorkSteps
  <2>5. QED
    BY <2>1, <2>3, <2>4, Zenon
<1>4. CASE k = "create"
  <2>1. PlanOf(k) = <<"insert", "upsert", "drop">>
    BY <1>4 DEF PlanOf
  <2>2. "insert" \in WorkSteps /\ "upsert" \in WorkSteps /\ "drop" \in WorkSteps
    BY DEF WorkSteps
  <2>3. /\ <<"insert", "upsert", "drop">> \in Seq(WorkSteps)
        /\ StepsLeft(<<"insert", "upsert", "drop">>)
              = {"insert", "upsert", "drop"}
        /\ Head(<<"insert", "upsert", "drop">>) = "insert" /\ <<"insert", "upsert", "drop">> # <<>>
    <3>1. /\ <<"insert", "upsert", "drop">> \in Seq(WorkSteps)
          /\ Head(<<"insert", "upsert", "drop">>) = "insert"
          /\ <<"insert", "upsert", "drop">> # <<>>
      BY <2>2
    <3>2. DOMAIN <<"insert", "upsert", "drop">> = {1, 2, 3}
      OBVIOUS
    <3>3. /\ <<"insert", "upsert", "drop">>[1] = "insert"
          /\ <<"insert", "upsert", "drop">>[2] = "upsert"
          /\ <<"insert", "upsert", "drop">>[3] = "drop"
      OBVIOUS
    <3>4. StepsLeft(<<"insert", "upsert", "drop">>)
          = {"insert", "upsert", "drop"}
      BY <3>2, <3>3 DEF StepsLeft
    <3>5. QED
      BY <3>1, <3>4
  <2>4. /\ {"insert", "upsert", "drop"} \subseteq StepsOf(k)
        /\ "switch" \notin {"insert", "upsert", "drop"}
        /\ k = "auto" => "update" \notin {"insert", "upsert", "drop"}
    BY <1>4 DEF StepsOf, WorkSteps
  <2>5. k # "edit"
    BY <1>4
  <2>6. QED
    BY <2>1, <2>3, <2>4, <2>5, Zenon
<1>5. CASE k = "delete"
  <2>1. PlanOf(k) = <<"unlink", "remove", "drop">>
    BY <1>5 DEF PlanOf
  <2>2. "unlink" \in WorkSteps /\ "remove" \in WorkSteps /\ "drop" \in WorkSteps
    BY DEF WorkSteps
  <2>3. /\ <<"unlink", "remove", "drop">> \in Seq(WorkSteps)
        /\ StepsLeft(<<"unlink", "remove", "drop">>)
              = {"unlink", "remove", "drop"}
        /\ Head(<<"unlink", "remove", "drop">>) = "unlink" /\ <<"unlink", "remove", "drop">> # <<>>
    <3>1. /\ <<"unlink", "remove", "drop">> \in Seq(WorkSteps)
          /\ Head(<<"unlink", "remove", "drop">>) = "unlink"
          /\ <<"unlink", "remove", "drop">> # <<>>
      BY <2>2
    <3>2. DOMAIN <<"unlink", "remove", "drop">> = {1, 2, 3}
      OBVIOUS
    <3>3. /\ <<"unlink", "remove", "drop">>[1] = "unlink"
          /\ <<"unlink", "remove", "drop">>[2] = "remove"
          /\ <<"unlink", "remove", "drop">>[3] = "drop"
      OBVIOUS
    <3>4. StepsLeft(<<"unlink", "remove", "drop">>)
          = {"unlink", "remove", "drop"}
      BY <3>2, <3>3 DEF StepsLeft
    <3>5. QED
      BY <3>1, <3>4
  <2>4. /\ {"unlink", "remove", "drop"} \subseteq StepsOf(k)
        /\ "switch" \notin {"unlink", "remove", "drop"}
        /\ k = "auto" => "update" \notin {"unlink", "remove", "drop"}
    BY <1>5 DEF StepsOf, WorkSteps
  <2>5. k # "edit"
    BY <1>5
  <2>6. QED
    BY <2>1, <2>3, <2>4, <2>5, Zenon
<1>6. CASE k = "import"
  <2>1. PlanOf(k) = <<"saveAll", "drop", "upsert">>
    BY <1>6 DEF PlanOf
  <2>2. "saveAll" \in WorkSteps /\ "drop" \in WorkSteps /\ "upsert" \in WorkSteps
    BY DEF WorkSteps
  <2>3. /\ <<"saveAll", "drop", "upsert">> \in Seq(WorkSteps)
        /\ StepsLeft(<<"saveAll", "drop", "upsert">>)
              = {"saveAll", "drop", "upsert"}
        /\ Head(<<"saveAll", "drop", "upsert">>) = "saveAll" /\ <<"saveAll", "drop", "upsert">> # <<>>
    <3>1. /\ <<"saveAll", "drop", "upsert">> \in Seq(WorkSteps)
          /\ Head(<<"saveAll", "drop", "upsert">>) = "saveAll"
          /\ <<"saveAll", "drop", "upsert">> # <<>>
      BY <2>2
    <3>2. DOMAIN <<"saveAll", "drop", "upsert">> = {1, 2, 3}
      OBVIOUS
    <3>3. /\ <<"saveAll", "drop", "upsert">>[1] = "saveAll"
          /\ <<"saveAll", "drop", "upsert">>[2] = "drop"
          /\ <<"saveAll", "drop", "upsert">>[3] = "upsert"
      OBVIOUS
    <3>4. StepsLeft(<<"saveAll", "drop", "upsert">>)
          = {"saveAll", "drop", "upsert"}
      BY <3>2, <3>3 DEF StepsLeft
    <3>5. QED
      BY <3>1, <3>4
  <2>4. /\ {"saveAll", "drop", "upsert"} \subseteq StepsOf(k)
        /\ "switch" \notin {"saveAll", "drop", "upsert"}
        /\ k = "auto" => "update" \notin {"saveAll", "drop", "upsert"}
    BY <1>6 DEF StepsOf, WorkSteps
  <2>5. k # "edit"
    BY <1>6
  <2>6. QED
    BY <2>1, <2>3, <2>4, <2>5, Zenon
<1>7. CASE k = "page"
  <2>1. PlanOf(k) = <<"read", "fill">>
    BY <1>7 DEF PlanOf
  <2>2. "read" \in WorkSteps /\ "fill" \in WorkSteps
    BY DEF WorkSteps
  <2>3. /\ <<"read", "fill">> \in Seq(WorkSteps)
        /\ StepsLeft(<<"read", "fill">>)
              = {"read", "fill"}
        /\ Head(<<"read", "fill">>) = "read" /\ <<"read", "fill">> # <<>>
    BY <2>2, ShortPlans, Zenon
  <2>4. /\ {"read", "fill"} \subseteq StepsOf(k)
        /\ "switch" \notin {"read", "fill"}
        /\ k = "auto" => "update" \notin {"read", "fill"}
    BY <1>7 DEF StepsOf, WorkSteps
  <2>5. k # "edit"
    BY <1>7
  <2>6. QED
    BY <2>1, <2>3, <2>4, <2>5, Zenon
<1>8. CASE k = "unmap"
  <2>1. PlanOf(k) = <<>>
    BY <1>8 DEF PlanOf
  <2>2. QED
    BY <1>8, <2>1, EmptyPlan
<1>9. QED
  BY <1>1, <1>2, <1>3, <1>4, <1>5, <1>6, <1>7, <1>8 DEF Work, AdminWork

PlanFits(k, s, n, rows, plan) ==
    /\ plan \in Seq(WorkSteps) /\ StepsLeft(plan) \subseteq StepsOf(k)
    /\ "switch" \in StepsLeft(plan) => rows[s].cost > 0
    /\ k = "auto" /\ "update" \in StepsLeft(plan) => n.prov = "digi"
    /\ k = "edit" /\ plan # <<>> => Head(plan) = "reread"

LEMMA PlanAfterReadTyped ==
    ASSUME NEW k \in Work \ {"create"}, NEW s \in Sides, NEW n, NEW rows, NEW item
    PROVE  PlanFits(k, s, n, rows, PlanAfterRead(k, s, n, rows, item))
<1>1. PlanFits(k, s, n, rows, <<>>)
  BY EmptyPlan DEF PlanFits
<1>2. ASSUME Live(n)
      PROVE  PlanFits(k, s, n, rows, PlanAfterRead(k, s, n, rows, item))
  <2>1. CASE k = "auto"
    <3>1. PlanAfterRead(k, s, n, rows, item) = AutoSyncAllPrices(n, rows, item)
      BY <1>2, <2>1 DEF PlanAfterRead
    <3>2. \/ AutoSyncAllPrices(n, rows, item) = <<>>
          \/ n.prov = "digi" /\ AutoSyncAllPrices(n, rows, item) = <<"upsert", "update", "drop">>
          \/ AutoSyncAllPrices(n, rows, item) = <<"upsert">>
      BY Zenon DEF AutoSyncAllPrices
    <3>3. /\ <<"upsert", "update", "drop">> \in Seq(WorkSteps)
          /\ StepsLeft(<<"upsert", "update", "drop">>) = {"upsert", "update", "drop"}
      <4>1. /\ <<"upsert", "update", "drop">> \in Seq(WorkSteps)
            /\ Head(<<"upsert", "update", "drop">>) = "upsert"
            /\ <<"upsert", "update", "drop">> # <<>>
        BY StepNames
      <4>2. DOMAIN <<"upsert", "update", "drop">> = {1, 2, 3}
        OBVIOUS
      <4>3. /\ <<"upsert", "update", "drop">>[1] = "upsert"
            /\ <<"upsert", "update", "drop">>[2] = "update"
            /\ <<"upsert", "update", "drop">>[3] = "drop"
        OBVIOUS
      <4>4. StepsLeft(<<"upsert", "update", "drop">>)
            = {"upsert", "update", "drop"}
        BY <4>2, <4>3 DEF StepsLeft
      <4>5. QED
        BY <4>1, <4>4
    <3>4. <<"upsert">> \in Seq(WorkSteps) /\ StepsLeft(<<"upsert">>) = {"upsert"}
      BY ShortPlans, StepNames
    <3>5. StepsOf(k) = {"read", "upsert", "update", "drop"}
      BY <2>1 DEF StepsOf
    <3>6. PlanFits(k, s, n, rows, <<"upsert">>)
      BY <2>1, <3>4, <3>5 DEF PlanFits
    <3>7. n.prov = "digi" => PlanFits(k, s, n, rows, <<"upsert", "update", "drop">>)
      BY <2>1, <3>3, <3>5 DEF PlanFits
    <3>8. QED
      BY <1>1, <3>1, <3>2, <3>6, <3>7, Zenon
  <2>2. CASE k = "price"
    <3>1. PlanAfterRead(k, s, n, rows, item) = SyncProvider(rows[s], s, item)
      BY <1>2, <2>2 DEF PlanAfterRead
    <3>2. SyncProvider(rows[s], s, item) \in {<<>>, <<"cost">>, <<"cost", "reread", "reprice", "drop">>}
      BY Zenon DEF SyncProvider
    <3>3. /\ <<"cost", "reread", "reprice", "drop">> \in Seq(WorkSteps)
          /\ StepsLeft(<<"cost", "reread", "reprice", "drop">>) = {"cost", "reread", "reprice", "drop"}
      <4>1. /\ <<"cost", "reread", "reprice", "drop">> \in Seq(WorkSteps)
            /\ Head(<<"cost", "reread", "reprice", "drop">>) = "cost"
            /\ <<"cost", "reread", "reprice", "drop">> # <<>>
        BY StepNames
      <4>2. DOMAIN <<"cost", "reread", "reprice", "drop">> = {1, 2, 3, 4}
        OBVIOUS
      <4>3. /\ <<"cost", "reread", "reprice", "drop">>[1] = "cost"
            /\ <<"cost", "reread", "reprice", "drop">>[2] = "reread"
            /\ <<"cost", "reread", "reprice", "drop">>[3] = "reprice"
            /\ <<"cost", "reread", "reprice", "drop">>[4] = "drop"
        OBVIOUS
      <4>4. StepsLeft(<<"cost", "reread", "reprice", "drop">>)
            = {"cost", "reread", "reprice", "drop"}
        BY <4>2, <4>3 DEF StepsLeft
      <4>5. QED
        BY <4>1, <4>4
    <3>4. <<"cost">> \in Seq(WorkSteps) /\ StepsLeft(<<"cost">>) = {"cost"}
      BY ShortPlans, StepNames
    <3>5. StepsOf(k) = WorkSteps \ {"switch"}
      BY <2>2 DEF StepsOf
    <3>6. PlanFits(k, s, n, rows, <<"cost">>)
      BY <2>2, <3>4, <3>5, StepNames DEF PlanFits
    <3>7. PlanFits(k, s, n, rows, <<"cost", "reread", "reprice", "drop">>)
      BY <2>2, <3>3, <3>5, StepNames DEF PlanFits
    <3>8. QED
      BY <1>1, <3>1, <3>2, <3>6, <3>7, Zenon
  <2>3. CASE k \in {"save", "kios"}
    <3>1. PlanAfterRead(k, s, n, rows, item)
             \in {<<"upsert", "update">>, <<"upsert">>, <<"update", "upsert">>}
      BY <1>2, <2>3 DEF PlanAfterRead
    <3>2. /\ <<"upsert", "update">> \in Seq(WorkSteps) /\ <<"update", "upsert">> \in Seq(WorkSteps)
          /\ <<"upsert">> \in Seq(WorkSteps)
          /\ StepsLeft(<<"upsert", "update">>) = {"upsert", "update"}
          /\ StepsLeft(<<"update", "upsert">>) = {"upsert", "update"}
          /\ StepsLeft(<<"upsert">>) = {"upsert"}
      <4>1. <<"upsert">> \in Seq(WorkSteps) /\ StepsLeft(<<"upsert">>) = {"upsert"}
        BY ShortPlans, StepNames
      <4>2. /\ <<"upsert", "update">> \in Seq(WorkSteps)
            /\ StepsLeft(<<"upsert", "update">>) = {"upsert", "update"}
        BY ShortPlans, StepNames
      <4>3. /\ <<"update", "upsert">> \in Seq(WorkSteps)
            /\ StepsLeft(<<"update", "upsert">>) = {"update", "upsert"}
        BY ShortPlans, StepNames
      <4>4. QED
        BY <4>1, <4>2, <4>3
    <3>3. StepsOf(k) = WorkSteps \ {"switch"}
      BY <2>3 DEF StepsOf
    <3>4. \A p \in {<<"upsert", "update">>, <<"upsert">>, <<"update", "upsert">>} :
             /\ p \in Seq(WorkSteps) /\ StepsLeft(p) \subseteq StepsOf(k)
             /\ "switch" \notin StepsLeft(p)
      BY <3>2, <3>3, StepNames
    <3>5. QED
      BY <2>3, <3>1, <3>4 DEF PlanFits
  <2>4. CASE k = "switch"
    <3>1. \/ PlanAfterRead(k, s, n, rows, item) = <<>>
          \/ rows[s].cost > 0 /\ PlanAfterRead(k, s, n, rows, item) = <<"switch", "drop">>
      BY <1>2, <2>4 DEF PlanAfterRead
    <3>2. <<"switch", "drop">> \in Seq(WorkSteps) /\ StepsLeft(<<"switch", "drop">>) = {"switch", "drop"}
      BY ShortPlans, StepNames
    <3>3. StepsOf(k) = {"read", "switch", "drop"}
      BY <2>4 DEF StepsOf
    <3>4. rows[s].cost > 0 => PlanFits(k, s, n, rows, <<"switch", "drop">>)
      BY <2>4, <3>2, <3>3 DEF PlanFits
    <3>5. QED
      BY <1>1, <3>1, <3>4, Zenon
  <2>5. CASE k = "edit"
    <3>1. PlanAfterRead(k, s, n, rows, item) = <<"reread", "update", "upsert", "drop">>
      BY <1>2, <2>5 DEF PlanAfterRead
    <3>2. /\ <<"reread", "update", "upsert", "drop">> \in Seq(WorkSteps)
          /\ StepsLeft(<<"reread", "update", "upsert", "drop">>) = {"reread", "update", "upsert", "drop"}
          /\ Head(<<"reread", "update", "upsert", "drop">>) = "reread"
      <4>1. /\ <<"reread", "update", "upsert", "drop">> \in Seq(WorkSteps)
            /\ Head(<<"reread", "update", "upsert", "drop">>) = "reread"
            /\ <<"reread", "update", "upsert", "drop">> # <<>>
        BY StepNames
      <4>2. DOMAIN <<"reread", "update", "upsert", "drop">> = {1, 2, 3, 4}
        OBVIOUS
      <4>3. /\ <<"reread", "update", "upsert", "drop">>[1] = "reread"
            /\ <<"reread", "update", "upsert", "drop">>[2] = "update"
            /\ <<"reread", "update", "upsert", "drop">>[3] = "upsert"
            /\ <<"reread", "update", "upsert", "drop">>[4] = "drop"
        OBVIOUS
      <4>4. StepsLeft(<<"reread", "update", "upsert", "drop">>)
            = {"reread", "update", "upsert", "drop"}
        BY <4>2, <4>3 DEF StepsLeft
      <4>5. QED
        BY <4>1, <4>4
    <3>3. StepsOf(k) = WorkSteps \ {"switch"}
      BY <2>5 DEF StepsOf
    <3>4. PlanFits(k, s, n, rows, <<"reread", "update", "upsert", "drop">>)
      BY <2>5, <3>2, <3>3, StepNames DEF PlanFits
    <3>5. QED
      BY <3>1, <3>4
  <2>6. CASE k \notin {"auto", "price", "save", "kios", "switch", "edit"}
    <3>1. PlanAfterRead(k, s, n, rows, item) = <<"fill">>
      BY <1>2, <2>6 DEF PlanAfterRead
    <3>2. <<"fill">> \in Seq(WorkSteps) /\ StepsLeft(<<"fill">>) = {"fill"}
      BY ShortPlans, StepNames
    <3>3. StepsOf(k) = WorkSteps \ {"switch"}
      BY <2>6 DEF StepsOf
    <3>4. PlanFits(k, s, n, rows, <<"fill">>)
      BY <2>6, <3>2, <3>3, StepNames DEF PlanFits
    <3>5. QED
      BY <3>1, <3>4
  <2>7. QED
    BY <2>1, <2>2, <2>3, <2>4, <2>5, <2>6
<1>3. QED
  BY <1>1, <1>2 DEF PlanAfterRead

\* Work begins with nothing read.
LEMMA OpenKeeps ==
    ASSUME CatalogueInv, NEW k \in Dealers, NEW w \in Work, NEW s \in Sides, Open(k, w, s)
    PROVE  CatalogueInv'
<1>1. PICK item \in Offers :
         task' = [task EXCEPT ![k] = [IdleTask EXCEPT !.kind = w, !.side = s, !.item = item,
                                                      !.plan = PlanOf(w)]]
  <2>1. \A x \in IF w = "map" THEN Offers ELSE {market[s]} : x \in Offers
    BY DEF CatalogueInv, RestTyped
  <2>2. QED
    BY <2>1 DEF Open
<1> DEFINE t == [IdleTask EXCEPT !.kind = w, !.side = s, !.item = item, !.plan = PlanOf(w)]
<1>2. /\ IdleTask \in TaskRecords /\ IdleTask.nom = FirstNominal
      /\ TaskRoutes(IdleTask)
  BY IdleTaskGood DEF TaskTyped, IdleTask
<1>3. /\ t \in TaskRecords /\ t.kind = w /\ t.side = s /\ t.plan = PlanOf(w)
      /\ t.nom = FirstNominal /\ t.rows = IdleTask.rows
  BY <1>2, PlanOfTyped DEF TaskRecords
<1>4. w = "create" => s = "digi"
  BY DEF Open
<1>5. TaskTyped(t)
  BY <1>3, PlanOfTyped DEF TaskTyped
<1>6. TaskRoutes(t)
  BY <1>2, <1>3, <1>4, PlanOfTyped, FirstTyped DEF TaskRoutes
<1>7. edits' \in 0 .. MaxEdits
  BY CatalogueAssumption DEF Open, CatalogueInv, RestTyped
<1>8. TasksTyped' /\ (TasksRoute => TasksRoute')
  BY <1>1, <1>5, <1>6, OneTask DEF CatalogueInv
<1>9. UNCHANGED <<nominal, products, market, page, mixed, shift, moves, faults>>
  BY DEF Open, limits
<1>10. QED
  BY <1>7, <1>8, <1>9 DEF CatalogueInv, RowsTyped, RestTyped, RowsRoute

\* A goroutine in front of a step.
LEMMA AtStep ==
    ASSUME TasksTyped, NEW k \in Dealers, NEW step, At(k, step)
    PROVE  /\ task[k] \in TaskRecords /\ TaskTyped(task[k])
           /\ task[k].plan # <<>> /\ Head(task[k].plan) = step
           /\ step \in StepsLeft(task[k].plan) /\ step \in StepsOf(task[k].kind)
<1>1. task[k] \in TaskRecords /\ TaskTyped(task[k])
  BY DEF TasksTyped, TaskTyped
<1>2. task[k].plan # <<>> /\ Head(task[k].plan) = step
  BY DEF At
<1>3. task[k].plan \in Seq(WorkSteps)
  BY <1>1 DEF TaskRecords
<1>4. step \in StepsLeft(task[k].plan)
  BY <1>2, <1>3, PlanTail
<1>5. QED
  BY <1>1, <1>2, <1>4 DEF TaskTyped

LEMMA OwnSteps ==
    /\ "read" \notin StepsOf("create")
    /\ \A step \in WorkSteps \ {"switch"} : \A kind \in Work :
          step \in StepsOf(kind) /\ kind \in {"auto", "switch"}
             => step \in {"read", "upsert", "update", "drop"}
    /\ \A kind \in Work : "switch" \in StepsOf(kind) => kind = "switch"
    /\ \A kind \in Work : "reread" \in StepsOf(kind) => kind \notin {"auto", "switch", "create"}
  BY DEF StepsOf, WorkSteps

LEMMA ReadKeeps ==
    ASSUME CatalogueInv, NEW k \in Dealers, ReadNominal(k)
    PROVE  CatalogueInv'
<1> DEFINE old == task[k]
           plan == PlanAfterRead(old.kind, old.side, nominal, products, old.item)
           t == [old EXCEPT !.nom = nominal, !.rows = products, !.plan = plan]
<1>1. TasksTyped /\ RowsTyped /\ At(k, "read")
  BY DEF CatalogueInv, ReadNominal
<1>2. old \in TaskRecords /\ "read" \in StepsOf(old.kind)
  BY <1>1, AtStep
<1>3. old.kind \in Work /\ old.kind # "create" /\ old.side \in Sides
  BY <1>2, OwnSteps DEF TaskRecords
<1>4. PlanFits(old.kind, old.side, nominal, products, plan)
  BY <1>3, PlanAfterReadTyped
<1>5. /\ t \in TaskRecords /\ t.kind = old.kind /\ t.side = old.side
      /\ t.nom = nominal /\ t.rows = products /\ t.plan = plan
  <2>1. plan \in Seq(WorkSteps)
    BY <1>4 DEF PlanFits
  <2> HIDE DEF plan
  <2>2. QED
    BY <1>1, <1>2, <2>1 DEF TaskRecords, RowsTyped
<1> HIDE DEF plan
<1>6. TaskTyped(t)
  BY <1>4, <1>5 DEF TaskTyped, PlanFits
<1>7. RowsRoute /\ plan # <<>> => TaskRoutes(t)
  BY <1>3, <1>4, <1>5 DEF TaskRoutes, PlanFits, RowsRoute
<1>8. task' = [task EXCEPT ![k] = IF plan = <<>> THEN IdleTask ELSE t]
  BY DEF ReadNominal, plan
<1>9. TasksTyped' /\ (RowsRoute /\ TasksRoute => TasksRoute')
  <2>1. CASE plan = <<>>
    <3>1. task' = [task EXCEPT ![k] = IdleTask]
      BY <1>8, <2>1
    <3>2. QED
      BY <1>1, <3>1, OneTask, IdleTaskGood
  <2>2. CASE plan # <<>>
    <3> HIDE DEF t
    <3>1. task' = [task EXCEPT ![k] = t]
      BY <1>8, <2>2
    <3>2. QED
      BY <1>1, <1>6, <1>7, <2>2, <3>1, OneTask
  <2>3. QED
    BY <2>1, <2>2
<1>10. UNCHANGED <<nominal, products, market, page, mixed, shift, moves, edits, faults>>
  BY DEF ReadNominal, limits
<1>11. QED
  BY <1>9, <1>10 DEF CatalogueInv, RowsTyped, RestTyped, RowsRoute

LEMMA RereadKeeps ==
    ASSUME CatalogueInv, NEW k \in Dealers, Reread(k)
    PROVE  CatalogueInv'
<1> DEFINE old == task[k]
<1>1. TasksTyped /\ RowsTyped /\ At(k, "reread")
  BY DEF CatalogueInv, Reread
<1>2. /\ old \in TaskRecords /\ TaskTyped(old) /\ old.plan # <<>>
      /\ old.kind \in Work /\ old.kind \notin {"auto", "switch", "create"}
  <2>1. /\ old \in TaskRecords /\ TaskTyped(old) /\ old.plan # <<>>
        /\ "reread" \in StepsOf(old.kind)
    BY <1>1, AtStep
  <2>2. old.kind \in Work
    BY <2>1 DEF TaskRecords
  <2>3. QED
    BY <2>1, <2>2, OwnSteps
<1>3. /\ old.plan \in Seq(WorkSteps) /\ Tail(old.plan) \in Seq(WorkSteps)
      /\ StepsLeft(Tail(old.plan)) \subseteq StepsOf(old.kind)
      /\ "switch" \notin StepsOf(old.kind)
  <2>1. old.plan \in Seq(WorkSteps)
    BY <1>2 DEF TaskRecords
  <2>2. QED
    BY <1>2, <2>1, PlanTail, OwnSteps DEF TaskTyped
<1>4. ASSUME NEW n \in Nominals, NEW s \in Sides,
             task' = [task EXCEPT ![k] = [old EXCEPT !.nom = n, !.side = s, !.rows = products,
                                                     !.plan = Tail(old.plan)]]
      PROVE  TasksTyped' /\ (RowsRoute /\ TasksRoute /\ Own(n) /\ (old.kind = "edit" => s = n.prov)
                                => TasksRoute')
  <2> DEFINE t == [old EXCEPT !.nom = n, !.side = s, !.rows = products, !.plan = Tail(old.plan)]
  <2>1. /\ t \in TaskRecords /\ t.kind = old.kind /\ t.side = s
        /\ t.nom = n /\ t.rows = products /\ t.plan = Tail(old.plan)
    BY <1>1, <1>2, <1>3 DEF TaskRecords, RowsTyped
  <2>2. TaskTyped(t)
    BY <1>3, <2>1 DEF TaskTyped
  <2>3. RowsRoute /\ Own(n) /\ (old.kind = "edit" => s = n.prov) => TaskRoutes(t)
    BY <1>2, <2>1 DEF TaskRoutes, RowsRoute
  <2> HIDE DEF t
  <2>4. task' = [task EXCEPT ![k] = t]
    BY <1>4 DEF t
  <2>5. QED
    BY <1>1, <2>2, <2>3, <2>4, OneTask
<1>5. TasksTyped' /\ (RowsRoute /\ TasksRoute => TasksRoute')
  <2>1. CASE Leaves(k)
    BY <1>1, <2>1, LeavesKeeps
  <2>2. CASE /\ old.kind # "edit"
             /\ task' = [task EXCEPT ![k].nom = nominal, ![k].rows = products, ![k].plan = Tail(@)]
    <3>1. nominal \in Nominals /\ old.side \in Sides
      BY <1>1, <1>2 DEF RowsTyped, TaskRecords
    <3>2. task' = [task EXCEPT ![k] = [old EXCEPT !.nom = nominal, !.side = old.side,
                                                  !.rows = products, !.plan = Tail(old.plan)]]
      BY <1>1, <1>2, <2>2 DEF TasksTyped, TaskRecords
    <3>3. RowsRoute => Own(nominal)
      BY DEF RowsRoute
    <3>4. QED
      BY <1>4, <2>2, <3>1, <3>2, <3>3
  <2>3. CASE /\ old.nom.prov = nominal.prov
             /\ \E sku \in {old.nom.sku, nominal.sku}, price \in 1 .. MaxPrice, on \in BOOLEAN :
                   task' = [task EXCEPT
                       ![k].nom = [old.nom EXCEPT !.sku = sku, !.active = on,
                                                  !.base = [of |-> old.nom.prov, at |-> price]],
                       ![k].side = old.nom.prov, ![k].rows = products, ![k].plan = Tail(@)]
    <3>1. PICK sku \in {old.nom.sku, nominal.sku}, price \in 1 .. MaxPrice, on \in BOOLEAN :
             task' = [task EXCEPT
                       ![k].nom = [old.nom EXCEPT !.sku = sku, !.active = on,
                                                  !.base = [of |-> old.nom.prov, at |-> price]],
                       ![k].side = old.nom.prov, ![k].rows = products, ![k].plan = Tail(@)]
      BY <2>3
    <3> DEFINE n == [old.nom EXCEPT !.sku = sku, !.active = on,
                                    !.base = [of |-> old.nom.prov, at |-> price]]
    <3>2. old.nom \in Nominals /\ nominal \in Nominals
      BY <1>1, <1>2 DEF RowsTyped, TaskRecords
    <3>3. old.nom.prov \in Sides /\ sku \in Sides
      BY <3>2 DEF Nominals
    <3>4. n \in Nominals /\ n.prov = old.nom.prov /\ n.sku = sku /\ n.base.of = old.nom.prov
      BY <3>2, <3>3 DEF Nominals, Prices
    <3>5. RowsRoute /\ TasksRoute => Own(n)
      <4>1. TasksRoute => Own(old.nom)
        BY DEF TasksRoute, TaskRoutes
      <4>2. QED
        BY <2>3, <3>4, <4>1 DEF Own, RowsRoute
    <3>6. task' = [task EXCEPT ![k] = [old EXCEPT !.nom = n, !.side = old.nom.prov,
                                                  !.rows = products, !.plan = Tail(old.plan)]]
      BY <1>1, <1>2, <3>1 DEF TasksTyped, TaskRecords
    <3> HIDE DEF n
    <3>7. QED
      BY <1>4, <3>3, <3>4, <3>5, <3>6
  <2>4. QED
    BY <2>1, <2>2, <2>3 DEF Reread
<1>6. UNCHANGED <<nominal, products, market, page, mixed, shift, moves, edits, faults>>
  BY DEF Reread, limits
<1>7. QED
  BY <1>5, <1>6 DEF CatalogueInv, RowsTyped, RestTyped, RowsRoute

\* A row of provider_products that a statement changes.
LEMMA RowChanged ==
    ASSUME products \in [Sides -> ProductRows], NEW s \in Sides, NEW row \in ProductRows,
           products' = [products EXCEPT ![s] = row]
    PROVE  /\ (products \in [Sides -> ProductRows])'
           /\ (\A x \in Sides : products[x].sku = x) /\ row.sku = s
                 => (\A x \in Sides : products[x].sku = x)'
  OBVIOUS

LEMMA UpsertTyped ==
    ASSUME products \in [Sides -> ProductRows], NEW s \in Sides, NEW sku \in Sides,
           NEW cost \in 0 .. MaxPrice, Upsert(s, sku, cost)
    PROVE  /\ (products \in [Sides -> ProductRows])'
           /\ (\A x \in Sides : products[x].sku = x) /\ sku = s
                 => (\A x \in Sides : products[x].sku = x)'
<1> DEFINE row == [state |-> IF products[s].state = "none" THEN "live" ELSE products[s].state,
                   sku |-> sku,
                   cost |-> IF cost > 0 THEN cost ELSE products[s].cost,
                   auto |-> products[s].auto]
<1>1. products[s] \in ProductRows
  OBVIOUS
<1>2. PICK on \in BOOLEAN : on = products[s].auto
  BY <1>1 DEF ProductRows
<1>3. (IF products[s].state = "none" THEN "live" ELSE products[s].state)
         \in {"none", "live", "deleted"}
  BY <1>1 DEF ProductRows
<1>4. (IF cost > 0 THEN cost ELSE products[s].cost) \in 0 .. MaxPrice
  BY <1>1 DEF ProductRows
<1>5. row \in ProductRows /\ row.sku = sku
  BY <1>2, <1>3, <1>4 DEF ProductRows
<1>6. products' = [products EXCEPT ![s] = row]
  BY DEF Upsert
<1> HIDE DEF row
<1>7. QED
  BY <1>5, <1>6, RowChanged

LEMMA TaskFields ==
    ASSUME NEW t \in TaskRecords
    PROVE  /\ t.kind \in Work /\ t.side \in Sides /\ t.nom \in Nominals
           /\ t.rows \in [Sides -> ProductRows] /\ t.item \in Offers
           /\ t.item.price \in 1 .. MaxPrice /\ t.item.price \in 0 .. MaxPrice
           /\ t.item.up \in BOOLEAN
           /\ t.nom.sku \in Sides /\ t.nom.prov \in Sides
           /\ t.nom.base.at \in 0 .. MaxPrice
           /\ t.rows[t.side] \in ProductRows /\ t.rows[t.side].cost \in 0 .. MaxPrice
           /\ t.rows[t.side].sku \in Sides
           /\ t.rows[t.nom.prov] \in ProductRows /\ t.rows[t.nom.prov].cost \in 0 .. MaxPrice
<1>1. /\ t.kind \in Work /\ t.side \in Sides /\ t.nom \in Nominals
      /\ t.rows \in [Sides -> ProductRows] /\ t.item \in Offers
  BY DEF TaskRecords
<1>2. /\ t.item.price \in 1 .. MaxPrice /\ t.item.price \in 0 .. MaxPrice
      /\ t.item.up \in BOOLEAN
  BY <1>1, CatalogueAssumption DEF Offers
<1>3. t.nom.sku \in Sides /\ t.nom.prov \in Sides /\ t.nom.base \in Prices
  BY <1>1 DEF Nominals
<1>4. t.nom.base.at \in 0 .. MaxPrice
  BY <1>3, CatalogueAssumption DEF Prices
<1>5. t.rows[t.side] \in ProductRows /\ t.rows[t.nom.prov] \in ProductRows
  BY <1>1, <1>3
<1>6. /\ t.rows[t.side].cost \in 0 .. MaxPrice /\ t.rows[t.nom.prov].cost \in 0 .. MaxPrice
      /\ t.rows[t.side].sku \in Sides
  BY <1>5 DEF ProductRows
<1>7. QED
  BY <1>1, <1>2, <1>3, <1>4, <1>5, <1>6

\* What stays as it is in a statement on one of the two tables.
LEMMA ProductsOnly ==
    ASSUME CatalogueInv, UNCHANGED <<nominal, market, page, mixed, shift, moves, edits>>,
           faults' \in 0 .. MaxFaults,
           (products \in [Sides -> ProductRows])',
           ~mixed => (RowsRoute /\ TasksRoute => (\A x \in Sides : products[x].sku = x)'),
           TasksTyped', TasksRoute => TasksRoute'
    PROVE  CatalogueInv'
  BY DEF CatalogueInv, RowsTyped, RestTyped, RowsRoute

LEMMA NominalOnly ==
    ASSUME CatalogueInv, UNCHANGED <<products, market, page, shift, moves, edits>>,
           faults' \in 0 .. MaxFaults, mixed' \in BOOLEAN, mixed => mixed',
           (nominal \in Nominals)',
           ~mixed' => (RowsRoute /\ TasksRoute => Own(nominal)'),
           TasksTyped', TasksRoute => TasksRoute'
    PROVE  CatalogueInv'
  BY DEF CatalogueInv, RowsTyped, RestTyped, RowsRoute, Own

LEMMA FaultCounted ==
    ASSUME CatalogueInv, Fault \/ UNCHANGED faults
    PROVE  faults' \in 0 .. MaxFaults
  BY CatalogueAssumption DEF CatalogueInv, RestTyped, Fault

LEMMA WriteTyped ==
    ASSUME NEW k, nominal \in Nominals, NEW n \in Nominals, WriteNominal(k, n)
    PROVE  (nominal \in Nominals)' /\ (Own(nominal) /\ Own(n) => Own(nominal)')
  BY DEF WriteNominal, Own

LEMMA UpsertKeeps ==
    ASSUME CatalogueInv, NEW k \in Dealers, UpsertProduct(k)
    PROVE  CatalogueInv'
<1> DEFINE old == task[k]
<1>1. TasksTyped /\ At(k, "upsert") /\ products \in [Sides -> ProductRows]
  BY DEF CatalogueInv, UpsertProduct, RowsTyped
<1>2. old \in TaskRecords /\ old.plan # <<>> /\ Head(old.plan) = "upsert"
  BY <1>1, AtStep
<1>3. TasksTyped' /\ (TasksRoute => TasksRoute')
  <2>1. Leaves(k) \/ Onward(k)
    BY DEF UpsertProduct
  <2>2. QED
    BY <1>1, <1>2, <2>1, LeavesKeeps, OnwardKeeps
<1>4. faults' \in 0 .. MaxFaults
  BY FaultCounted DEF UpsertProduct
<1>5. ASSUME UpsertOf(k)
      PROVE  /\ (products \in [Sides -> ProductRows])'
             /\ RowsRoute /\ TasksRoute => (\A x \in Sides : products[x].sku = x)'
  <2>1. 0 \in 0 .. MaxPrice
    BY CatalogueAssumption
  <2>2. /\ old.side \in Sides /\ old.nom.sku \in Sides
        /\ old.item.price \in 0 .. MaxPrice
    BY <1>2, TaskFields
  <2>3. EditedCost(k) \in 0 .. MaxPrice
    BY <1>2, TaskFields DEF EditedCost
  <2>4. TasksRoute /\ old.kind \in {"edit", "create"} => old.nom.sku = old.side
    BY <1>2 DEF TasksRoute, TaskRoutes, Own
  <2>5. \/ Upsert(old.side, old.side, 0)
        \/ Upsert(old.side, old.side, old.item.price)
        \/ old.kind \in {"edit", "create"} /\ Upsert(old.side, old.nom.sku, EditedCost(k))
        \/ UNCHANGED products
    BY <1>5, Zenon DEF UpsertOf
  <2>6. CASE Upsert(old.side, old.side, 0)
    BY <1>1, <2>1, <2>2, <2>6, UpsertTyped DEF RowsRoute
  <2>7. CASE Upsert(old.side, old.side, old.item.price)
    BY <1>1, <2>2, <2>7, UpsertTyped DEF RowsRoute
  <2>8. CASE old.kind \in {"edit", "create"} /\ Upsert(old.side, old.nom.sku, EditedCost(k))
    BY <1>1, <2>2, <2>3, <2>4, <2>8, UpsertTyped DEF RowsRoute
  <2>9. CASE UNCHANGED products
    BY <1>1, <2>9 DEF RowsRoute
  <2>10. QED
    BY <2>5, <2>6, <2>7, <2>8, <2>9
<1>6. ASSUME UNCHANGED products
      PROVE  /\ (products \in [Sides -> ProductRows])'
             /\ RowsRoute /\ TasksRoute => (\A x \in Sides : products[x].sku = x)'
  BY <1>1, <1>6 DEF RowsRoute
<1>7. UpsertOf(k) \/ UNCHANGED products
  BY DEF UpsertProduct
<1>8. UNCHANGED <<nominal, market, page, mixed, shift, moves, edits>>
  BY DEF UpsertProduct, limits
<1>9. QED
  BY <1>3, <1>4, <1>5, <1>6, <1>7, <1>8, ProductsOnly

LEMMA ToggleKeeps ==
    ASSUME CatalogueInv, NEW k \in Dealers, SetAutoSyncPrice(k)
    PROVE  CatalogueInv'
<1> DEFINE s == task[k].side
           row == [products[s] EXCEPT !.auto = task[k].item.up]
<1>1. TasksTyped /\ At(k, "toggle") /\ products \in [Sides -> ProductRows]
  BY DEF CatalogueInv, SetAutoSyncPrice, RowsTyped
<1>2. task[k] \in TaskRecords /\ task[k].plan # <<>> /\ Head(task[k].plan) = "toggle"
  BY <1>1, AtStep
<1>3. TasksTyped' /\ (TasksRoute => TasksRoute')
  BY <1>1, <1>2, OnwardKeeps DEF SetAutoSyncPrice
<1>4. s \in Sides /\ task[k].item.up \in BOOLEAN
  BY <1>2, TaskFields
<1>5. row \in ProductRows /\ row.sku = products[s].sku
  <2>1. PICK on \in BOOLEAN : on = task[k].item.up
    BY <1>4
  <2>2. products[s] \in ProductRows
    BY <1>1, <1>4
  <2>3. QED
    BY <2>1, <2>2 DEF ProductRows
<1>6. products' = [products EXCEPT ![s] = row] \/ UNCHANGED products
  BY DEF SetAutoSyncPrice
<1> HIDE DEF row
<1>7. /\ (products \in [Sides -> ProductRows])'
      /\ RowsRoute => (\A x \in Sides : products[x].sku = x)'
  BY <1>1, <1>4, <1>5, <1>6, RowChanged DEF RowsRoute
<1>8. UNCHANGED <<nominal, market, page, mixed, shift, moves, edits>> /\ faults' \in 0 .. MaxFaults
  BY FaultCounted DEF SetAutoSyncPrice, limits
<1>9. QED
  BY <1>3, <1>7, <1>8, ProductsOnly

LEMMA CostKeeps ==
    ASSUME CatalogueInv, NEW k \in Dealers, UpdateCostPrice(k)
    PROVE  CatalogueInv'
<1> DEFINE s == task[k].side
           cost == NewCost(task[k].rows[s], s, task[k].item)
           row == [products[s] EXCEPT !.cost = cost]
<1>1. TasksTyped /\ At(k, "cost") /\ products \in [Sides -> ProductRows]
  BY DEF CatalogueInv, UpdateCostPrice, RowsTyped
<1>2. task[k] \in TaskRecords /\ task[k].plan # <<>> /\ Head(task[k].plan) = "cost"
  BY <1>1, AtStep
<1>3. TasksTyped' /\ (TasksRoute => TasksRoute')
  <2>1. Leaves(k) \/ Onward(k)
    BY DEF UpdateCostPrice
  <2>2. QED
    BY <1>1, <1>2, <2>1, LeavesKeeps, OnwardKeeps
<1>4. s \in Sides /\ cost \in 0 .. MaxPrice
  <2>1. s \in Sides /\ task[k].item.price \in 0 .. MaxPrice /\ 0 \in 0 .. MaxPrice
    BY <1>2, TaskFields, CatalogueAssumption
  <2>2. QED
    BY <2>1 DEF NewCost
<1> HIDE DEF cost
<1>5. row \in ProductRows /\ row.sku = products[s].sku
  <2>1. products[s] \in ProductRows
    BY <1>1, <1>4
  <2>2. QED
    BY <1>4, <2>1 DEF ProductRows
<1>6. products' = [products EXCEPT ![s] = row] \/ UNCHANGED products
  BY DEF UpdateCostPrice, cost
<1> HIDE DEF row
<1>7. /\ (products \in [Sides -> ProductRows])'
      /\ RowsRoute => (\A x \in Sides : products[x].sku = x)'
  BY <1>1, <1>4, <1>5, <1>6, RowChanged DEF RowsRoute
<1>8. UNCHANGED <<nominal, market, page, mixed, shift, moves, edits>> /\ faults' \in 0 .. MaxFaults
  BY FaultCounted DEF UpdateCostPrice, limits
<1>9. QED
  BY <1>3, <1>7, <1>8, ProductsOnly

LEMMA UpdateKeeps ==
    ASSUME CatalogueInv, NEW k \in Dealers, UpdateNominal(k)
    PROVE  CatalogueInv'
<1> DEFINE old == task[k]
<1>1. TasksTyped /\ At(k, "update") /\ nominal \in Nominals /\ mixed \in BOOLEAN
  BY DEF CatalogueInv, UpdateNominal, RowsTyped, RestTyped
<1>2. /\ old \in TaskRecords /\ old.plan # <<>> /\ Head(old.plan) = "update"
      /\ "update" \in StepsLeft(old.plan)
  BY <1>1, AtStep
<1>3. TasksTyped' /\ (TasksRoute => TasksRoute')
  <2>1. Leaves(k) \/ Onward(k)
    BY DEF UpdateNominal
  <2>2. QED
    BY <1>1, <1>2, <2>1, LeavesKeeps, OnwardKeeps
<1>4. faults' \in 0 .. MaxFaults
  BY FaultCounted DEF UpdateNominal
<1>5. UNCHANGED <<products, market, page, shift, moves, edits>>
  BY DEF UpdateNominal, limits
<1>6. CASE UNCHANGED <<nominal, mixed>>
  <2>1. mixed' \in BOOLEAN /\ (mixed => mixed') /\ (nominal \in Nominals)'
        /\ (RowsRoute => Own(nominal)')
    BY <1>1, <1>6 DEF RowsRoute, Own
  <2>2. QED
    BY <1>3, <1>4, <1>5, <2>1, NominalOnly
<1>7. CASE /\ WriteNominal(k, Updated(k))
           /\ mixed' = (mixed \/ (old.kind = "save" /\ old.side = "digi" /\ old.nom.prov = "rival"))
  <2>1. /\ old.nom \in Nominals /\ old.nom.prov \in Sides /\ old.item.price \in 1 .. MaxPrice
        /\ old.item.up \in BOOLEAN
    BY <1>2, TaskFields
  <2>2. "digi" \in Sides /\ TRUE \in BOOLEAN
    BY DEF Sides
  <2>3. \/ /\ old.kind = "auto"
           /\ Updated(k) = [old.nom EXCEPT !.base = [of |-> "digi", at |-> old.item.price],
                                           !.active = old.item.up]
        \/ /\ old.kind = "save" /\ old.side = "digi"
           /\ Updated(k) = [old.nom EXCEPT !.sku = "digi"]
        \/ Updated(k) = [old.nom EXCEPT !.kios = TRUE]
        \/ Updated(k) = old.nom
    <3>1. old.kind = "auto" => Updated(k) = [old.nom EXCEPT !.base = [of |-> "digi", at |-> old.item.price],
                                                            !.active = old.item.up]
      BY DEF Updated
    <3>2. old.kind = "save" /\ old.side = "digi" => Updated(k) = [old.nom EXCEPT !.sku = "digi"]
      BY DEF Updated
    <3>3. old.kind = "kios" \/ (old.kind = "save" /\ old.side # "digi")
             => Updated(k) = [old.nom EXCEPT !.kios = TRUE]
      BY DEF Updated
    <3>4. old.kind \notin {"auto", "save", "kios"} => Updated(k) = old.nom
      BY DEF Updated
    <3>5. QED
      BY <3>1, <3>2, <3>3, <3>4, Zenon
  <2>4. /\ Updated(k) \in Nominals
        /\ ~mixed' /\ TasksRoute => Own(Updated(k))
    <3>1. TasksRoute => Own(old.nom) /\ (old.kind = "auto" => old.nom.prov = "digi")
      BY <1>2 DEF TasksRoute, TaskRoutes
    <3>2. CASE /\ old.kind = "auto"
               /\ Updated(k) = [old.nom EXCEPT !.base = [of |-> "digi", at |-> old.item.price],
                                               !.active = old.item.up]
      <4>1. PICK on \in BOOLEAN : on = old.item.up
        BY <2>1
      <4>2. [of |-> "digi", at |-> old.item.price] \in Prices
        BY <2>1, <2>2 DEF Prices
      <4> DEFINE n == [old.nom EXCEPT !.base = [of |-> "digi", at |-> old.item.price],
                                      !.active = on]
      <4>3. Updated(k) = n
        BY <3>2, <4>1
      <4>4. /\ n \in Nominals /\ n.base.of = "digi"
            /\ n.sku = old.nom.sku /\ n.prov = old.nom.prov
        BY <2>1, <4>2 DEF Nominals
      <4> HIDE DEF n
      <4>5. QED
        BY <3>1, <3>2, <4>3, <4>4 DEF Own
    <3>3. CASE /\ old.kind = "save" /\ old.side = "digi"
               /\ Updated(k) = [old.nom EXCEPT !.sku = "digi"]
      <4>1. /\ Updated(k) \in Nominals /\ Updated(k).base = old.nom.base
            /\ Updated(k).sku = "digi" /\ Updated(k).prov = old.nom.prov
        BY <2>1, <2>2, <3>3 DEF Nominals
      <4>2. ~mixed' => old.nom.prov = "digi"
        BY <1>7, <2>1, <3>3 DEF Sides
      <4>3. QED
        BY <3>1, <4>1, <4>2 DEF Own
    <3>4. CASE Updated(k) = [old.nom EXCEPT !.kios = TRUE]
      <4>1. /\ Updated(k) \in Nominals /\ Updated(k).base = old.nom.base
            /\ Updated(k).sku = old.nom.sku /\ Updated(k).prov = old.nom.prov
        BY <2>1, <2>2, <3>4 DEF Nominals
      <4>2. QED
        BY <3>1, <4>1 DEF Own
    <3>5. CASE Updated(k) = old.nom
      BY <2>1, <3>1, <3>5
    <3>6. QED
      BY <2>3, <3>2, <3>3, <3>4, <3>5
  <2>5. mixed' \in BOOLEAN /\ (mixed => mixed')
    BY <1>1, <1>7
  <2>6. (nominal \in Nominals)' /\ (~mixed' => (RowsRoute /\ TasksRoute => Own(nominal)'))
    BY <1>1, <1>7, <2>4, WriteTyped DEF RowsRoute
  <2>7. QED
    BY <1>3, <1>4, <1>5, <2>5, <2>6, NominalOnly
<1>8. QED
  BY <1>6, <1>7 DEF UpdateNominal

LEMMA RepriceKeeps ==
    ASSUME CatalogueInv, NEW k \in Dealers, Reprice(k)
    PROVE  CatalogueInv'
<1> DEFINE n == task[k].nom
           cost == task[k].rows[n.prov].cost
           written == [n EXCEPT !.base = [of |-> n.prov, at |-> cost]]
<1>1. TasksTyped /\ At(k, "reprice") /\ nominal \in Nominals /\ mixed \in BOOLEAN
  BY DEF CatalogueInv, Reprice, RowsTyped, RestTyped
<1>2. task[k] \in TaskRecords /\ task[k].plan # <<>> /\ Head(task[k].plan) = "reprice"
  BY <1>1, AtStep
<1>3. TasksTyped' /\ (TasksRoute => TasksRoute')
  <2>1. Leaves(k) \/ Onward(k)
    BY DEF Reprice
  <2>2. QED
    BY <1>1, <1>2, <2>1, LeavesKeeps, OnwardKeeps
<1>4. faults' \in 0 .. MaxFaults
  BY FaultCounted DEF Reprice
<1>5. UNCHANGED <<products, market, page, mixed, shift, moves, edits>>
  BY DEF Reprice, limits
<1>6. n \in Nominals /\ n.prov \in Sides /\ cost \in 0 .. MaxPrice
  BY <1>2, TaskFields
<1>7. cost > 0 => written \in Nominals /\ written.base.of = n.prov
                  /\ written.sku = n.sku /\ written.prov = n.prov
  <2>1. cost > 0 => [of |-> n.prov, at |-> cost] \in Prices
    BY <1>6, CatalogueAssumption DEF Prices
  <2>2. QED
    BY <1>6, <2>1 DEF Nominals
<1>8. TasksRoute => Own(n)
  BY DEF TasksRoute, TaskRoutes
<1>9. (cost > 0 /\ WriteNominal(k, written)) \/ UNCHANGED nominal
  BY DEF Reprice
<1> HIDE DEF written, cost
<1>10. (nominal \in Nominals)' /\ (RowsRoute /\ TasksRoute => Own(nominal)')
  BY <1>1, <1>7, <1>8, <1>9, WriteTyped DEF RowsRoute, Own
<1>11. QED
  BY <1>1, <1>3, <1>4, <1>5, <1>10, NominalOnly

LEMMA SwitchKeeps ==
    ASSUME CatalogueInv, NEW k \in Dealers, SwitchNominal(k)
    PROVE  CatalogueInv'
<1> DEFINE s == task[k].side
           row == task[k].rows[s]
           written == SwitchProviderWithPrices(nominal, row, s)
<1>1. TasksTyped /\ At(k, "switch") /\ nominal \in Nominals /\ mixed \in BOOLEAN
  BY DEF CatalogueInv, SwitchNominal, RowsTyped, RestTyped
<1>2. /\ task[k] \in TaskRecords /\ task[k].plan # <<>> /\ Head(task[k].plan) = "switch"
      /\ "switch" \in StepsLeft(task[k].plan) /\ TaskTyped(task[k])
  BY <1>1, AtStep
<1>3. TasksTyped' /\ (TasksRoute => TasksRoute')
  <2>1. Leaves(k) \/ Onward(k)
    BY DEF SwitchNominal
  <2>2. QED
    BY <1>1, <1>2, <2>1, LeavesKeeps, OnwardKeeps
<1>4. faults' \in 0 .. MaxFaults
  BY FaultCounted DEF SwitchNominal
<1>5. UNCHANGED <<products, market, page, mixed, shift, moves, edits>>
  BY DEF SwitchNominal, limits
<1>6. s \in Sides /\ row.sku \in Sides /\ row.cost \in 0 .. MaxPrice /\ row.cost > 0
  BY <1>2, TaskFields DEF TaskTyped
<1>7. written \in Nominals /\ written.base.of = s /\ written.sku = row.sku /\ written.prov = s
  <2>1. [of |-> s, at |-> row.cost] \in Prices
    BY <1>6, CatalogueAssumption DEF Prices
  <2>2. QED
    BY <1>1, <1>6, <2>1 DEF Nominals, SwitchProviderWithPrices
<1>8. TasksRoute => row.sku = s
  BY <1>6 DEF TasksRoute, TaskRoutes
<1>9. WriteNominal(k, written) \/ UNCHANGED nominal
  BY DEF SwitchNominal
<1> HIDE DEF written, row
<1>10. (nominal \in Nominals)' /\ (RowsRoute /\ TasksRoute => Own(nominal)')
  BY <1>1, <1>7, <1>8, <1>9, WriteTyped DEF RowsRoute, Own
<1>11. QED
  BY <1>1, <1>3, <1>4, <1>5, <1>10, NominalOnly

LEMMA InsertNominalKeeps ==
    ASSUME CatalogueInv, NEW k \in Dealers, CreateNominal(k)
    PROVE  CatalogueInv'
<1> DEFINE old == task[k]
<1>1. TasksTyped /\ At(k, "insert") /\ nominal \in Nominals /\ mixed \in BOOLEAN
  BY DEF CatalogueInv, CreateNominal, RowsTyped, RestTyped
<1>2. /\ old \in TaskRecords /\ old.plan # <<>> /\ "insert" \in StepsOf(old.kind)
      /\ TaskTyped(old)
  BY <1>1, AtStep
<1>3. /\ old.kind \in Work /\ old.kind \notin {"auto", "switch"}
      /\ "switch" \notin StepsLeft(Tail(old.plan)) /\ Tail(old.plan) \in Seq(WorkSteps)
      /\ StepsLeft(Tail(old.plan)) \subseteq StepsOf(old.kind)
  <2>1. old.kind \in Work /\ old.plan \in Seq(WorkSteps)
    BY <1>2 DEF TaskRecords
  <2>2. old.kind \notin {"auto", "switch"}
    BY <1>2 DEF StepsOf
  <2>3. QED
    BY <1>2, <2>1, <2>2, PlanTail, OwnSteps DEF TaskTyped
<1>4. faults' \in 0 .. MaxFaults
  BY FaultCounted DEF CreateNominal
<1>5. UNCHANGED <<products, market, page, mixed, shift, moves, edits>>
  BY DEF CreateNominal, limits
<1>6. CASE Leaves(k) /\ UNCHANGED nominal
  <2>1. (nominal \in Nominals)' /\ (RowsRoute => Own(nominal)')
    BY <1>1, <1>6 DEF RowsRoute, Own
  <2>2. QED
    BY <1>1, <1>4, <1>5, <1>6, <2>1, LeavesKeeps, NominalOnly
<1>7. CASE \E s \in Sides, price \in 1 .. MaxPrice :
             LET n == [FirstNominal EXCEPT !.prov = s, !.sku = s, !.base = [of |-> s, at |-> price]]
             IN /\ nominal' = n
                /\ task' = [task EXCEPT ![k].nom = n, ![k].side = s, ![k].plan = Tail(@)]
  <2>1. PICK s \in Sides, price \in 1 .. MaxPrice :
             LET n == [FirstNominal EXCEPT !.prov = s, !.sku = s, !.base = [of |-> s, at |-> price]]
             IN /\ nominal' = n
                /\ task' = [task EXCEPT ![k].nom = n, ![k].side = s, ![k].plan = Tail(@)]
    BY <1>7
  <2> DEFINE n == [FirstNominal EXCEPT !.prov = s, !.sku = s, !.base = [of |-> s, at |-> price]]
             t == [old EXCEPT !.nom = n, !.side = s, !.plan = Tail(old.plan)]
  <2>2. n \in Nominals /\ n.prov = s /\ Own(n)
    <3>1. [of |-> s, at |-> price] \in Prices
      BY DEF Prices
    <3>2. QED
      BY <3>1, FirstTyped DEF Nominals, Own
  <2>3. nominal' = n /\ task' = [task EXCEPT ![k] = t]
    <3>1. nominal' = n
      BY <2>1
    <3>2. task' = [task EXCEPT ![k].nom = n, ![k].side = s, ![k].plan = Tail(@)]
      BY <2>1
    <3> HIDE DEF n
    <3>3. QED
      BY <1>1, <1>2, <3>1, <3>2 DEF TasksTyped, TaskRecords
  <2> HIDE DEF n
  <2>4. /\ t \in TaskRecords /\ t.kind = old.kind /\ t.side = s
        /\ t.nom = n /\ t.rows = old.rows /\ t.plan = Tail(old.plan)
    BY <1>2, <1>3, <2>2 DEF TaskRecords
  <2>5. TaskTyped(t)
    BY <1>3, <2>4 DEF TaskTyped
  <2>6. TasksRoute => TaskRoutes(t)
    BY <1>3, <2>2, <2>4 DEF TaskRoutes, TasksRoute
  <2> HIDE DEF t
  <2>7. TasksTyped' /\ (TasksRoute => TasksRoute')
    BY <1>1, <2>3, <2>5, <2>6, OneTask
  <2>8. (nominal \in Nominals)' /\ Own(nominal)'
    BY <2>2, <2>3 DEF Own
  <2>9. QED
    BY <1>1, <1>4, <1>5, <2>7, <2>8, NominalOnly
<1>8. QED
  BY <1>6, <1>7 DEF CreateNominal

LEMMA DeleteRowsKeeps ==
    ASSUME CatalogueInv, NEW k \in Dealers, DeleteByNominalID(k)
    PROVE  CatalogueInv'
<1>1. TasksTyped /\ At(k, "unlink") /\ products \in [Sides -> ProductRows]
  BY DEF CatalogueInv, DeleteByNominalID, RowsTyped
<1>2. task[k].plan # <<>> /\ Head(task[k].plan) = "unlink"
  BY <1>1, AtStep
<1>3. TasksTyped' /\ (TasksRoute => TasksRoute')
  BY <1>1, <1>2, OnwardKeeps DEF DeleteByNominalID
<1>4. ASSUME NEW s \in Sides
      PROVE  /\ [products[s] EXCEPT !.state = "deleted"] \in ProductRows
             /\ [products[s] EXCEPT !.state = "deleted"].sku = products[s].sku
  <2>1. products[s] \in ProductRows
    BY <1>1
  <2>2. QED
    BY <2>1 DEF ProductRows
<1>5. products' = [s \in Sides |-> IF Live(products[s]) THEN [products[s] EXCEPT !.state = "deleted"]
                                   ELSE products[s]]
  BY DEF DeleteByNominalID
<1>6. /\ (products \in [Sides -> ProductRows])'
      /\ RowsRoute => (\A x \in Sides : products[x].sku = x)'
  BY <1>1, <1>4, <1>5 DEF RowsRoute
<1>7. UNCHANGED <<nominal, market, page, mixed, shift, moves, edits>> /\ faults' \in 0 .. MaxFaults
  BY FaultCounted DEF DeleteByNominalID, limits
<1>8. QED
  BY <1>3, <1>6, <1>7, ProductsOnly

LEMMA DeleteNominalKeeps ==
    ASSUME CatalogueInv, NEW k \in Dealers, DeleteNominal(k)
    PROVE  CatalogueInv'
<1>1. /\ TasksTyped /\ At(k, "remove") /\ nominal \in Nominals /\ mixed \in BOOLEAN
  BY DEF CatalogueInv, DeleteNominal, RowsTyped, RestTyped
<1>2. task[k].plan # <<>> /\ Head(task[k].plan) = "remove"
  BY <1>1, AtStep
<1>3. TasksTyped' /\ (TasksRoute => TasksRoute')
  BY <1>1, <1>2, OnwardKeeps DEF DeleteNominal
<1>4. (nominal \in Nominals)' /\ (RowsRoute => Own(nominal)')
  BY <1>1 DEF DeleteNominal, RowsRoute, Own, Nominals
<1>5. UNCHANGED <<products, market, page, mixed, shift, moves, edits>> /\ faults' \in 0 .. MaxFaults
  BY FaultCounted DEF DeleteNominal, limits
<1>6. QED
  BY <1>1, <1>3, <1>4, <1>5, NominalOnly

LEMMA ImportKeeps ==
    ASSUME CatalogueInv, NEW k \in Dealers, UpsertFromDigiflazz(k)
    PROVE  CatalogueInv'
<1> DEFINE item == task[k].item
           written == [nominal EXCEPT !.base = [of |-> "digi", at |-> item.price], !.active = item.up]
<1>1. /\ TasksTyped /\ At(k, "saveAll") /\ nominal \in Nominals /\ mixed \in BOOLEAN
  BY DEF CatalogueInv, UpsertFromDigiflazz, RowsTyped, RestTyped
<1>2. task[k] \in TaskRecords /\ task[k].plan # <<>> /\ Head(task[k].plan) = "saveAll"
  BY <1>1, AtStep
<1>3. TasksTyped' /\ (TasksRoute => TasksRoute')
  <2>1. Leaves(k) \/ Onward(k)
    BY DEF UpsertFromDigiflazz
  <2>2. QED
    BY <1>1, <1>2, <2>1, LeavesKeeps, OnwardKeeps
<1>4. faults' \in 0 .. MaxFaults
  BY FaultCounted DEF UpsertFromDigiflazz
<1>5. UNCHANGED <<products, market, page, mixed, shift, moves, edits>>
  BY DEF UpsertFromDigiflazz, limits
<1>6. /\ written \in Nominals /\ written.base.of = "digi"
      /\ written.sku = nominal.sku /\ written.prov = nominal.prov
  <2>1. item.price \in 1 .. MaxPrice /\ item.up \in BOOLEAN
    BY <1>2, TaskFields
  <2>2. PICK on \in BOOLEAN : on = item.up
    BY <2>1
  <2>3. [of |-> "digi", at |-> item.price] \in Prices
    BY <2>1 DEF Prices, Sides
  <2>4. written = [nominal EXCEPT !.base = [of |-> "digi", at |-> item.price], !.active = on]
    BY <2>2
  <2>5. QED
    BY <1>1, <2>3, <2>4 DEF Nominals
<1>7. (nominal.prov = "digi" /\ nominal' = written) \/ UNCHANGED nominal
  BY DEF UpsertFromDigiflazz
<1> HIDE DEF written
<1>8. (nominal \in Nominals)' /\ (RowsRoute => Own(nominal)')
  BY <1>1, <1>6, <1>7 DEF RowsRoute, Own
<1>9. QED
  BY <1>1, <1>3, <1>4, <1>5, <1>8, NominalOnly

\* The cache, the price lists and the process.
LEMMA PageOnly ==
    ASSUME CatalogueInv, UNCHANGED <<nominal, products, mixed, shift>>,
           market' \in [Sides -> Offers], page' \in Pages,
           moves' \in 0 .. MaxMoves, edits' \in 0 .. MaxEdits, faults' \in 0 .. MaxFaults,
           TasksTyped', TasksRoute => TasksRoute'
    PROVE  CatalogueInv'
  BY DEF CatalogueInv, RowsTyped, RestTyped, RowsRoute

LEMMA NoPageTyped == NoPage \in Pages
  BY CatalogueAssumption DEF NoPage, Pages, Prices, Sides

LEMMA TaskUnchanged ==
    ASSUME TasksTyped, UNCHANGED task
    PROVE  TasksTyped' /\ (TasksRoute => TasksRoute')
  BY DEF TasksTyped, TasksRoute

LEMMA CacheKeeps ==
    ASSUME CatalogueInv, NEW k \in Dealers,
           invalidateGameCache(k) \/ FillPage(k) \/ Close(k)
    PROVE  CatalogueInv'
<1>1. TasksTyped /\ page \in Pages
  BY DEF CatalogueInv, RestTyped
<1>2. /\ UNCHANGED <<nominal, products, market, mixed, shift, moves, edits, faults>>
      /\ market \in [Sides -> Offers] /\ moves \in 0 .. MaxMoves /\ edits \in 0 .. MaxEdits
      /\ faults \in 0 .. MaxFaults
  BY DEF invalidateGameCache, FillPage, Close, limits, CatalogueInv, RestTyped
<1>3. CASE invalidateGameCache(k)
  <2>1. task[k].plan # <<>> /\ Head(task[k].plan) = "drop"
    BY <1>3 DEF invalidateGameCache, At
  <2>2. Onward(k) /\ page' = NoPage
    BY <1>3 DEF invalidateGameCache
  <2>3. TasksTyped' /\ (TasksRoute => TasksRoute')
    BY <1>1, <2>1, <2>2, OnwardKeeps
  <2>4. QED
    BY <1>2, <2>2, <2>3, NoPageTyped, PageOnly
<1>4. CASE FillPage(k)
  <2>1. Leaves(k) /\ page' = [base |-> task[k].nom.base, active |-> task[k].nom.active]
        /\ At(k, "fill")
    BY <1>4 DEF FillPage
  <2>2. task[k].nom \in Nominals
    BY <1>1, <2>1, AtStep, TaskFields
  <2>3. page' \in Pages
    <3>1. PICK on \in BOOLEAN : on = task[k].nom.active
      BY <2>2 DEF Nominals
    <3>2. task[k].nom.base \in Prices
      BY <2>2 DEF Nominals
    <3>3. QED
      BY <2>1, <3>1, <3>2 DEF Pages
  <2>4. TasksTyped' /\ (TasksRoute => TasksRoute')
    BY <1>1, <2>1, LeavesKeeps
  <2>5. QED
    BY <1>2, <2>3, <2>4, PageOnly
<1>5. CASE Close(k)
  <2>1. Leaves(k) /\ UNCHANGED page
    BY <1>5 DEF Close
  <2>2. TasksTyped' /\ (TasksRoute => TasksRoute')
    BY <1>1, <2>1, LeavesKeeps
  <2>3. QED
    BY <1>1, <1>2, <2>1, <2>2, PageOnly
<1>6. QED
  BY <1>3, <1>4, <1>5

LEMMA UnmapKeeps ==
    ASSUME CatalogueInv, NEW s \in Sides, Unmap(s)
    PROVE  CatalogueInv'
<1>1. products \in [Sides -> ProductRows] /\ TasksTyped
  BY DEF CatalogueInv, RowsTyped
<1>2. products[s] \in ProductRows
  BY <1>1
<1>3. /\ [products[s] EXCEPT !.state = "deleted"] \in ProductRows
      /\ [products[s] EXCEPT !.state = "deleted"].sku = products[s].sku
  BY <1>2 DEF ProductRows
<1>4. products' = [products EXCEPT ![s] = [products[s] EXCEPT !.state = "deleted"]]
  BY <1>1 DEF Unmap
<1>5. /\ (products \in [Sides -> ProductRows])'
      /\ RowsRoute => (\A x \in Sides : products[x].sku = x)'
  BY <1>1, <1>3, <1>4, RowChanged DEF RowsRoute
<1>6. UNCHANGED <<nominal, market, page, mixed, shift, moves, faults>>
  BY DEF Unmap, limits
<1>7. TasksTyped' /\ (TasksRoute => TasksRoute')
  BY <1>1, TaskUnchanged DEF Unmap
<1>8. edits' \in 0 .. MaxEdits
  BY CatalogueAssumption DEF Unmap, CatalogueInv, RestTyped
<1>9. QED
  BY <1>5, <1>6, <1>7, <1>8 DEF CatalogueInv, RowsTyped, RestTyped, RowsRoute

LEMMA OutsideKeeps ==
    ASSUME CatalogueInv, Expire \/ RestartShop \/ \E s \in Sides : MoveMarket(s)
    PROVE  CatalogueInv'
<1>1. /\ TasksTyped /\ page \in Pages /\ market \in [Sides -> Offers]
      /\ moves \in 0 .. MaxMoves /\ edits \in 0 .. MaxEdits /\ faults \in 0 .. MaxFaults
  BY DEF CatalogueInv, RestTyped
<1>2. UNCHANGED <<nominal, products, mixed, shift, edits>>
  BY DEF Expire, RestartShop, MoveMarket, limits
<1>3. CASE Expire
  <2>1. page' = NoPage /\ UNCHANGED <<task, market, moves, faults>>
    BY <1>3 DEF Expire, limits
  <2>2. QED
    BY <1>1, <1>2, <2>1, NoPageTyped, TaskUnchanged, PageOnly
<1>4. CASE RestartShop
  <2>1. page' = NoPage /\ UNCHANGED <<market, moves>> /\ task' = [d \in Dealers |-> IdleTask]
    BY <1>4 DEF RestartShop, limits
  <2>2. faults' \in 0 .. MaxFaults
    BY <1>4, FaultCounted DEF RestartShop
  <2>3. TasksTyped' /\ TasksRoute'
    BY <2>1, IdleTaskGood DEF TasksTyped, TasksRoute
  <2>4. QED
    BY <1>1, <1>2, <2>1, <2>2, <2>3, NoPageTyped, PageOnly
<1>5. CASE \E s \in Sides : MoveMarket(s)
  <2>1. PICK s \in Sides : MoveMarket(s)
    BY <1>5
  <2>2. moves' \in 0 .. MaxMoves
    BY <1>1, <2>1, CatalogueAssumption DEF MoveMarket
  <2>3. market' \in [Sides -> Offers]
    <3>1. PICK offer \in Offers : market' = [market EXCEPT ![s] = offer]
      BY <2>1 DEF MoveMarket
    <3>2. QED
      BY <1>1, <3>1
  <2>4. UNCHANGED <<page, task, faults>>
    BY <2>1 DEF MoveMarket
  <2>5. QED
    BY <1>1, <1>2, <2>2, <2>3, <2>4, TaskUnchanged, PageOnly
<1>6. QED
  BY <1>3, <1>4, <1>5

LEMMA CatalogueStarts ==
    ASSUME CatalogueInit
    PROVE  CatalogueInv
<1>1. /\ market = [s \in Sides |-> [price |-> 1, up |-> TRUE]] /\ page = NoPage
      /\ task = [d \in Dealers |-> IdleTask] /\ mixed = FALSE /\ shift \in Shifts
      /\ moves = 0 /\ edits = 0 /\ faults = 0
  BY DEF CatalogueInit
<1>2. RestTyped
  <2>1. market \in [Sides -> Offers] /\ page \in Pages /\ mixed \in BOOLEAN
    BY <1>1, NoPageTyped, FirstTyped
  <2>2. moves \in 0 .. MaxMoves /\ edits \in 0 .. MaxEdits /\ faults \in 0 .. MaxFaults
    BY <1>1, CatalogueAssumption
  <2>3. QED
    BY <1>1, <2>1, <2>2 DEF RestTyped
<1>3. TasksTyped /\ TasksRoute
  BY <1>1, IdleTaskGood DEF TasksTyped, TasksRoute
<1>4. /\ [FirstNominal EXCEPT !.state = "new"] \in Nominals
      /\ Own([FirstNominal EXCEPT !.state = "new"])
  BY FirstTyped DEF Nominals, Own
<1>5. /\ nominal \in {FirstNominal, [FirstNominal EXCEPT !.state = "new"]}
      /\ products \in {[s \in Sides |-> Row(s)], [s \in Sides |-> NoRow(s)]}
  BY DEF CatalogueInit
<1>6. RowsTyped /\ RowsRoute
  BY <1>4, <1>5, FirstTyped DEF RowsTyped, RowsRoute
<1>7. QED
  BY <1>2, <1>3, <1>6 DEF CatalogueInv

LEMMA CatalogueInvStep ==
    ASSUME CatalogueInv, [CatalogueNext]_catalogueVars
    PROVE  CatalogueInv'
<1>1. ASSUME NEW d \in Dealers, NEW k \in Work, NEW s \in Sides, Open(d, k, s)
      PROVE  CatalogueInv'
  BY <1>1, OpenKeeps
<1>2. ASSUME NEW s \in Sides, Unmap(s) \/ MoveMarket(s)
      PROVE  CatalogueInv'
  BY <1>2, UnmapKeeps, OutsideKeeps
<1>3. ASSUME NEW d \in Dealers, DealerStep(d)
      PROVE  CatalogueInv'
  BY <1>3, ReadKeeps, RereadKeeps, UpsertKeeps, ToggleKeeps, CostKeeps, UpdateKeeps, RepriceKeeps,
     SwitchKeeps, InsertNominalKeeps, DeleteRowsKeeps, DeleteNominalKeeps, ImportKeeps, CacheKeeps
  DEF DealerStep
<1>4. CASE Expire \/ RestartShop
  BY <1>4, OutsideKeeps
<1>5. CASE UNCHANGED catalogueVars
  BY <1>5 DEF catalogueVars, CatalogueInv, RowsTyped, RestTyped, TasksTyped, RowsRoute, TasksRoute
<1>6. QED
  BY <1>1, <1>2, <1>3, <1>4, <1>5 DEF CatalogueNext

LEMMA CatalogueInvGives ==
    ASSUME CatalogueInv
    PROVE  CatalogueTypeOK /\ RouteIsOwn
<1>1. CatalogueTypeOK
  <2>1. \A k \in Dealers : task[k] \in TaskRecords
    BY DEF CatalogueInv, TasksTyped, TaskTyped
  <2>2. task \in [Dealers -> TaskRecords]
    BY <2>1 DEF CatalogueInv, TasksTyped
  <2>3. QED
    BY <2>2 DEF CatalogueTypeOK, CatalogueInv, RowsTyped, RestTyped, TaskRecords
<1>2. RouteIsOwn
  <2>1. nominal.prov \in {"digi", "rival"}
    BY DEF CatalogueInv, RowsTyped, Nominals, Sides
  <2>2. ASSUME ~mixed
        PROVE  /\ nominal.sku = nominal.prov /\ nominal.base.of = nominal.prov
               /\ products[nominal.prov].sku = nominal.prov
    BY <2>1, <2>2 DEF CatalogueInv, RowsRoute, Own, Sides
  <2>3. ASSUME ~mixed
        PROVE  ResolveProductCode(nominal, products) \in {nominal.prov, "none"}
    BY <2>1, <2>2, <2>3 DEF ResolveProductCode
  <2>4. QED
    BY <2>2, <2>3 DEF RouteIsOwn
<1>3. QED
  BY <1>1, <1>2

\* Whatever synchronisations, admins, failing statements and restarts write over
\* each other, a nominal is bought with an SKU of the provider it is bought at
\* and its price is made of that provider's cost, unless Digiflazz' SKU was
\* saved by hand while a rival was active.
THEOREM RouteStaysOwn == CatalogueInit /\ [][CatalogueNext]_catalogueVars => []RouteIsOwn
<1>1. CatalogueInit => CatalogueInv
  BY CatalogueStarts
<1>2. CatalogueInv /\ [CatalogueNext]_catalogueVars => CatalogueInv'
  BY CatalogueInvStep
<1>3. CatalogueInv => RouteIsOwn
  BY CatalogueInvGives
<1>4. QED
  BY <1>1, <1>2, <1>3, PTL
-------------------------------------------------------------------------------
(* The session at Kiosgamer: every call is typed, one holds mu, and where   *)
(* keys live on an order of the shop belongs to one transaction.           *)

CallRecords == [kind : CallKinds, at : CallSteps, round : 1 .. 2, copy : Credentials,
                ord : Goods, id : 0 .. MaxItems]
ItemRecords == [ord : Goods, state : {"open", "done", "failed"}]
SaleRecords == [id : 0 .. MaxItems, status : {"open", "hold", "pending", "success", "failed"}]

\* Which kinds of calls come to which steps.
OrderSteps == {"tx", "txSwap", "txStore", "pay", "poll", "history"}
OnItsWay(t) ==
    /\ t.at \in OrderSteps => t.kind \in {"buy", "ask"}
    /\ t.at \in {"load", "ping", "note"} => t.kind \notin {"recover", "save"}
    /\ t.at \in {"lock", "swap", "giveUp", "store"} => t.kind # "save"

KeysTyped ==
    /\ credential \in Credentials
    /\ jar \in Tokens \cup {0}
    /\ accepted \subseteq Tokens /\ IsFiniteSet(accepted)
TradeTyped ==
    /\ items \in Seq(ItemRecords) /\ Len(items) <= MaxItems
    /\ sale \in [Goods -> SaleRecords]
MuTyped ==
    /\ login \in BOOLEAN /\ recent \in BOOLEAN
    /\ holder = {} \/ \E k \in Callings : holder = {k}
    /\ crew \in Crews
    /\ troubles \in 0 .. MaxTroubles
CallsTyped ==
    /\ calling \in [Callings -> CallRecords]
    /\ \A k \in Callings : OnItsWay(calling[k])

\* Where keys live on there is only one: a call that is past its start sees it
\* in the jar and carries it.
Carries(t) == t.at \in {"ping", "note", "swap", "giveUp", "persistWrite", "saveWrite"} => t.copy.key = 1
Past(t) == t.at \notin {"idle", "load", "lock"}
KeysLast ==
    /\ accepted = {1} /\ credential.key = 1 /\ jar \in {0, 1}
    /\ \A k \in Callings : Carries(calling[k]) /\ (Past(calling[k]) => jar = 1)

\* The orders of a transaction at the shop, those of them that may deliver, and
\* the call that works on it: it knows the order the transaction knows, and one
\* it just bought.  No other order than the known one may deliver.
OwnItems(o) == {i \in DOMAIN items : items[i].ord = o}
LiveItems(o) == {i \in OwnItems(o) : items[i].state # "failed"}
Covers(o, id) ==
    /\ id = 0 => LiveItems(o) = {}
    /\ id # 0 => id \in OwnItems(o) /\ LiveItems(o) \subseteq {id}
WorksOn(t, o) == t.kind \in {"buy", "ask"} /\ t.ord = o
Works(k, o) == WorksOn(calling[k], o)
FitsOrder(t, o) ==
    /\ t.at # "history"
    /\ t.at = "poll" => t.id # 0 /\ Covers(o, t.id)
    /\ t.at # "poll" \/ t.kind = "ask" => t.id = sale[o].id
    /\ t.kind = "ask" => t.id # 0
    /\ t.at \in {"tx", "txSwap", "txStore", "pay"} => t.id = 0
    /\ sale[o].status \notin {"success", "failed"}

OneWorker(o) == \A k, l \in Callings : Works(k, o) /\ Works(l, o) => k = l
WorkersFit(o) == \A k \in Callings : Works(k, o) => FitsOrder(calling[k], o)
ItemKnown(o) ==
    \/ Covers(o, sale[o].id)
    \/ sale[o].id = 0 /\ \E k \in Callings : Works(k, o) /\ calling[k].at = "poll"
HearsItsEnd(o) ==
    /\ sale[o].status = "success" => OwnItems(o) # {}
    /\ sale[o].status = "failed" => LiveItems(o) = {}
OrderOwn(o) == OneWorker(o) /\ WorkersFit(o) /\ ItemKnown(o) /\ HearsItsEnd(o)

SessionInv ==
    /\ KeysTyped /\ TradeTyped /\ MuTyped /\ CallsTyped
    /\ crew \in Lasting => KeysLast
    /\ crew \in Lasting => \A o \in Steady \ Looked : OrderOwn(o)

LEMMA CopyTyped ==
    ASSUME NEW t \in CallRecords
    PROVE  /\ t.kind \in CallKinds /\ t.copy \in Credentials /\ t.copy.key \in Tokens \cup {0}
           /\ t.ord \in Goods /\ t.id \in 0 .. MaxItems /\ t.round \in 1 .. 2 /\ t.at \in CallSteps
<1>1. t.copy \in Credentials
  BY DEF CallRecords
<1>2. QED
  BY <1>1 DEF CallRecords, Credentials

LEMMA IdleCallTyped ==
    /\ IdleCall \in CallRecords /\ IdleCall.kind = "check" /\ IdleCall.at = "idle"
    /\ OnItsWay(IdleCall) /\ Carries(IdleCall) /\ ~Past(IdleCall)
    /\ \A o : ~WorksOn(IdleCall, o)
<1>1. AnyGood \in Goods
  BY KiosgamerAssumption DEF AnyGood
<1>2. NoCopy \in Credentials
  BY DEF NoCopy, Credentials, Statuses
<1>3. 0 \in 0 .. MaxItems /\ 1 \in 1 .. 2
  BY KiosgamerAssumption
<1>4. "check" \in CallKinds /\ "idle" \in CallSteps
  BY DEF CallKinds, CallSteps
<1>5. IdleCall \in CallRecords /\ IdleCall.kind = "check" /\ IdleCall.at = "idle"
  BY <1>1, <1>2, <1>3, <1>4 DEF IdleCall, CallRecords
<1>6. QED
  BY <1>5 DEF OnItsWay, Carries, Past, WorksOn, OrderSteps

\* One call changes.
LEMMA OneCall ==
    ASSUME CallsTyped, NEW k \in Callings, NEW t \in CallRecords, OnItsWay(t),
           calling' = [calling EXCEPT ![k] = t]
    PROVE  CallsTyped' /\ \A l \in Callings : calling'[l] = IF l = k THEN t ELSE calling[l]
<1>1. \A l \in Callings : calling'[l] = IF l = k THEN t ELSE calling[l]
  BY DEF CallsTyped
<1>2. calling' \in [Callings -> CallRecords]
  BY DEF CallsTyped
<1>3. QED
  BY <1>1, <1>2 DEF CallsTyped

\* ... and so do its steps only.
LEMMA OneStep ==
    ASSUME CallsTyped, NEW k \in Callings, NEW step \in CallSteps,
           OnItsWay([calling[k] EXCEPT !.at = step])
    PROVE  LET t == [calling[k] EXCEPT !.at = step]
           IN /\ t \in CallRecords /\ t.at = step
              /\ t.kind = calling[k].kind /\ t.ord = calling[k].ord /\ t.id = calling[k].id
              /\ t.copy = calling[k].copy
              /\ Goes(k, step) => calling' = [calling EXCEPT ![k] = t]
<1>1. calling[k] \in CallRecords
  BY DEF CallsTyped
<1>2. QED
  BY <1>1 DEF CallRecords, Goes

\* The keys after a call changed.
LEMMA KeysKept ==
    ASSUME KeysLast, CallsTyped, NEW k \in Callings, NEW t \in CallRecords, OnItsWay(t),
           calling' = [calling EXCEPT ![k] = t],
           accepted' = {1}, credential'.key = 1, jar' \in {jar, 1},
           Carries(t), Past(t) => jar' = 1
    PROVE  KeysLast'
<1>1. \A l \in Callings : calling'[l] = IF l = k THEN t ELSE calling[l]
  BY OneCall
<1>2. QED
  BY <1>1 DEF KeysLast

\* The orders after a call changed that brought nothing from the shop: it works
\* on the same order in a step that fits, or on none any more.
LEMMA WorkerMoves ==
    ASSUME CallsTyped, NEW o \in Goods, OrderOwn(o), NEW k \in Callings, NEW t \in CallRecords,
           OnItsWay(t), calling' = [calling EXCEPT ![k] = t],
           UNCHANGED <<items, sale>>,
           Works(k, o) => calling[k].at # "poll" \/ sale[o].id # 0,
           WorksOn(t, o) => Works(k, o) \/ (\A l \in Callings : ~Works(l, o)),
           WorksOn(t, o) => FitsOrder(t, o)
    PROVE  OrderOwn(o)'
<1>1. \A l \in Callings : calling'[l] = IF l = k THEN t ELSE calling[l]
  BY OneCall
<1>2. \A l \in Callings : Works(l, o)' <=> IF l = k THEN WorksOn(t, o) ELSE Works(l, o)
  BY <1>1 DEF Works, WorksOn
<1>3. OwnItems(o)' = OwnItems(o) /\ LiveItems(o)' = LiveItems(o) /\ sale'[o] = sale[o]
  BY DEF OwnItems, LiveItems
<1>4. OneWorker(o)'
  BY <1>2 DEF OrderOwn, OneWorker
<1>5. WorkersFit(o)'
  <2>1. ASSUME NEW l \in Callings, Works(l, o)'
        PROVE  FitsOrder(calling[l], o)'
    <3>1. FitsOrder(calling'[l], o)
      BY <1>1, <1>2, <2>1 DEF OrderOwn, WorkersFit
    <3>2. QED
      BY <1>3, <3>1 DEF FitsOrder, Covers
  <2>2. QED
    BY <2>1 DEF WorkersFit
<1>6. ItemKnown(o)'
  <2>1. ASSUME sale[o].id = 0, ~Covers(o, sale[o].id)
        PROVE  \E l \in Callings : Works(l, o)' /\ calling'[l].at = "poll"
    <3>1. PICK l \in Callings : Works(l, o) /\ calling[l].at = "poll"
      BY <2>1 DEF OrderOwn, ItemKnown
    <3>2. l # k
      BY <2>1, <3>1
    <3>3. QED
      BY <1>1, <1>2, <3>1, <3>2
  <2>2. QED
    BY <1>3, <2>1 DEF OrderOwn, ItemKnown, Covers
<1>7. HearsItsEnd(o)'
  BY <1>3 DEF OrderOwn, HearsItsEnd
<1>8. QED
  BY <1>4, <1>5, <1>6, <1>7 DEF OrderOwn

\* The order of another transaction: what a call brings for its own is nothing to it.
LEMMA OthersOrder ==
    ASSUME CallsTyped, NEW o \in Goods, OrderOwn(o), NEW k \in Callings, NEW t \in CallRecords,
           OnItsWay(t), calling' = [calling EXCEPT ![k] = t],
           ~Works(k, o), ~WorksOn(t, o),
           sale'[o] = sale[o], OwnItems(o)' = OwnItems(o),
           \A i \in OwnItems(o) : items'[i].state = items[i].state
    PROVE  OrderOwn(o)'
<1>0. LiveItems(o)' = LiveItems(o)
  BY DEF LiveItems
<1>1. \A l \in Callings : calling'[l] = IF l = k THEN t ELSE calling[l]
  BY OneCall
<1>2. \A l \in Callings : Works(l, o)' <=> (l # k /\ Works(l, o))
  BY <1>1 DEF Works, WorksOn
<1>3. OneWorker(o)'
  BY <1>2 DEF OrderOwn, OneWorker
<1>4. WorkersFit(o)'
  <2>1. ASSUME NEW l \in Callings, Works(l, o)'
        PROVE  FitsOrder(calling[l], o)'
    <3>1. FitsOrder(calling'[l], o)
      BY <1>1, <1>2, <2>1 DEF OrderOwn, WorkersFit
    <3>2. QED
      BY <1>0, <3>1 DEF FitsOrder, Covers
  <2>2. QED
    BY <2>1 DEF WorkersFit
<1>5. ItemKnown(o)'
  <2>1. ASSUME sale[o].id = 0, ~Covers(o, sale[o].id)
        PROVE  \E l \in Callings : Works(l, o)' /\ calling'[l].at = "poll"
    <3>1. PICK l \in Callings : Works(l, o) /\ calling[l].at = "poll"
      BY <2>1 DEF OrderOwn, ItemKnown
    <3>2. l # k
      BY <3>1
    <3>3. QED
      BY <1>1, <1>2, <3>1, <3>2
  <2>2. QED
    BY <1>0, <2>1 DEF OrderOwn, ItemKnown, Covers
<1>6. HearsItsEnd(o)'
  BY <1>0 DEF OrderOwn, HearsItsEnd
<1>7. QED
  BY <1>3, <1>4, <1>5, <1>6 DEF OrderOwn

\* A call that worked on an order ends and the transaction hears of it.
LEMMA WorkerEnds ==
    ASSUME CallsTyped, NEW o \in Goods, OrderOwn(o), sale \in [Goods -> SaleRecords],
           NEW k \in Callings, EndsCall(k), Works(k, o), UNCHANGED items,
           NEW id, NEW status, Knows(k, id, status),
           Covers(o, id),
           status = "success" => OwnItems(o) # {},
           status = "failed" => LiveItems(o) = {}
    PROVE  OrderOwn(o)'
<1>1. \A l \in Callings : calling'[l] = IF l = k THEN IdleCall ELSE calling[l]
  BY OneCall, IdleCallTyped DEF EndsCall
<1>2. \A l \in Callings : ~Works(l, o)'
  <2>1. \A l \in Callings : Works(l, o) => l = k
    BY DEF OrderOwn, OneWorker
  <2>2. QED
    BY <1>1, <2>1, IdleCallTyped DEF Works, WorksOn
<1>3. calling[k].ord = o
  BY DEF Works, WorksOn
<1>4. sale'[o].id = id /\ sale'[o].status = status
  BY <1>3 DEF Knows
<1>5. OwnItems(o)' = OwnItems(o) /\ LiveItems(o)' = LiveItems(o)
  BY DEF OwnItems, LiveItems
<1>6. QED
  BY <1>2, <1>4, <1>5 DEF OrderOwn, OneWorker, WorkersFit, ItemKnown, HearsItsEnd, Covers

\* What a step leaves of the keys and of mu; where keys live on it finds one.
Lasts == crew \in Lasting
SessionAfter ==
    /\ KeysTyped' /\ MuTyped' /\ crew' = crew
    /\ Lasts => accepted' = {1} /\ credential'.key = 1 /\ jar' \in {jar, 1}
FollowsKeys(t) == Lasts => Carries(t) /\ (Past(t) => jar' = 1)

\* A call in its next step, t, is right for the transactions.
GoesRight(k, t) ==
    Lasts => \A o \in Steady \ Looked :
        /\ Works(k, o) => calling[k].at # "poll" \/ sale[o].id # 0
        /\ WorksOn(t, o) => /\ Works(k, o) \/ (\A l \in Callings : ~Works(l, o))
                            /\ FitsOrder(t, o)

LEMMA QuietStep ==
    ASSUME SessionInv, NEW k \in Callings, NEW t \in CallRecords, OnItsWay(t),
           calling' = [calling EXCEPT ![k] = t], UNCHANGED <<items, sale>>,
           SessionAfter, FollowsKeys(t), GoesRight(k, t)
    PROVE  SessionInv'
<1>1. CallsTyped /\ TradeTyped /\ CallsTyped' /\ TradeTyped'
  BY OneCall DEF SessionInv, TradeTyped
<1>2. Lasts => KeysLast'
  BY <1>1, KeysKept DEF SessionInv, SessionAfter, FollowsKeys, Lasts
<1>3. ASSUME Lasts, NEW o \in Steady \ Looked
      PROVE  OrderOwn(o)'
  <2>1. OrderOwn(o) /\ o \in Goods
    BY <1>3, KiosgamerAssumption DEF SessionInv, Lasts
  <2>2. /\ Works(k, o) => calling[k].at # "poll" \/ sale[o].id # 0
        /\ WorksOn(t, o) => Works(k, o) \/ (\A l \in Callings : ~Works(l, o))
        /\ WorksOn(t, o) => FitsOrder(t, o)
    BY <1>3 DEF GoesRight
  <2>3. QED
    BY <1>1, <2>1, <2>2, WorkerMoves
<1>4. QED
  BY <1>1, <1>2, <1>3 DEF SessionInv, SessionAfter, Lasts

\* A call that brings its transaction something ends.
LEMMA TellingStep ==
    ASSUME SessionInv, NEW k \in Callings, EndsCall(k), calling[k].kind \in {"buy", "ask"},
           NEW id \in 0 .. MaxItems,
           NEW status \in {"open", "hold", "pending", "success", "failed"},
           Knows(k, id, status), SessionAfter, TradeTyped',
           Lasts => \A o \in Steady \ Looked :
               /\ Works(k, o) => /\ UNCHANGED items
                                 /\ Covers(o, id)
                                 /\ status = "success" => OwnItems(o) # {}
                                 /\ status = "failed" => LiveItems(o) = {}
               /\ ~Works(k, o) => /\ OwnItems(o)' = OwnItems(o)
                                  /\ \A i \in OwnItems(o) : items'[i].state = items[i].state
    PROVE  SessionInv'
<1>1. CallsTyped /\ sale \in [Goods -> SaleRecords]
  BY DEF SessionInv, TradeTyped
<1>2. calling' = [calling EXCEPT ![k] = IdleCall] /\ CallsTyped'
  BY <1>1, OneCall, IdleCallTyped DEF EndsCall
<1>3. Lasts => KeysLast'
  BY <1>1, <1>2, KeysKept, IdleCallTyped DEF SessionInv, SessionAfter, Lasts
<1>4. ASSUME Lasts, NEW o \in Steady \ Looked
      PROVE  OrderOwn(o)'
  <2>1. OrderOwn(o) /\ o \in Goods
    BY <1>4, KiosgamerAssumption DEF SessionInv, Lasts
  <2>2. CASE Works(k, o)
    BY <1>1, <1>4, <2>1, <2>2, WorkerEnds
  <2>3. CASE ~Works(k, o)
    <3>1. calling[k].ord # o
      BY <2>3 DEF Works, WorksOn
    <3>2. sale'[o] = sale[o]
      BY <1>1, <2>1, <3>1 DEF Knows
    <3>3. /\ OwnItems(o)' = OwnItems(o)
          /\ \A i \in OwnItems(o) : items'[i].state = items[i].state
      BY <1>4, <2>3
    <3>4. QED
      BY <1>1, <1>2, <2>1, <2>3, <3>2, <3>3, IdleCallTyped, OthersOrder
  <2>4. QED
    BY <2>2, <2>3
<1>5. QED
  BY <1>2, <1>3, <1>4 DEF SessionInv, SessionAfter, Lasts

\* A call that ends without having told anything.
LEMMA EndQuiet ==
    ASSUME SessionInv, NEW k \in Callings, EndsCall(k), UNCHANGED <<items, sale>>, SessionAfter,
           calling[k].at # "poll"
    PROVE  SessionInv'
  BY QuietStep, IdleCallTyped DEF EndsCall, FollowsKeys, GoesRight

\* What a transaction knows while the call on it has not bought anything.
LEMMA KnownSoFar ==
    ASSUME NEW o, OrderOwn(o), NEW k \in Callings, Works(k, o), calling[k].at # "poll"
    PROVE  Covers(o, sale[o].id)
  BY DEF OrderOwn, OneWorker, ItemKnown

LEMMA FailsKeeps ==
    ASSUME SessionInv, NEW k \in Callings, Fails(k), UNCHANGED items, SessionAfter,
           Lasts => \A o \in Steady \ Looked : Works(k, o) => calling[k].at # "poll"
    PROVE  SessionInv'
<1>1. EndsCall(k) /\ CallsTyped /\ TradeTyped /\ calling[k].ord \in Goods
  <2>1. CallsTyped /\ TradeTyped
    BY DEF SessionInv
  <2>2. QED
    BY <2>1, CopyTyped DEF Fails, CallsTyped
<1>2. CASE calling[k].kind \in {"buy", "ask"}
  <2> DEFINE id == sale[calling[k].ord].id
  <2>1. Knows(k, id, "hold")
    BY <1>2 DEF Fails
  <2>2. id \in 0 .. MaxItems
    BY <1>1 DEF TradeTyped, SaleRecords
  <2>3. TradeTyped'
    BY <1>1, <2>1, <2>2 DEF TradeTyped, Knows, SaleRecords
  <2>4. ASSUME Lasts, NEW o \in Steady \ Looked, Works(k, o)
        PROVE  Covers(o, id)
    <3>1. OrderOwn(o) /\ calling[k].ord = o
      BY <2>4 DEF SessionInv, Lasts, Works, WorksOn
    <3>2. QED
      BY <2>4, <3>1, KnownSoFar
  <2>5. \A o : OwnItems(o)' = OwnItems(o)
    BY DEF OwnItems
  <2> HIDE DEF id
  <2>6. QED
    BY <1>1, <1>2, <2>1, <2>2, <2>3, <2>4, <2>5, TellingStep
<1>3. CASE calling[k].kind \notin {"buy", "ask"}
  <2>1. UNCHANGED sale
    BY <1>3 DEF Fails
  <2>2. \A o : ~Works(k, o)
    BY <1>3 DEF Works, WorksOn
  <2>3. QED
    BY <1>1, <2>1, <2>2, QuietStep, IdleCallTyped DEF EndsCall, FollowsKeys, GoesRight
<1>4. QED
  BY <1>2, <1>3

\* A new key is none that anyone holds.
LEMMA NewTokenTyped ==
    ASSUME SessionInv, ~IsFiniteSet(Tokens)
    PROVE  NewToken \in Tokens
<1>1. IsFiniteSet({calling[c].copy.key : c \in Callings})
  <2> DEFINE keys == {calling[c].copy.key : c \in Callings}
             f == [c \in Callings |-> calling[c].copy.key]
  <2>1. f \in Surjection(Callings, keys)
    BY DEF Surjection
  <2>2. IsFiniteSet(Callings)
    BY KiosgamerAssumption
  <2> HIDE DEF keys, f
  <2>3. IsFiniteSet(keys)
    BY <2>1, <2>2, FS_Surjection
  <2>4. QED
    BY <2>3 DEF keys
<1>2. IsFiniteSet({jar, credential.key})
  <2>1. {jar, credential.key} = {jar} \cup {credential.key}
    OBVIOUS
  <2>2. IsFiniteSet({jar}) /\ IsFiniteSet({credential.key})
    BY FS_Singleton
  <2>3. IsFiniteSet({jar} \cup {credential.key})
    BY <2>2, FS_Union
  <2>4. QED
    BY <2>1, <2>3
<1>3. IsFiniteSet(accepted \cup Held)
  BY <1>1, <1>2, FS_Union DEF Held, SessionInv, KeysTyped
<1>4. \E k \in Tokens : k \notin accepted \cup Held
  <2>1. ASSUME Tokens \subseteq accepted \cup Held
        PROVE  FALSE
    BY <1>3, <2>1, FS_Subset
  <2>2. QED
    BY <2>1
<1>5. QED
  BY <1>4 DEF NewToken

LEMMA ExchangeTyped ==
    ASSUME SessionInv, Lasts \/ ~IsFiniteSet(Tokens), Exchange
    PROVE  /\ jar' \in Tokens \cup {0} /\ accepted' \subseteq Tokens /\ IsFiniteSet(accepted')
           /\ Lasts => jar = 1 /\ jar' = 1 /\ accepted' = {1}
<1>1. KeysTyped /\ (Lasts => KeysLast)
  BY DEF SessionInv, Lasts
<1>2. CASE jar \in accepted /\ UNCHANGED <<jar, accepted>>
  BY <1>1, <1>2 DEF KeysTyped, KeysLast
<1>3. CASE /\ ~Lasts /\ jar' = NewToken
           /\ accepted' \in {{NewToken}, {NewToken} \cup (accepted \cap Held)}
  <2>1. NewToken \in Tokens
    BY <1>3, NewTokenTyped
  <2>2. IsFiniteSet(accepted \cap Held) /\ accepted \cap Held \subseteq Tokens
    BY <1>1, FS_Subset DEF KeysTyped
  <2>3. IsFiniteSet({NewToken}) /\ IsFiniteSet({NewToken} \cup (accepted \cap Held))
    BY <2>2, FS_Singleton, FS_Union
  <2>4. QED
    BY <1>3, <2>1, <2>2, <2>3
<1>4. QED
  BY <1>2, <1>3 DEF Exchange, Lasts

LEMMA TroubleCounted ==
    ASSUME SessionInv, Trouble \/ UNCHANGED troubles
    PROVE  troubles' \in 0 .. MaxTroubles
  BY KiosgamerAssumption DEF SessionInv, MuTyped, Trouble

\* A call that stays with its transaction in a step that asks nothing of it.
LEMMA StaysRight ==
    ASSUME SessionInv, NEW k \in Callings, NEW t,
           t.kind = calling[k].kind, t.ord = calling[k].ord, t.id = calling[k].id,
           t.at \notin {"poll", "history"}, calling[k].at # "poll",
           t.at \in {"tx", "txSwap", "txStore", "pay"} =>
               calling[k].at \in {"tx", "txSwap", "txStore", "pay"}
    PROVE  GoesRight(k, t)
<1>1. ASSUME Lasts, NEW o \in Steady \ Looked, WorksOn(t, o)
      PROVE  Works(k, o) /\ FitsOrder(t, o)
  <2>1. Works(k, o)
    BY <1>1 DEF Works, WorksOn
  <2>2. FitsOrder(calling[k], o)
    BY <1>1, <2>1 DEF SessionInv, Lasts, OrderOwn, WorkersFit
  <2>3. QED
    BY <2>1, <2>2 DEF FitsOrder
<1>2. QED
  BY <1>1 DEF GoesRight

\* The actions.
Wide == Lasts \/ ~IsFiniteSet(Tokens)

\* The parts of the invariant a step starts from.
LEMMA SessionParts ==
    ASSUME SessionInv, NEW k \in Callings
    PROVE  /\ KeysTyped /\ TradeTyped /\ MuTyped /\ CallsTyped
           /\ calling[k] \in CallRecords /\ OnItsWay(calling[k])
           /\ Lasts => KeysLast /\ Carries(calling[k]) /\ (Past(calling[k]) => jar = 1)
  BY DEF SessionInv, Lasts, CallsTyped, KeysLast

LEMMA AtTyped ==
    /\ "idle" \in CallSteps /\ "load" \in CallSteps /\ "ping" \in CallSteps
    /\ "note" \in CallSteps /\ "lock" \in CallSteps /\ "swap" \in CallSteps
    /\ "giveUp" \in CallSteps /\ "store" \in CallSteps /\ "touch" \in CallSteps
    /\ "persist" \in CallSteps /\ "persistWrite" \in CallSteps /\ "saveWrite" \in CallSteps
    /\ "tx" \in CallSteps /\ "txSwap" \in CallSteps /\ "txStore" \in CallSteps
    /\ "pay" \in CallSteps /\ "poll" \in CallSteps /\ "history" \in CallSteps
  BY DEF CallSteps

LEMMA LoadKeeps ==
    ASSUME SessionInv, NEW k \in Callings, LoadCredential(k)
    PROVE  SessionInv'
<1> DEFINE t == [calling[k] EXCEPT !.at = "ping", !.copy = credential]
<1>1. calling[k] \in CallRecords /\ OnItsWay(calling[k]) /\ KeysTyped /\ MuTyped /\ CallsTyped
      /\ (Lasts => KeysLast)
  BY SessionParts
<1>2. calling[k].at = "load"
  BY DEF LoadCredential
<1>3. /\ t \in CallRecords /\ t.at = "ping" /\ t.copy = credential
      /\ t.kind = calling[k].kind /\ t.ord = calling[k].ord /\ t.id = calling[k].id
  BY <1>1, AtTyped DEF CallRecords, KeysTyped
<1>4. calling' = [calling EXCEPT ![k] = t]
  BY <1>1 DEF LoadCredential, CallsTyped, CallRecords
<1> HIDE DEF t
<1>5. OnItsWay(t)
  BY <1>1, <1>2, <1>3 DEF OnItsWay, OrderSteps
<1>6. SessionAfter
  BY <1>1 DEF LoadCredential, SessionAfter, KeysTyped, MuTyped, KeysLast, Credentials, shopVars, lockVars
<1>7. FollowsKeys(t)
  BY <1>1, <1>3 DEF FollowsKeys, Carries, KeysLast, LoadCredential
<1>8. GoesRight(k, t)
  BY <1>2, <1>3, StaysRight
<1>9. UNCHANGED <<items, sale>>
  BY DEF LoadCredential, shopVars
<1>10. QED
  BY <1>3, <1>4, <1>5, <1>6, <1>7, <1>8, <1>9, QuietStep

LEMMA PingKeeps ==
    ASSUME SessionInv, NEW k \in Callings, Ping(k)
    PROVE  SessionInv'
<1>1. /\ calling[k] \in CallRecords /\ OnItsWay(calling[k]) /\ KeysTyped /\ MuTyped /\ CallsTyped
      /\ (Lasts => KeysLast /\ Carries(calling[k]) /\ (Past(calling[k]) => jar = 1))
  BY SessionParts
<1>2. calling[k].at = "ping"
  BY DEF Ping
<1>3. PICK status \in Statuses : Judged(k, status)
  BY DEF Ping, Statuses
<1> DEFINE copy == [calling[k].copy EXCEPT !.status = status]
           t == [calling[k] EXCEPT !.at = "note", !.copy = copy]
<1>4. copy \in Credentials /\ copy.key = calling[k].copy.key
  <2>1. calling[k].copy \in Credentials
    BY <1>1, CopyTyped
  <2>2. QED
    BY <2>1 DEF Credentials
<1>5. calling' = [calling EXCEPT ![k] = t]
  BY <1>1, <1>3 DEF Judged, CallsTyped, CallRecords, Credentials
<1> HIDE DEF copy
<1>6. /\ t \in CallRecords /\ t.at = "note" /\ t.copy = copy
      /\ t.kind = calling[k].kind /\ t.ord = calling[k].ord /\ t.id = calling[k].id
  BY <1>1, <1>4, AtTyped DEF CallRecords
<1> HIDE DEF t
<1>7. OnItsWay(t)
  BY <1>1, <1>2, <1>6 DEF OnItsWay, OrderSteps
<1>8. UNCHANGED <<items, sale, credential, jar, accepted, login, holder, recent, crew>>
      /\ troubles' \in 0 .. MaxTroubles
  BY TroubleCounted DEF Ping, shopVars, lockVars
<1>9. SessionAfter
  BY <1>1, <1>8 DEF SessionAfter, KeysTyped, MuTyped, KeysLast
<1>10. FollowsKeys(t)
  BY <1>1, <1>2, <1>4, <1>6, <1>8 DEF FollowsKeys, Carries, Past
<1>11. GoesRight(k, t)
  BY <1>2, <1>6, StaysRight
<1>12. QED
  BY <1>5, <1>6, <1>7, <1>8, <1>9, <1>10, <1>11, QuietStep

\* A step that only goes on, to one that asks nothing of the order.
LEMMA GoesKeeps ==
    ASSUME SessionInv, NEW k \in Callings, NEW step \in CallSteps, Goes(k, step),
           UNCHANGED <<items, sale>>, SessionAfter,
           step \notin {"idle", "poll", "history"}, calling[k].at \notin {"idle", "poll"},
           OnItsWay([calling[k] EXCEPT !.at = step]),
           step \in {"tx", "txSwap", "txStore", "pay"} =>
               calling[k].at \in {"tx", "txSwap", "txStore", "pay"},
           step \notin {"ping", "note", "swap", "giveUp", "persistWrite", "saveWrite"},
           step \in {"load", "lock"} \/ Past(calling[k])
    PROVE  SessionInv'
<1> DEFINE t == [calling[k] EXCEPT !.at = step]
<1>1. CallsTyped /\ (Lasts => (Past(calling[k]) => jar = 1))
  BY SessionParts
<1>2. /\ t \in CallRecords /\ t.at = step
      /\ t.kind = calling[k].kind /\ t.ord = calling[k].ord /\ t.id = calling[k].id
      /\ calling' = [calling EXCEPT ![k] = t]
  BY <1>1, OneStep
<1>3. OnItsWay(t)
  OBVIOUS
<1> HIDE DEF t
<1>4. FollowsKeys(t)
  BY <1>1, <1>2 DEF FollowsKeys, Carries, Past, SessionAfter
<1>5. GoesRight(k, t)
  BY <1>2, StaysRight
<1>6. QED
  BY <1>2, <1>3, <1>4, <1>5, QuietStep

LEMMA WayAt ==
    ASSUME NEW t \in CallRecords, NEW step
    PROVE  [t EXCEPT !.at = step].at = step /\ [t EXCEPT !.at = step].kind = t.kind
  BY DEF CallRecords

\* After a session is found alive the order is polled or bought.
LEMMA AfterSessionKeeps ==
    ASSUME SessionInv, NEW k \in Callings, Goes(k, AfterSession(k)), calling[k].at = "note",
           calling[k].kind \in {"buy", "ask"}, UNCHANGED <<items, sale>>, SessionAfter
    PROVE  SessionInv'
<1> DEFINE step == AfterSession(k)
           t == [calling[k] EXCEPT !.at = step]
<1>1. /\ CallsTyped /\ calling[k] \in CallRecords /\ OnItsWay(calling[k])
      /\ (Lasts => (Past(calling[k]) => jar = 1))
  BY SessionParts
<1>2. /\ step \in {"poll", "tx", "history"} /\ step \in CallSteps
      /\ step = "poll" <=> calling[k].id # 0
      /\ step = "history" => calling[k].kind = "ask"
  BY AtTyped DEF AfterSession
<1> HIDE DEF step
<1>3. OnItsWay(t)
  BY <1>1, <1>2, WayAt DEF OnItsWay
<1>4. /\ t \in CallRecords /\ t.at = step
      /\ t.kind = calling[k].kind /\ t.ord = calling[k].ord /\ t.id = calling[k].id
      /\ calling' = [calling EXCEPT ![k] = t]
  BY <1>1, <1>2, <1>3, OneStep DEF step
<1> HIDE DEF t
<1>5. FollowsKeys(t)
  BY <1>1, <1>2, <1>4 DEF FollowsKeys, Carries, Past, SessionAfter
<1>6. ASSUME Lasts, NEW o \in Steady \ Looked, WorksOn(t, o)
      PROVE  Works(k, o) /\ FitsOrder(t, o)
  <2>1. Works(k, o)
    BY <1>4, <1>6 DEF Works, WorksOn
  <2>2. OrderOwn(o)
    BY <1>6 DEF SessionInv, Lasts
  <2>3. FitsOrder(calling[k], o)
    BY <2>1, <2>2 DEF OrderOwn, WorkersFit
  <2>4. Covers(o, sale[o].id)
    BY <2>1, <2>2, KnownSoFar
  <2>5. QED
    BY <1>2, <1>4, <2>1, <2>3, <2>4 DEF FitsOrder
<1>7. GoesRight(k, t)
  BY <1>6 DEF GoesRight
<1>8. QED
  BY <1>3, <1>4, <1>5, <1>7, QuietStep

LEMMA NoteKeeps ==
    ASSUME SessionInv, NEW k \in Callings, Note(k)
    PROVE  SessionInv'
<1>1. /\ calling[k] \in CallRecords /\ OnItsWay(calling[k]) /\ KeysTyped /\ MuTyped /\ CallsTyped
      /\ (Lasts => KeysLast /\ Carries(calling[k]))
  BY SessionParts
<1>2. calling[k].at = "note" /\ Past(calling[k]) /\ calling[k].kind \notin {"recover", "save"}
  BY <1>1 DEF Note, Past, OnItsWay
<1>3. /\ UNCHANGED <<items, jar, accepted, login, holder, recent, crew, troubles>>
      /\ credential' = calling[k].copy
  BY DEF Note, shopVars, lockVars
<1>4. SessionAfter
  <2>1. calling[k].copy \in Credentials
    BY <1>1, CopyTyped
  <2>2. QED
    BY <1>1, <1>2, <1>3, <2>1 DEF SessionAfter, KeysTyped, MuTyped, KeysLast, Carries
<1>5. CASE Fails(k)
  BY <1>2, <1>3, <1>4, <1>5, FailsKeeps
<1>6. CASE Goes(k, "lock") /\ UNCHANGED sale
  <2>1. OnItsWay([calling[k] EXCEPT !.at = "lock"])
    BY <1>1, <1>2, WayAt DEF OnItsWay, OrderSteps
  <2>2. QED
    BY <1>2, <1>3, <1>4, <1>6, <2>1, AtTyped, GoesKeeps
<1>7. CASE calling[k].kind = "check" /\ EndsCall(k) /\ UNCHANGED sale
  BY <1>2, <1>3, <1>4, <1>7, EndQuiet
<1>8. CASE calling[k].kind = "keepAlive" /\ Goes(k, "touch") /\ UNCHANGED sale
  <2>1. OnItsWay([calling[k] EXCEPT !.at = "touch"])
    BY <1>1, <1>2, WayAt DEF OnItsWay, OrderSteps
  <2>2. QED
    BY <1>2, <1>3, <1>4, <1>8, <2>1, AtTyped, GoesKeeps
<1>9. CASE calling[k].kind \notin {"check", "keepAlive"} /\ Goes(k, AfterSession(k)) /\ UNCHANGED sale
  <2>1. calling[k].kind \in {"buy", "ask"}
    BY <1>1, <1>2, <1>9, CopyTyped DEF CallKinds
  <2>2. QED
    BY <1>2, <1>3, <1>4, <1>9, <2>1, AfterSessionKeeps
<1>10. QED
  BY <1>5, <1>6, <1>7, <1>8, <1>9 DEF Note

\* Under mu.
LEMMA LockKeeps ==
    ASSUME SessionInv, NEW k \in Callings, Lock(k)
    PROVE  SessionInv'
<1> DEFINE t == [calling[k] EXCEPT !.at = "swap", !.copy = credential]
<1>1. calling[k] \in CallRecords /\ OnItsWay(calling[k]) /\ KeysTyped /\ MuTyped /\ CallsTyped
      /\ (Lasts => KeysLast)
  BY SessionParts
<1>2. calling[k].at = "lock"
  BY DEF Lock
<1>3. /\ t \in CallRecords /\ t.at = "swap" /\ t.copy = credential
      /\ t.kind = calling[k].kind /\ t.ord = calling[k].ord /\ t.id = calling[k].id
  BY <1>1, AtTyped DEF CallRecords, KeysTyped
<1>4. calling' = [calling EXCEPT ![k] = t]
  BY <1>1 DEF Lock, CallsTyped, CallRecords
<1> HIDE DEF t
<1>5. OnItsWay(t)
  BY <1>1, <1>2, <1>3 DEF OnItsWay, OrderSteps
<1>6. holder' = {k}
  BY DEF Lock, MuFree
<1>7. SessionAfter
  BY <1>1, <1>6 DEF Lock, SessionAfter, KeysTyped, MuTyped, KeysLast, Credentials, shopVars
<1>8. FollowsKeys(t)
  BY <1>1, <1>3 DEF FollowsKeys, Carries, KeysLast, Lock
<1>9. GoesRight(k, t)
  BY <1>2, <1>3, StaysRight
<1>10. UNCHANGED <<items, sale>>
  BY DEF Lock, shopVars
<1>11. QED
  BY <1>3, <1>4, <1>5, <1>7, <1>8, <1>9, <1>10, QuietStep

\* The holder of mu gives it back.
LEMMA MuGivenBack ==
    ASSUME MuTyped, NEW k \in Callings, holder' \in {holder, holder \ {k}, {}}
    PROVE  holder' = {} \/ \E l \in Callings : holder' = {l}
  BY DEF MuTyped

LEMMA SwapKeeps ==
    ASSUME SessionInv, NEW k \in Callings, Wide, Swap(k)
    PROVE  SessionInv'
<1>1. /\ calling[k] \in CallRecords /\ OnItsWay(calling[k]) /\ KeysTyped /\ MuTyped /\ CallsTyped
      /\ (Lasts => KeysLast /\ Carries(calling[k]) /\ (Past(calling[k]) => jar = 1))
  BY SessionParts
<1>2. calling[k].at = "swap" /\ Past(calling[k])
  BY DEF Swap, Past
<1>3. UNCHANGED <<items, credential, login, recent, crew>> /\ troubles' \in 0 .. MaxTroubles
  BY TroubleCounted DEF Swap
<1>4. holder' = {} \/ \E l \in Callings : holder' = {l}
  BY <1>1, MuGivenBack DEF Swap
<1>5. Exchange \/ UNCHANGED <<accepted, jar>>
  BY DEF Swap
<1>6. /\ jar' \in Tokens \cup {0} /\ accepted' \subseteq Tokens /\ IsFiniteSet(accepted')
      /\ Lasts => jar = 1 /\ jar' = 1 /\ accepted' = {1}
  BY <1>1, <1>2, <1>5, ExchangeTyped DEF Wide, KeysTyped, KeysLast
<1>7. SessionAfter
  BY <1>1, <1>3, <1>4, <1>6 DEF SessionAfter, KeysTyped, MuTyped, KeysLast
<1>8. CASE Fails(k)
  BY <1>2, <1>3, <1>7, <1>8, FailsKeeps
<1>9. CASE Goes(k, "store") /\ UNCHANGED sale
  <2>1. OnItsWay([calling[k] EXCEPT !.at = "store"])
    BY <1>1, <1>2, WayAt DEF OnItsWay, OrderSteps
  <2>2. QED
    BY <1>2, <1>3, <1>7, <1>9, <2>1, AtTyped, GoesKeeps
<1>10. CASE /\ UNCHANGED sale
            /\ \E status \in Statuses :
                  calling' = [calling EXCEPT ![k].at = "giveUp", ![k].copy.status = status]
  <2>1. PICK status \in Statuses :
           calling' = [calling EXCEPT ![k].at = "giveUp", ![k].copy.status = status]
    BY <1>10
  <2> DEFINE copy == [calling[k].copy EXCEPT !.status = status]
             t == [calling[k] EXCEPT !.at = "giveUp", !.copy = copy]
  <2>2. copy \in Credentials /\ copy.key = calling[k].copy.key
    <3>1. calling[k].copy \in Credentials
      BY <1>1, CopyTyped
    <3>2. QED
      BY <3>1 DEF Credentials
  <2>3. calling' = [calling EXCEPT ![k] = t]
    BY <1>1, <2>1 DEF CallsTyped, CallRecords, Credentials
  <2> HIDE DEF copy
  <2>4. /\ t \in CallRecords /\ t.at = "giveUp" /\ t.copy = copy
        /\ t.kind = calling[k].kind /\ t.ord = calling[k].ord /\ t.id = calling[k].id
    BY <1>1, <2>2, AtTyped DEF CallRecords
  <2> HIDE DEF t
  <2>5. OnItsWay(t)
    BY <1>1, <1>2, <2>4 DEF OnItsWay, OrderSteps
  <2>6. FollowsKeys(t)
    BY <1>1, <1>2, <1>6, <2>2, <2>4 DEF FollowsKeys, Carries
  <2>7. GoesRight(k, t)
    BY <1>2, <2>4, StaysRight
  <2>8. QED
    BY <1>3, <1>7, <1>10, <2>3, <2>4, <2>5, <2>6, <2>7, QuietStep
<1>11. "reauth_required" \in Statuses /\ "challenge_required" \in Statuses
  BY DEF Statuses
<1>12. QED
  BY <1>8, <1>9, <1>10, <1>11 DEF Swap

LEMMA GiveUpKeeps ==
    ASSUME SessionInv, NEW k \in Callings, GiveUp(k)
    PROVE  SessionInv'
<1>1. /\ calling[k] \in CallRecords /\ KeysTyped /\ MuTyped
      /\ (Lasts => KeysLast /\ Carries(calling[k]))
  BY SessionParts
<1>2. calling[k].at = "giveUp" /\ Fails(k) /\ credential' = calling[k].copy
      /\ UNCHANGED <<items, jar, accepted, login, recent, crew, troubles>>
  BY DEF GiveUp, shopVars
<1>3. holder' = {} \/ \E l \in Callings : holder' = {l}
  BY <1>1, MuGivenBack DEF GiveUp
<1>4. calling[k].copy \in Credentials
  BY <1>1, CopyTyped
<1>5. SessionAfter
  BY <1>1, <1>2, <1>3, <1>4 DEF SessionAfter, KeysTyped, MuTyped, KeysLast, Carries
<1>6. QED
  BY <1>2, <1>5, FailsKeeps

LEMMA StoreKeeps ==
    ASSUME SessionInv, NEW k \in Callings, Store(k)
    PROVE  SessionInv'
<1>1. /\ calling[k] \in CallRecords /\ OnItsWay(calling[k]) /\ KeysTyped /\ MuTyped /\ CallsTyped
      /\ (Lasts => KeysLast /\ (Past(calling[k]) => jar = 1))
  BY SessionParts
<1>2. calling[k].at = "store" /\ Past(calling[k]) /\ credential' = [key |-> jar, status |-> "active"]
      /\ UNCHANGED <<items, sale, jar, accepted, login, recent, crew, troubles>>
  BY DEF Store, StoreKey, shopVars, Past
<1>3. holder' = {} \/ \E l \in Callings : holder' = {l}
  BY <1>1, MuGivenBack DEF Store
<1>4. credential' \in Credentials /\ credential'.key = jar
  BY <1>1, <1>2 DEF Credentials, Statuses, KeysTyped
<1>5. SessionAfter
  BY <1>1, <1>2, <1>3, <1>4 DEF SessionAfter, KeysTyped, MuTyped, KeysLast
<1>6. CASE EndsCall(k)
  BY <1>2, <1>5, <1>6, EndQuiet
<1>7. CASE /\ calling[k].kind # "recover"
           /\ calling' = [calling EXCEPT ![k].at = "load", ![k].round = 2]
  <2> DEFINE t == [calling[k] EXCEPT !.at = "load", !.round = 2]
  <2>1. /\ t \in CallRecords /\ t.at = "load"
        /\ t.kind = calling[k].kind /\ t.ord = calling[k].ord /\ t.id = calling[k].id
    <3>1. "load" \in CallSteps /\ 2 \in 1 .. 2
      BY AtTyped
    <3>2. QED
      BY <1>1, <3>1 DEF CallRecords
  <2>2. calling' = [calling EXCEPT ![k] = t]
    BY <1>1, <1>7 DEF CallsTyped, CallRecords
  <2> HIDE DEF t
  <2>3. OnItsWay(t)
    BY <1>1, <1>2, <1>7, <2>1 DEF OnItsWay, OrderSteps
  <2>4. FollowsKeys(t)
    BY <2>1 DEF FollowsKeys, Carries, Past
  <2>5. GoesRight(k, t)
    BY <1>2, <2>1, StaysRight
  <2>6. QED
    BY <1>2, <1>5, <2>1, <2>2, <2>3, <2>4, <2>5, QuietStep
<1>8. QED
  BY <1>6, <1>7 DEF Store

\* KeepAlive and SaveCredentials.
LEMMA VisitKeeps ==
    ASSUME SessionInv, NEW k \in Callings, Wide, VisitShop(k)
    PROVE  SessionInv'
<1>1. /\ calling[k] \in CallRecords /\ OnItsWay(calling[k]) /\ KeysTyped /\ MuTyped /\ CallsTyped
      /\ (Lasts => KeysLast /\ (Past(calling[k]) => jar = 1))
  BY SessionParts
<1>2. calling[k].at = "touch" /\ Past(calling[k]) /\ Goes(k, "persist")
      /\ UNCHANGED <<credential, login, items, holder, recent, sale, crew>>
      /\ troubles' \in 0 .. MaxTroubles
  BY TroubleCounted DEF VisitShop, Past, lockVars
<1>3. Exchange \/ UNCHANGED <<accepted, jar>>
  BY DEF VisitShop
<1>4. /\ jar' \in Tokens \cup {0} /\ accepted' \subseteq Tokens /\ IsFiniteSet(accepted')
      /\ Lasts => jar = 1 /\ jar' = 1 /\ accepted' = {1}
  BY <1>1, <1>2, <1>3, ExchangeTyped DEF Wide, KeysTyped, KeysLast
<1>5. SessionAfter
  BY <1>1, <1>2, <1>4 DEF SessionAfter, KeysTyped, MuTyped, KeysLast
<1>6. OnItsWay([calling[k] EXCEPT !.at = "persist"])
  BY <1>1, <1>2, WayAt DEF OnItsWay, OrderSteps
<1>7. QED
  BY <1>2, <1>5, <1>6, AtTyped, GoesKeeps

LEMMA PersistKeeps ==
    ASSUME SessionInv, NEW k \in Callings, Persist(k)
    PROVE  SessionInv'
<1> DEFINE copy == [credential EXCEPT !.key = jar]
           t == [calling[k] EXCEPT !.at = "persistWrite", !.copy = copy]
<1>1. /\ calling[k] \in CallRecords /\ OnItsWay(calling[k]) /\ KeysTyped /\ MuTyped /\ CallsTyped
      /\ (Lasts => KeysLast /\ (Past(calling[k]) => jar = 1))
  BY SessionParts
<1>2. calling[k].at = "persist" /\ Past(calling[k])
      /\ UNCHANGED <<credential, jar, accepted, items, login, holder, recent, sale, crew, troubles>>
  BY DEF Persist, Past, shopVars, lockVars
<1>3. copy \in Credentials /\ copy.key = jar
  BY <1>1 DEF KeysTyped, Credentials
<1>4. calling' = [calling EXCEPT ![k] = t]
  BY <1>1 DEF Persist, CallsTyped, CallRecords
<1> HIDE DEF copy
<1>5. /\ t \in CallRecords /\ t.at = "persistWrite" /\ t.copy = copy
      /\ t.kind = calling[k].kind /\ t.ord = calling[k].ord /\ t.id = calling[k].id
  BY <1>1, <1>3, AtTyped DEF CallRecords
<1> HIDE DEF t
<1>6. OnItsWay(t)
  BY <1>5 DEF OnItsWay, OrderSteps
<1>7. SessionAfter
  BY <1>1, <1>2 DEF SessionAfter, KeysTyped, MuTyped, KeysLast
<1>8. FollowsKeys(t)
  BY <1>1, <1>2, <1>3, <1>5 DEF FollowsKeys, Carries
<1>9. GoesRight(k, t)
  BY <1>2, <1>5, StaysRight
<1>10. QED
  BY <1>2, <1>4, <1>5, <1>6, <1>7, <1>8, <1>9, QuietStep

LEMMA WriteCopyKeeps ==
    ASSUME SessionInv, NEW k \in Callings, WriteCopy(k)
    PROVE  SessionInv'
<1>1. /\ calling[k] \in CallRecords /\ KeysTyped /\ MuTyped
      /\ (Lasts => KeysLast /\ Carries(calling[k]))
  BY SessionParts
<1>2. calling[k].at \in {"persistWrite", "saveWrite"} /\ EndsCall(k) /\ credential' = calling[k].copy
      /\ UNCHANGED <<jar, accepted, items, login, holder, recent, sale, crew, troubles>>
  BY DEF WriteCopy, shopVars, lockVars
<1>3. calling[k].copy \in Credentials
  BY <1>1, CopyTyped
<1>4. SessionAfter
  BY <1>1, <1>2, <1>3 DEF SessionAfter, KeysTyped, MuTyped, KeysLast, Carries
<1>5. QED
  BY <1>2, <1>4, EndQuiet

LEMMA SaveKeeps ==
    ASSUME SessionInv, NEW k \in Callings, Wide, SaveCredentials(k)
    PROVE  SessionInv'
<1> DEFINE copy == [credential EXCEPT !.key = jar']
           t == [IdleCall EXCEPT !.kind = "save", !.at = "saveWrite", !.copy = copy]
<1>1. /\ calling[k] \in CallRecords /\ KeysTyped /\ MuTyped /\ CallsTyped
      /\ (Lasts => KeysLast)
  BY SessionParts
<1>2. /\ calling[k].at = "idle" /\ Exchange /\ login' = TRUE
      /\ UNCHANGED <<credential, items, holder, recent, sale, crew>>
      /\ troubles' \in 0 .. MaxTroubles
      /\ calling' = [calling EXCEPT ![k] = t]
  BY TroubleCounted DEF SaveCredentials, lockVars
<1>3. /\ jar' \in Tokens \cup {0} /\ accepted' \subseteq Tokens /\ IsFiniteSet(accepted')
      /\ Lasts => jar = 1 /\ jar' = 1 /\ accepted' = {1}
  BY <1>2, ExchangeTyped DEF Wide
<1>4. copy \in Credentials /\ copy.key = jar'
  BY <1>1, <1>3 DEF KeysTyped, Credentials
<1> HIDE DEF copy
<1>5. "save" \in CallKinds
  BY DEF CallKinds
<1>6. t \in CallRecords /\ t.at = "saveWrite" /\ t.copy = copy /\ t.kind = "save"
  BY <1>4, <1>5, IdleCallTyped, AtTyped DEF CallRecords
<1> HIDE DEF t
<1>7. OnItsWay(t)
  BY <1>6 DEF OnItsWay, OrderSteps
<1>8. SessionAfter
  BY <1>1, <1>2, <1>3 DEF SessionAfter, KeysTyped, MuTyped, KeysLast
<1>9. FollowsKeys(t)
  BY <1>3, <1>4, <1>6 DEF FollowsKeys, Carries
<1>10. GoesRight(k, t)
  BY <1>2, <1>6 DEF GoesRight, WorksOn
<1>11. QED
  BY <1>2, <1>6, <1>7, <1>8, <1>9, <1>10, QuietStep

\* PlaceOrder, PollOrder and CheckRecentOrder.
LEMMA TxSessionKeeps ==
    ASSUME SessionInv, NEW k \in Callings, TxSession(k)
    PROVE  SessionInv'
<1>1. /\ calling[k] \in CallRecords /\ OnItsWay(calling[k]) /\ KeysTyped /\ MuTyped
      /\ (Lasts => KeysLast)
  BY SessionParts
<1>2. calling[k].at = "tx" /\ Past(calling[k]) /\ (holder' = {k} \/ UNCHANGED holder)
      /\ UNCHANGED <<credential, jar, accepted, login, items, recent, sale, crew, troubles>>
  BY DEF TxSession, MuFree, Past, shopVars
<1>3. SessionAfter
  BY <1>1, <1>2 DEF SessionAfter, KeysTyped, MuTyped, KeysLast
<1>4. \A step \in {"pay", "txSwap"} : OnItsWay([calling[k] EXCEPT !.at = step])
  BY <1>1, <1>2, WayAt DEF OnItsWay, OrderSteps
<1>5. CASE Goes(k, "pay")
  BY <1>2, <1>3, <1>4, <1>5, AtTyped, GoesKeeps
<1>6. CASE Goes(k, "txSwap")
  BY <1>2, <1>3, <1>4, <1>6, AtTyped, GoesKeeps
<1>7. QED
  BY <1>5, <1>6 DEF TxSession

LEMMA TxSwapKeeps ==
    ASSUME SessionInv, NEW k \in Callings, Wide, TxSwap(k)
    PROVE  SessionInv'
<1>1. /\ calling[k] \in CallRecords /\ OnItsWay(calling[k]) /\ KeysTyped /\ MuTyped
      /\ (Lasts => KeysLast /\ (Past(calling[k]) => jar = 1))
  BY SessionParts
<1>2. calling[k].at = "txSwap" /\ Past(calling[k])
  BY DEF TxSwap, Past
<1>3. UNCHANGED <<items, credential, login, recent, crew>> /\ troubles' \in 0 .. MaxTroubles
  BY TroubleCounted DEF TxSwap
<1>4. holder' = {} \/ \E l \in Callings : holder' = {l}
  BY <1>1, MuGivenBack DEF TxSwap
<1>5. Exchange \/ UNCHANGED <<accepted, jar>>
  BY DEF TxSwap
<1>6. /\ jar' \in Tokens \cup {0} /\ accepted' \subseteq Tokens /\ IsFiniteSet(accepted')
      /\ Lasts => jar = 1 /\ jar' = 1 /\ accepted' = {1}
  BY <1>1, <1>2, <1>5, ExchangeTyped DEF Wide, KeysTyped, KeysLast
<1>7. SessionAfter
  BY <1>1, <1>3, <1>4, <1>6 DEF SessionAfter, KeysTyped, MuTyped, KeysLast
<1>8. \A step \in {"pay", "txStore"} : OnItsWay([calling[k] EXCEPT !.at = step])
  BY <1>1, <1>2, WayAt DEF OnItsWay, OrderSteps
<1>9. CASE Fails(k)
  BY <1>2, <1>3, <1>7, <1>9, FailsKeeps
<1>10. CASE Goes(k, "txStore") /\ UNCHANGED sale
  BY <1>2, <1>3, <1>7, <1>8, <1>10, AtTyped, GoesKeeps
<1>11. CASE Goes(k, "pay") /\ UNCHANGED sale
  BY <1>2, <1>3, <1>7, <1>8, <1>11, AtTyped, GoesKeeps
<1>12. QED
  BY <1>9, <1>10, <1>11 DEF TxSwap

LEMMA TxStoreKeeps ==
    ASSUME SessionInv, NEW k \in Callings, TxStore(k)
    PROVE  SessionInv'
<1>1. /\ calling[k] \in CallRecords /\ OnItsWay(calling[k]) /\ KeysTyped /\ MuTyped
      /\ (Lasts => KeysLast /\ (Past(calling[k]) => jar = 1))
  BY SessionParts
<1>2. calling[k].at = "txStore" /\ Past(calling[k]) /\ Goes(k, "pay") /\ recent' = TRUE
      /\ credential' = [key |-> jar, status |-> "active"]
      /\ UNCHANGED <<jar, accepted, login, items, sale, crew, troubles>>
  BY DEF TxStore, Past, shopVars
<1>3. holder' = {} \/ \E l \in Callings : holder' = {l}
  BY <1>1, MuGivenBack DEF TxStore
<1>4. credential' \in Credentials /\ credential'.key = jar
  BY <1>1, <1>2 DEF Credentials, Statuses, KeysTyped
<1>5. SessionAfter
  BY <1>1, <1>2, <1>3, <1>4 DEF SessionAfter, KeysTyped, MuTyped, KeysLast
<1>6. OnItsWay([calling[k] EXCEPT !.at = "pay"])
  BY <1>1, <1>2, WayAt DEF OnItsWay, OrderSteps
<1>7. QED
  BY <1>2, <1>5, <1>6, AtTyped, GoesKeeps

\* A call that is about to buy works on a transaction without an order.
LEMMA NothingBought ==
    ASSUME SessionInv, Lasts, NEW k \in Callings, calling[k].at = "pay",
           NEW o \in Steady \ Looked, Works(k, o)
    PROVE  LiveItems(o) = {} /\ OrderOwn(o) /\ sale[o].id = 0
           /\ sale[o].status \notin {"success", "failed"}
<1>1. OrderOwn(o)
  BY DEF SessionInv, Lasts
<1>2. FitsOrder(calling[k], o)
  BY <1>1 DEF OrderOwn, WorkersFit
<1>3. sale[o].id = 0
  BY <1>2 DEF FitsOrder
<1>4. QED
  BY <1>1, <1>2, <1>3, KnownSoFar DEF FitsOrder, Covers

LEMMA ItemsAppended ==
    ASSUME TradeTyped, NEW o \in Goods, Len(items) < MaxItems,
           items' = Append(items, [ord |-> o, state |-> "open"])
    PROVE  /\ items' \in Seq(ItemRecords) /\ Len(items') <= MaxItems
           /\ Len(items) + 1 \in 0 .. MaxItems /\ Len(items) + 1 # 0
           /\ OwnItems(o)' = OwnItems(o) \cup {Len(items) + 1}
           /\ LiveItems(o)' = LiveItems(o) \cup {Len(items) + 1}
           /\ \A q \in Goods \ {o} : OwnItems(q)' = OwnItems(q)
           /\ \A i \in DOMAIN items : items'[i] = items[i]
<1>1. [ord |-> o, state |-> "open"] \in ItemRecords
  BY DEF ItemRecords
<1>2. /\ items \in Seq(ItemRecords) /\ Len(items) \in Nat /\ DOMAIN items = 1 .. Len(items)
  BY DEF TradeTyped
<1>3. /\ items' \in Seq(ItemRecords) /\ Len(items') = Len(items) + 1
      /\ DOMAIN items' = DOMAIN items \cup {Len(items) + 1}
      /\ \A i \in DOMAIN items : items'[i] = items[i]
      /\ items'[Len(items) + 1] = [ord |-> o, state |-> "open"]
  BY <1>1, <1>2
<1>4. /\ OwnItems(o)' = OwnItems(o) \cup {Len(items) + 1}
      /\ \A q \in Goods \ {o} : OwnItems(q)' = OwnItems(q)
  BY <1>3 DEF OwnItems
<1>5. LiveItems(o)' = LiveItems(o) \cup {Len(items) + 1}
  BY <1>2, <1>3, <1>4 DEF OwnItems, LiveItems
<1>6. QED
  BY <1>2, <1>3, <1>4, <1>5, KiosgamerAssumption

LEMMA PayKeeps ==
    ASSUME SessionInv, NEW k \in Callings, Pay(k)
    PROVE  SessionInv'
<1> DEFINE own == calling[k].ord
<1>1. /\ calling[k] \in CallRecords /\ OnItsWay(calling[k]) /\ KeysTyped /\ MuTyped /\ CallsTyped
      /\ TradeTyped /\ (Lasts => KeysLast /\ (Past(calling[k]) => jar = 1))
  BY SessionParts
<1>2. /\ calling[k].at = "pay" /\ Past(calling[k]) /\ calling[k].kind \in {"buy", "ask"}
      /\ own \in Goods
  BY <1>1, CopyTyped DEF Pay, Past, OnItsWay, OrderSteps
<1>3. UNCHANGED <<credential, jar, accepted, login, holder, recent, crew>>
      /\ troubles' \in 0 .. MaxTroubles
  BY TroubleCounted DEF Pay, lockVars
<1>4. SessionAfter
  BY <1>1, <1>3 DEF SessionAfter, KeysTyped, MuTyped, KeysLast
<1>5. \A o : Works(k, o) <=> o = own
  BY <1>2 DEF Works, WorksOn
<1>6. CASE /\ Len(items) < MaxItems /\ items' = Append(items, [ord |-> own, state |-> "open"])
           /\ calling' = [calling EXCEPT ![k].at = "poll", ![k].id = Len(items) + 1]
           /\ UNCHANGED sale
  <2> DEFINE n == Len(items) + 1
             t == [calling[k] EXCEPT !.at = "poll", !.id = n]
  <2>1. /\ TradeTyped' /\ n \in 0 .. MaxItems /\ n # 0
        /\ \A q \in Goods : IF q = own THEN /\ OwnItems(q)' = OwnItems(q) \cup {n}
                                           /\ LiveItems(q)' = LiveItems(q) \cup {n}
                            ELSE OwnItems(q)' = OwnItems(q)
        /\ \A i \in DOMAIN items : items'[i] = items[i]
    <3>1. PICK o \in Goods : o = own
      BY <1>2
    <3>2. /\ items' \in Seq(ItemRecords) /\ Len(items') <= MaxItems
          /\ n \in 0 .. MaxItems /\ n # 0
          /\ OwnItems(o)' = OwnItems(o) \cup {n} /\ LiveItems(o)' = LiveItems(o) \cup {n}
          /\ \A q \in Goods \ {o} : OwnItems(q)' = OwnItems(q)
          /\ \A i \in DOMAIN items : items'[i] = items[i]
      BY <1>1, <1>6, <3>1, ItemsAppended
    <3> HIDE DEF n
    <3>3. TradeTyped'
      BY <1>1, <1>6, <3>2 DEF TradeTyped
    <3>4. QED
      BY <3>1, <3>2, <3>3
  <2>2. calling' = [calling EXCEPT ![k] = t]
    BY <1>1, <1>6 DEF CallsTyped, CallRecords
  <2> HIDE DEF n
  <2>3. /\ t \in CallRecords /\ t.at = "poll" /\ t.id = n
        /\ t.kind = calling[k].kind /\ t.ord = own /\ t.copy = calling[k].copy
    BY <1>1, <2>1, AtTyped DEF CallRecords
  <2> HIDE DEF t
  <2>4. OnItsWay(t)
    BY <1>2, <2>3 DEF OnItsWay, OrderSteps
  <2>5. CallsTyped' /\ \A l \in Callings : calling'[l] = IF l = k THEN t ELSE calling[l]
    BY <1>1, <2>2, <2>3, <2>4, OneCall
  <2>6. Lasts => KeysLast'
    <3>1. Carries(t)
      BY <2>3 DEF Carries
    <3>2. QED
      BY <1>1, <1>2, <2>2, <2>3, <2>4, <3>1, <1>4, KeysKept DEF SessionAfter
  <2>7. ASSUME Lasts, NEW o \in Steady \ Looked
        PROVE  OrderOwn(o)'
    <3>1. OrderOwn(o) /\ o \in Goods
      BY <2>7, KiosgamerAssumption DEF SessionInv, Lasts
    <3>2. CASE o # own
      <4>1. ~Works(k, o) /\ ~WorksOn(t, o)
        BY <1>5, <2>3, <3>2 DEF WorksOn
      <4>2. sale'[o] = sale[o] /\ OwnItems(o)' = OwnItems(o)
            /\ \A i \in OwnItems(o) : items'[i].state = items[i].state
        BY <1>6, <2>1, <3>1, <3>2 DEF OwnItems
      <4>3. QED
        BY <1>1, <2>2, <2>3, <2>4, <3>1, <4>1, <4>2, OthersOrder
    <3>3. CASE o = own
      <4>1. /\ LiveItems(o) = {} /\ sale[o].id = 0 /\ sale[o].status \notin {"success", "failed"}
            /\ Works(k, o)
        BY <1>2, <1>5, <2>7, <3>3, NothingBought
      <4>2. n \in OwnItems(o)' /\ LiveItems(o)' = {n} /\ sale' = sale
        BY <1>6, <2>1, <3>1, <3>3, <4>1
      <4>3. \A l \in Callings : Works(l, o) => l = k
        BY <3>1, <4>1 DEF OrderOwn, OneWorker
      <4>4. \A l \in Callings : Works(l, o)' <=> l = k
        BY <1>2, <2>3, <2>5, <3>3, <4>3 DEF Works, WorksOn
      <4>5. calling[k].kind = "buy"
        <5>1. FitsOrder(calling[k], o)
          BY <3>1, <4>1 DEF OrderOwn, WorkersFit
        <5>2. QED
          BY <1>2, <4>1, <5>1 DEF FitsOrder
      <4>6. OneWorker(o)' /\ WorkersFit(o)'
        <5>1. calling'[k].at = "poll" /\ calling'[k].id = n /\ calling'[k].kind = "buy"
          BY <2>3, <2>5, <4>5
        <5>2. FitsOrder(calling[k], o)'
          BY <2>1, <4>1, <4>2, <5>1 DEF FitsOrder, Covers
        <5>3. QED
          BY <4>4, <5>2 DEF OneWorker, WorkersFit
      <4>7. ItemKnown(o)'
        BY <2>3, <2>5, <4>1, <4>2, <4>4 DEF ItemKnown
      <4>8. HearsItsEnd(o)'
        BY <4>1, <4>2 DEF HearsItsEnd
      <4>9. QED
        BY <4>6, <4>7, <4>8 DEF OrderOwn
    <3>4. QED
      BY <3>2, <3>3
  <2>8. QED
    BY <1>4, <2>1, <2>5, <2>6, <2>7 DEF SessionInv, SessionAfter, Lasts
<1>7. CASE /\ own \notin Steady
           /\ Len(items) < MaxItems /\ items' = Append(items, [ord |-> own, state |-> "open"])
           /\ EndsCall(k) /\ \E s \in {"hold", "failed"} : Knows(k, 0, s)
  <2>1. PICK s \in {"hold", "failed"} : Knows(k, 0, s)
    BY <1>7
  <2>2. /\ items' \in Seq(ItemRecords) /\ Len(items') <= MaxItems
        /\ \A q \in Goods \ {own} : OwnItems(q)' = OwnItems(q)
        /\ \A i \in DOMAIN items : items'[i] = items[i]
    <3>1. PICK o \in Goods : o = own
      BY <1>2
    <3>2. QED
      BY <1>1, <1>7, <3>1, ItemsAppended
  <2>3. 0 \in 0 .. MaxItems
    BY KiosgamerAssumption
  <2>4. TradeTyped'
    BY <1>1, <2>1, <2>2, <2>3 DEF TradeTyped, Knows, SaleRecords
  <2>5. ASSUME NEW o \in Steady \ Looked
        PROVE  /\ ~Works(k, o) /\ OwnItems(o)' = OwnItems(o)
               /\ \A i \in OwnItems(o) : items'[i].state = items[i].state
    BY <1>5, <1>7, <2>2, KiosgamerAssumption DEF OwnItems
  <2>6. QED
    BY <1>2, <1>4, <1>7, <2>1, <2>3, <2>4, <2>5, TellingStep
<1>8. CASE EndsCall(k) /\ UNCHANGED items /\ \E s \in {"hold", "failed"} : Knows(k, 0, s)
  <2>1. PICK s \in {"hold", "failed"} : Knows(k, 0, s)
    BY <1>8
  <2>2. 0 \in 0 .. MaxItems
    BY KiosgamerAssumption
  <2>3. TradeTyped'
    BY <1>1, <1>8, <2>1, <2>2 DEF TradeTyped, Knows, SaleRecords
  <2>4. Lasts => \A o \in Steady \ Looked : Works(k, o) => LiveItems(o) = {} /\ Covers(o, 0)
    BY <1>2, NothingBought DEF Covers
  <2>5. \A o : OwnItems(o)' = OwnItems(o)
    BY <1>8 DEF OwnItems
  <2>6. QED
    BY <1>2, <1>4, <1>8, <2>1, <2>2, <2>3, <2>4, <2>5, TellingStep
<1>9. QED
  BY <1>6, <1>7, <1>8 DEF Pay

\* Only an order that failed is heard to have failed, and it may deliver no more.
LEMMA FailureTyped ==
    ASSUME NEW o, NEW id \in OwnItems(o), LiveItems(o) \subseteq {id}, "failed" \in Readings(id)
    PROVE  LiveItems(o) = {}
  BY DEF Readings, LiveItems

LEMMA PollKeeps ==
    ASSUME SessionInv, NEW k \in Callings, Poll(k)
    PROVE  SessionInv'
<1> DEFINE id == calling[k].id
           known == sale[calling[k].ord].id
<1>1. /\ calling[k] \in CallRecords /\ OnItsWay(calling[k]) /\ KeysTyped /\ MuTyped
      /\ TradeTyped /\ (Lasts => KeysLast /\ (Past(calling[k]) => jar = 1))
  BY SessionParts
<1>2. /\ calling[k].at = "poll" /\ Past(calling[k]) /\ calling[k].kind \in {"buy", "ask"}
      /\ calling[k].ord \in Goods /\ id \in 0 .. MaxItems
  BY <1>1, CopyTyped DEF Poll, Past, OnItsWay, OrderSteps
<1>3. UNCHANGED <<items, credential, jar, accepted, login, holder, recent, crew>>
      /\ troubles' \in 0 .. MaxTroubles /\ EndsCall(k)
  BY TroubleCounted DEF Poll, shopVars, lockVars
<1>4. SessionAfter
  BY <1>1, <1>3 DEF SessionAfter, KeysTyped, MuTyped, KeysLast
<1>5. \A o : OwnItems(o)' = OwnItems(o)
  BY <1>3 DEF OwnItems
<1>6. Lasts => jar \in accepted
  BY <1>1, <1>2 DEF KeysLast
<1>7. known \in 0 .. MaxItems
  BY <1>1, <1>2 DEF TradeTyped, SaleRecords
<1>8. ASSUME Lasts, NEW o \in Steady \ Looked, Works(k, o)
      PROVE  /\ id # 0 /\ Covers(o, id) /\ o = calling[k].ord
             /\ known = 0 \/ Covers(o, known)
  BY <1>2, <1>8 DEF SessionInv, Lasts, OrderOwn, WorkersFit, FitsOrder, ItemKnown, Works, WorksOn
<1>9. CASE \E status \in {"success", "pending"} : Knows(k, id, status)
  <2>1. PICK status \in {"success", "pending"} : Knows(k, id, status)
    BY <1>9
  <2>2. TradeTyped'
    BY <1>1, <1>2, <1>3, <2>1 DEF TradeTyped, Knows, SaleRecords
  <2>3. ASSUME Lasts, NEW o \in Steady \ Looked, Works(k, o)
        PROVE  Covers(o, id) /\ OwnItems(o) # {}
    BY <1>8, <2>3 DEF Covers
  <2> HIDE DEF id
  <2>4. QED
    BY <1>2, <1>3, <1>4, <1>5, <2>1, <2>2, <2>3, TellingStep
<1>10. CASE "failed" \in Readings(id) /\ FailureHeard(k)
  <2>1. PICK n \in {id, known}, status \in {"failed", "hold"} :
           Knows(k, n, status) /\ (n = id \/ status = "hold")
    BY <1>10 DEF FailureHeard
  <2>2. n \in 0 .. MaxItems
    BY <1>2, <1>7
  <2>3. TradeTyped'
    BY <1>1, <1>3, <2>1, <2>2 DEF TradeTyped, Knows, SaleRecords
  <2>4. ASSUME Lasts, NEW o \in Steady \ Looked, Works(k, o)
        PROVE  Covers(o, n) /\ LiveItems(o) = {}
    <3>1. id \in OwnItems(o) /\ LiveItems(o) \subseteq {id} /\ (n = 0 \/ Covers(o, n))
      BY <1>8, <2>4 DEF Covers
    <3>2. LiveItems(o) = {}
      BY <1>10, <3>1, FailureTyped
    <3>3. QED
      BY <3>1, <3>2 DEF Covers
  <2> HIDE DEF id, known
  <2>5. QED
    BY <1>2, <1>3, <1>4, <1>5, <2>1, <2>2, <2>3, <2>4, TellingStep
<1>11. CASE Fails(k) /\ (jar \notin accepted \/ calling[k].ord \notin Steady)
  <2>1. Lasts => \A o \in Steady \ Looked : ~Works(k, o)
    BY <1>6, <1>11 DEF Works, WorksOn
  <2>2. QED
    BY <1>3, <1>4, <1>11, <2>1, FailsKeeps
<1>12. Readings(id) \subseteq {"success", "pending", "failed"}
  BY DEF Readings
<1>13. QED
  BY <1>9, <1>10, <1>11, <1>12 DEF Poll

LEMMA HistoryKeeps ==
    ASSUME SessionInv, NEW k \in Callings, History(k)
    PROVE  SessionInv'
<1>1. /\ calling[k] \in CallRecords /\ OnItsWay(calling[k]) /\ KeysTyped /\ MuTyped
      /\ TradeTyped /\ (Lasts => KeysLast)
  BY SessionParts
<1>2. /\ calling[k].at = "history" /\ calling[k].kind \in {"buy", "ask"}
  BY <1>1 DEF History, OnItsWay, OrderSteps
<1>3. UNCHANGED <<items, credential, jar, accepted, login, holder, recent, crew, troubles>>
      /\ EndsCall(k)
  BY DEF History, shopVars, lockVars
<1>4. SessionAfter
  BY <1>1, <1>3 DEF SessionAfter, KeysTyped, MuTyped, KeysLast
<1>5. PICK id \in 0 .. MaxItems, status \in {"pending", "success", "hold"} : Knows(k, id, status)
  <2>1. 0 \in 0 .. MaxItems /\ Len(items) \in 0 .. MaxItems
    BY <1>1, KiosgamerAssumption DEF TradeTyped
  <2>2. Knows(k, 0, "pending") \/ Knows(k, Len(items), "success") \/ Knows(k, 0, "hold")
    BY DEF History
  <2>3. QED
    BY <2>1, <2>2
<1>6. TradeTyped'
  BY <1>1, <1>3, <1>5 DEF TradeTyped, Knows, SaleRecords
<1>7. Lasts => \A o \in Steady \ Looked : ~Works(k, o)
  BY <1>2 DEF SessionInv, Lasts, OrderOwn, WorkersFit, FitsOrder
<1>8. \A o : OwnItems(o)' = OwnItems(o)
  BY <1>3 DEF OwnItems
<1>9. QED
  BY <1>2, <1>3, <1>4, <1>5, <1>6, <1>7, <1>8, TellingStep

\* How calls begin.
LEMMA BeginKeeps ==
    ASSUME SessionInv, NEW k \in Callings, NEW kind \in CallKinds, Begin(k, kind)
    PROVE  SessionInv'
<1>1. /\ calling[k] \in CallRecords /\ KeysTyped /\ MuTyped /\ (Lasts => KeysLast)
  BY SessionParts
<1>2. /\ calling[k].at = "idle"
      /\ UNCHANGED <<credential, jar, accepted, login, items, holder, recent, sale, crew, troubles>>
  BY DEF Begin, shopVars, lockVars
<1>3. SessionAfter
  BY <1>1, <1>2 DEF SessionAfter, KeysTyped, MuTyped, KeysLast
<1>4. PICK step \in {"load", "lock"} :
         /\ step = "load" => kind \in {"keepAlive", "check"}
         /\ kind \in {"keepAlive", "check", "recover"}
         /\ calling' = [calling EXCEPT ![k] = [IdleCall EXCEPT !.kind = kind, !.at = step]]
  BY DEF Begin
<1> DEFINE t == [IdleCall EXCEPT !.kind = kind, !.at = step]
<1>5. t \in CallRecords /\ t.kind = kind /\ t.at = step
  <2>1. step \in CallSteps
    BY AtTyped
  <2>2. QED
    BY <2>1, IdleCallTyped DEF CallRecords
<1> HIDE DEF t
<1>6. OnItsWay(t) /\ FollowsKeys(t) /\ GoesRight(k, t)
  BY <1>2, <1>4, <1>5 DEF OnItsWay, OrderSteps, FollowsKeys, Carries, Past, GoesRight, WorksOn
<1>7. QED
  BY <1>2, <1>3, <1>4, <1>5, <1>6, QuietStep DEF t

LEMMA BeginOrderKeeps ==
    ASSUME SessionInv, NEW k \in Callings, NEW kind \in {"buy", "ask"}, NEW o \in Goods,
           BeginOrder(k, kind, o)
    PROVE  SessionInv'
<1> DEFINE id == IF KnownOrder(o) THEN sale[o].id ELSE 0
           t == [IdleCall EXCEPT !.kind = kind, !.at = "load", !.ord = o, !.id = id]
<1>1. /\ calling[k] \in CallRecords /\ KeysTyped /\ MuTyped /\ TradeTyped /\ (Lasts => KeysLast)
  BY SessionParts
<1>2. /\ calling[k].at = "idle" /\ sale[o].status \in {"open", "hold", "pending"}
      /\ \A e \in Callings : calling[e] = IdleCall \/ calling[e].ord # o
      /\ kind = "ask" => KnownOrder(o) \/ o \in Looked
      /\ calling' = [calling EXCEPT ![k] = t]
      /\ UNCHANGED <<credential, jar, accepted, login, items, holder, recent, sale, crew, troubles>>
  BY DEF BeginOrder, shopVars, lockVars
<1>3. SessionAfter
  BY <1>1, <1>2 DEF SessionAfter, KeysTyped, MuTyped, KeysLast
<1>4. id \in 0 .. MaxItems /\ id = sale[o].id
  BY <1>1, KiosgamerAssumption DEF KnownOrder, TradeTyped, SaleRecords
<1> HIDE DEF id
<1>5. t \in CallRecords /\ t.kind = kind /\ t.at = "load" /\ t.ord = o /\ t.id = id
  <2>1. kind \in CallKinds
    BY DEF CallKinds
  <2>2. QED
    BY <1>4, <2>1, AtTyped, IdleCallTyped DEF CallRecords
<1> HIDE DEF t
<1>6. OnItsWay(t) /\ FollowsKeys(t)
  BY <1>5 DEF OnItsWay, OrderSteps, FollowsKeys, Carries, Past
<1>7. \A l \in Callings : ~Works(l, o)
  BY <1>2, IdleCallTyped DEF Works, WorksOn
<1>8. ASSUME NEW q \in Steady \ Looked, WorksOn(t, q)
      PROVE  (\A l \in Callings : ~Works(l, q)) /\ FitsOrder(t, q)
  <2>1. q = o
    BY <1>5, <1>8 DEF WorksOn
  <2>2. FitsOrder(t, o)
    BY <1>2, <1>4, <1>5, <1>8, <2>1 DEF FitsOrder, KnownOrder
  <2>3. QED
    BY <1>7, <2>1, <2>2
<1>9. GoesRight(k, t)
  BY <1>2, <1>8 DEF GoesRight
<1>10. QED
  BY <1>2, <1>3, <1>5, <1>6, <1>9, QuietStep

\* Time, the shop and the process.
LEMMA WindowKeeps ==
    ASSUME SessionInv, WindowEnds
    PROVE  SessionInv'
<1>1. recent' = FALSE
      /\ UNCHANGED <<credential, jar, accepted, login, items, holder, calling, sale, crew, troubles>>
  BY DEF WindowEnds, shopVars
<1>2. KeysTyped' /\ TradeTyped' /\ MuTyped' /\ CallsTyped'
  BY <1>1 DEF SessionInv, KeysTyped, TradeTyped, MuTyped, CallsTyped
<1>3. Lasts => KeysLast'
  BY <1>1 DEF SessionInv, Lasts, KeysLast
<1>4. ASSUME NEW o, OrderOwn(o)
      PROVE  OrderOwn(o)'
  <2>1. OwnItems(o)' = OwnItems(o) /\ LiveItems(o)' = LiveItems(o)
    BY <1>1 DEF OwnItems, LiveItems
  <2>2. QED
    BY <1>1, <1>4, <2>1
    DEF OrderOwn, OneWorker, WorkersFit, ItemKnown, HearsItsEnd, FitsOrder, Works, Covers
<1>5. QED
  BY <1>1, <1>2, <1>3, <1>4 DEF SessionInv, Lasts

LEMMA FinishKeeps ==
    ASSUME SessionInv, NEW i \in DOMAIN items, Finish(i)
    PROVE  SessionInv'
<1>1. PICK s \in {"done", "failed"} : items' = [items EXCEPT ![i].state = s]
  BY DEF Finish
<1>2. items[i].state = "open"
      /\ UNCHANGED <<credential, jar, accepted, login, holder, recent, calling, sale, crew, troubles>>
  BY DEF Finish, lockVars
<1>3. KeysTyped /\ TradeTyped /\ MuTyped /\ CallsTyped
  BY DEF SessionInv
<1>4. /\ items' \in Seq(ItemRecords) /\ Len(items') = Len(items) /\ DOMAIN items' = DOMAIN items
      /\ \A n \in DOMAIN items : /\ items'[n].ord = items[n].ord
                                 /\ n # i => items'[n] = items[n]
      /\ items[i].state = "open"
  <2>1. items[i] \in ItemRecords
    BY <1>3 DEF TradeTyped
  <2>2. [items[i] EXCEPT !.state = s] \in ItemRecords
        /\ [items[i] EXCEPT !.state = s].ord = items[i].ord
    BY <2>1 DEF ItemRecords
  <2>3. items' = [items EXCEPT ![i] = [items[i] EXCEPT !.state = s]]
    BY <1>1
  <2>4. QED
    BY <1>2, <1>3, <2>2, <2>3 DEF TradeTyped
<1>5. KeysTyped' /\ TradeTyped' /\ MuTyped' /\ CallsTyped'
  BY <1>2, <1>3, <1>4 DEF KeysTyped, TradeTyped, MuTyped, CallsTyped
<1>6. Lasts => KeysLast'
  BY <1>2 DEF SessionInv, Lasts, KeysLast
<1>7. \A o : OwnItems(o)' = OwnItems(o)
  BY <1>4 DEF OwnItems
<1>8. ASSUME NEW o, OrderOwn(o)
      PROVE  OrderOwn(o)'
  <2>0. LiveItems(o)' \subseteq LiveItems(o)
    BY <1>2, <1>4, <1>7 DEF OwnItems, LiveItems
  <2>1. HearsItsEnd(o)'
    BY <1>2, <1>7, <1>8, <2>0 DEF OrderOwn, HearsItsEnd
  <2>2. OneWorker(o)' /\ WorkersFit(o)' /\ ItemKnown(o)'
    BY <1>2, <1>7, <1>8, <2>0 DEF OrderOwn, OneWorker, WorkersFit, ItemKnown, FitsOrder, Works, Covers
  <2>3. QED
    BY <2>1, <2>2 DEF OrderOwn
<1>9. QED
  BY <1>2, <1>5, <1>6, <1>8 DEF SessionInv, Lasts

LEMMA DiesKeeps ==
    ASSUME SessionInv, Dies
    PROVE  SessionInv'
<1>1. ~Lasts /\ accepted' = {} /\ login' \in BOOLEAN /\ troubles' \in 0 .. MaxTroubles
      /\ UNCHANGED <<credential, jar, items, holder, recent, calling, sale, crew>>
  BY TroubleCounted DEF Dies, Lasts, lockVars, SessionInv, MuTyped
<1>2. KeysTyped' /\ TradeTyped' /\ MuTyped' /\ CallsTyped'
  BY <1>1, FS_EmptySet DEF SessionInv, KeysTyped, TradeTyped, MuTyped, CallsTyped
<1>3. QED
  BY <1>1, <1>2 DEF SessionInv, Lasts

LEMMA RestartClientKeeps ==
    ASSUME SessionInv, RestartClient
    PROVE  SessionInv'
<1>1. /\ jar' = 0 /\ holder' = {} /\ recent' = FALSE /\ troubles' \in 0 .. MaxTroubles
      /\ calling' = [c \in Callings |-> IdleCall]
      /\ \A o \in Steady : ~Buying(o)
      /\ UNCHANGED <<credential, accepted, login, items, sale, crew>>
  BY TroubleCounted DEF RestartClient, shopVars
<1>2. KeysTyped' /\ TradeTyped' /\ MuTyped' /\ CallsTyped'
  BY <1>1, IdleCallTyped DEF SessionInv, KeysTyped, TradeTyped, MuTyped, CallsTyped
<1>3. Lasts => KeysLast'
  BY <1>1, IdleCallTyped DEF SessionInv, Lasts, KeysLast
<1>4. ASSUME Lasts, NEW o \in Steady \ Looked
      PROVE  OrderOwn(o)'
  <2>1. OrderOwn(o)
    BY <1>4 DEF SessionInv, Lasts
  <2>2. \A l \in Callings : ~Works(l, o)'
    BY <1>1, IdleCallTyped DEF Works, WorksOn
  <2>3. OwnItems(o)' = OwnItems(o) /\ LiveItems(o)' = LiveItems(o)
    BY <1>1 DEF OwnItems, LiveItems
  <2>4. Covers(o, sale[o].id)
    <3>1. ASSUME NEW l \in Callings, Works(l, o)
          PROVE  calling[l].kind = "ask"
      BY <1>1, <3>1 DEF Buying, Works, WorksOn
    <3>2. ASSUME NEW l \in Callings, Works(l, o), calling[l].at = "poll"
          PROVE  sale[o].id # 0
      BY <2>1, <3>1, <3>2 DEF OrderOwn, WorkersFit, FitsOrder
    <3>3. QED
      BY <2>1, <3>2 DEF OrderOwn, ItemKnown
  <2>5. QED
    BY <1>1, <2>1, <2>2, <2>3, <2>4
    DEF OrderOwn, OneWorker, WorkersFit, ItemKnown, HearsItsEnd, Covers
<1>5. QED
  BY <1>1, <1>2, <1>3, <1>4 DEF SessionInv, Lasts

LEMMA SessionStarts ==
    ASSUME SessionInit
    PROVE  SessionInv
<1>1. /\ credential = [key |-> 1, status |-> "unknown"] /\ jar = 0 /\ accepted = {1}
      /\ login = TRUE /\ items = <<>> /\ holder = {} /\ recent = FALSE
      /\ calling = [c \in Callings |-> IdleCall]
      /\ sale = [o \in Goods |-> [id |-> 0, status |-> "open"]]
      /\ crew \in Crews /\ troubles = 0
  BY DEF SessionInit
<1>2. KeysTyped
  BY <1>1, FS_Singleton, KiosgamerAssumption DEF KeysTyped, Credentials, Statuses
<1>3. TradeTyped
  BY <1>1, KiosgamerAssumption DEF TradeTyped, SaleRecords
<1>4. MuTyped
  <2>1. TRUE \in BOOLEAN /\ FALSE \in BOOLEAN
    OBVIOUS
  <2>2. 0 \in 0 .. MaxTroubles
    BY KiosgamerAssumption
  <2>3. QED
    BY <1>1, <2>1, <2>2 DEF MuTyped
<1>5. CallsTyped /\ \A c \in Callings : calling[c] = IdleCall
  BY <1>1, IdleCallTyped DEF CallsTyped
<1>6. KeysLast
  BY <1>1, <1>5, IdleCallTyped DEF KeysLast
<1>7. ASSUME NEW o \in Steady \ Looked
      PROVE  OrderOwn(o)
  <2>1. OwnItems(o) = {} /\ LiveItems(o) = {} /\ sale[o] = [id |-> 0, status |-> "open"]
    BY <1>1, KiosgamerAssumption DEF OwnItems, LiveItems
  <2>2. \A c \in Callings : ~Works(c, o)
    BY <1>5, IdleCallTyped DEF Works
  <2>3. QED
    BY <2>1, <2>2 DEF OrderOwn, OneWorker, WorkersFit, ItemKnown, HearsItsEnd, Covers
<1>8. QED
  BY <1>2, <1>3, <1>4, <1>5, <1>6, <1>7 DEF SessionInv

LEMMA SessionInvStep ==
    ASSUME SessionInv, Wide, [SessionNext]_sessionVars
    PROVE  SessionInv'
<1>1. ASSUME NEW k \in Callings, StepOf(k) \/ SaveCredentials(k)
      PROVE  SessionInv'
  BY <1>1, LoadKeeps, PingKeeps, NoteKeeps, LockKeeps, SwapKeeps, GiveUpKeeps, StoreKeeps,
     VisitKeeps, PersistKeeps, WriteCopyKeeps, SaveKeeps, TxSessionKeeps, TxSwapKeeps,
     TxStoreKeeps, PayKeeps, PollKeeps, HistoryKeeps
  DEF StepOf
<1>2. ASSUME NEW k \in Callings, NEW kind \in CallKinds, Begin(k, kind)
      PROVE  SessionInv'
  BY <1>2, BeginKeeps
<1>3. ASSUME NEW k \in Callings, NEW kind \in {"buy", "ask"}, NEW o \in Goods, BeginOrder(k, kind, o)
      PROVE  SessionInv'
  BY <1>3, BeginOrderKeeps
<1>4. ASSUME NEW i \in DOMAIN items, Finish(i)
      PROVE  SessionInv'
  BY <1>4, FinishKeeps
<1>5. CASE WindowEnds \/ Dies \/ RestartClient
  BY <1>5, WindowKeeps, DiesKeeps, RestartClientKeeps
<1>6. CASE UNCHANGED sessionVars
  BY <1>6 DEF sessionVars, shopVars, SessionInv, KeysTyped, TradeTyped, MuTyped, CallsTyped,
     KeysLast, OrderOwn, OneWorker, WorkersFit, ItemKnown, HearsItsEnd, FitsOrder, Covers,
     OwnItems, LiveItems, Works
<1>7. QED
  BY <1>1, <1>2, <1>3, <1>4, <1>5, <1>6 DEF SessionNext

LEMMA SessionInvGives ==
    ASSUME SessionInv
    PROVE  SessionTypeOK /\ OwnOrderOnce
<1>1. SessionTypeOK
  <2>1. \A k \in Callings : calling[k] \in CallRecords
    BY DEF SessionInv, CallsTyped
  <2>2. calling \in [Callings -> CallRecords]
    BY DEF SessionInv, CallsTyped
  <2>3. holder \subseteq Callings /\ Cardinality(holder) <= 1
    <3>1. CASE holder = {}
      BY <3>1, FS_EmptySet
    <3>2. CASE \E k \in Callings : holder = {k}
      <4>1. PICK k \in Callings : holder = {k}
        BY <3>2
      <4>2. Cardinality(holder) = 1
        BY <4>1, FS_Singleton
      <4>3. QED
        BY <4>1, <4>2
    <3>3. QED
      BY <3>1, <3>2 DEF SessionInv, MuTyped
  <2>4. items \in Seq(ItemRecords) /\ Len(items) <= MaxItems /\ sale \in [Goods -> SaleRecords]
    BY DEF SessionInv, TradeTyped
  <2>5. QED
    BY <2>2, <2>3, <2>4
    DEF SessionTypeOK, SessionInv, KeysTyped, MuTyped, CallRecords, ItemRecords, SaleRecords
<1>2. ASSUME Lasts, NEW o \in Steady \ Looked
      PROVE  /\ Cardinality(LiveItems(o)) <= 1
             /\ sale[o].status = "success" => OwnItems(o) # {}
             /\ sale[o].status = "failed" => LiveItems(o) = {}
  <2>1. OrderOwn(o)
    BY <1>2 DEF SessionInv, Lasts
  <2>2. PICK i : LiveItems(o) \subseteq {i}
    BY <2>1 DEF OrderOwn, ItemKnown, WorkersFit, FitsOrder, Covers
  <2>3. LiveItems(o) = {} \/ LiveItems(o) = {i}
    BY <2>2
  <2>4. Cardinality(LiveItems(o)) <= 1
    BY <2>3, FS_EmptySet, FS_Singleton
  <2>5. QED
    BY <2>1, <2>4 DEF OrderOwn, HearsItsEnd
<1>3. OwnOrderOnce
  BY <1>2 DEF OwnOrderOnce, OwnItems, LiveItems, Lasts
<1>4. QED
  BY <1>1, <1>3

LEMMA CrewStays == [SessionNext]_sessionVars => crew' = crew
<1>1. ASSUME NEW k \in Callings, StepOf(k)
      PROVE  crew' = crew
  <2>1. CASE LoadCredential(k) \/ Ping(k) \/ Note(k) \/ Lock(k) \/ Swap(k) \/ GiveUp(k) \/ Store(k)
    BY <2>1 DEF LoadCredential, Ping, Note, Lock, Swap, GiveUp, Store
  <2>2. CASE VisitShop(k) \/ Persist(k) \/ WriteCopy(k)
    BY <2>2 DEF VisitShop, Persist, WriteCopy
  <2>3. CASE TxSession(k) \/ TxSwap(k) \/ TxStore(k) \/ Pay(k) \/ Poll(k) \/ History(k)
    BY <2>3 DEF TxSession, TxSwap, TxStore, Pay, Poll, History
  <2>4. QED
    BY <1>1, <2>1, <2>2, <2>3 DEF StepOf
<1>2. ASSUME NEW k \in Callings, SaveCredentials(k)
      PROVE  crew' = crew
  BY <1>2 DEF SaveCredentials
<1>3. ASSUME NEW k \in Callings, NEW kind, NEW o, Begin(k, kind) \/ BeginOrder(k, kind, o)
      PROVE  crew' = crew
  BY <1>3 DEF Begin, BeginOrder
<1>4. ASSUME NEW i, Finish(i)
      PROVE  crew' = crew
  BY <1>4 DEF Finish
<1>5. CASE WindowEnds \/ Dies \/ RestartClient
  BY <1>5 DEF WindowEnds, Dies, RestartClient
<1>6. CASE UNCHANGED sessionVars
  BY <1>6 DEF sessionVars
<1>7. QED
  BY <1>1, <1>2, <1>3, <1>4, <1>5, <1>6 DEF SessionNext

\* Where the shop invents keys, a set of them that no behaviour uses up is needed.
TypedOrders == Wide => SessionInv

LEMMA TypedOrdersStep == TypedOrders /\ [SessionNext]_sessionVars => TypedOrders'
  BY SessionInvStep, CrewStays DEF TypedOrders, Wide, Lasts

\* However purchases, retries, status checks, lost answers, challenges and
\* restarts follow on each other, and though an open order may be heard as a
\* success: a transaction whose own purchase loses neither its answer nor its
\* session has at most one order at Kiosgamer that may deliver, and is paid back
\* only when none may, for any number of calls, transactions and orders, where
\* the shop lets a key live on.
THEOREM OrderIsOwn == SessionInit /\ [][SessionNext]_sessionVars => []OwnOrderOnce
<1>1. SessionInit => TypedOrders
  BY SessionStarts DEF TypedOrders
<1>2. TypedOrders /\ [SessionNext]_sessionVars => TypedOrders'
  BY TypedOrdersStep
<1>3. TypedOrders => OwnOrderOnce
  BY SessionInvGives DEF TypedOrders, Wide, Lasts, OwnOrderOnce
<1>4. QED
  BY <1>1, <1>2, <1>3, PTL
-------------------------------------------------------------------------------
(* The three together.                                                     *)

GatewaysInv == GatewayInv /\ TypedOrders /\ CatalogueInv

LEMMA GatewaysInvAlways == Spec => []GatewaysInv
<1>1. Init => GatewaysInv
  BY GatewayInvInit, SessionStarts, CatalogueStarts DEF Init, GatewaysInv, TypedOrders
<1>2. GatewaysInv /\ [Next]_vars => GatewaysInv'
  <2>1. [Next]_vars => /\ [GatewayNext]_gatewayVars /\ [SessionNext]_sessionVars
                       /\ [CatalogueNext]_catalogueVars
    BY DEF Next, vars
  <2>2. QED
    BY <2>1, GatewayStep, TypedOrdersStep, CatalogueInvStep DEF GatewaysInv
<1>3. QED
  BY <1>1, <1>2, PTL DEF Spec

\* Every reachable state of the gateway, the Kiosgamer client and the catalogue
\* is well typed, whatever their sizes: one call at most holds the client's
\* mutex, an invoice is given back at most once.  The shop must have keys left
\* to invent: no finite set of them would do for a behaviour without an end.
THEOREM GatewaysTypeCorrect ==
    ASSUME ~IsFiniteSet(Tokens)
    PROVE  Spec => []GatewaysTypeOK
<1>1. GatewaysInv => GatewaysTypeOK
  BY SessionInvGives, CatalogueInvGives DEF GatewaysInv, TypedOrders, Wide, GatewayInv, GatewaysTypeOK
<1>2. QED
  BY <1>1, GatewaysInvAlways, PTL
=================================================================================
