-------------------------- MODULE OrderPaymentProofs --------------------------
(***************************************************************************)
(* Theorems of OrderLifecycle about payment and delivery: a payment is      *)
(* accepted once, nothing is bought for a gateway order before it, and a    *)
(* row says success only when the provider delivered.                       *)
(*                                                                         *)
(* BaseInv holds under every handler; PayInv adds what holds while no       *)
(* handler can write an unpaid copy back.                                   *)
(***************************************************************************)
EXTENDS OrderMoneyProofs

AdminKinds == {"retry", "setSuccess", "refund", "setFailed", "switch", "regen", "reroute"}

\* Handler k can run in an instance.
Runs(k) == k \in Kinds /\ (k \in AdminKinds => MaxAdmin > 0)

\* A plan still holds one of the operations ops.
Has(plan, ops) == \E i \in DOMAIN plan : plan[i] \in ops

\* A handler whose order is not in the table yet.
CreatePlans == {<<"debit", "insert", "purchase">>, <<"insert", "purchase">>, <<"insert">>}
Creates(h) == h.plan \in CreatePlans

\* Plans of a handler that has no row in memory.
Unread == {<<"claim", "load", "check">>, <<"load", "check">>, <<"reread">>}

\* The provider delivered; or an admin may say so, or Kiosgamer, whose answers do
\* not tell.
SaysSo == Runs("setSuccess") \/ Kiosgamer # {}
Delivered(o) == InState(o, "success") \/ SaysSo

GoodOrder(o) ==
    /\ row[o].status = "none" => row[o] = NoRow /\ placed[o] = <<>> /\ marks[o] = 0
    /\ row[o].status = "success" => Delivered(o)
    /\ o \in Mismatched => marks[o] = 0

GoodHandler(h) ==
    h # IdleJob =>
        /\ Runs(h.kind) /\ h.plan # <<>>
        /\ Creates(h) => row[h.ord] = NoRow
        /\ Has(h.plan, {"insert"}) => Creates(h)
        /\ row[h.ord].status # "none" \/ Creates(h) \/ h.plan = <<"credit">>
        /\ h.tx.status = "none" => h.plan \in Unread
        /\ Has(h.plan, {"redebit"}) => IsSaldo(h.ord)
        /\ Has(h.plan, {"mark"}) => h.ord \notin Mismatched /\ h.kind = "pay"
        /\ h.tx.status = "success" \/ h.reply.kind = "success" => Delivered(h.ord)

\* Nobody else works on an order that is being created.
CreatesAlone ==
    \A j, k \in Jobs :
        j # k /\ Creates(job[j]) /\ job[k] # IdleJob => job[k].ord # job[j].ord

BaseInv ==
    /\ \A o \in Orders : GoodOrder(o)
    /\ \A j \in Jobs : GoodHandler(job[j])
    /\ CreatesAlone

\* Operations that talk to a provider, and a handler that is going to.
Talks == {"purchase", "check", "reread"}
Reaches(h) ==
    /\ Has(h.plan, Talks)
    /\ ~Creates(h)
    /\ h.plan # <<"mark", "purchase">>

\* An order somebody has paid for; an admin may retry it without a payment.
Paid(o) == IsSaldo(o) \/ marks[o] >= 1 \/ Runs("retry")

PaidOrder(o) ==
    /\ marks[o] <= 1
    /\ row[o].status = "pending" =>
          marks[o] = 0 /\ placed[o] = <<>> /\ ~row[o].verified /\ ~IsSaldo(o)
    /\ row[o].status = "processing" \/ placed[o] # <<>> => Paid(o)

PaidHandler(h) ==
    h # IdleJob =>
        /\ h.tx.status = "pending" =>
              /\ h.plan \in {<<"insert">>, <<"mark", "purchase">>, <<"purchase">>}
              /\ ~h.tx.verified /\ ~IsSaldo(h.ord)
        /\ h.tx.status = "processing" => Paid(h.ord)
        /\ Reaches(h) => row[h.ord].status \notin {"none", "pending"} /\ Paid(h.ord)
        /\ h.plan \in CreatePlans \ {<<"insert">>} => IsSaldo(h.ord)

PayInv ==
    /\ \A o \in Orders : PaidOrder(o)
    /\ \A j \in Jobs : PaidHandler(job[j])

-------------------------------------------------------------------------------
(* What a plan holds, when it gets shorter or longer.                      *)

LEMMA HasTail ==
    ASSUME NEW s \in Seq(Ops), s # <<>>, NEW ops, Has(Tail(s), ops)
    PROVE  Has(s, ops)
<1>1. PICK i \in DOMAIN Tail(s) : Tail(s)[i] \in ops
  BY DEF Has
<1>2. i + 1 \in DOMAIN s /\ s[i + 1] = Tail(s)[i]
  BY <1>1
<1>3. QED
  BY <1>1, <1>2 DEF Has

LEMMA HasConcat ==
    ASSUME NEW s \in Seq(Ops), NEW t \in Seq(Ops), NEW ops, Has(s \o t, ops)
    PROVE  Has(s, ops) \/ Has(t, ops)
<1>1. PICK i \in DOMAIN (s \o t) : (s \o t)[i] \in ops
  BY DEF Has
<1>2. CASE i <= Len(s)
  BY <1>1, <1>2 DEF Has
<1>3. CASE i > Len(s)
  <2>1. i - Len(s) \in DOMAIN t /\ t[i - Len(s)] = (s \o t)[i]
    BY <1>1, <1>3
  <2>2. QED
    BY <1>1, <2>1 DEF Has
<1>4. QED
  BY <1>1, <1>2, <1>3

LEMMA HasSkip ==
    ASSUME NEW s \in Seq(Ops), NEW ops, Has(SubSeq(s, 3, Len(s)), ops)
    PROVE  Has(s, ops)
<1> DEFINE skip == SubSeq(s, 3, Len(s))
<1>1. ASSUME NEW i \in DOMAIN skip
      PROVE  i + 2 \in DOMAIN s /\ skip[i] = s[i + 2]
  OBVIOUS
<1>2. QED
  BY <1>1 DEF Has

\* The writes of applyResult start and redo nothing.
WriteOps == {"status", "save", "hasRefund", "credit"}

LEMMA ResultWritesOps ==
    ASSUME NEW o, NEW reply, NEW src
    PROVE  /\ ResultWrites(o, reply, src) \in Seq(WriteOps)
           /\ ResultWrites(o, reply, src) # <<>>
<1> DEFINE R == safeRefundTransaction(o)
<1>1. R \in Seq(WriteOps)
  <2>1. <<"hasRefund", "credit">> \in Seq(WriteOps) /\ <<>> \in Seq(WriteOps)
    BY DEF WriteOps
  <2>2. QED
    BY <2>1, Zenon DEF safeRefundTransaction
<1>2. /\ <<"save">> \in Seq(WriteOps) /\ <<"status">> \in Seq(WriteOps)
      /\ <<"save", "status">> \in Seq(WriteOps) /\ <<"status", "save">> \in Seq(WriteOps)
  BY DEF WriteOps
<1>3. <<"status">> \o R \in Seq(WriteOps)
  BY <1>1, <1>2
<1>4. <<"status">> \o R \o <<"save">> \in Seq(WriteOps) /\ <<"status">> \o R \o <<"save">> # <<>>
  BY <1>2, <1>3
<1>5. <<"save", "status">> \o R \in Seq(WriteOps) /\ <<"save", "status">> \o R # <<>>
  BY <1>1, <1>2
<1> HIDE DEF R
<1>6. \/ ResultWrites(o, reply, src) = <<"status">> \o R \o <<"save">>
      \/ ResultWrites(o, reply, src) = <<"save", "status">> \o R
      \/ ResultWrites(o, reply, src) = <<"save", "status">>
      \/ ResultWrites(o, reply, src) = <<"save">>
      \/ ResultWrites(o, reply, src) = <<"status", "save">>
  BY Zenon DEF ResultWrites, R
<1>7. ResultWrites(o, reply, src) \in Seq(WriteOps)
  BY <1>2, <1>4, <1>5, <1>6, Zenon
<1>8. /\ <<"save">> # <<>> /\ <<"save", "status">> # <<>> /\ <<"status", "save">> # <<>>
  OBVIOUS
<1>9. QED
  BY <1>4, <1>5, <1>6, <1>7, <1>8, Zenon

LEMMA WritesHaveNot ==
    ASSUME NEW plan \in Seq(WriteOps), NEW ops, ops \cap WriteOps = {}
    PROVE  ~Has(plan, ops)
  BY DEF Has

\* The plans a handler starts with.
LEMMA StartingPlans ==
    /\ \A plan \in {<<"mark", "purchase">>, <<"status">>, <<"check">>,
                    <<"claim", "load", "check">>, <<"claim", "save", "purchase">>,
                    <<"save", "purchase">>, <<"save", "status">>, <<"save">>,
                    <<"saveOrAbort", "purchase">>,
                    <<"redebit", "save", "purchase">>, <<"redebit", "save", "status">>,
                    <<"hasRefund", "creditOrAbort", "save", "status">>,
                    <<"hasRefund", "creditOrAbort", "save">>,
                    <<"credit">>, <<"reread">>} :
          /\ plan # <<>> /\ plan \notin CreatePlans /\ ~Has(plan, {"insert"})
          /\ Has(plan, {"redebit"}) =>
                plan \in {<<"redebit", "save", "purchase">>, <<"redebit", "save", "status">>}
          /\ Has(plan, {"mark"}) => plan = <<"mark", "purchase">>
    /\ \A plan \in CreatePlans :
          plan # <<>> /\ ~Has(plan, {"redebit"}) /\ ~Has(plan, {"mark"})
    /\ \A plan \in Unread : plan \notin CreatePlans /\ plan # <<"credit">>
  BY DEF Has, CreatePlans, Unread

\* What an admin who gives the money back plans.
LEMMA AdminRefundPlans ==
    ASSUME NEW o, NEW last \in {<<"save", "status">>, <<"save">>}
    PROVE  /\ RefundOrAbort(o) \o last # <<>>
           /\ RefundOrAbort(o) \o last \notin CreatePlans
           /\ \A op \in ({"insert", "redebit", "mark"} \cup Talks) :
                 ~Has(RefundOrAbort(o) \o last, {op})
<1>1. /\ <<"hasRefund", "creditOrAbort">> \in Seq(Ops) /\ <<>> \in Seq(Ops)
      /\ <<"save", "status">> \in Seq(Ops) /\ <<"save">> \in Seq(Ops)
  BY DEF Ops
<1>2. RefundOrAbort(o) \in {<<"hasRefund", "creditOrAbort">>, <<>>}
  BY Zenon DEF RefundOrAbort
<1>3. \A op \in ({"insert", "redebit", "mark"} \cup Talks) :
         ~Has(RefundOrAbort(o), {op}) /\ ~Has(last, {op})
  BY <1>2 DEF Has, Talks
<1>4. RefundOrAbort(o) \in Seq(Ops) /\ last \in Seq(Ops)
  BY <1>1, <1>2
<1>5. \A op \in ({"insert", "redebit", "mark"} \cup Talks) : ~Has(RefundOrAbort(o) \o last, {op})
  BY <1>3, <1>4, HasConcat
<1>6. \A plan \in CreatePlans : Has(plan, {"insert"})
  BY DEF CreatePlans, Has
<1>7. RefundOrAbort(o) \o last # <<>>
  <2>1. last # <<>>
    OBVIOUS
  <2>2. QED
    BY <1>4, <2>1
<1>8. QED
  BY <1>5, <1>6, <1>7

LEMMA CreateTails ==
    /\ Head(<<"debit", "insert", "purchase">>) = "debit"
    /\ Tail(<<"debit", "insert", "purchase">>) \in CreatePlans
    /\ Head(<<"insert", "purchase">>) = "insert" /\ Head(<<"insert">>) = "insert"
    /\ \A plan \in {Tail(<<"insert", "purchase">>), Tail(<<"insert">>)} :
          plan \notin CreatePlans /\ ~Has(plan, {"insert"})
    /\ Tail(<<"claim", "load", "check">>) \in Unread
    /\ Head(<<"load", "check">>) = "load" /\ Head(<<"reread">>) = "reread"
<1>1. Tail(<<"debit", "insert", "purchase">>) = <<"insert", "purchase">>
  OBVIOUS
<1>2. Tail(<<"insert", "purchase">>) = <<"purchase">> /\ Tail(<<"insert">>) = <<>>
  OBVIOUS
<1>3. Tail(<<"claim", "load", "check">>) = <<"load", "check">>
  OBVIOUS
<1>4. \A plan \in {<<"purchase">>, <<>>} : plan \notin CreatePlans /\ ~Has(plan, {"insert"})
  BY DEF CreatePlans, Has
<1>5. QED
  BY <1>1, <1>2, <1>3, <1>4 DEF CreatePlans, Unread

-------------------------------------------------------------------------------
(* What a step does to the jobs.                                           *)

\* The idle job holds nothing.
LEMMA IdleFacts ==
    /\ IdleJob.plan = <<>> /\ IdleJob.reply = NoReply /\ NoReply.kind = "errHold"
    /\ NoRow.status = "none"
    /\ ~Creates(IdleJob)
    /\ \A ops : ~Has(<<>>, ops)
<1>1. ~Creates(IdleJob)
  BY DEF Creates, IdleJob, CreatePlans
<1>2. \A ops : ~Has(<<>>, ops)
  BY DEF Has
<1>3. NoRow.status = "none"
  BY DEF NoRow
<1>4. NoReply.kind = "errHold"
  BY DEF NoReply, Reply
<1>5. IdleJob.plan = <<>> /\ IdleJob.reply = NoReply
  BY DEF IdleJob
<1>6. QED
  BY <1>1, <1>2, <1>3, <1>4, <1>5

LEMMA StartFields ==
    ASSUME TypeOK, NEW j \in Jobs, NEW k, NEW o, NEW tx, NEW plan,
           Start(j, k, o, tx, plan), plan # <<>>
    PROVE  /\ OthersKeep(j) /\ job[j] = IdleJob /\ job'[j] # IdleJob /\ k \in Kinds
           /\ job'[j].kind = k /\ job'[j].ord = o /\ job'[j].tx = tx
           /\ job'[j].plan = plan /\ job'[j].reply = NoReply
<1>1. job \in [Jobs -> JobStates]
  BY DEF TypeOK
<1>2. OthersKeep(j)
  BY <1>1 DEF Start, OthersKeep
<1>3. job'[j] = [IdleJob EXCEPT !.kind = k, !.ord = o, !.tx = tx, !.plan = plan]
  BY <1>1 DEF Start
<1>4. /\ job'[j].kind = k /\ job'[j].ord = o /\ job'[j].tx = tx
      /\ job'[j].plan = plan /\ job'[j].reply = NoReply
  BY <1>3 DEF IdleJob
<1>5. job'[j] # IdleJob
  BY <1>4, IdleFacts
<1>6. QED
  BY <1>2, <1>4, <1>5 DEF Start

LEMMA ContinueFields ==
    ASSUME TypeOK, NEW j \in Jobs, NEW tx, NEW plan, Continue(j, tx, plan)
    PROVE  /\ OthersKeep(j)
           /\ plan = <<>> => job'[j] = IdleJob
           /\ plan # <<>> =>
                 /\ job'[j] # IdleJob
                 /\ job'[j].kind = job[j].kind /\ job'[j].ord = job[j].ord
                 /\ job'[j].tx = tx /\ job'[j].plan = plan /\ job'[j].reply = NoReply
<1>1. job \in [Jobs -> JobStates] /\ job[j] \in JobStates
  BY DEF TypeOK
<1>2. OthersKeep(j)
  BY <1>1 DEF Continue, OthersKeep
<1>3. plan = <<>> => job'[j] = IdleJob
  BY <1>1 DEF Continue
<1>4. ASSUME plan # <<>>
      PROVE  job'[j] = [job[j] EXCEPT !.tx = tx, !.plan = plan,
                                      !.reply = NoReply, !.src = "fulfill"]
  BY <1>1, <1>4 DEF Continue
<1>5. ASSUME plan # <<>>
      PROVE  /\ job'[j].kind = job[j].kind /\ job'[j].ord = job[j].ord
             /\ job'[j].tx = tx /\ job'[j].plan = plan /\ job'[j].reply = NoReply
  BY <1>1, <1>4, <1>5 DEF JobStates
<1>6. plan # <<>> => job'[j] # IdleJob
  BY <1>5, IdleFacts
<1>7. QED
  BY <1>2, <1>3, <1>5, <1>6

LEMMA AbortFields ==
    ASSUME TypeOK, NEW j \in Jobs, Abort(j)
    PROVE  OthersKeep(j) /\ job'[j] = IdleJob
  BY DEF TypeOK, Abort, OthersKeep

LEMMA ActiveJob ==
    ASSUME NEW j \in Jobs, job[j].plan # <<>>
    PROVE  job[j] # IdleJob
  BY DEF IdleJob

-------------------------------------------------------------------------------
(* What a call to a provider can return.                                   *)

\* A verdict says what the order's state is.
LEMMA VerdictKind ==
    ASSUME NEW i, NEW s, NEW r \in VerdictReplies(i, s), s \in PlacedStates
    PROVE  /\ r.kind = "success" => s = "success"
           /\ r.kind \in {"failed", "errFinal"} => s = "failed"
<1>1. CASE s = "open"
  BY <1>1 DEF VerdictReplies, Reply
<1>2. CASE s = "success"
  BY <1>2 DEF VerdictReplies, Reply
<1>3. CASE s = "failed"
  BY <1>3 DEF VerdictReplies, Reply
<1>4. QED
  BY <1>1, <1>2, <1>3 DEF PlacedStates

LEMMA RefusalKind ==
    ASSUME NEW t
    PROVE  RefusalOf(t).kind \in {"errHold", "hold", "errConfig"}
<1>1. RefusalOf(t) \in {Reply("errHold", 0, "pending"), Reply("hold", 0, "saldo"),
                        Reply("errHold", 0, "held"), Reply("errConfig", 0, "held")}
  BY Zenon DEF RefusalOf
<1>2. QED
  BY <1>1 DEF Reply

\* The provider's orders only grow.
LEMMA AnswersGrow ==
    ASSUME NEW o \in Orders, NEW p \in Providers, NEW tx \in Rows, NEW call,
           placed \in [Orders -> Seq(PlacedOrders)], Len(placed[o]) <= MaxPlaced,
           NEW x \in Answers(o, p, tx, call)
    PROVE  \A i \in DOMAIN placed[o] : i \in DOMAIN x.orders /\ x.orders[i] = placed[o][i]
<1>1. x.orders = placed[o] \/ Adds(o, p, tx, x)
  BY AnswersType
<1>2. ASSUME Adds(o, p, tx, x)
      PROVE  \A i \in DOMAIN placed[o] : i \in DOMAIN x.orders /\ x.orders[i] = placed[o][i]
  <2>1. PICK s \in PlacedStates :
           x.orders = Append(placed[o], [prov |-> p, ref |-> tx.ref, state |-> s])
    BY <1>2 DEF Adds
  <2> DEFINE new == [prov |-> p, ref |-> tx.ref, state |-> s]
  <2> HIDE DEF new
  <2>2. x.orders = Append(placed[o], new) /\ placed[o] \in Seq(PlacedOrders)
    BY <2>1 DEF new
  <2>3. QED
    BY <2>2
<1>3. QED
  BY <1>1, <1>2

\* But for Kiosgamer, a final answer is about one of them.
LEMMA ExchangeAnswers ==
    ASSUME NEW o \in Orders, NEW p \in Providers, NEW tx \in Rows, NEW call,
           placed[o] \in Seq(PlacedOrders), NEW x \in Exchange(o, p, tx, call)
    PROVE  /\ \A i \in DOMAIN placed[o] :
                 i \in DOMAIN x.orders /\ x.orders[i] = placed[o][i]
           /\ x.reply.kind = "success" =>
                 \E i \in DOMAIN x.orders : x.orders[i].state = "success"
           /\ x.reply.kind \in {"failed", "errFinal"} =>
                 \E i \in DOMAIN x.orders : x.orders[i].state = "failed"
<1> DEFINE finals == {"success", "failed", "errFinal"}
<1>1. \A r \in Refusals : r.kind \notin finals
  BY RefusalKind DEF Refusals
<1>2. \A r \in Lost : r.kind \notin finals
  BY RefusalKind DEF Lost
<1>3. Reply("pending", 0, "pending").kind \notin finals
  BY DEF Reply
<1>4. CASE /\ x.orders = placed[o]
           /\ \/ x.reply \in Refusals
              \/ x.reply = Reply("pending", 0, "pending")
              \/ \E i \in Known(o, p, tx) :
                    x.reply \in VerdictReplies(i, placed[o][i].state)
  <2>1. CASE x.reply \in Refusals \/ x.reply = Reply("pending", 0, "pending")
    BY <1>1, <1>3, <1>4, <2>1
  <2>2. CASE \E i \in Known(o, p, tx) : x.reply \in VerdictReplies(i, placed[o][i].state)
    <3>1. PICK i \in Known(o, p, tx) : x.reply \in VerdictReplies(i, placed[o][i].state)
      BY <2>2
    <3>2. i \in DOMAIN placed[o]
      BY DEF Known
    <3>3. placed[o][i].state \in PlacedStates
      <4>1. placed[o][i] \in PlacedOrders
        BY <3>2
      <4>2. QED
        BY <4>1 DEF PlacedOrders
    <3>4. /\ x.reply.kind = "success" => placed[o][i].state = "success"
          /\ x.reply.kind \in {"failed", "errFinal"} => placed[o][i].state = "failed"
      BY <3>1, <3>3, VerdictKind
    <3>5. QED
      BY <1>4, <3>2, <3>4
  <2>3. QED
    BY <1>4, <2>1, <2>2
<1>5. ASSUME NEW s \in PlacedStates,
             x.orders = Append(placed[o], [prov |-> p, ref |-> tx.ref, state |-> s]),
             \/ x.reply \in Lost
             \/ x.reply \in VerdictReplies(Len(placed[o]) + 1, s)
      PROVE  /\ \A i \in DOMAIN placed[o] :
                   i \in DOMAIN x.orders /\ x.orders[i] = placed[o][i]
             /\ x.reply.kind = "success" =>
                   \E i \in DOMAIN x.orders : x.orders[i].state = "success"
             /\ x.reply.kind \in {"failed", "errFinal"} =>
                   \E i \in DOMAIN x.orders : x.orders[i].state = "failed"
  <2> DEFINE n == Len(placed[o]) + 1
             new == [prov |-> p, ref |-> tx.ref, state |-> s]
  <2>1. new.state = s
    OBVIOUS
  <2> HIDE DEF new
  <2>2. /\ \A i \in DOMAIN placed[o] : i \in DOMAIN x.orders /\ x.orders[i] = placed[o][i]
        /\ n \in DOMAIN x.orders /\ x.orders[n] = new
    BY <1>5 DEF new
  <2>3. /\ x.reply.kind = "success" => s = "success"
        /\ x.reply.kind \in {"failed", "errFinal"} => s = "failed"
    BY <1>2, <1>5, VerdictKind
  <2>4. QED
    BY <2>1, <2>2, <2>3
<1>6. \/ /\ x.orders = placed[o]
         /\ \/ x.reply \in Refusals
            \/ x.reply = Reply("pending", 0, "pending")
            \/ \E i \in Known(o, p, tx) :
                  x.reply \in VerdictReplies(i, placed[o][i].state)
      \/ \E s \in PlacedStates :
            /\ x.orders = Append(placed[o], [prov |-> p, ref |-> tx.ref, state |-> s])
            /\ \/ x.reply \in Lost
               \/ x.reply \in VerdictReplies(Len(placed[o]) + 1, s)
  BY ExchangeShape, Zenon
<1>7. QED
  BY <1>4, <1>5, <1>6, Zenon

-------------------------------------------------------------------------------
(* BaseInv, step by step.                                                  *)

\* A row is written by a handler of the order, and never deleted.
RowsKept(j) ==
    \A o \in Orders :
        /\ row[o].status # "none" => row'[o].status # "none"
        /\ row'[o] = row[o] \/ (job[j] # IdleJob /\ o = job[j].ord)

\* Delivered of an order after the step.
DeliveredNext(o) ==
    (\E i \in DOMAIN placed'[o] : placed'[o][i].state = "success") \/ SaysSo
DeliveredKept == \A o \in Orders : Delivered(o) => DeliveredNext(o)

\* Job j goes on or ends, starts on an order that exists, or is alone on it.
Turn(j) ==
    \/ job'[j] = IdleJob
    \/ /\ job[j] # IdleJob /\ job'[j].ord = job[j].ord
       /\ Creates(job'[j]) => Creates(job[j])
    \/ row[job'[j].ord].status # "none" /\ ~Creates(job'[j])
    \/ \A k \in Jobs : k # j /\ job[k] # IdleJob => job[k].ord # job'[j].ord

LEMMA BaseFrame ==
    ASSUME TypeOK, BaseInv, NEW j \in Jobs,
           OthersKeep(j), RowsKept(j), DeliveredKept, Turn(j),
           GoodHandler(job[j])', \A o \in Orders : GoodOrder(o)'
    PROVE  BaseInv'
<1>1. job \in [Jobs -> JobStates]
  BY DEF TypeOK
<1>2. ASSUME NEW k \in Jobs, k # j, job[k] # IdleJob
      PROVE  GoodHandler(job[k])'
  <2>1. job'[k] = job[k] /\ job[k].ord \in Orders /\ GoodHandler(job[k])
    BY <1>1, <1>2, JobFacts DEF OthersKeep, BaseInv
  <2>2. Creates(job[k]) => row'[job[k].ord] = NoRow
    <3>1. CASE row'[job[k].ord] = row[job[k].ord]
      BY <1>1, <1>2, <2>1, <3>1 DEF GoodHandler, DeliveredKept
    <3>2. CASE job[j] # IdleJob /\ job[k].ord = job[j].ord
      BY <1>2, <3>2 DEF BaseInv, CreatesAlone
    <3>3. QED
      BY <2>1, <3>1, <3>2 DEF RowsKept
  <2>3. row[job[k].ord].status # "none" => row'[job[k].ord].status # "none"
    BY <2>1 DEF RowsKept
  <2>4. Delivered(job[k].ord) => DeliveredNext(job[k].ord)
    BY <2>1 DEF DeliveredKept
  <2> DEFINE h == job[k]
  <2>5. /\ Runs(h.kind) /\ h.plan # <<>>
        /\ Has(h.plan, {"insert"}) => Creates(h)
        /\ row'[h.ord].status # "none" \/ Creates(h) \/ h.plan = <<"credit">>
        /\ h.tx.status = "none" => h.plan \in Unread
        /\ Has(h.plan, {"redebit"}) => IsSaldo(h.ord)
        /\ Has(h.plan, {"mark"}) => h.ord \notin Mismatched /\ h.kind = "pay"
        /\ h.tx.status = "success" \/ h.reply.kind = "success" => DeliveredNext(h.ord)
    BY <1>2, <2>1, <2>3, <2>4 DEF GoodHandler
  <2>6. QED
    BY <2>1, <2>2, <2>5 DEF GoodHandler, Creates, IsSaldo, Delivered, DeliveredNext, Runs, Has, InState, SaysSo
<1>3. ASSUME NEW k \in Jobs PROVE GoodHandler(job[k])'
  <2>1. CASE k = j
    BY <2>1
  <2>2. CASE k # j /\ job[k] = IdleJob
    <3>1. job'[k] = IdleJob
      BY <2>2 DEF OthersKeep
    <3>2. QED
      BY <3>1 DEF GoodHandler
  <2>3. QED
    BY <1>2, <2>1, <2>2
<1>4. ASSUME NEW k \in Jobs, k # j, Creates(job[k]), job'[j] # IdleJob
      PROVE  job'[j].ord # job[k].ord
  <2>1. job[k] # IdleJob /\ GoodHandler(job[k])
    BY <1>4, IdleFacts DEF BaseInv
  <2>2. row[job[k].ord].status = "none"
    BY <1>4, <2>1, IdleFacts DEF GoodHandler
  <2>3. CASE job[j] # IdleJob /\ job'[j].ord = job[j].ord
    BY <1>4, <2>3 DEF BaseInv, CreatesAlone
  <2>4. QED
    BY <1>4, <2>1, <2>2, <2>3 DEF Turn
<1>5. ASSUME NEW k \in Jobs, k # j, Creates(job'[j]), job[k] # IdleJob
      PROVE  job[k].ord # job'[j].ord
  <2>1. job'[j] # IdleJob
    BY <1>5, IdleFacts
  <2>2. CASE job[j] # IdleJob /\ job'[j].ord = job[j].ord /\ Creates(job[j])
    BY <1>5, <2>2 DEF BaseInv, CreatesAlone
  <2>3. QED
    BY <1>5, <2>1, <2>2 DEF Turn
<1>6. CreatesAlone'
  <2> SUFFICES ASSUME NEW i \in Jobs, NEW k \in Jobs, i # k,
                      Creates(job'[i]), job'[k] # IdleJob
               PROVE  job'[k].ord # job'[i].ord
    BY DEF CreatesAlone, Creates, IdleJob, NoRow, NoReply, Reply
  <2>1. CASE i = j
    BY <1>5, <2>1 DEF OthersKeep
  <2>2. CASE k = j
    BY <1>4, <2>2 DEF OthersKeep
  <2>3. CASE i # j /\ k # j
    BY <2>3 DEF OthersKeep, BaseInv, CreatesAlone
  <2>4. QED
    BY <2>1, <2>2, <2>3
<1>7. QED
  BY <1>3, <1>6 DEF BaseInv

\* A step that writes no row and calls no provider.
LEMMA BaseJobFrame ==
    ASSUME TypeOK, BaseInv, NEW j \in Jobs, UNCHANGED <<row, marks, placed>>,
           OthersKeep(j), Turn(j), GoodHandler(job[j])'
    PROVE  BaseInv'
<1>1. row' = row /\ marks' = marks /\ placed' = placed
  OBVIOUS
<1>2. RowsKept(j) /\ DeliveredKept
  BY <1>1 DEF RowsKept, DeliveredKept, Delivered, DeliveredNext, InState, Runs, SaysSo
<1>3. \A o \in Orders : GoodOrder(o)'
  BY <1>1 DEF BaseInv, GoodOrder, Delivered, DeliveredNext, InState, Runs, SaysSo
<1>4. QED
  BY <1>2, <1>3, BaseFrame

LEMMA AbortBase ==
    ASSUME TypeOK, NEW j \in Jobs, Abort(j)
    PROVE  OthersKeep(j) /\ GoodHandler(job[j])' /\ Turn(j)
<1>1. OthersKeep(j) /\ job'[j] = IdleJob
  BY AbortFields
<1>2. QED
  BY <1>1 DEF GoodHandler, Turn

\* A handler that goes on with another copy or another plan.
LEMMA ContinueBase ==
    ASSUME TypeOK, BaseInv, NEW j \in Jobs, NEW tx, NEW plan,
           job[j].plan # <<>>, Continue(j, tx, plan),
           plan # <<>> =>
               /\ plan \in CreatePlans => Creates(job[j]) /\ row'[job[j].ord] = NoRow
               /\ Has(plan, {"insert"}) => plan \in CreatePlans
               /\ row'[job[j].ord].status # "none" \/ plan \in CreatePlans \/ plan = <<"credit">>
               /\ tx.status = "none" => plan \in Unread
               /\ Has(plan, {"redebit"}) => IsSaldo(job[j].ord)
               /\ Has(plan, {"mark"}) =>
                     job[j].ord \notin Mismatched /\ job[j].kind = "pay"
               /\ tx.status = "success" => DeliveredNext(job[j].ord)
    PROVE  OthersKeep(j) /\ GoodHandler(job[j])' /\ Turn(j)
<1>1. job[j] # IdleJob /\ Runs(job[j].kind)
  BY ActiveJob DEF BaseInv, GoodHandler
<1>2. CASE plan = <<>>
  <2>1. OthersKeep(j) /\ job'[j] = IdleJob
    BY <1>2, ContinueFields
  <2>2. QED
    BY <2>1 DEF GoodHandler, Turn
<1>3. CASE plan # <<>>
  <2>1. /\ OthersKeep(j) /\ job'[j] # IdleJob
        /\ job'[j].kind = job[j].kind /\ job'[j].ord = job[j].ord
        /\ job'[j].tx = tx /\ job'[j].plan = plan /\ job'[j].reply = NoReply
    BY <1>3, ContinueFields
  <2>2. job'[j].reply.kind # "success"
    BY <2>1, IdleFacts
  <2>3. Turn(j)
    BY <1>1, <1>3, <2>1 DEF Turn, Creates
  <2>4. GoodHandler(job[j])'
    BY <1>1, <1>3, <2>1, <2>2
       DEF GoodHandler, Creates, Delivered, DeliveredNext, InState, Runs, IsSaldo, Has, SaysSo
  <2>5. QED
    BY <2>1, <2>3, <2>4
<1>4. QED
  BY <1>2, <1>3

\* A handler that goes on with its copy and the rest of its plan.
LEMMA ProceedBase ==
    ASSUME TypeOK, BaseInv, NEW j \in Jobs, job[j].plan # <<>>, Proceed(j),
           Head(job[j].plan) \notin {"load", "reread"},
           row[job[j].ord].status # "none" => row'[job[j].ord].status # "none",
           Head(job[j].plan) = "insert" => row'[job[j].ord].status # "none",
           Head(job[j].plan) = "debit" => row' = row,
           DeliveredKept
    PROVE  OthersKeep(j) /\ GoodHandler(job[j])' /\ Turn(j)
<1> DEFINE h == job[j]
           rest == Rest(j)
<1>1. /\ h # IdleJob /\ GoodHandler(h) /\ h.plan \in Seq(Ops) /\ rest \in Seq(Ops)
      /\ rest = Tail(h.plan) /\ Continue(j, h.tx, rest)
  BY ActiveJob, JobFacts DEF BaseInv, TypeOK, Proceed, Rest
<1>2. \A ops : Has(rest, ops) => Has(h.plan, ops)
  BY <1>1, HasTail
<1>3. Creates(h) =>
         \/ Head(h.plan) = "debit" /\ rest \in CreatePlans
         \/ /\ Head(h.plan) = "insert" /\ rest \notin CreatePlans
            /\ ~Has(rest, {"insert"})
  <2>1. CASE h.plan = <<"debit", "insert", "purchase">>
    BY <1>1, <2>1, CreateTails
  <2>2. CASE h.plan = <<"insert", "purchase">>
    BY <1>1, <2>2, CreateTails
  <2>3. CASE h.plan = <<"insert">>
    BY <1>1, <2>3, CreateTails
  <2>4. QED
    BY <2>1, <2>2, <2>3 DEF Creates, CreatePlans
<1>4. rest \in CreatePlans => Has(rest, {"insert"})
  BY DEF CreatePlans, Has
<1>5. h.plan \in Unread => rest \in Unread
  <2>1. CASE h.plan = <<"claim", "load", "check">>
    BY <1>1, <2>1, CreateTails
  <2>2. CASE h.plan = <<"load", "check">> \/ h.plan = <<"reread">>
    BY <2>2, CreateTails
  <2>3. QED
    BY <2>1, <2>2 DEF Unread
<1>6. h.plan = <<"credit">> => rest = <<>>
  BY <1>1
<1> HIDE DEF rest
<1>7. rest \in CreatePlans => Creates(h) /\ row'[h.ord] = NoRow
  BY <1>1, <1>2, <1>3, <1>4 DEF GoodHandler
<1>8. Has(rest, {"insert"}) => rest \in CreatePlans
  BY <1>1, <1>2, <1>3 DEF GoodHandler
<1>9. rest # <<>> => row'[h.ord].status # "none" \/ rest \in CreatePlans
  BY <1>1, <1>3, <1>6 DEF GoodHandler
<1>10. /\ h.tx.status = "none" => rest \in Unread
       /\ Has(rest, {"redebit"}) => IsSaldo(h.ord)
       /\ Has(rest, {"mark"}) => h.ord \notin Mismatched /\ h.kind = "pay"
       /\ h.tx.status = "success" => DeliveredNext(h.ord)
  <2>1. h.ord \in Orders
    BY JobFacts DEF TypeOK
  <2>2. QED
    BY <1>1, <1>2, <1>5, <2>1 DEF GoodHandler, DeliveredKept
<1>11. QED
  BY <1>1, <1>7, <1>8, <1>9, <1>10, ContinueBase

\* What the head of a plan says of its handler.
LEMMA HeadBase ==
    ASSUME TypeOK, BaseInv, NEW j \in Jobs, job[j].plan # <<>>
    PROVE  /\ GoodHandler(job[j]) /\ job[j] # IdleJob
           /\ Head(job[j].plan) \notin {"debit", "insert"} => ~Creates(job[j])
           /\ Head(job[j].plan) \notin {"debit", "insert", "credit"} =>
                 row[job[j].ord].status # "none"
           /\ Head(job[j].plan) \notin {"claim", "load", "reread"} =>
                 job[j].tx.status # "none"
           /\ Has(job[j].plan, {Head(job[j].plan)})
<1> DEFINE h == job[j]
<1>1. GoodHandler(h) /\ h # IdleJob /\ h.plan \in Seq(Ops)
  BY ActiveJob, JobFacts DEF BaseInv, TypeOK
<1>2. Creates(h) => Head(h.plan) \in {"debit", "insert"}
  BY CreateTails DEF Creates, CreatePlans
<1>3. h.plan \in Unread => Head(h.plan) \in {"claim", "load", "reread"}
  <2>1. Head(<<"claim", "load", "check">>) = "claim"
    OBVIOUS
  <2>2. QED
    BY <2>1, CreateTails DEF Unread
<1>4. h.plan = <<"credit">> => Head(h.plan) = "credit"
  OBVIOUS
<1>5. Has(h.plan, {Head(h.plan)})
  BY <1>1 DEF Has
<1>6. QED
  BY <1>1, <1>2, <1>3, <1>4, <1>5 DEF GoodHandler

\* A handler past its first write that goes on with a plan that starts nothing.
LEMMA GoOnBase ==
    ASSUME TypeOK, BaseInv, NEW j \in Jobs, NEW tx, NEW plan,
           job[j].plan # <<>>, Head(job[j].plan) \notin {"debit", "insert", "credit"},
           Continue(j, tx, plan), row' = row,
           \A op \in {"insert", "redebit", "mark"} :
               Has(plan, {op}) => Has(job[j].plan, {op}),
           tx.status = "none" => plan \in Unread,
           tx.status = "success" => DeliveredNext(job[j].ord)
    PROVE  OthersKeep(j) /\ GoodHandler(job[j])' /\ Turn(j)
<1>1. /\ GoodHandler(job[j]) /\ job[j] # IdleJob /\ ~Creates(job[j])
      /\ row[job[j].ord].status # "none"
  BY HeadBase
<1>2. ~Has(plan, {"insert"})
  BY <1>1 DEF GoodHandler
<1>3. plan \notin CreatePlans
  BY <1>2 DEF CreatePlans, Has
<1>4. Has(plan, {"redebit"}) => IsSaldo(job[j].ord)
  BY <1>1 DEF GoodHandler
<1>5. Has(plan, {"mark"}) => job[j].ord \notin Mismatched /\ job[j].kind = "pay"
  BY <1>1 DEF GoodHandler
<1>6. QED
  BY <1>1, <1>2, <1>3, <1>4, <1>5, ContinueBase

\* applyResult on a copy, and the writes that follow.
LEMMA ApplyBase ==
    ASSUME TypeOK, BaseInv, NEW j \in Jobs, NEW tx \in Rows, NEW reply \in Replies, NEW src,
           job[j].plan # <<>>, Head(job[j].plan) \notin {"debit", "insert", "credit"},
           Apply(j, tx, reply, src), row' = row, tx.status # "none",
           tx.status = "success" \/ reply.kind = "success" => DeliveredNext(job[j].ord)
    PROVE  OthersKeep(j) /\ GoodHandler(job[j])' /\ Turn(j)
<1>1. CASE Dropped(reply, src)
  BY <1>1, AbortBase DEF Apply
<1>2. CASE ~Dropped(reply, src)
  <2> DEFINE plan == ResultWrites(job[j].ord, reply, src)
  <2>1. Continue(j, applyResult(tx, reply, src), plan)
    BY <1>2 DEF Apply
  <2>2. applyResult(tx, reply, src).status = ResultStatus(tx, reply, src)
    BY DEF applyResult, Rows
  <2>3. /\ ResultStatus(tx, reply, src) # "none"
        /\ ResultStatus(tx, reply, src) = "success" =>
              tx.status = "success" \/ reply.kind = "success"
    BY DEF ResultStatus
  <2>4. plan \in Seq(WriteOps)
    BY ResultWritesOps
  <2> HIDE DEF plan
  <2>5. \A op \in {"insert", "redebit", "mark"} : ~Has(plan, {op})
    BY <2>4, WritesHaveNot DEF WriteOps
  <2>6. QED
    BY <2>1, <2>2, <2>3, <2>5, GoOnBase
<1>3. QED
  BY <1>1, <1>2

\* A statement that writes the copy, or its status, to the row.
LEMMA RowWriteBase ==
    ASSUME TypeOK, BaseInv, NEW j \in Jobs, NEW r,
           job[j].plan # <<>>, Head(job[j].plan) \notin {"debit", "load", "claim", "reread"},
           row' = [row EXCEPT ![job[j].ord] = r], UNCHANGED <<marks, placed>>,
           r.status = job[j].tx.status, Proceed(j)
    PROVE  BaseInv'
<1> DEFINE o == job[j].ord
<1>1. /\ GoodHandler(job[j]) /\ job[j] # IdleJob /\ job[j].tx.status # "none"
  BY HeadBase
<1>2. o \in Orders /\ row \in [Orders -> Rows]
  BY JobFacts DEF TypeOK
<1>3. row'[o] = r /\ \A q \in Orders : q # o => row'[q] = row[q]
  BY <1>2
<1>4. r.status # "none" /\ (r.status = "success" => Delivered(o))
  BY <1>1 DEF GoodHandler
<1>5. RowsKept(j)
  BY <1>1, <1>3, <1>4 DEF RowsKept
<1>6. DeliveredKept
  BY DEF DeliveredKept, Delivered, DeliveredNext, InState, Runs, SaysSo
<1>7. OthersKeep(j) /\ GoodHandler(job[j])' /\ Turn(j)
  BY <1>2, <1>3, <1>4, <1>6, ProceedBase DEF DeliveredKept
<1>8. \A q \in Orders : GoodOrder(q)'
  BY <1>3, <1>4 DEF BaseInv, GoodOrder, Delivered, DeliveredNext, InState, Runs, SaysSo
<1>9. QED
  BY <1>5, <1>6, <1>7, <1>8, BaseFrame

LEMMA MarkBase ==
    ASSUME TypeOK, BaseInv, NEW j \in Jobs, Mark(j)
    PROVE  BaseInv'
<1> DEFINE o == job[j].ord
<1>1. /\ o \in Orders /\ row \in [Orders -> Rows] /\ row[o] \in Rows
      /\ marks \in [Orders -> Nat]
  BY JobFacts DEF TypeOK
<1>2. /\ job[j].plan # <<>> /\ Head(job[j].plan) = "mark" /\ placed' = placed
  BY DEF Mark, At
<1>3. GoodHandler(job[j]) /\ job[j] # IdleJob /\ Has(job[j].plan, {"mark"})
  BY <1>2, HeadBase
<1>4. CASE MarksPending(o)
  <2> DEFINE r == [row[o] EXCEPT !.status = "processing", !.verified = TRUE]
  <2>1. row' = [row EXCEPT ![o] = r] /\ marks' = [marks EXCEPT ![o] = @ + 1] /\ Proceed(j)
    BY <1>1, <1>4 DEF Mark
  <2>2. r.status = "processing"
    BY <1>1 DEF Rows
  <2> HIDE DEF r
  <2>3. row'[o] = r /\ \A q \in Orders : q # o => row'[q] = row[q] /\ marks'[q] = marks[q]
    BY <1>1, <2>1
  <2>4. RowsKept(j)
    BY <1>3, <2>2, <2>3 DEF RowsKept
  <2>5. DeliveredKept
    BY <1>2 DEF DeliveredKept, Delivered, DeliveredNext, InState, Runs, SaysSo
  <2>6. OthersKeep(j) /\ GoodHandler(job[j])' /\ Turn(j)
    BY <1>1, <1>2, <2>1, <2>2, <2>3, <2>5, ProceedBase DEF DeliveredKept
  <2>7. o \notin Mismatched
    BY <1>3 DEF GoodHandler
  <2>8. \A q \in Orders : GoodOrder(q)'
    BY <1>2, <2>2, <2>3, <2>7 DEF BaseInv, GoodOrder, Delivered, DeliveredNext, InState, Runs, SaysSo
  <2>9. QED
    BY <2>4, <2>5, <2>6, <2>8, BaseFrame
<1>5. CASE ~MarksPending(o)
  <2>1. Abort(j) /\ UNCHANGED <<row, marks, placed>>
    BY <1>5 DEF Mark
  <2>2. QED
    BY <2>1, AbortBase, BaseJobFrame
<1>6. QED
  BY <1>4, <1>5

LEMMA RedebitBase ==
    ASSUME TypeOK, BaseInv, NEW j \in Jobs, At(j, "redebit"), NEW refunded,
           Redebit(j, refunded), UNCHANGED <<row, marks, placed>>
    PROVE  BaseInv'
<1> DEFINE owed == Owed(job[j].tx, refunded)
           first == IF owed THEN <<"debit">> ELSE <<>>
           tx == Reopened(job[j].kind, job[j].tx)
<1>1. Continue(j, tx, first \o Rest(j))
  BY Zenon DEF Redebit
<1>2. /\ job[j].plan # <<>> /\ Head(job[j].plan) = "redebit" /\ job[j].plan \in Seq(Ops)
      /\ job[j].tx \in Rows /\ Rest(j) \in Seq(Ops) /\ Rest(j) = Tail(job[j].plan)
  BY JobFacts DEF TypeOK, At, Rest
<1>3. GoodHandler(job[j]) /\ job[j] # IdleJob
  BY <1>2, HeadBase
<1>4. /\ tx.status \in {"success", "processing"}
      /\ tx.status = "success" => job[j].kind = "setSuccess"
  BY <1>2 DEF Reopened, Rows
<1>5. first \in Seq(Ops) /\ \A op \in {"insert", "redebit", "mark"} : ~Has(first, {op})
  <2>1. <<"debit">> \in Seq(Ops) /\ <<>> \in Seq(Ops)
    BY DEF Ops
  <2>2. first = <<"debit">> \/ first = <<>>
    BY Zenon
  <2>3. QED
    BY <2>1, <2>2 DEF Has
<1> HIDE DEF first, tx
<1>6. \A op \in {"insert", "redebit", "mark"} :
         Has(first \o Rest(j), {op}) => Has(job[j].plan, {op})
  BY <1>2, <1>5, HasConcat, HasTail
<1>7. tx.status = "success" => DeliveredNext(job[j].ord)
  BY <1>3, <1>4 DEF GoodHandler, Delivered, DeliveredNext, Runs, SaysSo
<1>8. OthersKeep(j) /\ GoodHandler(job[j])' /\ Turn(j)
  BY <1>1, <1>2, <1>4, <1>6, <1>7, GoOnBase
<1>9. QED
  BY <1>8, BaseJobFrame

LEMMA StatementBase ==
    ASSUME TypeOK, BaseInv, NEW j \in Jobs, Statement(j) \/ StatementFails(j)
    PROVE  BaseInv'
<1> DEFINE o == job[j].ord
<1>1. /\ o \in Orders /\ job[j].tx \in Rows /\ row \in [Orders -> Rows] /\ row[o] \in Rows
      /\ job[j].plan \in Seq(Ops) /\ job[j].reply \in Replies
  BY JobFacts DEF TypeOK
<1>2. ASSUME UNCHANGED placed
      PROVE  DeliveredKept
  BY <1>2 DEF DeliveredKept, Delivered, DeliveredNext, InState, Runs, SaysSo
<1>3. ASSUME UNCHANGED <<row, marks, placed>>, job[j].plan # <<>>, Proceed(j),
             Head(job[j].plan) \notin {"insert", "load", "reread"}
      PROVE  BaseInv'
  <2>1. OthersKeep(j) /\ GoodHandler(job[j])' /\ Turn(j)
    BY <1>2, <1>3, ProceedBase
  <2>2. QED
    BY <1>3, <2>1, BaseJobFrame
<1>4. ASSUME UNCHANGED <<row, marks, placed>>, Abort(j)
      PROVE  BaseInv'
  BY <1>4, AbortBase, BaseJobFrame
<1>5. CASE Debit(j)
  <2>1. UNCHANGED <<row, marks, placed>> /\ job[j].plan # <<>> /\ Head(job[j].plan) = "debit"
    BY <1>5 DEF Debit, At
  <2>2. Proceed(j) \/ Abort(j)
    BY <1>5 DEF Debit
  <2>3. QED
    BY <1>3, <1>4, <2>1, <2>2
<1>6. CASE Credit(j)
  <2>1. /\ UNCHANGED <<row, marks, placed>> /\ job[j].plan # <<>>
        /\ Head(job[j].plan) \in {"credit", "creditOrAbort"} /\ Proceed(j)
    BY <1>6 DEF Credit, At
  <2>2. QED
    BY <1>3, <2>1
<1>7. CASE HasRefund(j)
  <2> DEFINE skip == SubSeq(job[j].plan, 3, Len(job[j].plan))
  <2>1. UNCHANGED <<row, marks, placed>> /\ job[j].plan # <<>> /\ Head(job[j].plan) = "hasRefund"
    BY <1>7 DEF HasRefund, At
  <2>2. CASE refunds[o] > 0
    <3>1. Continue(j, job[j].tx, skip)
      BY <1>7, <2>2 DEF HasRefund
    <3>2. \A op \in {"insert", "redebit", "mark"} : Has(skip, {op}) => Has(job[j].plan, {op})
      BY <1>1, HasSkip
    <3> HIDE DEF skip
    <3>3. GoodHandler(job[j]) /\ job[j] # IdleJob /\ job[j].tx.status # "none"
      BY <2>1, HeadBase
    <3>4. job[j].tx.status = "success" => DeliveredNext(o)
      BY <1>1, <1>2, <2>1, <3>3 DEF GoodHandler, DeliveredKept
    <3>5. OthersKeep(j) /\ GoodHandler(job[j])' /\ Turn(j)
      BY <2>1, <3>1, <3>2, <3>3, <3>4, GoOnBase
    <3>6. QED
      BY <2>1, <3>5, BaseJobFrame
  <2>3. CASE ~(refunds[o] > 0)
    <3>1. Proceed(j)
      BY <1>7, <2>3 DEF HasRefund, Proceed
    <3>2. QED
      BY <1>3, <2>1, <3>1
  <2>4. QED
    BY <2>2, <2>3
<1>8. CASE RedebitCheck(j)
  <2>1. /\ UNCHANGED <<row, marks, placed>> /\ At(j, "redebit")
        /\ Redebit(j, refunds[o] > 0)
    BY <1>8 DEF RedebitCheck
  <2>2. QED
    BY <2>1, RedebitBase
<1>9. CASE Insert(j) \/ Save(j)
  <2>1. /\ UNCHANGED <<marks, placed>> /\ job[j].plan # <<>> /\ Proceed(j)
        /\ Head(job[j].plan) \in {"insert", "save", "saveOrAbort"}
        /\ row' = [row EXCEPT ![o] = job[j].tx]
    BY <1>9 DEF Insert, Save, At
  <2>2. QED
    BY <2>1, RowWriteBase
<1>10. CASE UpdateStatus(j)
  <2> DEFINE r == [row[o] EXCEPT !.status = job[j].tx.status]
  <2>1. /\ UNCHANGED <<marks, placed>> /\ job[j].plan # <<>> /\ Proceed(j)
        /\ Head(job[j].plan) = "status" /\ row' = [row EXCEPT ![o] = r]
    BY <1>1, <1>10 DEF UpdateStatus, At
  <2>2. r.status = job[j].tx.status
    BY <1>1 DEF Rows
  <2> HIDE DEF r
  <2>3. QED
    BY <2>1, <2>2, RowWriteBase
<1>11. CASE Mark(j)
  BY <1>11, MarkBase
<1>12. CASE Claim(j)
  <2>1. UNCHANGED <<row, marks, placed>> /\ job[j].plan # <<>> /\ Head(job[j].plan) = "claim"
    BY <1>12 DEF Claim, At
  <2>2. Proceed(j) \/ Abort(j)
    BY <1>12 DEF Claim
  <2>3. QED
    BY <1>3, <1>4, <2>1, <2>2
<1>13. CASE Load(j)
  <2>1. UNCHANGED <<row, marks, placed>> /\ job[j].plan # <<>> /\ Head(job[j].plan) = "load"
    BY <1>13 DEF Load, At
  <2>2. CASE row[o].status = "processing"
    <3>1. Continue(j, row[o], Rest(j))
      BY <1>13, <2>2 DEF Load
    <3>2. \A op \in {"insert", "redebit", "mark"} : Has(Rest(j), {op}) => Has(job[j].plan, {op})
      BY <1>1, <2>1, HasTail DEF Rest
    <3>3. OthersKeep(j) /\ GoodHandler(job[j])' /\ Turn(j)
      BY <2>1, <2>2, <3>1, <3>2, GoOnBase
    <3>4. QED
      BY <2>1, <3>3, BaseJobFrame
  <2>3. CASE row[o].status # "processing"
    <3>1. Abort(j)
      BY <1>13, <2>3 DEF Load
    <3>2. QED
      BY <1>4, <2>1, <3>1
  <2>4. QED
    BY <2>2, <2>3
<1>14. CASE Reread(j)
  <2>1. UNCHANGED <<row, marks, placed>> /\ job[j].plan # <<>> /\ Head(job[j].plan) = "reread"
    BY <1>14 DEF Reread, At
  <2>2. CASE row[o].status = "processing"
    <3>1. Apply(j, row[o], job[j].reply, job[j].src)
      BY <1>14, <2>2 DEF Reread
    <3>2. job[j].reply.kind = "success" => DeliveredNext(o)
      BY <1>1, <1>2, <2>1, HeadBase DEF GoodHandler, DeliveredKept
    <3>3. OthersKeep(j) /\ GoodHandler(job[j])' /\ Turn(j)
      BY <1>1, <2>1, <2>2, <3>1, <3>2, ApplyBase
    <3>4. QED
      BY <2>1, <3>3, BaseJobFrame
  <2>3. CASE row[o].status # "processing"
    <3>1. Abort(j)
      BY <1>14, <2>3 DEF Reread
    <3>2. QED
      BY <1>4, <2>1, <3>1
  <2>4. QED
    BY <2>2, <2>3
<1>15. CASE StatementFails(j)
  <2>1. UNCHANGED <<row, marks, placed>> /\ job[j].plan # <<>>
    BY <1>15 DEF StatementFails
  <2>2. \/ Head(job[j].plan) = "insert" /\ Continue(j, job[j].tx, <<"credit">>)
        \/ Head(job[j].plan) = "redebit" /\ Redebit(j, FALSE)
        \/ Head(job[j].plan) \in {"status", "save", "credit", "hasRefund"} /\ Proceed(j)
        \/ Abort(j)
    BY <1>15, Zenon DEF StatementFails
  <2>3. ASSUME Head(job[j].plan) = "insert", Continue(j, job[j].tx, <<"credit">>)
        PROVE  BaseInv'
    <3>1. GoodHandler(job[j]) /\ job[j] # IdleJob /\ job[j].tx.status # "none"
      BY <2>1, <2>3, HeadBase
    <3>2. job[j].tx.status = "success" => DeliveredNext(o)
      BY <1>1, <1>2, <2>1, <3>1 DEF GoodHandler, DeliveredKept
    <3>3. OthersKeep(j) /\ GoodHandler(job[j])' /\ Turn(j)
      BY <2>1, <2>3, <3>1, <3>2, StartingPlans, ContinueBase
    <3>4. QED
      BY <2>1, <3>3, BaseJobFrame
  <2>4. QED
    BY <1>3, <1>4, <2>1, <2>2, <2>3, RedebitBase DEF At
<1>16. QED
  BY <1>5, <1>6, <1>7, <1>8, <1>9, <1>10, <1>11, <1>12, <1>13, <1>14, <1>15
  DEF Statement

LEMMA AnswersBase ==
    ASSUME TypeOK, BaseInv, NEW o \in Orders, NEW p \in Providers, NEW tx \in Rows,
           NEW call, NEW x \in Answers(o, p, tx, call),
           placed' = [placed EXCEPT ![o] = x.orders], UNCHANGED <<row, marks>>,
           row[o].status # "none"
    PROVE  /\ DeliveredKept
           /\ \A q \in Orders : GoodOrder(q)'
           /\ x.reply.kind = "success" => DeliveredNext(o)
<1>1. /\ placed \in [Orders -> Seq(PlacedOrders)] /\ placed[o] \in Seq(PlacedOrders)
      /\ Len(placed[o]) <= MaxPlaced
  BY DEF TypeOK
<1>2. placed'[o] = x.orders /\ \A q \in Orders : q # o => placed'[q] = placed[q]
  BY <1>1
<1>3. /\ \A i \in DOMAIN placed[o] : i \in DOMAIN x.orders /\ x.orders[i] = placed[o][i]
      /\ x.reply.kind = "success" =>
            SaysSo \/ \E i \in DOMAIN x.orders : x.orders[i].state = "success"
  <2>1. CASE p \in Kiosgamer
    BY <1>1, <2>1, AnswersGrow DEF SaysSo
  <2>2. CASE p \notin Kiosgamer
    <3>1. x \in Exchange(o, p, tx, call)
      BY <2>2 DEF Answers
    <3>2. QED
      BY <1>1, <3>1, ExchangeAnswers
  <2>3. QED
    BY <2>1, <2>2
<1>4. ASSUME NEW q \in Orders, Delivered(q) PROVE DeliveredNext(q)
  <2>1. CASE q = o
    BY <1>2, <1>3, <1>4, <2>1 DEF Delivered, DeliveredNext, InState, SaysSo
  <2>2. CASE q # o
    BY <1>2, <1>4, <2>2 DEF Delivered, DeliveredNext, InState, SaysSo
  <2>3. QED
    BY <2>1, <2>2
<1>5. ASSUME NEW q \in Orders PROVE GoodOrder(q)'
  <2>1. row'[q] = row[q] /\ marks'[q] = marks[q] /\ GoodOrder(q)
    BY DEF BaseInv
  <2>2. row[q].status = "none" => placed'[q] = placed[q]
    BY <1>2
  <2>3. row[q].status = "success" => DeliveredNext(q)
    BY <1>4, <2>1 DEF GoodOrder
  <2>4. QED
    BY <2>1, <2>2, <2>3 DEF GoodOrder, Delivered, DeliveredNext, InState, Runs, SaysSo
<1>6. x.reply.kind = "success" => DeliveredNext(o)
  BY <1>2, <1>3 DEF DeliveredNext
<1>7. QED
  BY <1>4, <1>5, <1>6 DEF DeliveredKept

LEMMA CallBase ==
    ASSUME TypeOK, BaseInv, NEW j \in Jobs, Call(j)
    PROVE  BaseInv'
<1> DEFINE o == job[j].ord
           p == RouteOf(job[j].tx, route)
           tx == Noted(j, p)
           buy == shouldPurchaseInsteadOfCheck(job[j].tx)
           src == IF buy THEN "fulfill" ELSE job[j].kind
           call == IF buy THEN "purchase" ELSE "check"
<1>1. /\ job \in [Jobs -> JobStates] /\ job[j] \in JobStates
      /\ route \in Providers /\ o \in Orders /\ job[j].tx \in Rows
      /\ placed \in [Orders -> Seq(PlacedOrders)] /\ \A q \in Orders : Len(placed[q]) <= MaxPlaced
  BY JobFacts DEF TypeOK
<1>2. /\ job[j].plan # <<>> /\ Head(job[j].plan) \in {"purchase", "check"}
      /\ UNCHANGED <<row, marks>>
  BY DEF Call, Purchase, Check, At
<1>3. /\ GoodHandler(job[j]) /\ job[j] # IdleJob /\ ~Creates(job[j])
      /\ row[o].status # "none" /\ job[j].tx.status # "none"
  BY <1>2, HeadBase
<1>4. RowsKept(j)
  BY <1>2 DEF RowsKept
<1>5. CASE Purchase(j)
  <2>1. CASE /\ \E q \in {job[j].tx.prov, p} :
                   Continue(j, recordConfigurationError(Noted(j, q)), <<"save">>)
             /\ UNCHANGED placed
    <3>0. PICK q \in {job[j].tx.prov, p} :
             Continue(j, recordConfigurationError(Noted(j, q)), <<"save">>)
      BY <2>1
    <3>1. recordConfigurationError(Noted(j, q)).status = "processing"
      <4>1. job[j].tx.prov \in Providers /\ p \in Providers
        BY <1>1 DEF Rows, RouteOf
      <4>2. QED
        BY <1>1, <4>1, NotedType, ParkedType
    <3>2. OthersKeep(j) /\ GoodHandler(job[j])' /\ Turn(j)
      <4>1. \A op \in {"insert", "redebit", "mark"} : ~Has(<<"save">>, {op})
        BY DEF Has
      <4>2. QED
        BY <1>2, <2>1, <3>0, <3>1, <4>1, GoOnBase
    <3>3. QED
      BY <1>2, <2>1, <3>2, BaseJobFrame
  <2>2. CASE \E x \in Answers(o, p, job[j].tx, "purchase") :
                /\ placed' = [placed EXCEPT ![o] = x.orders]
                /\ Apply(j, tx, x.reply, "fulfill")
    <3>1. PICK x \in Answers(o, p, job[j].tx, "purchase") :
                /\ placed' = [placed EXCEPT ![o] = x.orders]
                /\ Apply(j, tx, x.reply, "fulfill")
      BY <2>2
    <3>2. p \in Providers /\ tx \in Rows /\ tx.status = job[j].tx.status
      <4>1. p \in Providers
        BY <1>1 DEF Rows, RouteOf
      <4>2. QED
        BY <1>1, <4>1, NotedType
    <3>3. x.reply \in Replies
      BY <3>1, <3>2, <1>1, AnswersStepType
    <3>4. /\ DeliveredKept /\ \A q \in Orders : GoodOrder(q)'
          /\ x.reply.kind = "success" => DeliveredNext(o)
      BY <1>1, <1>2, <1>3, <3>1, <3>2, AnswersBase
    <3>5. tx.status = "success" => DeliveredNext(o)
      BY <1>1, <1>3, <3>2, <3>4 DEF GoodHandler, DeliveredKept
    <3>6. OthersKeep(j) /\ GoodHandler(job[j])' /\ Turn(j)
      BY <1>2, <1>3, <3>1, <3>2, <3>3, <3>4, <3>5, ApplyBase
    <3>7. QED
      BY <1>4, <3>4, <3>6, BaseFrame
  <2>3. QED
    BY <1>5, <2>1, <2>2, Zenon DEF Purchase
<1>6. CASE Check(j)
  <2>1. CASE Abort(j) /\ UNCHANGED placed
    BY <1>2, <2>1, AbortBase, BaseJobFrame
  <2>2. CASE \E x \in Answers(o, job[j].tx.prov, job[j].tx, call) :
                /\ placed' = [placed EXCEPT ![o] = x.orders]
                /\ IF job[j].kind = "reconcile"
                   THEN job' = [job EXCEPT ![j].tx = NoRow, ![j].plan = <<"reread">>,
                                           ![j].reply = x.reply, ![j].src = src]
                   ELSE Apply(j, job[j].tx, x.reply, src)
    <3>1. PICK x \in Answers(o, job[j].tx.prov, job[j].tx, call) :
                /\ placed' = [placed EXCEPT ![o] = x.orders]
                /\ IF job[j].kind = "reconcile"
                   THEN job' = [job EXCEPT ![j].tx = NoRow, ![j].plan = <<"reread">>,
                                           ![j].reply = x.reply, ![j].src = src]
                   ELSE Apply(j, job[j].tx, x.reply, src)
      BY <2>2
    <3>2. job[j].tx.prov \in Providers
      BY <1>1 DEF Rows
    <3>3. x.reply \in Replies
      BY <3>1, <3>2, <1>1, AnswersStepType
    <3>4. /\ DeliveredKept /\ \A q \in Orders : GoodOrder(q)'
          /\ x.reply.kind = "success" => DeliveredNext(o)
      BY <1>1, <1>2, <1>3, <3>1, <3>2, AnswersBase
    <3>5. CASE job[j].kind = "reconcile"
      <4>1. job' = [job EXCEPT ![j] =
                        [job[j] EXCEPT !.tx = NoRow, !.plan = <<"reread">>,
                                       !.reply = x.reply, !.src = src]]
        BY <1>1, <3>1, <3>5
      <4>2. /\ job'[j].kind = job[j].kind /\ job'[j].ord = o /\ job'[j].tx = NoRow
            /\ job'[j].plan = <<"reread">> /\ job'[j].reply = x.reply
        BY <1>1, <4>1 DEF JobStates
      <4>3. OthersKeep(j)
        BY <1>1, <4>1 DEF OthersKeep
      <4>4. GoodHandler(job[j])'
        <5>1. /\ Runs(job'[j].kind) /\ job'[j].plan # <<>>
              /\ ~Creates(job'[j]) /\ row'[job'[j].ord].status # "none"
              /\ ~Has(job'[j].plan, {"insert"}) /\ ~Has(job'[j].plan, {"redebit"})
              /\ ~Has(job'[j].plan, {"mark"})
          BY <1>2, <1>3, <4>2, StartingPlans DEF GoodHandler, Creates
        <5>2. job'[j].plan \in Unread
          BY <4>2 DEF Unread
        <5>3. job'[j].tx.status = "success" \/ job'[j].reply.kind = "success" =>
                 DeliveredNext(job'[j].ord)
          BY <3>4, <4>2, IdleFacts
        <5>4. QED
          BY <5>1, <5>2, <5>3
             DEF GoodHandler, Creates, Delivered, DeliveredNext, InState, Runs, Has, SaysSo
      <4>5. Turn(j)
        BY <1>3, <4>2, StartingPlans DEF Turn, Creates
      <4>6. QED
        BY <1>4, <3>4, <4>3, <4>4, <4>5, BaseFrame
    <3>6. CASE job[j].kind # "reconcile"
      <4>1. Apply(j, job[j].tx, x.reply, src)
        BY <3>1, <3>6
      <4>2. job[j].tx.status = "success" => DeliveredNext(o)
        BY <1>1, <1>3, <3>4 DEF GoodHandler, DeliveredKept
      <4>3. OthersKeep(j) /\ GoodHandler(job[j])' /\ Turn(j)
        BY <1>1, <1>2, <1>3, <3>3, <3>4, <4>1, <4>2, ApplyBase
      <4>4. QED
        BY <1>4, <3>4, <4>3, BaseFrame
    <3>7. QED
      BY <3>5, <3>6
  <2>3. QED
    BY <1>6, <2>1, <2>2, Zenon DEF Check
<1>7. QED
  BY <1>5, <1>6 DEF Call

\* A handler that starts on an order in the table.
LEMMA StartBase ==
    ASSUME TypeOK, BaseInv, NEW j \in Jobs, NEW k, NEW o \in Orders, NEW tx, NEW plan,
           Start(j, k, o, tx, plan), plan # <<>>, UNCHANGED <<row, marks, placed>>,
           k \in AdminKinds => MaxAdmin > 0, row[o].status # "none",
           plan \notin CreatePlans, ~Has(plan, {"insert"}),
           tx.status = "none" => plan \in Unread,
           Has(plan, {"redebit"}) => IsSaldo(o),
           Has(plan, {"mark"}) => o \notin Mismatched /\ k = "pay",
           tx.status = "success" => Delivered(o)
    PROVE  BaseInv'
<1>1. /\ OthersKeep(j) /\ job'[j] # IdleJob /\ k \in Kinds
      /\ job'[j].kind = k /\ job'[j].ord = o /\ job'[j].tx = tx
      /\ job'[j].plan = plan /\ job'[j].reply = NoReply
  BY StartFields
<1>2. Turn(j)
  BY <1>1 DEF Turn, Creates
<1>3. Runs(k) /\ job'[j].reply.kind # "success"
  BY <1>1, IdleFacts DEF Runs
<1>4. Delivered(o) => DeliveredNext(o)
  BY DEF Delivered, DeliveredNext, InState, SaysSo
<1>5. GoodHandler(job[j])'
  BY <1>1, <1>3, <1>4
     DEF GoodHandler, Creates, Delivered, DeliveredNext, InState, Runs, IsSaldo, Has, SaysSo
<1>6. QED
  BY <1>1, <1>2, <1>5, BaseJobFrame

LEMMA CreateOrderBase ==
    ASSUME TypeOK, BaseInv, NEW j \in Jobs, NEW o \in Orders, CreateOrder(j, o)
    PROVE  BaseInv'
<1> DEFINE tx == NewRow(o, route, lastRef[o] + 1)
           plan == CreatePlan(o)
<1>1. /\ Start(j, "order", o, tx, plan) /\ row[o] = NoRow
      /\ UNCHANGED <<row, marks, placed>>
      /\ \A k \in Jobs : job[k].kind = "idle" \/ job[k].ord # o
  BY DEF CreateOrder, EntryFrame
<1>2. plan \in CreatePlans
  BY DEF CreatePlan, CreatePlans
<1>3. tx.status \in {"processing", "pending"}
  BY DEF NewRow, NoRow
<1> HIDE DEF tx, plan
<1>4. plan # <<>> /\ ~Has(plan, {"redebit"}) /\ ~Has(plan, {"mark"})
  BY <1>2, StartingPlans
<1>5. /\ OthersKeep(j) /\ job'[j] # IdleJob /\ "order" \in Kinds
      /\ job'[j].kind = "order" /\ job'[j].ord = o /\ job'[j].tx = tx
      /\ job'[j].plan = plan /\ job'[j].reply = NoReply
  BY <1>1, <1>4, StartFields
<1>6. ASSUME NEW k \in Jobs, job[k] # IdleJob PROVE job[k].ord # o
  <2>1. job[k].kind \in Kinds
    BY <1>6 DEF BaseInv, GoodHandler, Runs
  <2>2. job[k].kind # "idle"
    BY <2>1, LifecycleAssumption DEF AllKinds
  <2>3. QED
    BY <1>1, <2>2
<1>7. Turn(j)
  BY <1>5, <1>6 DEF Turn
<1>8. Runs("order") /\ job'[j].reply.kind # "success"
  BY <1>5, IdleFacts DEF Runs, AdminKinds
<1>9. GoodHandler(job[j])'
  BY <1>1, <1>2, <1>3, <1>4, <1>5, <1>8
     DEF GoodHandler, Creates, Runs, IsSaldo, Has
<1>10. QED
  BY <1>1, <1>5, <1>7, <1>9, BaseJobFrame

LEMMA AutomaticEntryBase ==
    ASSUME TypeOK, BaseInv, NEW j \in Jobs, NEW o \in Orders, AutomaticEntry(j, o)
    PROVE  BaseInv'
<1>1. /\ row[o] \in Rows /\ placed[o] \in Seq(PlacedOrders)
      /\ row[o].status = "success" => Delivered(o)
  BY DEF TypeOK, BaseInv, GoodOrder
<1>2. CASE CreateOrder(j, o)
  BY <1>2, CreateOrderBase
<1>3. CASE HandlePaymentSuccess(j, o)
  <2>1. row[o].status # "none" /\ UNCHANGED <<row, marks, placed>>
    BY <1>3 DEF HandlePaymentSuccess, FindByInvoiceNumber, EntryFrame
  <2>2. CASE o \in Mismatched
    <3>1. Start(j, "pay", o, [row[o] EXCEPT !.status = "failed"], <<"status">>)
      BY <1>3, <2>2 DEF HandlePaymentSuccess
    <3>2. [row[o] EXCEPT !.status = "failed"].status = "failed"
      BY <1>1 DEF Rows
    <3>3. ~Has(<<"status">>, {"redebit"}) /\ ~Has(<<"status">>, {"mark"})
      BY DEF Has
    <3>4. "pay" \notin AdminKinds
      BY DEF AdminKinds
    <3>5. QED
      BY <2>1, <3>1, <3>2, <3>3, <3>4, StartingPlans, StartBase
  <2>3. CASE o \notin Mismatched
    <3>1. Start(j, "pay", o, row[o], <<"mark", "purchase">>)
      BY <1>3, <2>3 DEF HandlePaymentSuccess
    <3>2. ~Has(<<"mark", "purchase">>, {"redebit"})
      BY DEF Has
    <3>3. "pay" \notin AdminKinds
      BY DEF AdminKinds
    <3>4. QED
      BY <1>1, <2>1, <2>3, <3>1, <3>2, <3>3, StartingPlans, StartBase
  <2>4. QED
    BY <2>2, <2>3
<1>4. CASE \E i \in DOMAIN placed[o] : HandleProviderCallback(j, o, i)
  <2>1. PICK i \in DOMAIN placed[o] : HandleProviderCallback(j, o, i)
    BY <1>4
  <2>2. PICK r \in VerdictReplies(i, placed[o][i].state) :
            Start(j, "callback", o, applyResult(row[o], r, "callback"),
                  ResultWrites(o, r, "callback"))
    BY <2>1 DEF HandleProviderCallback
  <2>3. row[o].status # "none" /\ UNCHANGED <<row, marks, placed>>
    BY <2>1 DEF HandleProviderCallback, EntryFrame
  <2> DEFINE tx == applyResult(row[o], r, "callback")
             plan == ResultWrites(o, r, "callback")
  <2>4. placed[o][i].state \in PlacedStates
    <3>1. placed[o][i] \in PlacedOrders
      BY <1>1
    <3>2. QED
      BY <3>1 DEF PlacedOrders
  <2>5. r.kind = "success" => Delivered(o)
    BY <2>4, VerdictKind DEF Delivered, InState, SaysSo
  <2>6. tx.status = ResultStatus(row[o], r, "callback")
    BY <1>1 DEF applyResult, Rows
  <2>7. /\ tx.status # "none"
        /\ tx.status = "success" => row[o].status = "success" \/ r.kind = "success"
    BY <2>3, <2>6 DEF ResultStatus
  <2>8. plan \in Seq(WriteOps) /\ plan # <<>>
    BY ResultWritesOps
  <2>9. ~Has(plan, {"insert"}) /\ ~Has(plan, {"redebit"}) /\ ~Has(plan, {"mark"})
    BY <2>8, WritesHaveNot DEF WriteOps
  <2>10. plan \notin CreatePlans
    BY <2>9 DEF CreatePlans, Has
  <2>11. "callback" \notin AdminKinds
    BY DEF AdminKinds
  <2> HIDE DEF tx, plan
  <2>12. Start(j, "callback", o, tx, plan)
    BY <2>2 DEF tx, plan
  <2>13. QED
    BY <1>1, <2>3, <2>5, <2>7, <2>8, <2>9, <2>10, <2>11, <2>12, StartBase
<1>5. CASE CheckProviderStatus(j, o)
  <2>1. /\ Start(j, "check", o, row[o], <<"check">>)
        /\ row[o].status # "none" /\ UNCHANGED <<row, marks, placed>>
    BY <1>5 DEF CheckProviderStatus, EntryFrame
  <2>2. ~Has(<<"check">>, {"redebit"}) /\ ~Has(<<"check">>, {"mark"})
    BY DEF Has
  <2>3. "check" \notin AdminKinds
    BY DEF AdminKinds
  <2>4. QED
    BY <1>1, <2>1, <2>2, <2>3, StartingPlans, StartBase
<1>6. CASE ReconcileProcessingTransaction(j, o)
  <2> DEFINE plan == <<"claim", "load", "check">>
  <2>1. /\ Start(j, "reconcile", o, NoRow, plan)
        /\ row[o].status = "processing" /\ UNCHANGED <<row, marks, placed>>
    BY <1>6 DEF ReconcileProcessingTransaction, EntryFrame
  <2>2. /\ ~Has(plan, {"redebit"}) /\ ~Has(plan, {"mark"}) /\ ~Has(plan, {"insert"})
        /\ plan \in Unread /\ plan \notin CreatePlans /\ plan # <<>>
    BY DEF Has, Unread, CreatePlans
  <2>3. "reconcile" \notin AdminKinds
    BY DEF AdminKinds
  <2> HIDE DEF plan
  <2>4. QED
    BY <2>1, <2>2, <2>3, IdleFacts, StartBase
<1>7. CASE RetryDigiflazzBalanceHolds(j, o)
  <2> DEFINE plan == <<"claim", "save", "purchase">>
             tx == [row[o] EXCEPT !.pst = "retrysaldo"]
  <2>1. /\ Start(j, "holdRetry", o, tx, plan)
        /\ row[o].status = "processing" /\ UNCHANGED <<row, marks, placed>>
    BY <1>7 DEF RetryDigiflazzBalanceHolds, EntryFrame
  <2>2. /\ ~Has(plan, {"redebit"}) /\ ~Has(plan, {"mark"}) /\ ~Has(plan, {"insert"})
        /\ plan \notin CreatePlans /\ plan # <<>>
    BY DEF Has, CreatePlans
  <2>3. "holdRetry" \notin AdminKinds
    BY DEF AdminKinds
  <2>4. tx.status = "processing"
    BY <1>1, <2>1 DEF Rows
  <2> HIDE DEF plan, tx
  <2>5. QED
    BY <2>1, <2>2, <2>3, <2>4, StartBase
<1>8. QED
  BY <1>2, <1>3, <1>4, <1>5, <1>6, <1>7 DEF AutomaticEntry

\* A retry or a manual success, with the plan it starts.
LEMMA ReopeningBase ==
    ASSUME TypeOK, BaseInv, NEW j \in Jobs, NEW k, NEW o \in Orders, NEW tx \in Rows,
           NEW plan \in {<<"save", "purchase">>, <<"save", "status">>},
           StartReopening(j, k, o, tx, plan), UNCHANGED <<row, marks, placed>>,
           k \in AdminKinds => MaxAdmin > 0, row[o].status # "none",
           tx.status # "none", tx.status = "success" => Delivered(o)
    PROVE  BaseInv'
<1> DEFINE long == <<"redebit">> \o plan
<1>1. /\ ~Has(plan, {"insert"}) /\ ~Has(plan, {"redebit"}) /\ ~Has(plan, {"mark"})
      /\ plan # <<>> /\ plan \notin CreatePlans
  BY DEF Has, CreatePlans
<1>2. /\ ~Has(long, {"insert"}) /\ ~Has(long, {"mark"})
      /\ long # <<>> /\ long \notin CreatePlans
  <2>1. /\ <<"save", "purchase">> \in Seq(Ops) /\ <<"save", "status">> \in Seq(Ops)
        /\ <<"redebit">> \in Seq(Ops)
    BY DEF Ops
  <2>2. ~Has(<<"redebit">>, {"insert"}) /\ ~Has(<<"redebit">>, {"mark"})
    BY DEF Has
  <2>3. ~Has(long, {"insert"}) /\ ~Has(long, {"mark"})
    BY <1>1, <2>1, <2>2, HasConcat
  <2>4. long # <<>>
    BY <2>1
  <2>5. long \notin CreatePlans
    <3>1. \A s \in CreatePlans : Has(s, {"insert"})
      BY DEF CreatePlans, Has
    <3>2. QED
      BY <2>3, <3>1
  <2>6. QED
    BY <2>3, <2>4, <2>5
<1> HIDE DEF long
<1>3. CASE IsSaldo(o)
  <2>1. Start(j, k, o, tx, long)
    BY <1>3 DEF StartReopening, long
  <2>2. QED
    BY <1>2, <1>3, <2>1, StartBase
<1>4. CASE ~IsSaldo(o)
  <2> DEFINE new == Reopened(k, tx)
  <2>1. Start(j, k, o, new, plan)
    BY <1>4 DEF StartReopening
  <2>2. /\ new.status \in {"success", "processing"}
        /\ new.status = "success" => k = "setSuccess"
    BY DEF Reopened, Rows
  <2>3. new.status = "success" => Delivered(o)
    BY <2>1, <2>2 DEF Start, Delivered, Runs, SaysSo
  <2> HIDE DEF new
  <2>4. QED
    BY <1>1, <2>1, <2>2, <2>3, StartBase
<1>5. QED
  BY <1>3, <1>4

\* An admin acts only in an instance that lets one act.
LEMMA AdminNeedsBound ==
    ASSUME TypeOK, (\E j \in Jobs, o \in Orders : AdminEntry(j, o)) \/ SwitchProvider
    PROVE  MaxAdmin > 0
<1>1. MaxAdmin \in Nat /\ adminCalls \in 0 .. MaxAdmin
  BY LifecycleAssumption DEF TypeOK
<1>2. AdminCall
  BY DEF AdminEntry, ManualRetry, ManualSetSuccess, ManualRefund,
         ManualSetFailed, BulkRetryWithProvider, RegenerateProviderRefID, SwitchProvider
<1>3. QED
  BY <1>1, <1>2 DEF AdminCall

LEMMA AdminEntryBase ==
    ASSUME TypeOK, BaseInv, NEW j \in Jobs, NEW o \in Orders, AdminEntry(j, o)
    PROVE  BaseInv'
<1>1. /\ row[o] \in Rows
      /\ row[o].status = "success" => Delivered(o)
      /\ MaxAdmin \in Nat /\ adminCalls \in 0 .. MaxAdmin /\ lastRef[o] \in 0 .. MaxRefs
  BY LifecycleAssumption DEF TypeOK, BaseInv, GoodOrder
<1>2. MaxAdmin > 0
  BY AdminNeedsBound
<1>3. CASE ManualRetry(j, o)
  <2> DEFINE switched == prepareProviderSwitchForRetry(row[o], route, lastRef[o] + 1)
  <2>1. /\ StartReopening(j, "retry", o, switched, <<"save", "purchase">>)
        /\ row[o].status # "none" /\ UNCHANGED <<row, marks, placed>>
        /\ switched.ref <= MaxRefs
    BY <1>3 DEF ManualRetry, EntryFrame
  <2>2. switched \in Rows /\ switched.status = row[o].status
    <3>1. CASE switched = row[o]
      BY <1>1, <3>1
    <3>2. CASE switched = [row[o] EXCEPT !.ref = lastRef[o] + 1, !.id = 0, !.exch = FALSE]
      <4>1. switched.ref = lastRef[o] + 1
        BY <1>1, <3>2 DEF Rows
      <4>2. lastRef[o] + 1 \in 0 .. MaxRefs /\ 0 \in Ids
        BY <1>1, <2>1, <4>1, BoundAssumption, IdsType
      <4>3. QED
        BY <1>1, <3>2, <4>2 DEF Rows
    <3>3. QED
      BY <3>1, <3>2 DEF prepareProviderSwitchForRetry
  <2> HIDE DEF switched
  <2>3. QED
    BY <1>1, <1>2, <2>1, <2>2, ReopeningBase
<1>4. CASE ManualSetSuccess(j, o)
  <2>1. /\ StartReopening(j, "setSuccess", o, row[o], <<"save", "status">>)
        /\ row[o].status # "none" /\ UNCHANGED <<row, marks, placed>>
    BY <1>4 DEF ManualSetSuccess, EntryFrame
  <2>2. QED
    BY <1>1, <1>2, <2>1, ReopeningBase
<1>5. ASSUME NEW k, NEW tx, NEW plan, Start(j, k, o, tx, plan),
             row[o].status # "none", UNCHANGED <<row, marks, placed>>,
             tx.status \notin {"none", "success"}, plan # <<>>, plan \notin CreatePlans,
             \A op \in {"insert", "redebit", "mark"} : ~Has(plan, {op})
      PROVE  BaseInv'
  BY <1>2, <1>5, StartBase
<1>6. CASE ManualRefund(j, o)
  <2> DEFINE tx == [row[o] EXCEPT !.status = "refunded", !.pst = "held"]
             plan == RefundOrAbort(o) \o <<"save", "status">>
  <2>1. /\ Start(j, "refund", o, tx, plan)
        /\ row[o].status # "none" /\ UNCHANGED <<row, marks, placed>>
    BY <1>6 DEF ManualRefund, EntryFrame
  <2>2. tx.status = "refunded"
    BY <1>1 DEF Rows
  <2>3. /\ plan # <<>> /\ plan \notin CreatePlans
        /\ \A op \in {"insert", "redebit", "mark"} : ~Has(plan, {op})
    BY AdminRefundPlans
  <2> HIDE DEF tx, plan
  <2>4. QED
    BY <1>5, <2>1, <2>2, <2>3
<1>7. CASE ManualSetFailed(j, o)
  <2> DEFINE tx == [row[o] EXCEPT !.status = "failed", !.pst = "held"]
             plan == RefundOrAbort(o) \o <<"save">>
  <2>1. /\ Start(j, "setFailed", o, tx, plan)
        /\ row[o].status # "none" /\ UNCHANGED <<row, marks, placed>>
    BY <1>7 DEF ManualSetFailed, EntryFrame
  <2>2. tx.status = "failed"
    BY <1>1 DEF Rows
  <2>3. /\ plan # <<>> /\ plan \notin CreatePlans
        /\ \A op \in {"insert", "redebit", "mark"} : ~Has(plan, {op})
    BY AdminRefundPlans
  <2> HIDE DEF tx, plan
  <2>4. QED
    BY <1>5, <2>1, <2>2, <2>3
<1>8. CASE BulkRetryWithProvider(j, o)
  <2> DEFINE tx == [row[o] EXCEPT !.exch = FALSE, !.pst = "held"]
             plan == <<"saveOrAbort", "purchase">>
  <2>1. /\ Start(j, "switch", o, tx, plan)
        /\ row[o].status = "processing" /\ UNCHANGED <<row, marks, placed>>
    BY <1>8 DEF BulkRetryWithProvider, EntryFrame
  <2>2. tx.status = "processing"
    BY <1>1, <2>1 DEF Rows
  <2>3. /\ plan # <<>> /\ plan \notin CreatePlans
        /\ \A op \in {"insert", "redebit", "mark"} : ~Has(plan, {op})
    BY DEF CreatePlans, Has
  <2> HIDE DEF tx, plan
  <2>4. QED
    BY <1>5, <2>1, <2>2, <2>3
<1>9. CASE RegenerateProviderRefID(j, o)
  <2> DEFINE tx == [row[o] EXCEPT !.ref = lastRef[o] + 1]
             plan == <<"save">>
  <2>1. /\ Start(j, "regen", o, tx, plan)
        /\ row[o].status \notin {"none", "success"} /\ UNCHANGED <<row, marks, placed>>
    BY <1>9 DEF RegenerateProviderRefID, EntryFrame
  <2>2. tx.status = row[o].status
    BY <1>1 DEF Rows
  <2>3. /\ plan # <<>> /\ plan \notin CreatePlans
        /\ \A op \in {"insert", "redebit", "mark"} : ~Has(plan, {op})
    BY DEF CreatePlans, Has
  <2> HIDE DEF tx, plan
  <2>4. QED
    BY <1>5, <2>1, <2>2, <2>3
<1>10. QED
  BY <1>3, <1>4, <1>6, <1>7, <1>8, <1>9 DEF AdminEntry

\* The provider decides: an order that was delivered stays so.
LEMMA DecideBase ==
    ASSUME TypeOK, BaseInv, NEW o \in Orders, NEW i \in DOMAIN placed[o], Decide(o, i)
    PROVE  DeliveredKept /\ \A q \in Orders : GoodOrder(q)'
<1>1. PICK s \in {"success", "failed"} :
         placed' = [placed EXCEPT ![o][i].state = s]
  BY DEF Decide
<1>2. placed \in [Orders -> Seq(PlacedOrders)] /\ placed[o] \in Seq(PlacedOrders)
  BY DEF TypeOK
<1>3. /\ placed'[o] = [placed[o] EXCEPT ![i] = [placed[o][i] EXCEPT !.state = s]]
      /\ \A q \in Orders : q # o => placed'[q] = placed[q]
  BY <1>1, <1>2
<1>4. \A n \in DOMAIN placed[o] :
         n \in DOMAIN placed'[o] /\ (n # i => placed'[o][n] = placed[o][n])
  BY <1>2, <1>3
<1>5. placed[o][i].state = "open" /\ UNCHANGED <<row, marks>>
  BY DEF Decide
<1>6. ASSUME NEW q \in Orders, Delivered(q) PROVE DeliveredNext(q)
  <2>1. CASE SaysSo
    BY <2>1 DEF DeliveredNext
  <2>2. CASE InState(q, "success")
    <3>1. PICK n \in DOMAIN placed[q] : placed[q][n].state = "success"
      BY <2>2 DEF InState
    <3>2. n \in DOMAIN placed'[q] /\ placed'[q][n] = placed[q][n]
      BY <1>3, <1>4, <1>5, <3>1
    <3>3. QED
      BY <3>1, <3>2 DEF DeliveredNext
  <2>3. QED
    BY <1>6, <2>1, <2>2 DEF Delivered, SaysSo
<1>7. ASSUME NEW q \in Orders PROVE GoodOrder(q)'
  <2>1. row'[q] = row[q] /\ marks'[q] = marks[q] /\ GoodOrder(q)
    BY <1>5 DEF BaseInv
  <2>2. row[q].status = "none" => placed'[q] = placed[q]
    <3>1. CASE q = o
      BY <2>1, <3>1 DEF GoodOrder
    <3>2. CASE q # o
      BY <1>3, <3>2
    <3>3. QED
      BY <3>1, <3>2
  <2>3. row[q].status = "success" => DeliveredNext(q)
    BY <1>6, <2>1 DEF GoodOrder
  <2>4. QED
    BY <2>1, <2>2, <2>3 DEF GoodOrder, Delivered, DeliveredNext, InState, Runs, SaysSo
<1>8. QED
  BY <1>6, <1>7 DEF DeliveredKept

\* A step of nobody's: no row changes and no handler moves.
LEMMA WorldFrameBase ==
    ASSUME TypeOK, BaseInv, UNCHANGED <<row, job>>, DeliveredKept,
           \A q \in Orders : GoodOrder(q)'
    PROVE  BaseInv'
<1>1. CreatesAlone'
  BY DEF BaseInv, CreatesAlone, Creates, IdleJob, NoRow, NoReply, Reply
<1>2. ASSUME NEW k \in Jobs PROVE GoodHandler(job[k])'
  <2>1. job[k].ord \in Orders /\ GoodHandler(job[k]) /\ row' = row /\ job'[k] = job[k]
    BY JobFacts DEF BaseInv, TypeOK
  <2>2. Delivered(job[k].ord) => DeliveredNext(job[k].ord)
    BY <2>1 DEF DeliveredKept
  <2>3. QED
    BY <2>1, <2>2
       DEF GoodHandler, Creates, Delivered, DeliveredNext, InState, Runs, IsSaldo, Has, IdleJob, SaysSo,
           NoRow, NoReply, Reply
<1>3. QED
  BY <1>1, <1>2 DEF BaseInv

LEMMA WorldBase ==
    ASSUME TypeOK, BaseInv, World \/ UNCHANGED vars
    PROVE  BaseInv'
<1>1. ASSUME UNCHANGED <<row, marks, placed, job>> PROVE BaseInv'
  <2>1. DeliveredKept
    BY <1>1 DEF DeliveredKept, Delivered, DeliveredNext, InState, SaysSo
  <2>2. \A q \in Orders : GoodOrder(q)'
    BY <1>1 DEF BaseInv, GoodOrder, Delivered, InState, Runs, SaysSo
  <2>3. QED
    BY <1>1, <2>1, <2>2, WorldFrameBase
<1>2. CASE UNCHANGED vars
  BY <1>1, <1>2 DEF vars
<1>3. CASE \E o \in Orders : Age(o)
  BY <1>1, <1>3 DEF Age
<1>4. CASE \E o \in Orders : \E i \in DOMAIN placed[o] : Decide(o, i)
  <2>1. PICK o \in Orders : \E i \in DOMAIN placed[o] : Decide(o, i)
    BY <1>4
  <2>2. PICK i \in DOMAIN placed[o] : Decide(o, i)
    BY <2>1
  <2>3. UNCHANGED <<row, job>>
    BY <2>2 DEF Decide
  <2>4. QED
    BY <2>2, <2>3, DecideBase, WorldFrameBase
<1>5. CASE SwitchProvider
  BY <1>1, <1>5 DEF SwitchProvider
<1>6. CASE Crash
  <2>1. UNCHANGED <<row, marks, placed>> /\ \A k \in Jobs : job'[k] = IdleJob
    BY <1>6 DEF Crash
  <2>2. \A q \in Orders : GoodOrder(q)'
    BY <2>1 DEF BaseInv, GoodOrder, Delivered, InState, Runs, SaysSo
  <2>3. \A k \in Jobs : GoodHandler(job[k])'
    BY <2>1 DEF GoodHandler, IdleJob, NoRow, NoReply, Reply
  <2>4. CreatesAlone'
    BY <2>1 DEF CreatesAlone, IdleJob, NoRow, NoReply, Reply
  <2>5. QED
    BY <2>2, <2>3, <2>4 DEF BaseInv
<1>7. QED
  BY <1>2, <1>3, <1>4, <1>5, <1>6 DEF World

LEMMA InitBase == Init => BaseInv
<1> SUFFICES ASSUME Init PROVE BaseInv
  OBVIOUS
<1>1. \A j \in Jobs : job[j] = IdleJob
  BY DEF Init
<1>2. \A o \in Orders : row[o] = NoRow /\ placed[o] = <<>> /\ marks[o] = 0
  BY DEF Init
<1>3. \A o \in Orders : GoodOrder(o)
  BY <1>2, IdleFacts DEF GoodOrder
<1>4. \A j \in Jobs : GoodHandler(job[j])
  BY <1>1 DEF GoodHandler
<1>5. CreatesAlone
  BY <1>1 DEF CreatesAlone
<1>6. QED
  BY <1>3, <1>4, <1>5 DEF BaseInv

LEMMA BaseStep == TypeOK /\ BaseInv /\ [Next]_vars => BaseInv'
<1> SUFFICES ASSUME TypeOK, BaseInv, [Next]_vars PROVE BaseInv'
  OBVIOUS
<1>1. CASE \E j \in Jobs : Statement(j) \/ Call(j) \/ StatementFails(j)
  BY <1>1, StatementBase, CallBase
<1>2. CASE \E j \in Jobs, o \in Orders : AutomaticEntry(j, o) \/ AdminEntry(j, o)
  BY <1>2, AutomaticEntryBase, AdminEntryBase
<1>3. CASE World \/ UNCHANGED vars
  BY <1>3, WorldBase
<1>4. QED
  BY <1>1, <1>2, <1>3 DEF Next

LEMMA BaseInvariant == Spec => []BaseInv
<1>1. Init => BaseInv
  BY InitBase
<1>2. TypeOK /\ BaseInv /\ [Next]_vars => BaseInv'
  BY BaseStep
<1>3. QED
  BY <1>1, <1>2, TypeCorrect, PTL DEF Spec

\* A row says success only when the provider delivered, whatever handlers race,
\* statements fail, routes change and processes stop, as long as no admin marks an
\* order successful by hand and no order goes to Kiosgamer, whose checks call an
\* open order or somebody else's a success (CheckRecentOrder, parseKiosgamerPoll).
THEOREM SuccessNeedsDelivery ==
    ASSUME ~Runs("setSuccess"), Kiosgamer = {}
    PROVE  Spec => []SuccessIsDelivered
<1>1. BaseInv => SuccessIsDelivered
  BY DEF BaseInv, GoodOrder, Delivered, InState, SuccessIsDelivered, SaysSo
<1>2. QED
  BY <1>1, BaseInvariant, PTL

-------------------------------------------------------------------------------
(* PayInv, step by step.                                                   *)

\* What the next state keeps: an accepted payment and a row past it.
PaidNext(o) == IsSaldo(o) \/ marks'[o] >= 1 \/ Runs("retry")
Unpaid == {"none", "pending"}
PaymentKept ==
    \A o \in Orders :
        /\ Paid(o) => PaidNext(o)
        /\ row[o].status \notin Unpaid => row'[o].status \notin Unpaid

LEMMA PayFrame ==
    ASSUME TypeOK, PayInv, NEW j \in Jobs, OthersKeep(j), PaymentKept,
           PaidHandler(job[j])', \A o \in Orders : PaidOrder(o)'
    PROVE  PayInv'
<1>1. ASSUME NEW k \in Jobs, k # j PROVE PaidHandler(job[k])'
  <2>1. job'[k] = job[k] /\ job[k].ord \in Orders /\ PaidHandler(job[k])
    BY <1>1, JobFacts DEF OthersKeep, PayInv, TypeOK
  <2>2. CASE job[k] = IdleJob
    BY <2>1, <2>2 DEF PaidHandler, IdleJob, NoRow, NoReply, Reply
  <2>3. CASE job[k] # IdleJob
    <3> DEFINE h == job[k]
    <3>1. /\ Paid(h.ord) => PaidNext(h.ord)
          /\ row[h.ord].status \notin Unpaid => row'[h.ord].status \notin Unpaid
      BY <2>1 DEF PaymentKept
    <3>2. /\ h.tx.status = "pending" =>
                /\ h.plan \in {<<"insert">>, <<"mark", "purchase">>, <<"purchase">>}
                /\ ~h.tx.verified /\ ~IsSaldo(h.ord)
          /\ h.tx.status = "processing" => PaidNext(h.ord)
          /\ Reaches(h) => row'[h.ord].status \notin Unpaid /\ PaidNext(h.ord)
          /\ h.plan \in CreatePlans \ {<<"insert">>} => IsSaldo(h.ord)
      BY <2>1, <2>3, <3>1 DEF PaidHandler, Unpaid
    <3>3. QED
      BY <2>1, <3>2 DEF PaidHandler, Paid, PaidNext, Runs, IsSaldo, Reaches, Creates, Has, Unpaid
  <2>4. QED
    BY <2>2, <2>3
<1>2. \A k \in Jobs : PaidHandler(job[k])'
  BY <1>1
<1>3. QED
  BY <1>2 DEF PayInv

\* A step that writes no row and calls no provider.
LEMMA PayJobFrame ==
    ASSUME TypeOK, PayInv, NEW j \in Jobs, UNCHANGED <<row, marks, placed>>,
           OthersKeep(j), PaidHandler(job[j])'
    PROVE  PayInv'
<1>1. row' = row /\ marks' = marks /\ placed' = placed
  OBVIOUS
<1>2. PaymentKept
  BY <1>1 DEF PaymentKept, Paid, PaidNext
<1>3. \A o \in Orders : PaidOrder(o)'
  BY <1>1 DEF PayInv, PaidOrder, Paid, IsSaldo, Runs
<1>4. QED
  BY <1>2, <1>3, PayFrame

LEMMA AbortPay ==
    ASSUME TypeOK, NEW j \in Jobs, Abort(j)
    PROVE  OthersKeep(j) /\ PaidHandler(job[j])'
<1>1. OthersKeep(j) /\ job'[j] = IdleJob
  BY AbortFields
<1>2. QED
  BY <1>1 DEF PaidHandler

\* What a handler must be when it starts, or goes on, with tx and plan.
PaidWith(o, tx, plan) ==
    /\ tx.status = "pending" =>
          /\ plan \in {<<"insert">>, <<"mark", "purchase">>, <<"purchase">>}
          /\ ~tx.verified /\ ~IsSaldo(o)
    /\ tx.status = "processing" => PaidNext(o)
    /\ Has(plan, Talks) /\ plan \notin CreatePlans /\ plan # <<"mark", "purchase">> =>
          row'[o].status \notin Unpaid /\ PaidNext(o)
    /\ plan \in CreatePlans \ {<<"insert">>} => IsSaldo(o)

LEMMA ContinuePay ==
    ASSUME TypeOK, NEW j \in Jobs, NEW tx, NEW plan, Continue(j, tx, plan),
           plan # <<>> => PaidWith(job[j].ord, tx, plan)
    PROVE  OthersKeep(j) /\ PaidHandler(job[j])'
<1>1. CASE plan = <<>>
  <2>1. OthersKeep(j) /\ job'[j] = IdleJob
    BY <1>1, ContinueFields
  <2>2. QED
    BY <2>1 DEF PaidHandler
<1>2. CASE plan # <<>>
  <2>1. /\ OthersKeep(j) /\ job'[j] # IdleJob /\ job'[j].ord = job[j].ord
        /\ job'[j].tx = tx /\ job'[j].plan = plan
    BY <1>2, ContinueFields
  <2>2. PaidWith(job'[j].ord, job'[j].tx, job'[j].plan)
    BY <1>2, <2>1
  <2>3. PaidHandler(job[j])'
    BY <2>2 DEF PaidHandler, PaidWith, Paid, PaidNext, Runs, IsSaldo, Reaches, Creates, Has,
                Unpaid, Talks
  <2>4. QED
    BY <2>1, <2>3
<1>3. QED
  BY <1>1, <1>2

\* A plan that talks to a provider, and what its head says.
LEMMA HeadPay ==
    ASSUME TypeOK, BaseInv, PayInv, NEW j \in Jobs, job[j].plan # <<>>
    PROVE  /\ PaidHandler(job[j]) /\ job[j] # IdleJob
           /\ /\ Has(job[j].plan, Talks)
              /\ Head(job[j].plan) \notin {"debit", "insert", "mark"}
              => row[job[j].ord].status \notin Unpaid /\ Paid(job[j].ord)
           /\ Head(job[j].plan) \notin {"insert", "mark", "purchase"} =>
                 job[j].tx.status # "pending"
           /\ Head(job[j].plan) \in Talks => Has(job[j].plan, Talks)
<1>1. PaidHandler(job[j]) /\ job[j] # IdleJob /\ job[j].plan \in Seq(Ops)
  BY ActiveJob, JobFacts DEF PayInv, TypeOK
<1>2. Head(job[j].plan) \notin {"debit", "insert"} => ~Creates(job[j])
  BY HeadBase
<1>3. /\ Head(<<"mark", "purchase">>) = "mark" /\ Head(<<"insert">>) = "insert"
      /\ Head(<<"purchase">>) = "purchase"
  OBVIOUS
<1>4. Head(job[j].plan) \in Talks => Has(job[j].plan, Talks)
  BY <1>1 DEF Has
<1>5. Has(job[j].plan, Talks) /\ Head(job[j].plan) \notin {"debit", "insert", "mark"}
         => Reaches(job[j])
  BY <1>2, <1>3 DEF Reaches, Talks
<1>6. QED
  BY <1>1, <1>3, <1>4, <1>5 DEF PaidHandler, Unpaid

\* A handler that goes on with its copy and the rest of its plan.
LEMMA ProceedPay ==
    ASSUME TypeOK, BaseInv, PayInv, NEW j \in Jobs, job[j].plan # <<>>, Proceed(j),
           PaymentKept,
           Head(job[j].plan) = "insert" => row'[job[j].ord].status = job[j].tx.status,
           Head(job[j].plan) = "mark" =>
               row'[job[j].ord].status \notin Unpaid /\ PaidNext(job[j].ord)
    PROVE  OthersKeep(j) /\ PaidHandler(job[j])'
<1> DEFINE h == job[j]
           rest == Rest(j)
<1>1. /\ h # IdleJob /\ PaidHandler(h) /\ h.plan \in Seq(Ops) /\ rest \in Seq(Ops)
      /\ rest = Tail(h.plan) /\ Continue(j, h.tx, rest) /\ h.ord \in Orders
      /\ GoodHandler(h)
  BY ActiveJob, JobFacts DEF PayInv, TypeOK, Proceed, Rest, BaseInv
<1>2. \A ops : Has(rest, ops) => Has(h.plan, ops)
  BY <1>1, HasTail
<1>3. h.tx.status = "pending" /\ rest # <<>> => rest = <<"purchase">>
  <2>1. CASE h.plan = <<"insert">> \/ h.plan = <<"purchase">>
    BY <1>1, <2>1
  <2>2. CASE h.plan = <<"mark", "purchase">>
    BY <1>1, <2>2
  <2>3. QED
    BY <1>1, <2>1, <2>2 DEF PaidHandler
<1>4. h.tx.status = "processing" => PaidNext(h.ord)
  BY <1>1 DEF PaidHandler, PaymentKept
<1>5. rest \in CreatePlans \ {<<"insert">>} => IsSaldo(h.ord)
  <2>1. rest \in CreatePlans => Creates(h)
    <3>1. rest \in CreatePlans => Has(rest, {"insert"})
      BY DEF CreatePlans, Has
    <3>2. QED
      BY <1>1, <1>2, <3>1 DEF GoodHandler
  <2>2. h.plan # <<"insert">> \/ rest = <<>>
    BY <1>1
  <2>3. <<>> \notin CreatePlans
    BY DEF CreatePlans
  <2>4. QED
    BY <1>1, <2>1, <2>2, <2>3 DEF PaidHandler, Creates
<1>6. ASSUME Has(rest, Talks), rest \notin CreatePlans
      PROVE  row'[h.ord].status \notin Unpaid /\ PaidNext(h.ord)
  <2>1. Has(h.plan, Talks)
    BY <1>2, <1>6
  <2>2. CASE Head(h.plan) = "mark"
    BY <2>2
  <2>3. CASE Head(h.plan) \notin {"debit", "insert", "mark"}
    BY <1>1, <2>1, <2>3, HeadPay DEF PaymentKept
  <2>4. CASE Head(h.plan) \in {"debit", "insert"}
    <3>1. CASE Creates(h)
      <4>1. h.plan = <<"insert", "purchase">>
        <5>1. h.plan # <<"debit", "insert", "purchase">>
          BY <1>1, <1>6, CreateTails
        <5>2. h.plan # <<"insert">>
          <6>1. h.plan = <<"insert">> => rest = <<>>
            BY <1>1
          <6>2. QED
            BY <1>6, <6>1 DEF Has
        <5>3. QED
          BY <3>1, <5>1, <5>2 DEF Creates, CreatePlans
      <4>2. IsSaldo(h.ord)
        <5>1. h.plan # <<"insert">>
          BY <4>1
        <5>2. QED
          BY <1>1, <3>1, <5>1 DEF PaidHandler, Creates
      <4>3. h.tx.status \notin Unpaid
        <5>1. h.tx.status # "pending"
          BY <1>1, <4>2 DEF PaidHandler
        <5>2. h.plan \notin Unread
          BY <3>1, StartingPlans DEF Creates
        <5>3. QED
          BY <1>1, <5>1, <5>2 DEF GoodHandler, Unpaid
      <4>4. Head(h.plan) = "insert"
        BY <4>1
      <4>5. QED
        BY <4>2, <4>3, <4>4 DEF PaidNext
    <3>2. CASE ~Creates(h)
      <4>1. h.plan # <<"mark", "purchase">>
        BY <2>4
      <4>2. QED
        BY <1>1, <2>1, <3>2, <4>1 DEF PaidHandler, Reaches, Talks, Unpaid, PaymentKept
    <3>3. QED
      BY <3>1, <3>2
  <2>5. QED
    BY <2>2, <2>3, <2>4
<1> HIDE DEF rest
<1>7. rest # <<>> => PaidWith(h.ord, h.tx, rest)
  BY <1>1, <1>3, <1>4, <1>5, <1>6 DEF PaidWith, PaidHandler
<1>8. QED
  BY <1>1, <1>7, ContinuePay

\* A handler that goes on with a plan that talks to nobody new.
LEMMA GoOnPay ==
    ASSUME TypeOK, BaseInv, PayInv, NEW j \in Jobs, NEW tx, NEW plan,
           job[j].plan # <<>>, Head(job[j].plan) \notin {"debit", "insert", "mark"},
           Continue(j, tx, plan), PaymentKept,
           \A ops \in {{"insert"}, Talks} : Has(plan, ops) => Has(job[j].plan, ops),
           tx.status # "pending",
           tx.status = "processing" => PaidNext(job[j].ord)
    PROVE  OthersKeep(j) /\ PaidHandler(job[j])'
<1>1. Has(plan, Talks) => row'[job[j].ord].status \notin Unpaid /\ PaidNext(job[j].ord)
  <2>1. job[j].ord \in Orders
    BY JobFacts DEF TypeOK
  <2>2. QED
    BY <2>1, HeadPay DEF PaymentKept
<1>2. plan \notin CreatePlans
  <2>1. ~Has(job[j].plan, {"insert"})
    BY HeadBase DEF GoodHandler
  <2>2. \A s \in CreatePlans : Has(s, {"insert"})
    BY DEF CreatePlans, Has
  <2>3. QED
    BY <2>1, <2>2
<1>3. PaidWith(job[j].ord, tx, plan)
  BY <1>1, <1>2 DEF PaidWith
<1>4. QED
  BY <1>3, ContinuePay

\* applyResult on a copy: only a fulfilment may start from an unpaid one, the
\* copy the webhook read before it marked the row.
LEMMA ApplyPay ==
    ASSUME TypeOK, BaseInv, PayInv, NEW j \in Jobs, NEW tx \in Rows, NEW reply \in Replies,
           NEW src, job[j].plan # <<>>, Head(job[j].plan) \notin {"debit", "insert", "mark"},
           Apply(j, tx, reply, src), PaymentKept,
           tx.status # "pending" \/ src = "fulfill", PaidNext(job[j].ord)
    PROVE  OthersKeep(j) /\ PaidHandler(job[j])'
<1>1. CASE Dropped(reply, src)
  BY <1>1, AbortPay DEF Apply
<1>2. CASE ~Dropped(reply, src)
  <2> DEFINE plan == ResultWrites(job[j].ord, reply, src)
  <2>1. Continue(j, applyResult(tx, reply, src), plan)
    BY <1>2 DEF Apply
  <2>2. applyResult(tx, reply, src).status = ResultStatus(tx, reply, src)
    BY DEF applyResult, Rows
  <2>3. ResultStatus(tx, reply, src) # "pending"
    BY DEF ResultStatus
  <2>4. plan \in Seq(WriteOps)
    BY ResultWritesOps
  <2> HIDE DEF plan
  <2>5. ~Has(plan, {"insert"}) /\ ~Has(plan, Talks)
    BY <2>4, WritesHaveNot DEF WriteOps, Talks
  <2>6. QED
    BY <2>1, <2>2, <2>3, <2>5, GoOnPay
<1>3. QED
  BY <1>1, <1>2

\* A statement that writes the copy, or its status, to the row: only the insert
\* of a new order writes an unpaid copy.
LEMMA RowWritePay ==
    ASSUME TypeOK, BaseInv, PayInv, NEW j \in Jobs, NEW r,
           job[j].plan # <<>>, Head(job[j].plan) \in {"insert", "save", "saveOrAbort", "status"},
           row' = [row EXCEPT ![job[j].ord] = r], UNCHANGED <<marks, placed>>,
           r.status = job[j].tx.status, r = job[j].tx \/ Head(job[j].plan) = "status",
           Proceed(j)
    PROVE  PayInv'
<1> DEFINE o == job[j].ord
<1>1. o \in Orders /\ row \in [Orders -> Rows] /\ marks' = marks /\ placed' = placed
  BY JobFacts DEF TypeOK
<1>2. row'[o] = r /\ \A q \in Orders : q # o => row'[q] = row[q]
  BY <1>1
<1>3. /\ GoodHandler(job[j]) /\ PaidHandler(job[j]) /\ job[j] # IdleJob
      /\ r.status # "none"
      /\ r.status = "pending" => Head(job[j].plan) = "insert"
  BY HeadBase, HeadPay
<1>4. r.status = "pending" => row[o] = NoRow
  <2>1. Head(job[j].plan) = "insert" => Has(job[j].plan, {"insert"})
    BY HeadBase
  <2>2. QED
    BY <1>3, <2>1 DEF GoodHandler
<1>5. r.status = "pending" =>
         marks[o] = 0 /\ placed[o] = <<>> /\ ~r.verified /\ ~IsSaldo(o)
  <2>1. r.status = "pending" => marks[o] = 0 /\ placed[o] = <<>>
    BY <1>1, <1>4, IdleFacts DEF BaseInv, GoodOrder
  <2>2. r.status = "pending" => r = job[j].tx
    BY <1>3
  <2>3. QED
    BY <1>3, <2>1, <2>2 DEF PaidHandler
<1>6. PaymentKept
  <2>1. \A q \in Orders : Paid(q) => PaidNext(q)
    BY <1>1 DEF Paid, PaidNext
  <2>2. row[o].status \notin Unpaid => r.status \notin Unpaid
    BY <1>3, <1>4, IdleFacts DEF Unpaid
  <2>3. QED
    BY <1>2, <2>1, <2>2 DEF PaymentKept
<1>7. ASSUME NEW q \in Orders PROVE PaidOrder(q)'
  <2>1. PaidOrder(q) /\ (q # o => row'[q] = row[q])
    BY <1>2 DEF PayInv
  <2>2. q = o /\ r.status = "processing" => Paid(q)
    BY <1>3 DEF PaidHandler
  <2>3. /\ row'[q].status = "pending" =>
              marks[q] = 0 /\ placed[q] = <<>> /\ ~row'[q].verified /\ ~IsSaldo(q)
        /\ row'[q].status = "processing" \/ placed[q] # <<>> => Paid(q)
    BY <1>2, <1>5, <2>1, <2>2 DEF PaidOrder
  <2>4. QED
    BY <1>1, <2>1, <2>3 DEF PaidOrder, Paid, IsSaldo, Runs
<1>8. OthersKeep(j) /\ PaidHandler(job[j])'
  BY <1>2, <1>6, ProceedPay
<1>9. QED
  BY <1>6, <1>7, <1>8, PayFrame

\* The one statement that accepts a payment.
LEMMA MarkPay ==
    ASSUME TypeOK, BaseInv, PayInv, NEW j \in Jobs, Mark(j)
    PROVE  PayInv'
<1> DEFINE o == job[j].ord
<1>1. /\ o \in Orders /\ row \in [Orders -> Rows] /\ row[o] \in Rows
      /\ marks \in [Orders -> Nat] /\ marks[o] \in Nat
  BY JobFacts DEF TypeOK
<1>2. job[j].plan # <<>> /\ Head(job[j].plan) = "mark" /\ placed' = placed
  BY DEF Mark, At
<1>3. CASE MarksPending(o)
  <2> DEFINE r == [row[o] EXCEPT !.status = "processing", !.verified = TRUE]
  <2>1. row' = [row EXCEPT ![o] = r] /\ marks' = [marks EXCEPT ![o] = @ + 1] /\ Proceed(j)
    BY <1>1, <1>3 DEF Mark
  <2>2. r.status = "processing"
    BY <1>1 DEF Rows
  <2> HIDE DEF r
  <2>3. /\ row'[o] = r /\ marks'[o] = marks[o] + 1
        /\ \A q \in Orders : q # o => row'[q] = row[q] /\ marks'[q] = marks[q]
    BY <1>1, <2>1
  <2>4. marks[o] = 0
    BY <1>1, <1>3 DEF MarksPending, PayInv, PaidOrder
  <2>5. PaymentKept
    <3>1. ASSUME NEW q \in Orders
          PROVE  /\ Paid(q) => PaidNext(q)
                 /\ row[q].status \notin Unpaid => row'[q].status \notin Unpaid
      BY <2>2, <2>3, <2>4 DEF Paid, PaidNext, Unpaid
    <3>2. QED
      BY <3>1 DEF PaymentKept
  <2>6. PaidNext(o) /\ row'[o].status \notin Unpaid
    BY <2>2, <2>3, <2>4 DEF PaidNext, Unpaid
  <2>7. ASSUME NEW q \in Orders PROVE PaidOrder(q)'
    <3>1. CASE q = o
      <4>1. marks'[q] <= 1 /\ row'[q].status = "processing" /\ marks'[q] >= 1
        BY <2>2, <2>3, <2>4, <3>1
      <4>2. QED
        BY <4>1 DEF PaidOrder, Paid
    <3>2. CASE q # o
      <4>1. row'[q] = row[q] /\ marks'[q] = marks[q] /\ placed'[q] = placed[q] /\ PaidOrder(q)
        BY <1>2, <2>3, <3>2 DEF PayInv
      <4>2. QED
        BY <4>1 DEF PaidOrder, Paid, IsSaldo, Runs
    <3>3. QED
      BY <3>1, <3>2
  <2>8. OthersKeep(j) /\ PaidHandler(job[j])'
    BY <1>2, <2>1, <2>5, <2>6, ProceedPay
  <2>9. QED
    BY <2>5, <2>7, <2>8, PayFrame
<1>4. CASE ~MarksPending(o)
  <2>1. Abort(j) /\ UNCHANGED <<row, marks, placed>>
    BY <1>4 DEF Mark
  <2>2. QED
    BY <2>1, AbortPay, PayJobFrame
<1>5. QED
  BY <1>3, <1>4

LEMMA RedebitPay ==
    ASSUME TypeOK, BaseInv, PayInv, NEW j \in Jobs, At(j, "redebit"), NEW refunded,
           Redebit(j, refunded), UNCHANGED <<row, marks, placed>>
    PROVE  PayInv'
<1> DEFINE owed == Owed(job[j].tx, refunded)
           first == IF owed THEN <<"debit">> ELSE <<>>
           tx == Reopened(job[j].kind, job[j].tx)
<1>1. Continue(j, tx, first \o Rest(j))
  BY Zenon DEF Redebit
<1>2. /\ job[j].plan # <<>> /\ Head(job[j].plan) = "redebit" /\ job[j].plan \in Seq(Ops)
      /\ job[j].tx \in Rows /\ Rest(j) \in Seq(Ops) /\ Rest(j) = Tail(job[j].plan)
  BY JobFacts DEF TypeOK, At, Rest
<1>3. tx.status \in {"success", "processing"}
  BY <1>2 DEF Reopened, Rows
<1>4. first \in Seq(Ops) /\ ~Has(first, {"insert"}) /\ ~Has(first, Talks)
  <2>1. <<"debit">> \in Seq(Ops) /\ <<>> \in Seq(Ops)
    BY DEF Ops
  <2>2. first = <<"debit">> \/ first = <<>>
    BY Zenon
  <2>3. QED
    BY <2>1, <2>2 DEF Has, Talks
<1> HIDE DEF first, tx
<1>5. \A ops \in {{"insert"}, Talks} :
         Has(first \o Rest(j), ops) => Has(job[j].plan, ops)
  BY <1>2, <1>4, HasConcat, HasTail
<1>6. PaidNext(job[j].ord)
  BY <1>2, HeadBase DEF GoodHandler, PaidNext
<1>7. PaymentKept
  BY DEF PaymentKept, Paid, PaidNext
<1>8. OthersKeep(j) /\ PaidHandler(job[j])'
  BY <1>1, <1>2, <1>3, <1>5, <1>6, <1>7, GoOnPay
<1>9. QED
  BY <1>8, PayJobFrame

LEMMA StatementPay ==
    ASSUME TypeOK, BaseInv, PayInv, NEW j \in Jobs, Statement(j) \/ StatementFails(j)
    PROVE  PayInv'
<1> DEFINE o == job[j].ord
<1>1. /\ o \in Orders /\ job[j].tx \in Rows /\ row \in [Orders -> Rows] /\ row[o] \in Rows
      /\ job[j].plan \in Seq(Ops) /\ job[j].reply \in Replies
  BY JobFacts DEF TypeOK
<1>2. ASSUME UNCHANGED <<row, marks>>
      PROVE  PaymentKept
  BY <1>2 DEF PaymentKept, Paid, PaidNext
<1>3. ASSUME UNCHANGED <<row, marks, placed>>, job[j].plan # <<>>, Proceed(j),
             Head(job[j].plan) \notin {"insert", "mark"}
      PROVE  PayInv'
  <2>1. OthersKeep(j) /\ PaidHandler(job[j])'
    BY <1>2, <1>3, ProceedPay
  <2>2. QED
    BY <1>3, <2>1, PayJobFrame
<1>4. ASSUME UNCHANGED <<row, marks, placed>>, Abort(j)
      PROVE  PayInv'
  BY <1>4, AbortPay, PayJobFrame
<1>5. CASE Debit(j)
  <2>1. UNCHANGED <<row, marks, placed>> /\ job[j].plan # <<>> /\ Head(job[j].plan) = "debit"
    BY <1>5 DEF Debit, At
  <2>2. Proceed(j) \/ Abort(j)
    BY <1>5 DEF Debit
  <2>3. QED
    BY <1>3, <1>4, <2>1, <2>2
<1>6. CASE Credit(j)
  <2>1. /\ UNCHANGED <<row, marks, placed>> /\ job[j].plan # <<>>
        /\ Head(job[j].plan) \in {"credit", "creditOrAbort"} /\ Proceed(j)
    BY <1>6 DEF Credit, At
  <2>2. QED
    BY <1>3, <2>1
<1>7. CASE HasRefund(j)
  <2> DEFINE skip == SubSeq(job[j].plan, 3, Len(job[j].plan))
  <2>1. UNCHANGED <<row, marks, placed>> /\ job[j].plan # <<>> /\ Head(job[j].plan) = "hasRefund"
    BY <1>7 DEF HasRefund, At
  <2>2. CASE refunds[o] > 0
    <3>1. Continue(j, job[j].tx, skip)
      BY <1>7, <2>2 DEF HasRefund
    <3>2. \A ops : Has(skip, ops) => Has(job[j].plan, ops)
      BY <1>1, HasSkip
    <3> HIDE DEF skip
    <3>3. PaidHandler(job[j]) /\ job[j] # IdleJob /\ job[j].tx.status # "pending"
      BY <2>1, HeadPay
    <3>4. job[j].tx.status = "processing" => PaidNext(o)
      BY <1>1, <1>2, <2>1, <3>3 DEF PaidHandler, PaymentKept
    <3>5. OthersKeep(j) /\ PaidHandler(job[j])'
      BY <1>2, <2>1, <3>1, <3>2, <3>3, <3>4, GoOnPay
    <3>6. QED
      BY <2>1, <3>5, PayJobFrame
  <2>3. CASE ~(refunds[o] > 0)
    <3>1. Proceed(j)
      BY <1>7, <2>3 DEF HasRefund, Proceed
    <3>2. QED
      BY <1>3, <2>1, <3>1
  <2>4. QED
    BY <2>2, <2>3
<1>8. CASE RedebitCheck(j)
  <2>1. /\ UNCHANGED <<row, marks, placed>> /\ At(j, "redebit")
        /\ Redebit(j, refunds[o] > 0)
    BY <1>8 DEF RedebitCheck
  <2>2. QED
    BY <2>1, RedebitPay
<1>9. CASE Insert(j) \/ Save(j)
  <2>1. /\ UNCHANGED <<marks, placed>> /\ job[j].plan # <<>> /\ Proceed(j)
        /\ Head(job[j].plan) \in {"insert", "save", "saveOrAbort"}
        /\ row' = [row EXCEPT ![o] = job[j].tx]
    BY <1>9 DEF Insert, Save, At
  <2>2. QED
    BY <2>1, RowWritePay
<1>10. CASE UpdateStatus(j)
  <2> DEFINE r == [row[o] EXCEPT !.status = job[j].tx.status]
  <2>1. /\ UNCHANGED <<marks, placed>> /\ job[j].plan # <<>> /\ Proceed(j)
        /\ Head(job[j].plan) = "status" /\ row' = [row EXCEPT ![o] = r]
    BY <1>1, <1>10 DEF UpdateStatus, At
  <2>2. r.status = job[j].tx.status
    BY <1>1 DEF Rows
  <2> HIDE DEF r
  <2>3. QED
    BY <2>1, <2>2, RowWritePay
<1>11. CASE Mark(j)
  BY <1>11, MarkPay
<1>12. CASE Claim(j)
  <2>1. UNCHANGED <<row, marks, placed>> /\ job[j].plan # <<>> /\ Head(job[j].plan) = "claim"
    BY <1>12 DEF Claim, At
  <2>2. Proceed(j) \/ Abort(j)
    BY <1>12 DEF Claim
  <2>3. QED
    BY <1>3, <1>4, <2>1, <2>2
<1>13. ASSUME row[o].status = "processing", UNCHANGED <<row, marks, placed>>
       PROVE  PaidNext(o)
  BY <1>1, <1>13 DEF PayInv, PaidOrder, Paid, PaidNext
<1>14. CASE Load(j)
  <2>1. UNCHANGED <<row, marks, placed>> /\ job[j].plan # <<>> /\ Head(job[j].plan) = "load"
    BY <1>14 DEF Load, At
  <2>2. CASE row[o].status = "processing"
    <3>1. Continue(j, row[o], Rest(j))
      BY <1>14, <2>2 DEF Load
    <3>2. \A ops : Has(Rest(j), ops) => Has(job[j].plan, ops)
      BY <1>1, <2>1, HasTail DEF Rest
    <3>3. OthersKeep(j) /\ PaidHandler(job[j])'
      BY <1>2, <1>13, <2>1, <2>2, <3>1, <3>2, GoOnPay
    <3>4. QED
      BY <2>1, <3>3, PayJobFrame
  <2>3. CASE row[o].status # "processing"
    <3>1. Abort(j)
      BY <1>14, <2>3 DEF Load
    <3>2. QED
      BY <1>4, <2>1, <3>1
  <2>4. QED
    BY <2>2, <2>3
<1>15. CASE Reread(j)
  <2>1. UNCHANGED <<row, marks, placed>> /\ job[j].plan # <<>> /\ Head(job[j].plan) = "reread"
    BY <1>15 DEF Reread, At
  <2>2. CASE row[o].status = "processing"
    <3>1. Apply(j, row[o], job[j].reply, job[j].src)
      BY <1>15, <2>2 DEF Reread
    <3>2. OthersKeep(j) /\ PaidHandler(job[j])'
      BY <1>1, <1>2, <1>13, <2>1, <2>2, <3>1, ApplyPay
    <3>3. QED
      BY <2>1, <3>2, PayJobFrame
  <2>3. CASE row[o].status # "processing"
    <3>1. Abort(j)
      BY <1>15, <2>3 DEF Reread
    <3>2. QED
      BY <1>4, <2>1, <3>1
  <2>4. QED
    BY <2>2, <2>3
<1>16. CASE StatementFails(j)
  <2>1. UNCHANGED <<row, marks, placed>> /\ job[j].plan # <<>>
    BY <1>16 DEF StatementFails
  <2>2. \/ /\ Head(job[j].plan) = "insert" /\ IsSaldo(o)
           /\ Continue(j, job[j].tx, <<"credit">>)
        \/ Head(job[j].plan) = "redebit" /\ Redebit(j, FALSE)
        \/ Head(job[j].plan) \in {"status", "save", "credit", "hasRefund"} /\ Proceed(j)
        \/ Abort(j)
    BY <1>16, Zenon DEF StatementFails
  <2>3. ASSUME IsSaldo(o), Continue(j, job[j].tx, <<"credit">>)
        PROVE  PayInv'
    <3>1. PaidHandler(job[j]) /\ job[j] # IdleJob
      BY <2>1, HeadPay
    <3>2. job[j].tx.status # "pending" /\ PaidNext(o)
      BY <2>3, <3>1 DEF PaidHandler, PaidNext
    <3>3. ~Has(<<"credit">>, Talks) /\ <<"credit">> \notin CreatePlans
      BY DEF Has, Talks, CreatePlans
    <3>4. PaidWith(o, job[j].tx, <<"credit">>)
      BY <3>2, <3>3 DEF PaidWith
    <3>5. OthersKeep(j) /\ PaidHandler(job[j])'
      BY <2>3, <3>4, ContinuePay
    <3>6. QED
      BY <2>1, <3>5, PayJobFrame
  <2>4. QED
    BY <1>3, <1>4, <2>1, <2>2, <2>3, RedebitPay DEF At
<1>17. QED
  BY <1>5, <1>6, <1>7, <1>8, <1>9, <1>10, <1>11, <1>12, <1>14, <1>15, <1>16
  DEF Statement

\* A call to a provider about an order that is past its payment.
LEMMA PlacedPay ==
    ASSUME TypeOK, PayInv, NEW o \in Orders, NEW orders, Paid(o),
           row[o].status \notin Unpaid,
           placed' = [placed EXCEPT ![o] = orders], UNCHANGED <<row, marks>>
    PROVE  PaymentKept /\ \A q \in Orders : PaidOrder(q)'
<1>1. placed \in [Orders -> Seq(PlacedOrders)] /\ row' = row /\ marks' = marks
  BY DEF TypeOK
<1>2. PaymentKept
  BY <1>1 DEF PaymentKept, Paid, PaidNext
<1>3. ASSUME NEW q \in Orders PROVE PaidOrder(q)'
  <2>1. CASE q = o
    BY <1>1, <2>1 DEF PayInv, PaidOrder, Paid, IsSaldo, Runs, Unpaid
  <2>2. CASE q # o
    <3>1. placed'[q] = placed[q]
      BY <1>1, <2>2
    <3>2. QED
      BY <1>1, <3>1 DEF PayInv, PaidOrder, Paid, IsSaldo, Runs
  <2>3. QED
    BY <2>1, <2>2
<1>4. QED
  BY <1>2, <1>3

LEMMA CallPay ==
    ASSUME TypeOK, BaseInv, PayInv, NEW j \in Jobs, Call(j)
    PROVE  PayInv'
<1> DEFINE o == job[j].ord
           p == RouteOf(job[j].tx, route)
           tx == Noted(j, p)
           buy == shouldPurchaseInsteadOfCheck(job[j].tx)
           src == IF buy THEN "fulfill" ELSE job[j].kind
           call == IF buy THEN "purchase" ELSE "check"
<1>1. /\ job \in [Jobs -> JobStates] /\ job[j] \in JobStates
      /\ route \in Providers /\ o \in Orders /\ job[j].tx \in Rows
      /\ placed \in [Orders -> Seq(PlacedOrders)] /\ \A q \in Orders : Len(placed[q]) <= MaxPlaced
      /\ placed[o] \in Seq(PlacedOrders)
  BY JobFacts DEF TypeOK
<1>2. /\ job[j].plan # <<>> /\ Head(job[j].plan) \in {"purchase", "check"}
      /\ UNCHANGED <<row, marks>>
  BY DEF Call, Purchase, Check, At
<1>3. row[o].status \notin Unpaid /\ Paid(o)
  BY <1>2, HeadPay DEF Talks
<1>4. PaymentKept /\ PaidNext(o)
  BY <1>1, <1>2, <1>3 DEF PaymentKept, Paid, PaidNext
<1>5. CASE Purchase(j)
  <2>1. CASE /\ \E q \in {job[j].tx.prov, p} :
                   Continue(j, recordConfigurationError(Noted(j, q)), <<"save">>)
             /\ UNCHANGED placed
    <3>0. PICK q \in {job[j].tx.prov, p} :
             Continue(j, recordConfigurationError(Noted(j, q)), <<"save">>)
      BY <2>1
    <3>1. recordConfigurationError(Noted(j, q)).status = "processing"
      <4>1. job[j].tx.prov \in Providers /\ p \in Providers
        BY <1>1 DEF Rows, RouteOf
      <4>2. QED
        BY <1>1, <4>1, NotedType, ParkedType
    <3>2. ~Has(<<"save">>, {"insert"}) /\ ~Has(<<"save">>, Talks)
      BY DEF Has, Talks
    <3>3. OthersKeep(j) /\ PaidHandler(job[j])'
      BY <1>2, <1>4, <2>1, <3>0, <3>1, <3>2, GoOnPay
    <3>4. QED
      BY <1>2, <2>1, <3>3, PayJobFrame
  <2>2. CASE \E x \in Answers(o, p, job[j].tx, "purchase") :
                /\ placed' = [placed EXCEPT ![o] = x.orders]
                /\ Apply(j, tx, x.reply, "fulfill")
    <3>1. PICK x \in Answers(o, p, job[j].tx, "purchase") :
                /\ placed' = [placed EXCEPT ![o] = x.orders]
                /\ Apply(j, tx, x.reply, "fulfill")
      BY <2>2
    <3>2. p \in Providers /\ tx \in Rows
      <4>1. p \in Providers
        BY <1>1 DEF Rows, RouteOf
      <4>2. QED
        BY <1>1, <4>1, NotedType
    <3>3. x.reply \in Replies
      BY <3>1, <3>2, <1>1, AnswersStepType
    <3>4. \A q \in Orders : PaidOrder(q)'
      BY <1>1, <1>2, <1>3, <3>1, PlacedPay
    <3>5. OthersKeep(j) /\ PaidHandler(job[j])'
      BY <1>2, <1>4, <3>1, <3>2, <3>3, ApplyPay
    <3>6. QED
      BY <1>4, <3>4, <3>5, PayFrame
  <2>3. QED
    BY <1>5, <2>1, <2>2, Zenon DEF Purchase
<1>6. CASE Check(j)
  <2>1. CASE Abort(j) /\ UNCHANGED placed
    BY <1>2, <2>1, AbortPay, PayJobFrame
  <2>2. CASE \E x \in Answers(o, job[j].tx.prov, job[j].tx, call) :
                /\ placed' = [placed EXCEPT ![o] = x.orders]
                /\ IF job[j].kind = "reconcile"
                   THEN job' = [job EXCEPT ![j].tx = NoRow, ![j].plan = <<"reread">>,
                                           ![j].reply = x.reply, ![j].src = src]
                   ELSE Apply(j, job[j].tx, x.reply, src)
    <3>1. PICK x \in Answers(o, job[j].tx.prov, job[j].tx, call) :
                /\ placed' = [placed EXCEPT ![o] = x.orders]
                /\ IF job[j].kind = "reconcile"
                   THEN job' = [job EXCEPT ![j].tx = NoRow, ![j].plan = <<"reread">>,
                                           ![j].reply = x.reply, ![j].src = src]
                   ELSE Apply(j, job[j].tx, x.reply, src)
      BY <2>2
    <3>2. job[j].tx.prov \in Providers
      BY <1>1 DEF Rows
    <3>3. x.reply \in Replies
      BY <3>1, <3>2, <1>1, AnswersStepType
    <3>4. \A q \in Orders : PaidOrder(q)'
      BY <1>1, <1>2, <1>3, <3>1, PlacedPay
    <3>5. CASE job[j].kind = "reconcile"
      <4>1. job' = [job EXCEPT ![j] =
                        [job[j] EXCEPT !.tx = NoRow, !.plan = <<"reread">>,
                                       !.reply = x.reply, !.src = src]]
        BY <1>1, <3>1, <3>5
      <4>2. job'[j].ord = o /\ job'[j].tx = NoRow /\ job'[j].plan = <<"reread">>
        BY <1>1, <4>1 DEF JobStates
      <4>3. OthersKeep(j)
        BY <1>1, <4>1 DEF OthersKeep
      <4>4. PaidHandler(job[j])'
        <5>1. job'[j].tx.status = "none" /\ job'[j].plan \notin CreatePlans
          BY <4>2, IdleFacts, StartingPlans
        <5>2. row'[o].status \notin Unpaid /\ PaidNext(o)
          BY <1>2, <1>3, <1>4
        <5>3. QED
          BY <4>2, <5>1, <5>2 DEF PaidHandler, Paid, PaidNext, Runs, IsSaldo, Unpaid
      <4>5. QED
        BY <1>4, <3>4, <4>3, <4>4, PayFrame
    <3>6. CASE job[j].kind # "reconcile"
      <4>1. Apply(j, job[j].tx, x.reply, src)
        BY <3>1, <3>6
      <4>2. Head(job[j].plan) = "check"
        BY <1>6 DEF Check, At
      <4>3. job[j].tx.status # "pending"
        BY <1>2, <4>2, HeadPay
      <4>4. OthersKeep(j) /\ PaidHandler(job[j])'
        BY <1>1, <1>2, <1>4, <3>3, <4>1, <4>3, ApplyPay
      <4>5. QED
        BY <1>4, <3>4, <4>4, PayFrame
    <3>7. QED
      BY <3>5, <3>6
  <2>3. QED
    BY <1>6, <2>1, <2>2, Zenon DEF Check
<1>7. QED
  BY <1>5, <1>6 DEF Call

\* A handler that starts.
LEMMA StartPay ==
    ASSUME TypeOK, PayInv, NEW j \in Jobs, NEW k, NEW o \in Orders, NEW tx, NEW plan,
           Start(j, k, o, tx, plan), plan # <<>>, UNCHANGED <<row, marks, placed>>,
           PaidWith(o, tx, plan)
    PROVE  PayInv'
<1>1. /\ OthersKeep(j) /\ job'[j] # IdleJob
      /\ job'[j].ord = o /\ job'[j].tx = tx /\ job'[j].plan = plan
  BY StartFields
<1>2. PaidWith(job'[j].ord, job'[j].tx, job'[j].plan)
  BY <1>1
<1>3. PaidHandler(job[j])'
  BY <1>2 DEF PaidHandler, PaidWith, Paid, PaidNext, Runs, IsSaldo, Reaches, Creates, Has,
              Unpaid, Talks
<1>4. QED
  BY <1>1, <1>3, PayJobFrame

LEMMA CreateOrderPay ==
    ASSUME TypeOK, PayInv, NEW j \in Jobs, NEW o \in Orders, CreateOrder(j, o)
    PROVE  PayInv'
<1> DEFINE tx == NewRow(o, route, lastRef[o] + 1)
           plan == CreatePlan(o)
<1>1. Start(j, "order", o, tx, plan) /\ UNCHANGED <<row, marks, placed>>
  BY DEF CreateOrder, EntryFrame
<1>2. /\ plan \in CreatePlans
      /\ ~IsSaldo(o) => plan = <<"insert">>
  BY DEF CreatePlan, CreatePlans
<1>3. /\ tx.status = IF IsSaldo(o) THEN "processing" ELSE "pending"
      /\ tx.verified = (Method[o] = "SALDO")
  BY DEF NewRow, NoRow
<1> HIDE DEF tx, plan
<1>4. ~IsSaldo(o) => Method[o] # "SALDO"
  BY DEF IsSaldo, SaldoMethods
<1>5. plan # <<>>
  BY <1>2, StartingPlans
<1>6. PaidWith(o, tx, plan)
  BY <1>2, <1>3, <1>4 DEF PaidWith, PaidNext
<1>7. QED
  BY <1>1, <1>5, <1>6, StartPay

\* An admin's check of an unpaid order would write the unpaid copy back.
LEMMA AutomaticEntryPay ==
    ASSUME TypeOK, PayInv, ~Runs("check"),
           NEW j \in Jobs, NEW o \in Orders, AutomaticEntry(j, o)
    PROVE  PayInv'
<1>1. /\ row[o] \in Rows /\ placed[o] \in Seq(PlacedOrders) /\ PaidOrder(o)
  BY DEF TypeOK, PayInv
<1>2. ASSUME UNCHANGED marks, Paid(o)
      PROVE  PaidNext(o)
  BY <1>2 DEF Paid, PaidNext
<1>3. CASE CreateOrder(j, o)
  BY <1>3, CreateOrderPay
<1>4. CASE HandlePaymentSuccess(j, o)
  <2>1. UNCHANGED <<row, marks, placed>>
    BY <1>4 DEF HandlePaymentSuccess, EntryFrame
  <2>2. CASE o \in Mismatched
    <3>1. Start(j, "pay", o, [row[o] EXCEPT !.status = "failed"], <<"status">>)
      BY <1>4, <2>2 DEF HandlePaymentSuccess
    <3>2. [row[o] EXCEPT !.status = "failed"].status = "failed"
      BY <1>1 DEF Rows
    <3>3. ~Has(<<"status">>, Talks) /\ <<"status">> \notin CreatePlans /\ <<"status">> # <<>>
      BY DEF Has, Talks, CreatePlans
    <3>4. PaidWith(o, [row[o] EXCEPT !.status = "failed"], <<"status">>)
      BY <3>2, <3>3 DEF PaidWith
    <3>5. QED
      BY <2>1, <3>1, <3>3, <3>4, StartPay
  <2>3. CASE o \notin Mismatched
    <3>1. Start(j, "pay", o, row[o], <<"mark", "purchase">>)
      BY <1>4, <2>3 DEF HandlePaymentSuccess
    <3>2. <<"mark", "purchase">> \notin CreatePlans /\ <<"mark", "purchase">> # <<>>
      BY DEF CreatePlans
    <3>3. PaidWith(o, row[o], <<"mark", "purchase">>)
      BY <1>1, <1>2, <2>1, <3>2 DEF PaidWith, PaidOrder
    <3>4. QED
      BY <2>1, <3>1, <3>2, <3>3, StartPay
  <2>4. QED
    BY <2>2, <2>3
<1>5. CASE \E i \in DOMAIN placed[o] : HandleProviderCallback(j, o, i)
  <2>1. PICK i \in DOMAIN placed[o] : HandleProviderCallback(j, o, i)
    BY <1>5
  <2>2. PICK r \in VerdictReplies(i, placed[o][i].state) :
            Start(j, "callback", o, applyResult(row[o], r, "callback"),
                  ResultWrites(o, r, "callback"))
    BY <2>1 DEF HandleProviderCallback
  <2>3. UNCHANGED <<row, marks, placed>>
    BY <2>1 DEF HandleProviderCallback, EntryFrame
  <2> DEFINE tx == applyResult(row[o], r, "callback")
             plan == ResultWrites(o, r, "callback")
  <2>4. placed[o] # <<>>
    BY <2>1
  <2>5. row[o].status # "pending" /\ Paid(o)
    BY <1>1, <2>4 DEF PaidOrder
  <2>6. tx.status = ResultStatus(row[o], r, "callback")
    BY <1>1 DEF applyResult, Rows
  <2>7. tx.status # "pending"
    BY <2>5, <2>6 DEF ResultStatus
  <2>8. plan \in Seq(WriteOps) /\ plan # <<>>
    BY ResultWritesOps
  <2>9. ~Has(plan, {"insert"}) /\ ~Has(plan, Talks)
    BY <2>8, WritesHaveNot DEF WriteOps, Talks
  <2>10. plan \notin CreatePlans
    BY <2>9 DEF CreatePlans, Has
  <2> HIDE DEF tx, plan
  <2>11. PaidWith(o, tx, plan)
    BY <1>2, <2>3, <2>5, <2>7, <2>9, <2>10 DEF PaidWith
  <2>12. Start(j, "callback", o, tx, plan)
    BY <2>2 DEF tx, plan
  <2>13. QED
    BY <2>3, <2>8, <2>11, <2>12, StartPay
<1>6. CASE CheckProviderStatus(j, o)
  <2>1. "check" \in Kinds
    BY <1>6 DEF CheckProviderStatus, Start
  <2>2. QED
    BY <2>1 DEF Runs, AdminKinds
<1>7. ASSUME row[o].status = "processing", UNCHANGED <<row, marks, placed>>
      PROVE  row'[o].status \notin Unpaid /\ PaidNext(o)
  BY <1>1, <1>2, <1>7 DEF PaidOrder, Unpaid
<1>8. CASE ReconcileProcessingTransaction(j, o)
  <2> DEFINE plan == <<"claim", "load", "check">>
  <2>1. /\ Start(j, "reconcile", o, NoRow, plan)
        /\ row[o].status = "processing" /\ UNCHANGED <<row, marks, placed>>
    BY <1>8 DEF ReconcileProcessingTransaction, EntryFrame
  <2>2. plan \notin CreatePlans /\ plan # <<>>
    BY DEF CreatePlans
  <2> HIDE DEF plan
  <2>3. PaidWith(o, NoRow, plan)
    BY <1>7, <2>1, <2>2, IdleFacts DEF PaidWith
  <2>4. QED
    BY <2>1, <2>2, <2>3, StartPay
<1>9. CASE RetryDigiflazzBalanceHolds(j, o)
  <2> DEFINE plan == <<"claim", "save", "purchase">>
             tx == [row[o] EXCEPT !.pst = "retrysaldo"]
  <2>1. /\ Start(j, "holdRetry", o, tx, plan)
        /\ row[o].status = "processing" /\ UNCHANGED <<row, marks, placed>>
    BY <1>9 DEF RetryDigiflazzBalanceHolds, EntryFrame
  <2>2. plan \notin CreatePlans /\ plan # <<>>
    BY DEF CreatePlans
  <2>3. tx.status = "processing"
    BY <1>1, <2>1 DEF Rows
  <2> HIDE DEF plan, tx
  <2>4. PaidWith(o, tx, plan)
    BY <1>7, <2>1, <2>2, <2>3 DEF PaidWith
  <2>5. QED
    BY <2>1, <2>2, <2>4, StartPay
<1>10. QED
  BY <1>3, <1>4, <1>5, <1>6, <1>8, <1>9 DEF AutomaticEntry

\* A retry or a manual success.
LEMMA ReopeningPay ==
    ASSUME TypeOK, PayInv, NEW j \in Jobs, NEW k, NEW o \in Orders, NEW tx \in Rows,
           NEW plan \in {<<"save", "purchase">>, <<"save", "status">>},
           StartReopening(j, k, o, tx, plan), UNCHANGED <<row, marks, placed>>,
           IsSaldo(o) => tx.status # "pending",
           plan = <<"save", "purchase">> => row[o].status \notin Unpaid,
           plan = <<"save", "purchase">> \/ Reopened(k, tx).status = "processing" => PaidNext(o)
    PROVE  PayInv'
<1> DEFINE long == <<"redebit">> \o plan
<1>1. /\ ~Has(plan, {"insert"}) /\ plan # <<>> /\ plan \notin CreatePlans
      /\ plan # <<"save", "purchase">> => ~Has(plan, Talks)
  BY DEF Has, CreatePlans, Talks
<1>2. /\ long # <<>> /\ long \notin CreatePlans
      /\ Has(long, Talks) => Has(plan, Talks)
  <2>1. /\ <<"save", "purchase">> \in Seq(Ops) /\ <<"save", "status">> \in Seq(Ops)
        /\ <<"redebit">> \in Seq(Ops)
    BY DEF Ops
  <2>2. ~Has(<<"redebit">>, {"insert"}) /\ ~Has(<<"redebit">>, Talks)
    BY DEF Has, Talks
  <2>3. ~Has(long, {"insert"}) /\ (Has(long, Talks) => Has(plan, Talks))
    BY <1>1, <2>1, <2>2, HasConcat
  <2>4. long # <<>>
    BY <2>1
  <2>5. \A s \in CreatePlans : Has(s, {"insert"})
    BY DEF CreatePlans, Has
  <2>6. QED
    BY <2>3, <2>4, <2>5
<1> HIDE DEF long
<1>3. CASE IsSaldo(o)
  <2>1. Start(j, k, o, tx, long)
    BY <1>3 DEF StartReopening, long
  <2>2. PaidNext(o)
    BY <1>3 DEF PaidNext
  <2>3. PaidWith(o, tx, long)
    BY <1>1, <1>2, <1>3, <2>2 DEF PaidWith
  <2>4. QED
    BY <1>2, <2>1, <2>3, StartPay
<1>4. CASE ~IsSaldo(o)
  <2> DEFINE new == Reopened(k, tx)
  <2>1. Start(j, k, o, new, plan)
    BY <1>4 DEF StartReopening
  <2>2. new.status \in {"success", "processing"}
    BY DEF Reopened, Rows
  <2> HIDE DEF new
  <2>3. PaidWith(o, new, plan)
    BY <1>1, <2>2 DEF PaidWith, new
  <2>4. QED
    BY <1>1, <2>1, <2>3, StartPay
<1>5. QED
  BY <1>3, <1>4

\* A new ref_id for an unpaid order would write the unpaid copy back.
LEMMA AdminEntryPay ==
    ASSUME TypeOK, BaseInv, PayInv, ~Runs("regen"),
           NEW j \in Jobs, NEW o \in Orders, AdminEntry(j, o)
    PROVE  PayInv'
<1>1. row[o] \in Rows /\ PaidOrder(o) /\ lastRef[o] \in 0 .. MaxRefs
  BY DEF TypeOK, PayInv
<1>2. MaxAdmin > 0
  BY AdminNeedsBound
<1>3. ASSUME UNCHANGED marks, Paid(o)
      PROVE  PaidNext(o)
  BY <1>3 DEF Paid, PaidNext
<1>4. CASE ManualRetry(j, o)
  <2> DEFINE switched == prepareProviderSwitchForRetry(row[o], route, lastRef[o] + 1)
  <2>1. /\ StartReopening(j, "retry", o, switched, <<"save", "purchase">>)
        /\ row[o].status # "none" /\ UNCHANGED <<row, marks, placed>>
        /\ switched.ref <= MaxRefs
        /\ ~(row[o].status = "pending" /\ ~row[o].verified)
    BY <1>4 DEF ManualRetry, EntryFrame
  <2>2. switched \in Rows /\ switched.status = row[o].status
    <3>1. CASE switched = row[o]
      BY <1>1, <3>1
    <3>2. CASE switched = [row[o] EXCEPT !.ref = lastRef[o] + 1, !.id = 0, !.exch = FALSE]
      <4>1. switched.ref = lastRef[o] + 1
        BY <1>1, <3>2 DEF Rows
      <4>2. lastRef[o] + 1 \in 0 .. MaxRefs /\ 0 \in Ids
        BY <1>1, <2>1, <4>1, BoundAssumption, IdsType
      <4>3. QED
        BY <1>1, <3>2, <4>2 DEF Rows
    <3>3. QED
      BY <3>1, <3>2 DEF prepareProviderSwitchForRetry
  <2> HIDE DEF switched
  <2>3. "retry" \in Kinds
    BY <2>1 DEF StartReopening, Start
  <2>4. row[o].status \notin Unpaid /\ PaidNext(o)
    BY <1>1, <1>2, <2>1, <2>3 DEF PaidOrder, Unpaid, PaidNext, Runs
  <2>5. QED
    BY <2>1, <2>2, <2>4, ReopeningPay DEF Unpaid
<1>5. CASE ManualSetSuccess(j, o)
  <2>1. /\ StartReopening(j, "setSuccess", o, row[o], <<"save", "status">>)
        /\ UNCHANGED <<row, marks, placed>>
    BY <1>5 DEF ManualSetSuccess, EntryFrame
  <2>2. Reopened("setSuccess", row[o]).status = "success"
    BY <1>1 DEF Reopened, Rows
  <2>3. IsSaldo(o) => row[o].status # "pending"
    BY <1>1 DEF PaidOrder
  <2>4. <<"save", "status">> # <<"save", "purchase">>
    OBVIOUS
  <2>5. QED
    BY <1>1, <2>1, <2>2, <2>3, <2>4, ReopeningPay
<1>6. ASSUME NEW k, NEW tx, NEW plan, Start(j, k, o, tx, plan),
             UNCHANGED <<row, marks, placed>>, tx.status \in {"refunded", "failed"},
             plan # <<>>, plan \notin CreatePlans, ~Has(plan, Talks)
      PROVE  PayInv'
  <2>1. PaidWith(o, tx, plan)
    BY <1>6 DEF PaidWith
  <2>2. QED
    BY <1>6, <2>1, StartPay
<1>7. ASSUME NEW plan, \A op \in Talks : ~Has(plan, {op})
      PROVE  ~Has(plan, Talks)
  BY <1>7 DEF Has
<1>8. CASE ManualRefund(j, o)
  <2> DEFINE tx == [row[o] EXCEPT !.status = "refunded", !.pst = "held"]
             plan == RefundOrAbort(o) \o <<"save", "status">>
  <2>1. Start(j, "refund", o, tx, plan) /\ UNCHANGED <<row, marks, placed>>
    BY <1>8 DEF ManualRefund, EntryFrame
  <2>2. tx.status = "refunded"
    BY <1>1 DEF Rows
  <2>3. plan # <<>> /\ plan \notin CreatePlans /\ \A op \in Talks : ~Has(plan, {op})
    BY AdminRefundPlans
  <2> HIDE DEF tx, plan
  <2>4. QED
    BY <1>6, <1>7, <2>1, <2>2, <2>3
<1>9. CASE ManualSetFailed(j, o)
  <2> DEFINE tx == [row[o] EXCEPT !.status = "failed", !.pst = "held"]
             plan == RefundOrAbort(o) \o <<"save">>
  <2>1. Start(j, "setFailed", o, tx, plan) /\ UNCHANGED <<row, marks, placed>>
    BY <1>9 DEF ManualSetFailed, EntryFrame
  <2>2. tx.status = "failed"
    BY <1>1 DEF Rows
  <2>3. plan # <<>> /\ plan \notin CreatePlans /\ \A op \in Talks : ~Has(plan, {op})
    BY AdminRefundPlans
  <2> HIDE DEF tx, plan
  <2>4. QED
    BY <1>6, <1>7, <2>1, <2>2, <2>3
<1>10. CASE BulkRetryWithProvider(j, o)
  <2> DEFINE tx == [row[o] EXCEPT !.exch = FALSE, !.pst = "held"]
             plan == <<"saveOrAbort", "purchase">>
  <2>1. /\ Start(j, "switch", o, tx, plan)
        /\ row[o].status = "processing" /\ UNCHANGED <<row, marks, placed>>
    BY <1>10 DEF BulkRetryWithProvider, EntryFrame
  <2>2. tx.status = "processing"
    BY <1>1, <2>1 DEF Rows
  <2>3. plan # <<>> /\ plan \notin CreatePlans
    BY DEF CreatePlans
  <2> HIDE DEF tx, plan
  <2>4. row'[o].status \notin Unpaid /\ PaidNext(o)
    BY <1>1, <1>3, <2>1 DEF PaidOrder, Unpaid
  <2>5. PaidWith(o, tx, plan)
    BY <2>2, <2>3, <2>4 DEF PaidWith
  <2>6. QED
    BY <2>1, <2>3, <2>5, StartPay
<1>11. CASE RegenerateProviderRefID(j, o)
  <2>1. "regen" \in Kinds
    BY <1>11 DEF RegenerateProviderRefID, Start
  <2>2. QED
    BY <1>2, <2>1 DEF Runs
<1>12. QED
  BY <1>4, <1>5, <1>8, <1>9, <1>10, <1>11 DEF AdminEntry

\* The provider decides, an admin changes the route, time passes, a restart.
LEMMA WorldPay ==
    ASSUME TypeOK, PayInv, World \/ UNCHANGED vars
    PROVE  PayInv'
<1>1. ASSUME UNCHANGED <<row, marks, placed>>,
             \A k \in Jobs : job'[k] = job[k] \/ job'[k] = IdleJob
      PROVE  PayInv'
  <2>1. \A q \in Orders : PaidOrder(q)'
    BY <1>1 DEF PayInv, PaidOrder, Paid, IsSaldo, Runs
  <2>2. ASSUME NEW k \in Jobs PROVE PaidHandler(job[k])'
    <3>1. PaidHandler(job[k]) /\ row' = row /\ marks' = marks
      BY <1>1 DEF PayInv
    <3>2. CASE job'[k] = job[k]
      BY <3>1, <3>2 DEF PaidHandler, Paid, Runs, IsSaldo, Reaches, Creates, Has, IdleJob,
                        NoRow, NoReply, Reply
    <3>3. CASE job'[k] = IdleJob
      BY <3>3 DEF PaidHandler, IdleJob, NoRow, NoReply, Reply
    <3>4. QED
      BY <1>1, <3>2, <3>3
  <2>3. QED
    BY <2>1, <2>2 DEF PayInv
<1>2. CASE UNCHANGED vars
  BY <1>1, <1>2 DEF vars
<1>3. CASE \E o \in Orders : Age(o)
  BY <1>1, <1>3 DEF Age
<1>4. CASE \E o \in Orders : \E i \in DOMAIN placed[o] : Decide(o, i)
  <2>1. PICK o \in Orders : \E i \in DOMAIN placed[o] : Decide(o, i)
    BY <1>4
  <2>2. PICK i \in DOMAIN placed[o] : Decide(o, i)
    BY <2>1
  <2>3. UNCHANGED <<row, marks, job>>
    BY <2>2 DEF Decide
  <2>4. placed[o] # <<>> /\ \A q \in Orders : q # o => placed'[q] = placed[q]
    BY <2>2 DEF Decide, TypeOK
  <2>5. ASSUME NEW q \in Orders PROVE PaidOrder(q)'
    <3>1. PaidOrder(q) /\ row'[q] = row[q] /\ marks'[q] = marks[q]
      BY <2>3 DEF PayInv
    <3>2. CASE q = o
      BY <2>4, <3>1, <3>2 DEF PaidOrder, Paid, IsSaldo, Runs
    <3>3. CASE q # o
      <4>1. placed'[q] = placed[q]
        BY <2>4, <3>3
      <4>2. QED
        BY <3>1, <4>1 DEF PaidOrder, Paid, IsSaldo, Runs
    <3>4. QED
      BY <3>2, <3>3
  <2>6. \A k \in Jobs : PaidHandler(job[k])'
    BY <2>3 DEF PayInv, PaidHandler, Paid, Runs, IsSaldo, Reaches, Creates, Has, IdleJob,
                NoRow, NoReply, Reply
  <2>7. QED
    BY <2>5, <2>6 DEF PayInv
<1>5. CASE SwitchProvider
  BY <1>1, <1>5 DEF SwitchProvider
<1>6. CASE Crash
  BY <1>1, <1>6 DEF Crash
<1>7. QED
  BY <1>2, <1>3, <1>4, <1>5, <1>6 DEF World

LEMMA InitPay == Init => PayInv
<1> SUFFICES ASSUME Init PROVE PayInv
  OBVIOUS
<1>1. \A j \in Jobs : job[j] = IdleJob
  BY DEF Init
<1>2. \A o \in Orders : row[o] = NoRow /\ placed[o] = <<>> /\ marks[o] = 0
  BY DEF Init
<1>3. \A o \in Orders : PaidOrder(o)
  BY <1>2, IdleFacts DEF PaidOrder
<1>4. \A j \in Jobs : PaidHandler(job[j])
  BY <1>1 DEF PaidHandler
<1>5. QED
  BY <1>3, <1>4 DEF PayInv

LEMMA PayStep ==
    ASSUME ~Runs("check"), ~Runs("regen"), TypeOK, BaseInv, PayInv, [Next]_vars
    PROVE  PayInv'
<1>1. CASE \E j \in Jobs : Statement(j) \/ Call(j) \/ StatementFails(j)
  BY <1>1, StatementPay, CallPay
<1>2. CASE \E j \in Jobs, o \in Orders : AutomaticEntry(j, o) \/ AdminEntry(j, o)
  BY <1>2, AutomaticEntryPay, AdminEntryPay
<1>3. CASE World \/ UNCHANGED vars
  BY <1>3, WorldPay
<1>4. QED
  BY <1>1, <1>2, <1>3 DEF Next

LEMMA PayInvariant ==
    ASSUME ~Runs("check"), ~Runs("regen")
    PROVE  Spec => []PayInv
<1>1. Init => PayInv
  BY InitPay
<1>2. TypeOK /\ BaseInv /\ PayInv /\ [Next]_vars => PayInv'
  BY PayStep
<1>3. QED
  BY <1>1, <1>2, TypeCorrect, BaseInvariant, PTL DEF Spec

-------------------------------------------------------------------------------
(* What the two invariants say of payments.                                *)

\* However many payment webhooks race, one of them starts the fulfilment: an
\* accepted payment takes the row out of "pending" for good.  A status check or
\* a new ref_id of an unpaid order saves its whole copy, and with it "pending",
\* over an accepted payment (transaction_service.go, CheckProviderStatus and
\* RegenerateProviderRefID), hence the two assumptions.
THEOREM OnePayment ==
    ASSUME ~Runs("check"), ~Runs("regen")
    PROVE  Spec => []PaymentAcceptedOnce
<1>1. PayInv => PaymentAcceptedOnce
  BY DEF PayInv, PaidOrder, PaymentAcceptedOnce
<1>2. QED
  BY <1>1, PayInvariant, PTL

\* Nothing is bought for a gateway order before a webhook accepted its payment,
\* whatever handlers, faults and restarts come between; only a retry an admin
\* asks for can buy for an order that never was paid.
THEOREM PaidBeforeSubmitted ==
    ASSUME ~Runs("check"), ~Runs("regen"), ~Runs("retry")
    PROVE  Spec => []UnpaidNeverSubmitted
<1>1. ASSUME PayInv, NEW o \in Orders, Method[o] = "TRIPAY", placed[o] # <<>>
      PROVE  marks[o] >= 1
  <2>1. ~IsSaldo(o)
    BY <1>1 DEF IsSaldo, SaldoMethods
  <2>2. QED
    BY <1>1, <2>1 DEF PayInv, PaidOrder, Paid
<1>2. PayInv => UnpaidNeverSubmitted
  BY <1>1 DEF UnpaidNeverSubmitted
<1>3. QED
  BY <1>2, PayInvariant, PTL

\* An order the gateway reports with another amount than its own never reaches a
\* provider by itself: its webhook writes "failed" and accepts no payment.
THEOREM MismatchKeptBack ==
    ASSUME ~Runs("check"), ~Runs("regen"), ~Runs("retry"),
           \A o \in Mismatched : Method[o] = "TRIPAY"
    PROVE  Spec => []MismatchNeverFulfilled
<1>1. ASSUME BaseInv, PayInv, NEW o \in Mismatched
      PROVE  placed[o] = <<>>
  <2>1. o \in Orders /\ marks[o] = 0
    BY <1>1, LifecycleAssumption DEF BaseInv, GoodOrder
  <2>2. ~IsSaldo(o)
    BY <1>1 DEF IsSaldo, SaldoMethods
  <2>3. QED
    BY <1>1, <2>1, <2>2 DEF PayInv, PaidOrder, Paid
<1>2. BaseInv /\ PayInv => MismatchNeverFulfilled
  BY <1>1 DEF MismatchNeverFulfilled
<1>3. QED
  BY <1>2, BaseInvariant, PayInvariant, PTL
===============================================================================
