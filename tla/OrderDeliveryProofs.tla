-------------------------- MODULE OrderDeliveryProofs --------------------------
(***************************************************************************)
(* Theorems of OrderLifecycle about what an invoice buys.                  *)
(*                                                                         *)
(* While no admin intervenes: at most one order at the provider, no goods   *)
(* after a refund, and a settled balance when every handler is done.  A     *)
(* product has one route then.  Its provider either treats the ref_id as    *)
(* an idempotency key (Dedup), which keeps a second purchase from creating  *)
(* an order, or it has Kiosgamer's rules, where the handlers must see to it *)
(* that only one of them purchases.                                         *)
(***************************************************************************)
EXTENDS OrderPaymentProofs, FiniteSetTheorems

Credits == {"credit", "creditOrAbort"}

\* A handler that may purchase next.
ReadyBuy(h) == Has(h.plan, {"purchase"}) /\ h.plan # <<"mark", "purchase">>

\* All that was bought for the order failed; Kiosgamer's answers do not tell.
AllFailed(orders) == orders # <<>> /\ \A i \in DOMAIN orders : orders[i].state = "failed"
Failed(o) == route \in Kiosgamer \/ AllFailed(placed[o])

\* The order was charged and will never be in the table.
Unsaved(o) ==
    /\ row[o].status = "none" /\ debits[o] >= 1
    /\ \A j \in Jobs : Creates(job[j]) => job[j].ord # o

\* Nothing will be delivered for the order any more.
Dead(o) == Failed(o) \/ Unsaved(o)

\* A row or a copy names the one provider and the one ref_id of the order.
OnRoute(o, tx) == tx.status # "none" => tx.prov = route /\ tx.ref = lastRef[o]

\* One order at most, of the one ref_id at the one provider.
AtRoute(o) ==
    /\ OnRoute(o, row[o])
    /\ Len(placed[o]) <= 1
    /\ \A i \in DOMAIN placed[o] : placed[o][i].prov = route /\ placed[o][i].ref = lastRef[o]

OnceOrder(o) ==
    /\ AtRoute(o)
    /\ refunds[o] > 0 => Dead(o)

OnceHandler(h) ==
    h # IdleJob =>
        /\ OnRoute(h.ord, h.tx)
        /\ route \in Kiosgamer /\ ReadyBuy(h) => placed[h.ord] = <<>>
        /\ Has(h.plan, Credits) => Dead(h.ord)
        /\ h.reply.kind \in {"failed", "errFinal"} => Failed(h.ord)

\* At a provider that knows no ref_id, no two handlers are about to buy.
BuysAlone ==
    route \in Kiosgamer => \A j, k \in Jobs :
        j # k /\ ReadyBuy(job[j]) /\ ReadyBuy(job[k]) => job[j].ord # job[k].ord

OnceInv ==
    /\ \A o \in Orders : OnceOrder(o)
    /\ \A j \in Jobs : OnceHandler(job[j])
    /\ BuysAlone

\* The buyer has the money of a failed order back, or a handler returns it.
Settling(o) ==
    \/ refunds[o] >= 1
    \/ \E j \in Jobs : job[j].ord = o /\ Has(job[j].plan, Credits)

SettleOrder(o) ==
    /\ debits[o] <= 1
    /\ IsSaldo(o) /\ row[o].status = "failed" => Settling(o)

SettleHandler(h) ==
    h # IdleJob =>
        /\ Has(h.plan, {"debit"}) =>
              h.plan = <<"debit", "insert", "purchase">> /\ debits[h.ord] = 0
        /\ ~Has(h.plan, {"redebit"})
        /\ Has(h.plan, Credits) => ~Has(h.plan, Ops \ WriteOps)
        /\ IsSaldo(h.ord) /\ h.tx.status = "failed" => Settling(h.ord)

\* While no admin moves the order or its product: one ref_id at one provider.
RetryInv ==
    /\ \A o \in Orders : AtRoute(o)
    /\ \A j \in Jobs : OnRoute(job[j].ord, job[j].tx)

SettleInv ==
    /\ \A o \in Orders : SettleOrder(o)
    /\ \A j \in Jobs : SettleHandler(job[j])

-------------------------------------------------------------------------------
(* OnceInv: what a step keeps.                                             *)

\* Failed, Dead and OnRoute in the state after the step.
FailedNext(o) == route' \in Kiosgamer \/ AllFailed(placed'[o])
DeadNext(o) ==
    \/ FailedNext(o)
    \/ /\ row'[o].status = "none" /\ debits'[o] >= 1
       /\ \A k \in Jobs : Creates(job'[k]) => job'[k].ord # o
OnRouteNext(o, tx) == tx.status # "none" => tx.prov = route' /\ tx.ref = lastRef'[o]

FailedKept == \A o \in Orders : Failed(o) => FailedNext(o)
DeadKept == \A o \in Orders : Dead(o) => DeadNext(o)

\* Job j does not begin to create an order that was charged.
NoNewCreate(j) ==
    Creates(job'[j]) =>
        \/ debits[job'[j].ord] = 0
        \/ Creates(job[j]) /\ job'[j].ord = job[j].ord

\* An order comes into the table by the insert of the job that creates it.
InsertedBy(j) ==
    \A o \in Orders : row[o].status = "none" =>
        row'[o].status = "none" \/ (Creates(job[j]) /\ job[j].ord = o)

\* Job j becomes ready to buy only when nobody else is.
Alone(j) ==
    route \in Kiosgamer /\ ReadyBuy(job'[j]) =>
        \A k \in Jobs : k # j /\ ReadyBuy(job[k]) => job[k].ord # job'[j].ord

LEMMA DeadStep ==
    ASSUME TypeOK, NEW j \in Jobs, OthersKeep(j), FailedKept,
           \A o \in Orders : debits'[o] \in Nat /\ debits'[o] >= debits[o],
           InsertedBy(j), NoNewCreate(j)
    PROVE  DeadKept
<1>1. ASSUME NEW o \in Orders, Unsaved(o) PROVE DeadNext(o)
  <2>1. row'[o].status = "none"
    BY <1>1 DEF Unsaved, InsertedBy
  <2>2. debits'[o] >= 1
    <3>1. debits[o] \in Nat /\ debits[o] >= 1 /\ debits'[o] \in Nat /\ debits'[o] >= debits[o]
      BY <1>1 DEF TypeOK, Unsaved
    <3>2. QED
      BY <3>1
  <2>3. ASSUME NEW k \in Jobs, Creates(job'[k]), job'[k].ord = o PROVE FALSE
    <3>1. CASE k = j
      <4>1. debits[o] # 0
        BY <1>1 DEF TypeOK, Unsaved
      <4>2. Creates(job[j]) /\ job[j].ord = o
        BY <2>3, <3>1, <4>1 DEF NoNewCreate
      <4>3. QED
        BY <1>1, <4>2 DEF Unsaved
    <3>2. CASE k # j
      <4>1. job'[k] = job[k]
        BY <3>2 DEF OthersKeep
      <4>2. QED
        BY <1>1, <2>3, <4>1 DEF Unsaved
    <3>3. QED
      BY <3>1, <3>2
  <2>4. QED
    BY <2>1, <2>2, <2>3 DEF DeadNext
<1>2. QED
  BY <1>1 DEF DeadKept, Dead, DeadNext, FailedKept

\* A handler that moves: what is left to show.
LEMMA OnceFrame ==
    ASSUME TypeOK, OnceInv, NEW j \in Jobs, OthersKeep(j), route' = route,
           FailedKept, DeadKept, Alone(j),
           \A k \in Jobs : k # j /\ job[k] # IdleJob =>
               /\ lastRef'[job[k].ord] = lastRef[job[k].ord]
               /\ route \in Kiosgamer /\ ReadyBuy(job[k]) => placed'[job[k].ord] = <<>>,
           OnceHandler(job[j])', \A o \in Orders : OnceOrder(o)'
    PROVE  OnceInv'
<1>1. ASSUME NEW k \in Jobs, k # j PROVE OnceHandler(job[k])'
  <2>1. job'[k] = job[k] /\ job[k].ord \in Orders /\ OnceHandler(job[k])
    BY <1>1, JobFacts DEF OthersKeep, OnceInv, TypeOK
  <2>2. CASE job[k] = IdleJob
    BY <2>1, <2>2 DEF OnceHandler, IdleJob, NoRow, NoReply, Reply
  <2>3. CASE job[k] # IdleJob
    <3> DEFINE h == job[k]
    <3>1. /\ lastRef'[h.ord] = lastRef[h.ord]
          /\ route \in Kiosgamer /\ ReadyBuy(h) => placed'[h.ord] = <<>>
      BY <1>1, <2>3
    <3>2. /\ OnRouteNext(h.ord, h.tx)
          /\ route' \in Kiosgamer /\ ReadyBuy(h) => placed'[h.ord] = <<>>
          /\ Has(h.plan, Credits) => DeadNext(h.ord)
          /\ h.reply.kind \in {"failed", "errFinal"} => FailedNext(h.ord)
      BY <2>1, <2>3, <3>1 DEF OnceHandler, OnRoute, OnRouteNext, FailedKept, DeadKept
    <3>3. QED
      BY <2>1, <3>2 DEF OnceHandler, OnRoute, OnRouteNext, ReadyBuy, Has, Dead, DeadNext,
                        Failed, FailedNext, Unsaved, Creates
  <2>4. QED
    BY <2>2, <2>3
<1>2. \A k \in Jobs : OnceHandler(job[k])'
  BY <1>1
<1>3. BuysAlone'
  <2>1. ASSUME route' \in Kiosgamer, NEW k \in Jobs, NEW m \in Jobs, k # m,
               ReadyBuy(job'[k]), ReadyBuy(job'[m])
        PROVE  job'[k].ord # job'[m].ord
    <3>1. CASE k = j
      <4>1. job'[m] = job[m]
        BY <2>1, <3>1 DEF OthersKeep
      <4>2. QED
        BY <2>1, <3>1, <4>1 DEF Alone
    <3>2. CASE m = j
      <4>1. job'[k] = job[k]
        BY <2>1, <3>2 DEF OthersKeep
      <4>2. QED
        BY <2>1, <3>2, <4>1 DEF Alone
    <3>3. CASE k # j /\ m # j
      <4>1. job'[k] = job[k] /\ job'[m] = job[m]
        BY <3>3 DEF OthersKeep
      <4>2. QED
        BY <2>1, <4>1 DEF OnceInv, BuysAlone
    <3>4. QED
      BY <3>1, <3>2, <3>3
  <2>2. QED
    BY <2>1 DEF BuysAlone, ReadyBuy, Has
<1>4. QED
  BY <1>2, <1>3 DEF OnceInv

\* What a handler must be when it starts, or goes on, with tx and plan.
OnceWith(j, o, tx, plan) ==
    /\ OnRouteNext(o, tx)
    /\ Has(plan, Credits) => DeadNext(o)
    /\ route \in Kiosgamer /\ Has(plan, {"purchase"}) /\ plan # <<"mark", "purchase">> =>
          /\ placed'[o] = <<>>
          /\ \A k \in Jobs : k # j /\ ReadyBuy(job[k]) => job[k].ord # o

LEMMA MovedOnce ==
    ASSUME NEW j \in Jobs, route' = route,
           job'[j].reply.kind \in {"failed", "errFinal"} => FailedNext(job'[j].ord),
           OnceWith(j, job'[j].ord, job'[j].tx, job'[j].plan)
    PROVE  OnceHandler(job[j])' /\ Alone(j)
<1>1. Alone(j)
  BY DEF OnceWith, Alone, ReadyBuy
<1>2. OnceHandler(job[j])'
  BY DEF OnceWith, OnceHandler, OnRoute, OnRouteNext, ReadyBuy, Has, Dead, DeadNext,
         Failed, FailedNext, Unsaved, Creates
<1>3. QED
  BY <1>1, <1>2

\* A handler that is over.
LEMMA IdleOnce ==
    ASSUME NEW j \in Jobs, job'[j] = IdleJob
    PROVE  OnceHandler(job[j])' /\ Alone(j) /\ NoNewCreate(j)
<1>1. OnceHandler(job[j])'
  BY DEF OnceHandler
<1>2. ~ReadyBuy(job'[j]) /\ ~Creates(job'[j])
  BY IdleFacts DEF ReadyBuy
<1>3. QED
  BY <1>1, <1>2 DEF Alone, NoNewCreate

LEMMA CreateHas == \A plan \in CreatePlans : Has(plan, {"insert"})
  BY DEF CreatePlans, Has

LEMMA ContinueOnce ==
    ASSUME TypeOK, BaseInv, NEW j \in Jobs, NEW tx, NEW plan, job[j].plan # <<>>,
           Continue(j, tx, plan), route' = route,
           Has(plan, {"insert"}) => Has(job[j].plan, {"insert"}),
           DeadKept /\ plan # <<>> => OnceWith(j, job[j].ord, tx, plan)
    PROVE  /\ OthersKeep(j) /\ NoNewCreate(j)
           /\ DeadKept => OnceHandler(job[j])' /\ Alone(j)
<1>1. CASE plan = <<>>
  <2>1. OthersKeep(j) /\ job'[j] = IdleJob
    BY <1>1, ContinueFields
  <2>2. QED
    BY <2>1, IdleOnce
<1>2. CASE plan # <<>>
  <2>1. /\ OthersKeep(j) /\ job'[j].ord = job[j].ord /\ job'[j].tx = tx
        /\ job'[j].plan = plan /\ job'[j].reply = NoReply
    BY <1>2, ContinueFields
  <2>2. NoNewCreate(j)
    <3>1. Creates(job'[j]) => Has(job[j].plan, {"insert"})
      BY <2>1, CreateHas DEF Creates
    <3>2. GoodHandler(job[j]) /\ job[j] # IdleJob
      BY HeadBase
    <3>3. QED
      BY <2>1, <3>1, <3>2 DEF GoodHandler, NoNewCreate
  <2>3. ASSUME DeadKept PROVE OnceHandler(job[j])' /\ Alone(j)
    <3>1. OnceWith(j, job'[j].ord, job'[j].tx, job'[j].plan)
      BY <1>2, <2>1, <2>3
    <3>2. job'[j].reply.kind \notin {"failed", "errFinal"}
      BY <2>1, IdleFacts
    <3>3. QED
      BY <3>1, <3>2, MovedOnce
  <2>4. QED
    BY <2>1, <2>2, <2>3
<1>3. QED
  BY <1>1, <1>2

-------------------------------------------------------------------------------
(* OnceInv: the statements of a plan.                                      *)

\* The tables a statement leaves: a copy on the route, and no refund of an order
\* that may still be delivered.
TablesOnce(j) ==
    /\ UNCHANGED <<placed, route, lastRef>>
    /\ InsertedBy(j)
    /\ \A o \in Orders : debits'[o] \in Nat /\ debits'[o] >= debits[o]
    /\ \A o \in Orders : OnRoute(o, row'[o])
    /\ \A o \in Orders : refunds'[o] > 0 => Dead(o)

LEMMA TablesFrame ==
    ASSUME TypeOK, OnceInv, NEW j \in Jobs, TablesOnce(j), OthersKeep(j), NoNewCreate(j),
           DeadKept => OnceHandler(job[j])' /\ Alone(j)
    PROVE  OnceInv'
<1>1. placed' = placed /\ route' = route /\ lastRef' = lastRef
  BY DEF TablesOnce
<1>2. FailedKept
  BY <1>1 DEF FailedKept, Failed, FailedNext
<1>3. DeadKept
  BY <1>2, DeadStep DEF TablesOnce
<1>4. ASSUME NEW o \in Orders PROVE OnceOrder(o)'
  <2>1. OnceOrder(o) /\ OnRoute(o, row'[o]) /\ (refunds'[o] > 0 => DeadNext(o))
    BY <1>3 DEF OnceInv, TablesOnce, DeadKept
  <2>2. QED
    BY <1>1, <2>1 DEF OnceOrder, AtRoute, OnRoute, Dead, DeadNext, Failed, FailedNext, Unsaved, Creates
<1>5. \A k \in Jobs : k # j /\ job[k] # IdleJob =>
         /\ lastRef'[job[k].ord] = lastRef[job[k].ord]
         /\ route \in Kiosgamer /\ ReadyBuy(job[k]) => placed'[job[k].ord] = <<>>
  BY <1>1 DEF OnceInv, OnceHandler
<1>6. QED
  BY <1>1, <1>2, <1>3, <1>4, <1>5, OnceFrame

\* The statement ends the handler.
LEMMA AbortOnce ==
    ASSUME TypeOK, OnceInv, NEW j \in Jobs, TablesOnce(j), Abort(j)
    PROVE  OnceInv'
  BY AbortFields, IdleOnce, TablesFrame

\* The handler goes on with a plan that buys and credits nothing new.
LEMMA StepOnce ==
    ASSUME TypeOK, BaseInv, OnceInv, NEW j \in Jobs, NEW tx, NEW plan,
           job[j].plan # <<>>, Continue(j, tx, plan), TablesOnce(j),
           OnRoute(job[j].ord, tx),
           Has(plan, {"insert"}) => Has(job[j].plan, {"insert"}),
           Has(plan, Credits) => Dead(job[j].ord) \/ DeadNext(job[j].ord),
           Has(plan, {"purchase"}) => Has(job[j].plan, {"purchase"}),
           job[j].plan = <<"mark", "purchase">> /\ route \in Kiosgamer =>
               /\ placed[job[j].ord] = <<>>
               /\ \A k \in Jobs : k # j /\ ReadyBuy(job[k]) => job[k].ord # job[j].ord
    PROVE  OnceInv'
<1> DEFINE o == job[j].ord
<1>1. placed' = placed /\ route' = route /\ lastRef' = lastRef /\ o \in Orders
  BY JobFacts DEF TablesOnce, TypeOK
<1>2. OnceHandler(job[j]) /\ job[j] # IdleJob
  BY ActiveJob DEF OnceInv
<1>3. OnRouteNext(o, tx)
  BY <1>1 DEF OnRoute, OnRouteNext
<1>4. ASSUME route \in Kiosgamer, Has(plan, {"purchase"})
      PROVE  /\ placed'[o] = <<>>
             /\ \A k \in Jobs : k # j /\ ReadyBuy(job[k]) => job[k].ord # o
  <2>1. CASE job[j].plan = <<"mark", "purchase">>
    BY <1>1, <1>4, <2>1
  <2>2. CASE job[j].plan # <<"mark", "purchase">>
    <3>1. ReadyBuy(job[j])
      BY <1>4, <2>2 DEF ReadyBuy
    <3>2. QED
      BY <1>1, <1>2, <1>4, <3>1 DEF OnceHandler, OnceInv, BuysAlone
  <2>3. QED
    BY <2>1, <2>2
<1>5. DeadKept => OnceWith(j, o, tx, plan)
  BY <1>1, <1>3, <1>4 DEF OnceWith, DeadKept
<1>6. /\ OthersKeep(j) /\ NoNewCreate(j)
      /\ DeadKept => OnceHandler(job[j])' /\ Alone(j)
  BY <1>1, <1>5, ContinueOnce
<1>7. QED
  BY <1>6, TablesFrame

\* The handler goes on with its copy and the rest of its plan.
LEMMA ProceedOnce ==
    ASSUME TypeOK, BaseInv, OnceInv, NEW j \in Jobs, job[j].plan # <<>>, Proceed(j),
           TablesOnce(j),
           Head(job[j].plan) = "mark" /\ route \in Kiosgamer =>
               /\ placed[job[j].ord] = <<>>
               /\ \A k \in Jobs : k # j /\ ReadyBuy(job[k]) => job[k].ord # job[j].ord
    PROVE  OnceInv'
<1>1. /\ OnceHandler(job[j]) /\ job[j] # IdleJob /\ job[j].plan \in Seq(Ops)
      /\ Rest(j) = Tail(job[j].plan) /\ Continue(j, job[j].tx, Rest(j))
  BY ActiveJob, JobFacts DEF OnceInv, TypeOK, Proceed, Rest
<1>2. \A ops : Has(Rest(j), ops) => Has(job[j].plan, ops)
  BY <1>1, HasTail
<1>3. OnRoute(job[j].ord, job[j].tx) /\ (Has(Rest(j), Credits) => Dead(job[j].ord))
  BY <1>1, <1>2 DEF OnceHandler
<1>4. job[j].plan = <<"mark", "purchase">> => Head(job[j].plan) = "mark"
  OBVIOUS
<1>5. QED
  BY <1>1, <1>2, <1>3, <1>4, StepOnce

\* A statement that writes no row and moves no money.
LEMMA TablesSame ==
    ASSUME TypeOK, OnceInv, NEW j \in Jobs,
           UNCHANGED <<row, debits, refunds, placed, route, lastRef>>
    PROVE  TablesOnce(j)
<1>1. row' = row /\ debits' = debits /\ refunds' = refunds
  OBVIOUS
<1>2. debits \in [Orders -> Nat]
  BY DEF TypeOK
<1>3. \A o \in Orders : OnRoute(o, row'[o]) /\ (refunds'[o] > 0 => Dead(o))
  BY <1>1 DEF OnceInv, OnceOrder, AtRoute
<1>4. InsertedBy(j)
  BY <1>1 DEF InsertedBy
<1>5. \A o \in Orders : debits'[o] \in Nat /\ debits'[o] >= debits[o]
  BY <1>1, <1>2
<1>6. QED
  BY <1>3, <1>4, <1>5 DEF TablesOnce

\* A statement that writes a row of the order's route.
LEMMA TablesWritten ==
    ASSUME TypeOK, BaseInv, OnceInv, NEW j \in Jobs, NEW r, job[j].plan # <<>>,
           Head(job[j].plan) \in {"insert", "save", "saveOrAbort", "status", "mark"},
           row' = [row EXCEPT ![job[j].ord] = r], OnRoute(job[j].ord, r),
           UNCHANGED <<debits, refunds, placed, route, lastRef>>
    PROVE  TablesOnce(j)
<1> DEFINE o == job[j].ord
<1>1. /\ o \in Orders /\ row \in [Orders -> Rows] /\ debits \in [Orders -> Nat]
      /\ refunds' = refunds /\ debits' = debits
  BY JobFacts DEF TypeOK
<1>2. row'[o] = r /\ \A q \in Orders : q # o => row'[q] = row[q]
  BY <1>1
<1>3. row[o].status = "none" => Creates(job[j])
  <2>1. /\ GoodHandler(job[j]) /\ job[j] # IdleJob
        /\ Head(job[j].plan) # "insert" => row[o].status # "none"
        /\ Has(job[j].plan, {Head(job[j].plan)})
    BY HeadBase
  <2>2. Head(job[j].plan) = "insert" => Creates(job[j])
    BY <2>1 DEF GoodHandler
  <2>3. QED
    BY <2>1, <2>2
<1>4. InsertedBy(j)
  BY <1>2, <1>3 DEF InsertedBy
<1>5. \A q \in Orders : OnRoute(q, row'[q]) /\ (refunds'[q] > 0 => Dead(q))
  BY <1>1, <1>2 DEF OnceInv, OnceOrder, AtRoute
<1>6. \A q \in Orders : debits'[q] \in Nat /\ debits'[q] >= debits[q]
  BY <1>1
<1>7. QED
  BY <1>4, <1>5, <1>6 DEF TablesOnce

\* The instance has no Kiosgamer order a webhook could pay a second time.
PaidOnceAtKiosgamer == Kiosgamer = {} \/ "pay" \notin Kinds \/ "check" \notin Kinds

LEMMA MarkOnce ==
    ASSUME PaidOnceAtKiosgamer, TypeOK, BaseInv, "check" \notin Kinds => PayInv, OnceInv,
           NEW j \in Jobs, Mark(j)
    PROVE  OnceInv'
<1> DEFINE o == job[j].ord
<1>1. o \in Orders /\ row \in [Orders -> Rows] /\ row[o] \in Rows
  BY JobFacts DEF TypeOK
<1>2. /\ job[j].plan # <<>> /\ Head(job[j].plan) = "mark"
      /\ UNCHANGED <<debits, refunds, placed, route, lastRef>>
  BY DEF Mark, At, money
<1>3. CASE MarksPending(o)
  <2> DEFINE r == [row[o] EXCEPT !.status = "processing", !.verified = TRUE]
  <2>1. row' = [row EXCEPT ![o] = r] /\ Proceed(j)
    BY <1>1, <1>3 DEF Mark
  <2>2. r.prov = row[o].prov /\ r.ref = row[o].ref
    BY <1>1 DEF Rows
  <2>3. OnRoute(o, r)
    BY <1>1, <1>3, <2>2 DEF OnceInv, OnceOrder, AtRoute, OnRoute, MarksPending
  <2> HIDE DEF r
  <2>4. TablesOnce(j)
    BY <1>2, <2>1, <2>3, TablesWritten
  <2>5. ASSUME route \in Kiosgamer
        PROVE  /\ placed[o] = <<>>
               /\ \A k \in Jobs : k # j /\ ReadyBuy(job[k]) => job[k].ord # o
    <3>1. /\ GoodHandler(job[j]) /\ job[j] # IdleJob
          /\ Has(job[j].plan, {"mark"})
      BY <1>2, HeadBase
    <3>2. "pay" \in Kinds
      BY <3>1 DEF GoodHandler, Runs
    <3>3. PayInv
      BY <2>5, <3>2 DEF PaidOnceAtKiosgamer
    <3>4. placed[o] = <<>>
      BY <1>1, <1>3, <3>3 DEF MarksPending, PayInv, PaidOrder
    <3>5. ASSUME NEW k \in Jobs, ReadyBuy(job[k]), job[k].ord = o PROVE FALSE
      <4>1. job[k] # IdleJob
        BY <3>5, IdleFacts DEF ReadyBuy
      <4>2. CASE Creates(job[k])
        <5>1. row[o] = NoRow
          BY <3>5, <4>1, <4>2 DEF BaseInv, GoodHandler
        <5>2. QED
          BY <1>3, <5>1, IdleFacts DEF MarksPending
      <4>3. CASE ~Creates(job[k])
        <5>1. Reaches(job[k])
          BY <3>5, <4>3 DEF ReadyBuy, Reaches, Has, Talks
        <5>2. row[o].status \notin {"none", "pending"}
          BY <3>3, <3>5, <4>1, <5>1 DEF PayInv, PaidHandler
        <5>3. QED
          BY <1>3, <5>2 DEF MarksPending
      <4>4. QED
        BY <4>2, <4>3
    <3>6. QED
      BY <3>4, <3>5
  <2>6. QED
    BY <1>2, <2>1, <2>4, <2>5, ProceedOnce
<1>4. CASE ~MarksPending(o)
  <2>1. Abort(j) /\ UNCHANGED row
    BY <1>4 DEF Mark
  <2>2. QED
    BY <1>2, <2>1, TablesSame, AbortOnce
<1>5. QED
  BY <1>3, <1>4

LEMMA RedebitOnce ==
    ASSUME TypeOK, BaseInv, OnceInv, NEW j \in Jobs, At(j, "redebit"), NEW refunded,
           Redebit(j, refunded), TablesOnce(j)
    PROVE  OnceInv'
<1> DEFINE owed == Owed(job[j].tx, refunded)
           first == IF owed THEN <<"debit">> ELSE <<>>
           tx == Reopened(job[j].kind, job[j].tx)
<1>1. Continue(j, tx, first \o Rest(j))
  BY Zenon DEF Redebit
<1>2. /\ job[j].plan # <<>> /\ Head(job[j].plan) = "redebit" /\ job[j].plan \in Seq(Ops)
      /\ job[j].tx \in Rows /\ Rest(j) \in Seq(Ops) /\ Rest(j) = Tail(job[j].plan)
  BY JobFacts DEF TypeOK, At, Rest
<1>3. tx.prov = job[j].tx.prov /\ tx.ref = job[j].tx.ref
  BY <1>2 DEF Reopened, Rows
<1>4. /\ OnceHandler(job[j]) /\ job[j] # IdleJob /\ job[j].tx.status # "none"
  BY <1>2, HeadBase DEF OnceInv
<1>5. OnRoute(job[j].ord, tx)
  BY <1>3, <1>4 DEF OnceHandler, OnRoute
<1>6. /\ first \in Seq(Ops) /\ ~Has(first, {"insert"}) /\ ~Has(first, Credits)
      /\ ~Has(first, {"purchase"})
  <2>1. <<"debit">> \in Seq(Ops) /\ <<>> \in Seq(Ops)
    BY DEF Ops
  <2>2. first = <<"debit">> \/ first = <<>>
    BY Zenon
  <2>3. QED
    BY <2>1, <2>2 DEF Has, Credits
<1> HIDE DEF first, tx
<1>7. \A ops \in {{"insert"}, Credits, {"purchase"}} :
         Has(first \o Rest(j), ops) => Has(job[j].plan, ops)
  BY <1>2, <1>6, HasConcat, HasTail
<1>8. Has(first \o Rest(j), Credits) => Dead(job[j].ord)
  BY <1>4, <1>7 DEF OnceHandler
<1>9. Head(<<"mark", "purchase">>) = "mark"
  OBVIOUS
<1>10. QED
  BY <1>1, <1>2, <1>5, <1>7, <1>8, <1>9, StepOnce

\* The writes of applyResult give money back only after a final failure.
LEMMA ResultFailed ==
    ASSUME NEW o, NEW reply, NEW src, Has(ResultWrites(o, reply, src), Credits)
    PROVE  reply.kind \in {"failed", "errFinal"}
<1>1. /\ ~Has(<<"save", "status">>, Credits) /\ ~Has(<<"save">>, Credits)
      /\ ~Has(<<"status", "save">>, Credits)
  BY DEF Has, Credits
<1>2. \/ reply.kind \in {"failed", "errFinal"}
      \/ ResultWrites(o, reply, src) \in {<<"save", "status">>, <<"save">>, <<"status", "save">>}
  BY DEF ResultWrites
<1>3. QED
  BY <1>1, <1>2

LEMMA StatementOnce ==
    ASSUME PaidOnceAtKiosgamer, TypeOK, TypeOK', BaseInv, MoneyInv,
           "check" \notin Kinds => PayInv, OnceInv,
           NEW j \in Jobs, Statement(j) \/ StatementFails(j)
    PROVE  OnceInv'
<1> DEFINE o == job[j].ord
<1>1. /\ o \in Orders /\ job[j].tx \in Rows /\ row \in [Orders -> Rows] /\ row[o] \in Rows
      /\ job[j].plan \in Seq(Ops) /\ job[j].reply \in Replies
      /\ debits \in [Orders -> Nat] /\ refunds \in [Orders -> Nat]
  BY JobFacts DEF TypeOK
<1>2. ASSUME UNCHANGED <<row, debits, refunds, placed, route, lastRef>>, Abort(j)
      PROVE  OnceInv'
  BY <1>2, TablesSame, AbortOnce
<1>3. ASSUME UNCHANGED <<row, debits, refunds, placed, route, lastRef>>, job[j].plan # <<>>,
             Proceed(j), Head(job[j].plan) # "mark"
      PROVE  OnceInv'
  BY <1>3, TablesSame, ProceedOnce
<1>4. ASSUME job[j].plan # <<>> PROVE OnceHandler(job[j]) /\ job[j] # IdleJob
  BY <1>4, ActiveJob DEF OnceInv
<1>5. ASSUME row[o].status # "none" PROVE OnRoute(o, row[o])
  BY <1>1 DEF OnceInv, OnceOrder, AtRoute
<1>6. CASE Debit(j)
  <2>1. /\ UNCHANGED <<row, placed, route, lastRef>> /\ job[j].plan # <<>>
        /\ Head(job[j].plan) = "debit"
    BY <1>6 DEF Debit, At
  <2>2. CASE Abort(j) /\ UNCHANGED money
    BY <1>2, <2>1, <2>2 DEF money
  <2>3. CASE debits' = [debits EXCEPT ![o] = @ + 1] /\ Proceed(j) /\ UNCHANGED refunds
    <3>1. \A q \in Orders : debits'[q] \in Nat /\ debits'[q] >= debits[q]
      BY <1>1, <2>3
    <3>2. \A q \in Orders : OnRoute(q, row'[q]) /\ (refunds'[q] > 0 => Dead(q))
      BY <2>1, <2>3 DEF OnceInv, OnceOrder, AtRoute
    <3>3. TablesOnce(j)
      BY <2>1, <3>1, <3>2 DEF TablesOnce, InsertedBy
    <3>4. QED
      BY <2>1, <2>3, <3>3, ProceedOnce
  <2>4. QED
    BY <1>6, <2>2, <2>3, Zenon DEF Debit
<1>7. CASE Credit(j)
  <2>1. /\ UNCHANGED <<row, debits, placed, route, lastRef>> /\ job[j].plan # <<>>
        /\ Head(job[j].plan) \in Credits /\ Proceed(j)
    BY <1>7 DEF Credit, At, Credits, money
  <2>2. Dead(o)
    <3>1. Has(job[j].plan, Credits)
      BY <1>1, <2>1 DEF Has
    <3>2. QED
      BY <1>4, <2>1, <3>1 DEF OnceHandler
  <2>3. \A q \in Orders : refunds'[q] > 0 => refunds[q] > 0 \/ q = o
    BY <1>1, <1>7 DEF Credit, money
  <2>4. \A q \in Orders : OnRoute(q, row'[q]) /\ (refunds'[q] > 0 => Dead(q))
    BY <2>1, <2>2, <2>3 DEF OnceInv, OnceOrder, AtRoute
  <2>5. TablesOnce(j)
    BY <1>1, <2>1, <2>4 DEF TablesOnce, InsertedBy
  <2>6. Head(job[j].plan) # "mark"
    BY <2>1 DEF Credits
  <2>7. QED
    BY <2>1, <2>5, <2>6, ProceedOnce
<1>8. CASE HasRefund(j)
  <2> DEFINE skip == SubSeq(job[j].plan, 3, Len(job[j].plan))
  <2>1. /\ UNCHANGED <<row, debits, refunds, placed, route, lastRef>> /\ job[j].plan # <<>>
        /\ Head(job[j].plan) = "hasRefund"
    BY <1>8 DEF HasRefund, At, money
  <2>2. CASE refunds[o] > 0
    <3>1. Continue(j, job[j].tx, skip)
      BY <1>8, <2>2 DEF HasRefund
    <3>2. \A ops : Has(skip, ops) => Has(job[j].plan, ops)
      BY <1>1, HasSkip
    <3> HIDE DEF skip
    <3>3. OnRoute(o, job[j].tx) /\ (Has(skip, Credits) => Dead(o))
      BY <1>4, <2>1, <3>2 DEF OnceHandler
    <3>4. TablesOnce(j)
      BY <2>1, TablesSame
    <3>5. Head(<<"mark", "purchase">>) = "mark"
      OBVIOUS
    <3>6. QED
      BY <2>1, <3>1, <3>2, <3>3, <3>4, <3>5, StepOnce
  <2>3. CASE ~(refunds[o] > 0)
    <3>1. Proceed(j)
      BY <1>8, <2>3 DEF HasRefund, Proceed
    <3>2. QED
      BY <1>3, <2>1, <3>1
  <2>4. QED
    BY <2>2, <2>3
<1>9. CASE RedebitCheck(j)
  <2>1. /\ UNCHANGED <<row, debits, refunds, placed, route, lastRef>> /\ At(j, "redebit")
        /\ Redebit(j, refunds[o] > 0)
    BY <1>9 DEF RedebitCheck, money
  <2>2. QED
    BY <2>1, TablesSame, RedebitOnce
<1>10. CASE Insert(j) \/ Save(j)
  <2>1. /\ UNCHANGED <<debits, refunds, placed, route, lastRef>> /\ job[j].plan # <<>>
        /\ Proceed(j) /\ Head(job[j].plan) \in {"insert", "save", "saveOrAbort"}
        /\ row' = [row EXCEPT ![o] = job[j].tx]
    BY <1>10 DEF Insert, Save, At, money
  <2>2. OnRoute(o, job[j].tx)
    BY <1>4, <2>1 DEF OnceHandler
  <2>3. QED
    BY <2>1, <2>2, TablesWritten, ProceedOnce
<1>11. CASE UpdateStatus(j)
  <2> DEFINE r == [row[o] EXCEPT !.status = job[j].tx.status]
  <2>1. /\ UNCHANGED <<debits, refunds, placed, route, lastRef>> /\ job[j].plan # <<>>
        /\ Proceed(j) /\ Head(job[j].plan) = "status" /\ row' = [row EXCEPT ![o] = r]
    BY <1>1, <1>11 DEF UpdateStatus, At, money
  <2>2. r.prov = row[o].prov /\ r.ref = row[o].ref
    BY <1>1 DEF Rows
  <2>3. row[o].status # "none"
    BY <2>1, HeadBase
  <2>4. OnRoute(o, r)
    BY <1>5, <2>2, <2>3 DEF OnRoute
  <2> HIDE DEF r
  <2>5. QED
    BY <2>1, <2>4, TablesWritten, ProceedOnce
<1>12. CASE Mark(j)
  BY <1>12, MarkOnce
<1>13. CASE Claim(j)
  <2>1. /\ UNCHANGED <<row, debits, refunds, placed, route, lastRef>> /\ job[j].plan # <<>>
        /\ Head(job[j].plan) = "claim"
    BY <1>13 DEF Claim, At, money
  <2>2. Proceed(j) \/ Abort(j)
    BY <1>13 DEF Claim
  <2>3. QED
    BY <1>2, <1>3, <2>1, <2>2
<1>14. CASE Load(j)
  <2>1. /\ UNCHANGED <<row, debits, refunds, placed, route, lastRef>> /\ job[j].plan # <<>>
        /\ Head(job[j].plan) = "load"
    BY <1>14 DEF Load, At, money
  <2>2. CASE row[o].status = "processing"
    <3>1. Continue(j, row[o], Rest(j)) /\ OnRoute(o, row[o])
      BY <1>5, <1>14, <2>2 DEF Load
    <3>2. \A ops : Has(Rest(j), ops) => Has(job[j].plan, ops)
      BY <1>1, <2>1, HasTail DEF Rest
    <3>3. Has(Rest(j), Credits) => Dead(o)
      BY <1>4, <2>1, <3>2 DEF OnceHandler
    <3>4. Head(<<"mark", "purchase">>) = "mark"
      OBVIOUS
    <3>5. QED
      BY <2>1, <3>1, <3>2, <3>3, <3>4, TablesSame, StepOnce
  <2>3. CASE row[o].status # "processing"
    <3>1. Abort(j)
      BY <1>14, <2>3 DEF Load
    <3>2. QED
      BY <1>2, <2>1, <3>1
  <2>4. QED
    BY <2>2, <2>3
<1>15. CASE Reread(j)
  <2>1. /\ UNCHANGED <<row, debits, refunds, placed, route, lastRef>> /\ job[j].plan # <<>>
        /\ Head(job[j].plan) = "reread"
    BY <1>15 DEF Reread, At, money
  <2>2. CASE row[o].status = "processing" /\ ~Dropped(job[j].reply, job[j].src)
    <3> DEFINE plan == ResultWrites(o, job[j].reply, job[j].src)
               tx == applyResult(row[o], job[j].reply, job[j].src)
    <3>1. Continue(j, tx, plan)
      BY <1>15, <2>2 DEF Reread, Apply
    <3>2. OnRoute(o, tx)
      <4>1. tx.prov = row[o].prov /\ tx.ref = row[o].ref
        BY <1>1 DEF applyResult, Rows
      <4>2. QED
        BY <1>5, <2>2, <4>1 DEF OnRoute
    <3>3. Has(plan, Credits) => Dead(o)
      BY <1>4, <2>1, ResultFailed DEF OnceHandler, Dead
    <3>4. plan \in Seq(WriteOps)
      BY ResultWritesOps
    <3> HIDE DEF plan, tx
    <3>5. ~Has(plan, {"insert"}) /\ ~Has(plan, {"purchase"})
      BY <3>4, WritesHaveNot DEF WriteOps
    <3>6. Head(<<"mark", "purchase">>) = "mark"
      OBVIOUS
    <3>7. QED
      BY <2>1, <3>1, <3>2, <3>3, <3>5, <3>6, TablesSame, StepOnce
  <2>3. CASE row[o].status # "processing" \/ Dropped(job[j].reply, job[j].src)
    <3>1. Abort(j)
      BY <1>15, <2>3 DEF Reread, Apply
    <3>2. QED
      BY <1>2, <2>1, <3>1
  <2>4. QED
    BY <2>2, <2>3
<1>16. CASE StatementFails(j)
  <2>1. UNCHANGED <<row, debits, refunds, placed, route, lastRef>> /\ job[j].plan # <<>>
    BY <1>16 DEF StatementFails, money
  <2>2. \/ /\ Head(job[j].plan) = "insert" /\ IsSaldo(o)
           /\ Continue(j, job[j].tx, <<"credit">>)
        \/ Head(job[j].plan) = "redebit" /\ Redebit(j, FALSE)
        \/ Head(job[j].plan) \in {"status", "save", "credit", "hasRefund"} /\ Proceed(j)
        \/ Abort(j)
    BY <1>16, Zenon DEF StatementFails
  <2>3. ASSUME Head(job[j].plan) = "insert", IsSaldo(o), Continue(j, job[j].tx, <<"credit">>)
        PROVE  OnceInv'
    <3>1. Creates(job[j]) /\ row[o] = NoRow
      <4>1. GoodHandler(job[j]) /\ job[j] # IdleJob /\ Has(job[j].plan, {"insert"})
        BY <2>1, <2>3, HeadBase
      <4>2. QED
        BY <4>1 DEF GoodHandler
    <3>2. debits[o] >= 1
      <4>1. job[j].plan # <<"debit", "insert", "purchase">>
        BY <2>3, CreateTails
      <4>2. QED
        BY <2>1, <2>3, <4>1 DEF MoneyInv, GoodJob, Charged
    <3>3. ASSUME NEW k \in Jobs, Creates(job'[k]) PROVE job'[k].ord # o
      <4>1. OthersKeep(j) /\ job'[j].plan = <<"credit">>
        BY <2>3, ContinueFields
      <4>2. k # j
        BY <3>3, <4>1, StartingPlans DEF Creates
      <4>3. job'[k] = job[k] /\ job[k] # IdleJob
        BY <3>3, <4>1, <4>2, IdleFacts DEF OthersKeep
      <4>4. QED
        BY <3>1, <4>2, <4>3 DEF BaseInv, CreatesAlone
    <3>4. DeadNext(o)
      BY <2>1, <3>1, <3>2, <3>3, IdleFacts DEF DeadNext
    <3>5. OnRoute(o, job[j].tx)
      BY <1>4, <2>1 DEF OnceHandler
    <3>6. ~Has(<<"credit">>, {"insert"}) /\ ~Has(<<"credit">>, {"purchase"})
      BY DEF Has
    <3>7. Head(<<"mark", "purchase">>) = "mark"
      OBVIOUS
    <3>8. QED
      BY <2>1, <2>3, <3>4, <3>5, <3>6, <3>7, TablesSame, StepOnce
  <2>4. QED
    BY <1>2, <1>3, <2>1, <2>2, <2>3, TablesSame, RedebitOnce DEF At
<1>17. QED
  BY <1>6, <1>7, <1>8, <1>9, <1>10, <1>11, <1>12, <1>13, <1>14, <1>15, <1>16
  DEF Statement

-------------------------------------------------------------------------------
(* OnceInv: the calls to a provider.                                       *)

\* Every provider keeps a ref_id unique or has Kiosgamer's rules.
KnownRules == Providers \subseteq Kiosgamer \cup Dedup

\* A call for the order's one ref_id creates the first order or none.
LEMMA AnswersOnce ==
    ASSUME KnownRules, TypeOK, NEW o \in Orders, AtRoute(o), NEW tx \in Rows,
           tx.ref = lastRef[o], NEW call \in {"purchase", "check"},
           NEW x \in Answers(o, route, tx, call),
           route \in Kiosgamer /\ call = "purchase" => placed[o] = <<>>
    PROVE  /\ \/ x.orders = placed[o]
              \/ /\ placed[o] = <<>> /\ Len(x.orders) = 1
                 /\ x.orders[1].prov = route /\ x.orders[1].ref = lastRef[o]
                 /\ route \in Kiosgamer => call = "purchase"
           /\ x.orders \in Seq(PlacedOrders)
           /\ x.reply.kind \in {"failed", "errFinal"} =>
                 route \in Kiosgamer \/ AllFailed(x.orders)
<1>1. /\ route \in Providers /\ placed \in [Orders -> Seq(PlacedOrders)]
      /\ placed[o] \in Seq(PlacedOrders) /\ Len(placed[o]) <= MaxPlaced
  BY DEF TypeOK
<1>2. /\ x.orders \in Seq(PlacedOrders)
      /\ \/ x.orders = placed[o]
         \/ /\ route \in Dedup => Known(o, route, tx) = {} /\ Buys(route, tx, call)
            /\ Adds(o, route, tx, x)
  BY <1>1, AnswersType
<1>3. ASSUME route \in Kiosgamer
      PROVE  x.orders = placed[o] \/ (placed[o] = <<>> /\ call = "purchase")
  <2>1. x \in KiosgamerExchange(o, route, tx, call)
    BY <1>3 DEF Answers
  <2>2. x.orders = placed[o] \/ call # "check"
    BY <1>1, <2>1, KiosgamerShape
  <2>3. QED
    BY <1>3, <2>2
<1>4. ASSUME route \notin Kiosgamer PROVE x.orders = placed[o] \/ placed[o] = <<>>
  <2> SUFFICES ASSUME x.orders # placed[o], placed[o] # <<>> PROVE FALSE
    OBVIOUS
  <2>1. Known(o, route, tx) = {} /\ Buys(route, tx, call)
    BY <1>1, <1>2, <1>4 DEF KnownRules
  <2>2. 1 \in DOMAIN placed[o]
    BY <1>1
  <2>3. placed[o][1].prov = route /\ placed[o][1].ref = tx.ref
    BY <2>2 DEF AtRoute
  <2>4. route \in Digiflazz \/ tx.id = 0
    BY <2>1 DEF Buys, hasProviderOrder
  <2>5. 1 \in Known(o, route, tx)
    BY <2>2, <2>3, <2>4 DEF Known
  <2>6. QED
    BY <2>1, <2>5
<1>5. ASSUME placed[o] = <<>>, NEW s \in PlacedStates,
             x.orders = Append(placed[o], [prov |-> route, ref |-> tx.ref, state |-> s])
      PROVE  Len(x.orders) = 1 /\ x.orders[1].prov = route /\ x.orders[1].ref = lastRef[o]
  <2> DEFINE new == [prov |-> route, ref |-> tx.ref, state |-> s]
  <2>1. new.prov = route /\ new.ref = tx.ref
    OBVIOUS
  <2> HIDE DEF new
  <2>2. x.orders = Append(<<>>, new)
    BY <1>5 DEF new
  <2>3. Len(x.orders) = 1 /\ x.orders[1] = new
    BY <2>2
  <2>4. QED
    BY <2>1, <2>3
<1>6. \/ x.orders = placed[o]
      \/ /\ placed[o] = <<>> /\ Len(x.orders) = 1
         /\ x.orders[1].prov = route /\ x.orders[1].ref = lastRef[o]
         /\ route \in Kiosgamer => call = "purchase"
  <2>1. CASE x.orders = placed[o]
    BY <2>1
  <2>2. CASE x.orders # placed[o]
    <3>1. placed[o] = <<>> /\ (route \in Kiosgamer => call = "purchase")
      BY <1>3, <1>4, <2>2
    <3>2. PICK s \in PlacedStates :
             x.orders = Append(placed[o], [prov |-> route, ref |-> tx.ref, state |-> s])
      BY <1>2, <2>2 DEF Adds
    <3>3. QED
      BY <1>5, <3>1, <3>2
  <2>3. QED
    BY <2>1, <2>2
<1>7. Len(x.orders) <= 1
  <2>1. CASE x.orders = placed[o]
    BY <2>1 DEF AtRoute
  <2>2. CASE x.orders # placed[o]
    <3>1. Len(x.orders) = 1
      BY <1>6, <2>2
    <3>2. QED
      BY <3>1
  <2>3. QED
    BY <2>1, <2>2
<1>8. ASSUME x.reply.kind \in {"failed", "errFinal"}, route \notin Kiosgamer
      PROVE  AllFailed(x.orders)
  <2>1. x \in Exchange(o, route, tx, call)
    BY <1>8 DEF Answers
  <2>2. PICK i \in DOMAIN x.orders : x.orders[i].state = "failed"
    BY <1>1, <1>8, <2>1, ExchangeAnswers
  <2>3. i = 1 /\ \A n \in DOMAIN x.orders : n = 1
    BY <1>2, <1>7, <2>2
  <2>4. QED
    BY <1>2, <2>2, <2>3 DEF AllFailed
<1>9. QED
  BY <1>2, <1>6, <1>8

\* The tables after a call, and what the other handlers find there.
LEMMA PlacedOnce ==
    ASSUME KnownRules, TypeOK, BaseInv, OnceInv, NEW j \in Jobs, NEW tx \in Rows,
           NEW call \in {"purchase", "check"},
           NEW x \in Answers(job[j].ord, route, tx, call),
           tx.ref = lastRef[job[j].ord], job[j] # IdleJob, row[job[j].ord].status # "none",
           call = "purchase" /\ route \in Kiosgamer => ReadyBuy(job[j]),
           placed' = [placed EXCEPT ![job[j].ord] = x.orders],
           UNCHANGED <<row, debits, refunds, route, lastRef>>,
           OthersKeep(j), ~Creates(job'[j]),
           DeadKept => OnceHandler(job[j])' /\ Alone(j)
    PROVE  OnceInv'
<1> DEFINE o == job[j].ord
<1>1. /\ o \in Orders /\ OnceOrder(o) /\ OnceHandler(job[j])
      /\ placed \in [Orders -> Seq(PlacedOrders)] /\ debits \in [Orders -> Nat]
      /\ row' = row /\ debits' = debits /\ refunds' = refunds
      /\ route' = route /\ lastRef' = lastRef
  BY JobFacts DEF TypeOK, OnceInv
<1>2. placed'[o] = x.orders /\ \A q \in Orders : q # o => placed'[q] = placed[q]
  BY <1>1
<1>3. route \in Kiosgamer /\ call = "purchase" => placed[o] = <<>>
  BY <1>1 DEF OnceHandler
<1>4. \/ x.orders = placed[o]
      \/ /\ placed[o] = <<>> /\ Len(x.orders) = 1
         /\ x.orders[1].prov = route /\ x.orders[1].ref = lastRef[o]
         /\ route \in Kiosgamer => call = "purchase"
  BY <1>1, <1>3, AnswersOnce DEF OnceOrder
<1>5. x.orders \in Seq(PlacedOrders)
  BY <1>1, <1>3, AnswersOnce DEF OnceOrder
<1>6. FailedKept
  <2>1. ASSUME NEW q \in Orders, Failed(q) PROVE FailedNext(q)
    <3>1. CASE route \in Kiosgamer
      BY <1>1, <3>1 DEF FailedNext
    <3>2. CASE AllFailed(placed[q])
      <4>1. placed'[q] = placed[q]
        BY <1>2, <1>4, <3>2 DEF AllFailed
      <4>2. QED
        BY <3>2, <4>1 DEF FailedNext
    <3>3. QED
      BY <2>1, <3>1, <3>2 DEF Failed
  <2>2. QED
    BY <2>1 DEF FailedKept
<1>7. DeadKept
  <2>1. InsertedBy(j) /\ NoNewCreate(j)
    BY <1>1 DEF InsertedBy, NoNewCreate
  <2>2. \A q \in Orders : debits'[q] \in Nat /\ debits'[q] >= debits[q]
    BY <1>1
  <2>3. QED
    BY <1>6, <2>1, <2>2, DeadStep
<1>8. ASSUME NEW q \in Orders PROVE OnceOrder(q)'
  <2>1. OnceOrder(q) /\ (refunds[q] > 0 => DeadNext(q))
    BY <1>7 DEF OnceInv, OnceOrder, AtRoute, DeadKept
  <2>2. /\ Len(placed'[q]) <= 1
        /\ \A i \in DOMAIN placed'[q] :
              placed'[q][i].prov = route /\ placed'[q][i].ref = lastRef[q]
    <3>1. CASE placed'[q] = placed[q]
      BY <2>1, <3>1 DEF OnceOrder, AtRoute
    <3>2. CASE placed'[q] # placed[q]
      <4>1. q = o /\ placed'[q] = x.orders /\ x.orders # placed[o]
        BY <1>2, <3>2
      <4>2. \A i \in DOMAIN x.orders : i = 1
        BY <1>4, <1>5, <4>1
      <4>3. Len(x.orders) = 1 /\ x.orders[1].prov = route /\ x.orders[1].ref = lastRef[o]
        BY <1>4, <4>1
      <4>4. Len(placed'[q]) <= 1
        <5>1. Len(placed'[q]) = 1
          BY <4>1, <4>3, Zenon
        <5>2. 1 <= 1
          OBVIOUS
        <5>3. QED
          BY <5>1, <5>2, Zenon
      <4>5. QED
        BY <4>1, <4>2, <4>3, <4>4, Zenon
    <3>3. QED
      BY <3>1, <3>2
  <2>3. QED
    BY <1>1, <2>1, <2>2
       DEF OnceOrder, AtRoute, OnRoute, Dead, DeadNext, Failed, FailedNext, Unsaved, Creates
<1>9. ASSUME NEW k \in Jobs, k # j, job[k] # IdleJob
      PROVE  /\ lastRef'[job[k].ord] = lastRef[job[k].ord]
             /\ route \in Kiosgamer /\ ReadyBuy(job[k]) => placed'[job[k].ord] = <<>>
  <2>1. job[k].ord \in Orders /\ OnceHandler(job[k])
    BY JobFacts DEF TypeOK, OnceInv
  <2>2. ASSUME route \in Kiosgamer, ReadyBuy(job[k])
        PROVE  placed'[job[k].ord] = <<>>
    <3>1. placed[job[k].ord] = <<>>
      BY <1>9, <2>1, <2>2 DEF OnceHandler
    <3>2. CASE job[k].ord # o
      BY <1>2, <2>1, <3>1, <3>2
    <3>3. CASE job[k].ord = o
      <4>1. ~ReadyBuy(job[j])
        BY <1>9, <2>2, <3>3 DEF OnceInv, BuysAlone
      <4>2. x.orders = placed[o]
        BY <1>4, <2>2, <4>1
      <4>3. QED
        BY <1>2, <3>1, <3>3, <4>2
    <3>4. QED
      BY <3>2, <3>3
  <2>3. QED
    BY <1>1, <2>2
<1>10. QED
  BY <1>1, <1>6, <1>7, <1>8, <1>9, OnceFrame

\* applyResult on the answer of a call.
LEMMA ApplyOnce ==
    ASSUME TypeOK, BaseInv, NEW j \in Jobs, job[j].plan # <<>>, NEW tx \in Rows,
           NEW reply, NEW src, Apply(j, tx, reply, src), route' = route,
           OnRouteNext(job[j].ord, tx), tx.status # "none",
           reply.kind \in {"failed", "errFinal"} => FailedNext(job[j].ord)
    PROVE  /\ OthersKeep(j) /\ ~Creates(job'[j])
           /\ DeadKept => OnceHandler(job[j])' /\ Alone(j)
<1>1. CASE Dropped(reply, src)
  <2>1. OthersKeep(j) /\ job'[j] = IdleJob
    BY <1>1, AbortFields DEF Apply
  <2>2. QED
    BY <2>1, IdleOnce, IdleFacts
<1>2. CASE ~Dropped(reply, src)
  <2> DEFINE plan == ResultWrites(job[j].ord, reply, src)
             new == applyResult(tx, reply, src)
  <2>1. Continue(j, new, plan)
    BY <1>2 DEF Apply
  <2>2. new.prov = tx.prov /\ new.ref = tx.ref
    BY DEF applyResult, Rows
  <2>3. plan \in Seq(WriteOps) /\ plan # <<>>
    BY ResultWritesOps
  <2>4. Has(plan, Credits) => DeadNext(job[j].ord)
    BY ResultFailed DEF DeadNext
  <2> HIDE DEF plan, new
  <2>5. ~Has(plan, {"insert"}) /\ ~Has(plan, {"purchase"})
    BY <2>3, WritesHaveNot DEF WriteOps
  <2>6. OnceWith(j, job[j].ord, new, plan)
    BY <2>2, <2>4, <2>5 DEF OnceWith, OnRouteNext
  <2>7. /\ OthersKeep(j)
        /\ DeadKept => OnceHandler(job[j])' /\ Alone(j)
    BY <2>1, <2>5, <2>6, ContinueOnce
  <2>8. job'[j].plan = plan
    BY <2>1, <2>3, ContinueFields
  <2>9. ~Creates(job'[j])
    BY <2>5, <2>8, CreateHas DEF Creates
  <2>10. QED
    BY <2>7, <2>9
<1>3. QED
  BY <1>1, <1>2

LEMMA CallOnce ==
    ASSUME KnownRules, TypeOK, BaseInv, OnceInv, NEW j \in Jobs, Call(j)
    PROVE  OnceInv'
<1> DEFINE o == job[j].ord
           p == RouteOf(job[j].tx, route)
           tx == Noted(j, p)
           buy == shouldPurchaseInsteadOfCheck(job[j].tx)
           src == IF buy THEN "fulfill" ELSE job[j].kind
           call == IF buy THEN "purchase" ELSE "check"
<1>1. /\ job \in [Jobs -> JobStates] /\ job[j] \in JobStates
      /\ route \in Providers /\ o \in Orders /\ job[j].tx \in Rows
      /\ placed \in [Orders -> Seq(PlacedOrders)] /\ job[j].plan \in Seq(Ops)
  BY JobFacts DEF TypeOK
<1>2. /\ job[j].plan # <<>> /\ Head(job[j].plan) \in {"purchase", "check"}
      /\ UNCHANGED <<row, debits, refunds, route, lastRef>>
  BY DEF Call, Purchase, Check, At, money
<1>3. /\ OnceHandler(job[j]) /\ job[j] # IdleJob /\ row[o].status # "none"
      /\ job[j].tx.status # "none" /\ Has(job[j].plan, {Head(job[j].plan)})
  BY <1>2, HeadBase DEF OnceInv
<1>4. job[j].tx.prov = route /\ job[j].tx.ref = lastRef[o]
  BY <1>3 DEF OnceHandler, OnRoute
<1>5. Head(<<"mark", "purchase">>) = "mark"
  OBVIOUS
<1>6. ASSUME NEW x, placed' = [placed EXCEPT ![o] = x.orders],
             route \in Kiosgamer \/ AllFailed(x.orders)
      PROVE  FailedNext(o)
  BY <1>1, <1>2, <1>6 DEF FailedNext
<1>7. CASE Purchase(j)
  <2>1. p = route /\ tx = job[j].tx
    <3>1. p = route
      BY <1>4 DEF RouteOf
    <3>2. [job[j].tx EXCEPT !.prov = route] = job[j].tx
      BY <1>1, <1>4 DEF Rows
    <3>3. QED
      BY <3>1, <3>2 DEF Noted
  <2>2. ReadyBuy(job[j])
    <3>1. Head(job[j].plan) = "purchase"
      BY <1>7 DEF Purchase, At
    <3>2. QED
      BY <1>3, <1>5, <3>1 DEF ReadyBuy
  <2>3. CASE /\ \E q \in {job[j].tx.prov, p} :
                    Continue(j, recordConfigurationError(Noted(j, q)), <<"save">>)
             /\ UNCHANGED placed
    <3> DEFINE held == recordConfigurationError(job[j].tx)
    <3>1. held.prov = job[j].tx.prov /\ held.ref = job[j].tx.ref
      BY <1>1, ParkedType
    <3>2. OnRoute(o, held)
      BY <1>4, <3>1 DEF OnRoute
    <3> HIDE DEF held
    <3>3. ~Has(<<"save">>, {"insert"}) /\ ~Has(<<"save">>, Credits) /\ ~Has(<<"save">>, {"purchase"})
      BY DEF Has, Credits
    <3>4. Continue(j, held, <<"save">>)
      BY <1>4, <2>1, <2>3 DEF held
    <3>5. Head(job[j].plan) # "mark"
      BY <1>2
    <3>6. QED
      BY <1>2, <1>5, <2>3, <3>2, <3>3, <3>4, <3>5, TablesSame, StepOnce
  <2>4. CASE \E x \in Answers(o, p, job[j].tx, "purchase") :
                /\ placed' = [placed EXCEPT ![o] = x.orders]
                /\ Apply(j, tx, x.reply, "fulfill")
    <3>1. PICK x \in Answers(o, route, job[j].tx, "purchase") :
                /\ placed' = [placed EXCEPT ![o] = x.orders]
                /\ Apply(j, job[j].tx, x.reply, "fulfill")
      BY <2>1, <2>4
    <3>2. x.reply.kind \in {"failed", "errFinal"} => FailedNext(o)
      <4>1. route \in Kiosgamer => placed[o] = <<>>
        BY <1>3, <2>2 DEF OnceHandler
      <4>2. OnceOrder(o)
        BY <1>1 DEF OnceInv
      <4>3. x.reply.kind \in {"failed", "errFinal"} =>
               route \in Kiosgamer \/ AllFailed(x.orders)
        BY <1>1, <1>4, <3>1, <4>1, <4>2, AnswersOnce DEF OnceOrder
      <4>4. QED
        BY <1>6, <3>1, <4>3
    <3>3. OnRouteNext(o, job[j].tx)
      BY <1>2, <1>4 DEF OnRouteNext
    <3>4. /\ OthersKeep(j) /\ ~Creates(job'[j])
          /\ DeadKept => OnceHandler(job[j])' /\ Alone(j)
      BY <1>1, <1>2, <1>3, <3>1, <3>2, <3>3, ApplyOnce
    <3>5. QED
      BY <1>1, <1>2, <1>3, <1>4, <2>2, <3>1, <3>4, PlacedOnce
  <2>5. QED
    BY <1>7, <2>3, <2>4, Zenon DEF Purchase
<1>8. CASE Check(j)
  <2>1. Head(job[j].plan) = "check"
    BY <1>8 DEF Check, At
  <2>2. route \in Kiosgamer => call = "check"
    BY <1>4 DEF shouldPurchaseInsteadOfCheck
  <2>3. CASE Abort(j) /\ UNCHANGED placed
    BY <1>2, <2>3, TablesSame, AbortOnce
  <2>4. CASE \E x \in Answers(o, job[j].tx.prov, job[j].tx, call) :
                /\ placed' = [placed EXCEPT ![o] = x.orders]
                /\ IF job[j].kind = "reconcile"
                   THEN job' = [job EXCEPT ![j].tx = NoRow, ![j].plan = <<"reread">>,
                                           ![j].reply = x.reply, ![j].src = src]
                   ELSE Apply(j, job[j].tx, x.reply, src)
    <3>1. PICK x \in Answers(o, route, job[j].tx, call) :
                /\ placed' = [placed EXCEPT ![o] = x.orders]
                /\ IF job[j].kind = "reconcile"
                   THEN job' = [job EXCEPT ![j].tx = NoRow, ![j].plan = <<"reread">>,
                                           ![j].reply = x.reply, ![j].src = src]
                   ELSE Apply(j, job[j].tx, x.reply, src)
      BY <1>4, <2>4
    <3>0. call \in {"purchase", "check"}
      OBVIOUS
    <3> HIDE DEF call, src, buy
    <3>2. x.reply.kind \in {"failed", "errFinal"} => FailedNext(o)
      <4>1. OnceOrder(o)
        BY <1>1 DEF OnceInv
      <4>2. ~(route \in Kiosgamer /\ call = "purchase")
        BY <2>2
      <4>3. x.reply.kind \in {"failed", "errFinal"} =>
               route \in Kiosgamer \/ AllFailed(x.orders)
        BY <1>1, <1>4, <3>0, <4>1, <4>2, <3>1, AnswersOnce DEF OnceOrder
      <4>4. QED
        BY <1>6, <3>1, <4>3
    <3>3. /\ OthersKeep(j) /\ ~Creates(job'[j])
          /\ DeadKept => OnceHandler(job[j])' /\ Alone(j)
      <4>1. CASE job[j].kind = "reconcile"
        <5>1. job' = [job EXCEPT ![j] =
                          [job[j] EXCEPT !.tx = NoRow, !.plan = <<"reread">>,
                                         !.reply = x.reply, !.src = src]]
          BY <1>1, <3>1, <4>1
        <5>2. /\ job'[j].ord = o /\ job'[j].tx = NoRow
              /\ job'[j].plan = <<"reread">> /\ job'[j].reply = x.reply
          BY <1>1, <5>1 DEF JobStates
        <5>3. OthersKeep(j)
          BY <1>1, <5>1 DEF OthersKeep
        <5>4. ~Creates(job'[j])
          BY <5>2, StartingPlans DEF Creates
        <5>5. ~Has(<<"reread">>, Credits) /\ ~Has(<<"reread">>, {"purchase"})
          BY DEF Has, Credits
        <5>6. OnceWith(j, job'[j].ord, job'[j].tx, job'[j].plan)
          BY <5>2, <5>5, IdleFacts DEF OnceWith, OnRouteNext
        <5>7. OnceHandler(job[j])' /\ Alone(j)
          BY <1>2, <3>2, <5>2, <5>6, MovedOnce
        <5>8. QED
          BY <5>3, <5>4, <5>7
      <4>2. CASE job[j].kind # "reconcile"
        <5>1. Apply(j, job[j].tx, x.reply, src)
          BY <3>1, <4>2
        <5>2. OnRouteNext(o, job[j].tx)
          BY <1>2, <1>4 DEF OnRouteNext
        <5>3. QED
          BY <1>1, <1>2, <1>3, <3>2, <5>1, <5>2, ApplyOnce
      <4>3. QED
        BY <4>1, <4>2
    <3>4. call = "purchase" /\ route \in Kiosgamer => ReadyBuy(job[j])
      BY <2>2
    <3>5. QED
      BY <1>1, <1>2, <1>3, <1>4, <3>0, <3>1, <3>3, <3>4, PlacedOnce
  <2>5. QED
    BY <1>8, <2>3, <2>4, Zenon DEF Check
<1>9. QED
  BY <1>7, <1>8 DEF Call

-------------------------------------------------------------------------------
(* OnceInv: the entry points and the world.                                *)

LEMMA StartOnce ==
    ASSUME TypeOK, OnceInv, NEW j \in Jobs, NEW k, NEW o \in Orders, NEW tx, NEW plan,
           Start(j, k, o, tx, plan), plan # <<>>, plan \notin CreatePlans,
           UNCHANGED <<row, debits, refunds, placed, route, lastRef>>,
           OnRoute(o, tx), Has(plan, Credits) => Dead(o),
           route \in Kiosgamer /\ Has(plan, {"purchase"}) => plan = <<"mark", "purchase">>
    PROVE  OnceInv'
<1>1. /\ OthersKeep(j) /\ job'[j].ord = o /\ job'[j].tx = tx
      /\ job'[j].plan = plan /\ job'[j].reply = NoReply
  BY StartFields
<1>2. route' = route /\ lastRef' = lastRef
  OBVIOUS
<1>3. TablesOnce(j)
  BY TablesSame
<1>4. NoNewCreate(j)
  BY <1>1 DEF NoNewCreate, Creates
<1>5. ASSUME DeadKept PROVE OnceHandler(job[j])' /\ Alone(j)
  <2>1. OnceWith(j, o, tx, plan)
    BY <1>2, <1>5 DEF OnceWith, OnRoute, OnRouteNext, DeadKept
  <2>2. job'[j].reply.kind \notin {"failed", "errFinal"}
    BY <1>1, IdleFacts
  <2>3. QED
    BY <1>1, <1>2, <2>1, <2>2, MovedOnce
<1>6. QED
  BY <1>1, <1>3, <1>4, <1>5, TablesFrame

LEMMA CreateOrderOnce ==
    ASSUME TypeOK, BaseInv, MoneyInv, OnceInv, NEW j \in Jobs, NEW o \in Orders,
           CreateOrder(j, o)
    PROVE  OnceInv'
<1> DEFINE ref == lastRef[o] + 1
           tx == NewRow(o, route, ref)
           plan == CreatePlan(o)
<1>1. /\ Start(j, "order", o, tx, plan) /\ row[o] = NoRow /\ debits[o] = 0
      /\ UNCHANGED <<row, debits, refunds, placed, route>>
      /\ lastRef' = [lastRef EXCEPT ![o] = ref]
      /\ \A k \in Jobs : job[k].kind = "idle" \/ job[k].ord # o
  BY DEF CreateOrder, EntryFrame, money
<1>2. /\ lastRef \in [Orders -> 0 .. MaxRefs] /\ debits \in [Orders -> Nat]
      /\ refunds \in [Orders -> Nat]
  BY DEF TypeOK
<1>3. lastRef'[o] = ref /\ \A q \in Orders : q # o => lastRef'[q] = lastRef[q]
  BY <1>1, <1>2
<1>4. plan \in CreatePlans
  BY DEF CreatePlan, CreatePlans
<1>5. tx.prov = route /\ tx.ref = ref
  BY DEF NewRow, NoRow
<1>6. \A p \in CreatePlans : ~Has(p, Credits)
  BY DEF CreatePlans, Has, Credits
<1> HIDE DEF tx, plan, ref
<1>7. plan # <<>>
  BY <1>4, StartingPlans
<1>8. /\ OthersKeep(j) /\ job'[j].ord = o /\ job'[j].tx = tx
      /\ job'[j].plan = plan /\ job'[j].reply = NoReply
  BY <1>1, <1>7, StartFields
<1>9. placed[o] = <<>> /\ refunds[o] = 0
  <2>1. placed[o] = <<>>
    BY <1>1, IdleFacts DEF BaseInv, GoodOrder
  <2>2. refunds[o] <= debits[o] /\ refunds[o] \in Nat
    BY <1>2 DEF MoneyInv, RefundedOnlyIfCharged
  <2>3. QED
    BY <1>1, <2>1, <2>2
<1>10. ASSUME NEW k \in Jobs, job[k] # IdleJob PROVE job[k].ord # o
  <2>1. job[k].kind \in Kinds
    BY <1>10 DEF BaseInv, GoodHandler, Runs
  <2>2. job[k].kind # "idle"
    BY <2>1, LifecycleAssumption DEF AllKinds
  <2>3. QED
    BY <1>1, <2>2
<1>11. FailedKept
  BY <1>1 DEF FailedKept, Failed, FailedNext
<1>12. DeadKept
  <2>1. InsertedBy(j) /\ NoNewCreate(j)
    BY <1>1, <1>8 DEF InsertedBy, NoNewCreate
  <2>2. \A q \in Orders : debits'[q] \in Nat /\ debits'[q] >= debits[q]
    BY <1>1, <1>2
  <2>3. QED
    BY <1>8, <1>11, <2>1, <2>2, DeadStep
<1>13. OnceHandler(job[j])' /\ Alone(j)
  <2>1. OnRouteNext(o, tx)
    BY <1>1, <1>3, <1>5 DEF OnRouteNext
  <2>2. \A k \in Jobs : ReadyBuy(job[k]) => job[k].ord # o
    BY <1>10, IdleFacts DEF ReadyBuy
  <2>3. ~Has(plan, Credits) /\ placed'[o] = <<>>
    BY <1>1, <1>4, <1>6, <1>9
  <2>4. OnceWith(j, o, tx, plan)
    BY <2>1, <2>2, <2>3 DEF OnceWith
  <2>5. job'[j].reply.kind \notin {"failed", "errFinal"}
    BY <1>8, IdleFacts
  <2>6. QED
    BY <1>1, <1>8, <2>4, <2>5, MovedOnce
<1>14. ASSUME NEW q \in Orders PROVE OnceOrder(q)'
  <2>1. /\ OnceOrder(q) /\ row' = row /\ placed' = placed /\ refunds' = refunds
        /\ route' = route /\ debits' = debits
    BY <1>1 DEF OnceInv
  <2>2. refunds[q] > 0 => DeadNext(q)
    BY <1>12, <2>1 DEF OnceOrder, AtRoute, DeadKept
  <2>3. CASE q # o
    <3>1. lastRef'[q] = lastRef[q]
      BY <1>3, <2>3
    <3>2. QED
      BY <2>1, <2>2, <3>1
         DEF OnceOrder, AtRoute, OnRoute, Dead, DeadNext, Failed, FailedNext, Unsaved, Creates
  <2>4. CASE q = o
    <3>1. row[q].status = "none" /\ placed[q] = <<>> /\ ~(refunds[q] > 0)
      BY <1>1, <1>9, <2>4, IdleFacts
    <3>2. Len(placed[q]) <= 1
      BY <2>1 DEF OnceOrder, AtRoute
    <3>3. QED
      BY <2>1, <3>1, <3>2 DEF OnceOrder, AtRoute, OnRoute
  <2>5. QED
    BY <2>3, <2>4
<1>15. ASSUME NEW k \in Jobs, k # j, job[k] # IdleJob
       PROVE  /\ lastRef'[job[k].ord] = lastRef[job[k].ord]
              /\ route \in Kiosgamer /\ ReadyBuy(job[k]) => placed'[job[k].ord] = <<>>
  <2>1. job[k].ord \in Orders /\ OnceHandler(job[k]) /\ job[k].ord # o
    BY <1>10, <1>15, JobFacts DEF TypeOK, OnceInv
  <2>2. QED
    BY <1>1, <1>3, <1>15, <2>1 DEF OnceHandler
<1>16. QED
  BY <1>1, <1>8, <1>11, <1>12, <1>13, <1>14, <1>15, OnceFrame

LEMMA AutomaticEntryOnce ==
    ASSUME TypeOK, BaseInv, MoneyInv, OnceInv, NEW j \in Jobs, NEW o \in Orders,
           AutomaticEntry(j, o)
    PROVE  OnceInv'
<1>1. /\ row[o] \in Rows /\ placed[o] \in Seq(PlacedOrders)
      /\ OnceOrder(o) /\ OnRoute(o, row[o])
  BY DEF TypeOK, OnceInv, OnceOrder, AtRoute
<1>2. CASE CreateOrder(j, o)
  BY <1>2, CreateOrderOnce
<1>3. CASE HandlePaymentSuccess(j, o)
  <2>1. UNCHANGED <<row, debits, refunds, placed, route, lastRef>>
    BY <1>3 DEF HandlePaymentSuccess, EntryFrame, money
  <2>2. CASE o \in Mismatched
    <3> DEFINE tx == [row[o] EXCEPT !.status = "failed"]
    <3>1. Start(j, "pay", o, tx, <<"status">>) /\ row[o].status # "none"
      BY <1>3, <2>2 DEF HandlePaymentSuccess, FindByInvoiceNumber
    <3>2. tx.prov = row[o].prov /\ tx.ref = row[o].ref
      BY <1>1 DEF Rows
    <3>3. OnRoute(o, tx)
      BY <1>1, <3>1, <3>2 DEF OnRoute
    <3> HIDE DEF tx
    <3>4. ~Has(<<"status">>, Credits) /\ ~Has(<<"status">>, {"purchase"})
      BY DEF Has, Credits
    <3>5. QED
      BY <2>1, <3>1, <3>3, <3>4, StartingPlans, StartOnce
  <2>3. CASE o \notin Mismatched
    <3>1. Start(j, "pay", o, row[o], <<"mark", "purchase">>)
      BY <1>3, <2>3 DEF HandlePaymentSuccess
    <3>2. ~Has(<<"mark", "purchase">>, Credits)
      BY DEF Has, Credits
    <3>3. QED
      BY <1>1, <2>1, <3>1, <3>2, StartingPlans, StartOnce
  <2>4. QED
    BY <2>2, <2>3
<1>4. CASE \E i \in DOMAIN placed[o] : HandleProviderCallback(j, o, i)
  <2>1. PICK i \in DOMAIN placed[o] : HandleProviderCallback(j, o, i)
    BY <1>4
  <2>2. PICK r \in VerdictReplies(i, placed[o][i].state) :
            Start(j, "callback", o, applyResult(row[o], r, "callback"),
                  ResultWrites(o, r, "callback"))
    BY <2>1 DEF HandleProviderCallback
  <2>3. /\ row[o].status # "none"
        /\ UNCHANGED <<row, debits, refunds, placed, route, lastRef>>
    BY <2>1 DEF HandleProviderCallback, EntryFrame, money
  <2> DEFINE tx == applyResult(row[o], r, "callback")
             plan == ResultWrites(o, r, "callback")
  <2>4. placed[o][i].state \in PlacedStates
    <3>1. placed[o][i] \in PlacedOrders
      BY <1>1
    <3>2. QED
      BY <3>1 DEF PlacedOrders
  <2>5. ASSUME Has(plan, Credits) PROVE Dead(o)
    <3>1. placed[o][i].state = "failed"
      BY <2>4, <2>5, ResultFailed, VerdictKind
    <3>2. placed[o] # <<>> /\ \A n \in DOMAIN placed[o] : n = i
      BY <1>1, <2>1 DEF OnceOrder, AtRoute
    <3>3. QED
      BY <3>1, <3>2 DEF Dead, Failed, AllFailed
  <2>6. tx.prov = row[o].prov /\ tx.ref = row[o].ref
    BY <1>1 DEF applyResult, Rows
  <2>7. plan \in Seq(WriteOps) /\ plan # <<>>
    BY ResultWritesOps
  <2>8. ~Has(plan, {"insert"}) /\ ~Has(plan, {"purchase"})
    BY <2>7, WritesHaveNot DEF WriteOps
  <2>9. plan \notin CreatePlans
    BY <2>8, CreateHas
  <2> HIDE DEF tx, plan
  <2>10. Start(j, "callback", o, tx, plan)
    BY <2>2 DEF tx, plan
  <2>11. OnRoute(o, tx)
    BY <1>1, <2>3, <2>6 DEF OnRoute
  <2>12. QED
    BY <2>3, <2>5, <2>7, <2>8, <2>9, <2>10, <2>11, StartOnce
<1>5. CASE CheckProviderStatus(j, o)
  <2>1. /\ Start(j, "check", o, row[o], <<"check">>)
        /\ UNCHANGED <<row, debits, refunds, placed, route, lastRef>>
    BY <1>5 DEF CheckProviderStatus, EntryFrame, money
  <2>2. ~Has(<<"check">>, Credits) /\ ~Has(<<"check">>, {"purchase"})
    BY DEF Has, Credits
  <2>3. QED
    BY <1>1, <2>1, <2>2, StartingPlans, StartOnce
<1>6. CASE ReconcileProcessingTransaction(j, o)
  <2> DEFINE plan == <<"claim", "load", "check">>
  <2>1. /\ Start(j, "reconcile", o, NoRow, plan)
        /\ UNCHANGED <<row, debits, refunds, placed, route, lastRef>>
    BY <1>6 DEF ReconcileProcessingTransaction, EntryFrame, money
  <2>2. ~Has(plan, Credits) /\ ~Has(plan, {"purchase"}) /\ plan # <<>> /\ plan \notin CreatePlans
    BY DEF Has, Credits, CreatePlans
  <2>3. OnRoute(o, NoRow)
    BY IdleFacts DEF OnRoute
  <2> HIDE DEF plan
  <2>4. QED
    BY <2>1, <2>2, <2>3, StartOnce
<1>7. CASE RetryDigiflazzBalanceHolds(j, o)
  <2> DEFINE plan == <<"claim", "save", "purchase">>
             tx == [row[o] EXCEPT !.pst = "retrysaldo"]
  <2>1. /\ Start(j, "holdRetry", o, tx, plan)
        /\ row[o].status = "processing" /\ row[o].prov \in Digiflazz
        /\ UNCHANGED <<row, debits, refunds, placed, route, lastRef>>
    BY <1>7 DEF RetryDigiflazzBalanceHolds, EntryFrame, money
  <2>2. ~Has(plan, Credits) /\ plan # <<>> /\ plan \notin CreatePlans
    BY DEF Has, Credits, CreatePlans
  <2>3. tx.prov = row[o].prov /\ tx.ref = row[o].ref
    BY <1>1 DEF Rows
  <2>4. OnRoute(o, tx)
    BY <1>1, <2>1, <2>3 DEF OnRoute
  <2>5. route \notin Kiosgamer
    BY <1>1, <2>1, ProviderAssumption DEF OnRoute
  <2> HIDE DEF plan, tx
  <2>6. QED
    BY <2>1, <2>2, <2>4, <2>5, StartOnce
<1>8. QED
  BY <1>2, <1>3, <1>4, <1>5, <1>6, <1>7 DEF AutomaticEntry

\* A step that writes no table and ends handlers at most.
LEMMA WorldFrameOnce ==
    ASSUME TypeOK, OnceInv, UNCHANGED <<row, debits, refunds, placed, route, lastRef>>,
           \A k \in Jobs : job'[k] = job[k] \/ job'[k] = IdleJob
    PROVE  OnceInv'
<1>1. /\ row' = row /\ debits' = debits /\ refunds' = refunds
      /\ placed' = placed /\ route' = route /\ lastRef' = lastRef
  OBVIOUS
<1>2. ASSUME NEW q \in Orders, Dead(q) PROVE DeadNext(q)
  <2>1. CASE Failed(q)
    BY <1>1, <2>1 DEF Failed, DeadNext, FailedNext
  <2>2. CASE Unsaved(q)
    <3>1. ASSUME NEW k \in Jobs, Creates(job'[k]) PROVE job'[k].ord # q
      <4>1. job'[k] = job[k]
        BY <3>1, IdleFacts
      <4>2. QED
        BY <2>2, <3>1, <4>1 DEF Unsaved
    <3>2. QED
      BY <1>1, <2>2, <3>1 DEF Unsaved, DeadNext
  <2>3. QED
    BY <1>2, <2>1, <2>2 DEF Dead
<1>3. ASSUME NEW q \in Orders PROVE OnceOrder(q)'
  <2>1. OnceOrder(q) /\ (refunds[q] > 0 => DeadNext(q))
    BY <1>2 DEF OnceInv, OnceOrder, AtRoute
  <2>2. QED
    BY <1>1, <2>1
       DEF OnceOrder, AtRoute, OnRoute, Dead, DeadNext, Failed, FailedNext, Unsaved, Creates
<1>4. ASSUME NEW k \in Jobs PROVE OnceHandler(job[k])'
  <2>1. CASE job'[k] = IdleJob
    BY <2>1 DEF OnceHandler
  <2>2. CASE job'[k] = job[k] /\ job[k] # IdleJob
    <3> DEFINE h == job[k]
    <3>1. OnceHandler(h) /\ h.ord \in Orders
      BY JobFacts DEF OnceInv, TypeOK
    <3>2. /\ OnRouteNext(h.ord, h.tx)
          /\ route' \in Kiosgamer /\ ReadyBuy(h) => placed'[h.ord] = <<>>
          /\ Has(h.plan, Credits) => DeadNext(h.ord)
          /\ h.reply.kind \in {"failed", "errFinal"} => FailedNext(h.ord)
      BY <1>1, <1>2, <2>2, <3>1 DEF OnceHandler, OnRoute, OnRouteNext, Failed, FailedNext
    <3>3. QED
      BY <2>2, <3>2 DEF OnceHandler, OnRoute, OnRouteNext, ReadyBuy, Has, Dead, DeadNext,
                        Failed, FailedNext, Unsaved, Creates
  <2>3. QED
    BY <2>1, <2>2
<1>5. BuysAlone'
  <2>1. ASSUME route' \in Kiosgamer, NEW k \in Jobs, NEW m \in Jobs, k # m,
               ReadyBuy(job'[k]), ReadyBuy(job'[m])
        PROVE  job'[k].ord # job'[m].ord
    <3>1. job'[k] = job[k] /\ job'[m] = job[m]
      BY <2>1, IdleFacts DEF ReadyBuy
    <3>2. QED
      BY <1>1, <2>1, <3>1 DEF OnceInv, BuysAlone
  <2>2. QED
    BY <2>1 DEF BuysAlone, ReadyBuy, Has
<1>6. QED
  BY <1>3, <1>4, <1>5 DEF OnceInv

\* The provider's decision is about an order that was open.
LEMMA DecideOnce ==
    ASSUME TypeOK, OnceInv, NEW o \in Orders, NEW i \in DOMAIN placed[o], Decide(o, i)
    PROVE  OnceInv'
<1>1. PICK s \in {"success", "failed"} :
         placed' = [placed EXCEPT ![o][i].state = s]
  BY DEF Decide
<1>2. /\ placed \in [Orders -> Seq(PlacedOrders)] /\ placed[o] \in Seq(PlacedOrders)
      /\ placed[o][i] \in PlacedOrders /\ OnceOrder(o)
  BY DEF TypeOK, OnceInv
<1>3. /\ placed'[o] = [placed[o] EXCEPT ![i] = [placed[o][i] EXCEPT !.state = s]]
      /\ \A q \in Orders : q # o => placed'[q] = placed[q]
  BY <1>1, <1>2
<1>4. /\ placed[o][i].state = "open" /\ job' = job
      /\ row' = row /\ debits' = debits /\ refunds' = refunds
      /\ route' = route /\ lastRef' = lastRef
  BY DEF Decide, money
<1>5. /\ DOMAIN placed'[o] = DOMAIN placed[o] /\ Len(placed'[o]) = Len(placed[o])
      /\ \A n \in DOMAIN placed[o] :
            placed'[o][n].prov = placed[o][n].prov /\ placed'[o][n].ref = placed[o][n].ref
  BY <1>2, <1>3 DEF PlacedOrders
<1>6. ASSUME NEW q \in Orders, Failed(q) PROVE FailedNext(q)
  BY <1>3, <1>4, <1>6 DEF Failed, FailedNext, AllFailed
<1>7. ASSUME NEW q \in Orders, Dead(q) PROVE DeadNext(q)
  BY <1>4, <1>6, <1>7 DEF Dead, DeadNext, Unsaved
<1>8. ASSUME NEW q \in Orders PROVE OnceOrder(q)'
  <2>1. OnceOrder(q) /\ (refunds[q] > 0 => DeadNext(q))
    BY <1>7 DEF OnceInv, OnceOrder, AtRoute
  <2>2. /\ Len(placed'[q]) <= 1
        /\ \A n \in DOMAIN placed'[q] :
              placed'[q][n].prov = route /\ placed'[q][n].ref = lastRef[q]
    <3>1. CASE q = o
      <4>1. Len(placed[o]) <= 1
        BY <1>2 DEF OnceOrder, AtRoute
      <4>2. Len(placed'[q]) <= 1
        BY <1>5, <3>1, <4>1, Zenon
      <4>3. QED
        BY <1>2, <1>5, <3>1, <4>2 DEF OnceOrder, AtRoute
    <3>2. CASE q # o
      BY <1>3, <2>1, <3>2 DEF OnceOrder, AtRoute
    <3>3. QED
      BY <3>1, <3>2
  <2>3. QED
    BY <1>4, <2>1, <2>2
       DEF OnceOrder, AtRoute, OnRoute, Dead, DeadNext, Failed, FailedNext, Unsaved, Creates
<1>9. ASSUME NEW k \in Jobs PROVE OnceHandler(job[k])'
  <2>1. CASE job[k] = IdleJob
    BY <1>4, <2>1 DEF OnceHandler, IdleJob, NoRow, NoReply, Reply
  <2>2. CASE job[k] # IdleJob
    <3> DEFINE h == job[k]
    <3>1. OnceHandler(h) /\ h.ord \in Orders
      BY JobFacts DEF OnceInv, TypeOK
    <3>2. placed[h.ord] = <<>> => placed'[h.ord] = <<>>
      BY <1>2, <1>3, <3>1
    <3>3. /\ OnRouteNext(h.ord, h.tx)
          /\ route' \in Kiosgamer /\ ReadyBuy(h) => placed'[h.ord] = <<>>
          /\ Has(h.plan, Credits) => DeadNext(h.ord)
          /\ h.reply.kind \in {"failed", "errFinal"} => FailedNext(h.ord)
      BY <1>4, <1>6, <1>7, <2>2, <3>1, <3>2 DEF OnceHandler, OnRoute, OnRouteNext
    <3>4. QED
      BY <1>4, <3>3 DEF OnceHandler, OnRoute, OnRouteNext, ReadyBuy, Has, Dead, DeadNext,
                        Failed, FailedNext, Unsaved, Creates
  <2>3. QED
    BY <2>1, <2>2
<1>10. BuysAlone'
  BY <1>4 DEF OnceInv, BuysAlone, ReadyBuy, Has
<1>11. QED
  BY <1>8, <1>9, <1>10 DEF OnceInv

LEMMA WorldOnce ==
    ASSUME MaxAdmin = 0, TypeOK, OnceInv, World \/ UNCHANGED vars
    PROVE  OnceInv'
<1>1. CASE UNCHANGED vars
  BY <1>1, WorldFrameOnce DEF vars, money
<1>2. CASE \E o \in Orders : Age(o)
  BY <1>2, WorldFrameOnce DEF Age, money
<1>3. CASE \E o \in Orders : \E i \in DOMAIN placed[o] : Decide(o, i)
  BY <1>3, DecideOnce
<1>4. CASE SwitchProvider
  BY <1>4, AdminNeedsBound
<1>5. CASE Crash
  BY <1>5, WorldFrameOnce DEF Crash, money
<1>6. QED
  BY <1>1, <1>2, <1>3, <1>4, <1>5 DEF World

LEMMA InitOnce == Init => OnceInv
<1> SUFFICES ASSUME Init PROVE OnceInv
  OBVIOUS
<1>1. \A j \in Jobs : job[j] = IdleJob
  BY DEF Init
<1>2. \A o \in Orders : row[o] = NoRow /\ placed[o] = <<>> /\ refunds[o] = 0
  BY DEF Init
<1>3. \A o \in Orders : OnceOrder(o)
  BY <1>2, IdleFacts DEF OnceOrder, AtRoute, OnRoute
<1>4. \A j \in Jobs : OnceHandler(job[j])
  BY <1>1 DEF OnceHandler
<1>5. BuysAlone
  BY <1>1, IdleFacts DEF BuysAlone, ReadyBuy
<1>6. QED
  BY <1>3, <1>4, <1>5 DEF OnceInv

LEMMA OnceStep ==
    ASSUME MaxAdmin = 0, KnownRules, PaidOnceAtKiosgamer, TypeOK, TypeOK', BaseInv,
           MoneyInv, "check" \notin Kinds => PayInv, OnceInv, [Next]_vars
    PROVE  OnceInv'
<1>1. CASE \E j \in Jobs : Statement(j) \/ Call(j) \/ StatementFails(j)
  BY <1>1, StatementOnce, CallOnce
<1>2. CASE \E j \in Jobs, o \in Orders : AutomaticEntry(j, o) \/ AdminEntry(j, o)
  <2>1. ~(\E j \in Jobs, o \in Orders : AdminEntry(j, o))
    BY AdminNeedsBound
  <2>2. QED
    BY <1>2, <2>1, AutomaticEntryOnce
<1>3. CASE World \/ UNCHANGED vars
  BY <1>3, WorldOnce
<1>4. QED
  BY <1>1, <1>2, <1>3 DEF Next

LEMMA OnceInvariant ==
    ASSUME MaxAdmin = 0, KnownRules, PaidOnceAtKiosgamer
    PROVE  Spec => []OnceInv
<1>1. Spec => []("check" \notin Kinds => PayInv)
  <2>1. CASE "check" \in Kinds
    <3>1. "check" \notin Kinds => PayInv
      BY <2>1
    <3>2. QED
      BY <3>1, PTL
  <2>2. CASE "check" \notin Kinds
    <3>1. ~Runs("check") /\ ~Runs("regen")
      BY <2>2 DEF Runs, AdminKinds
    <3>2. Spec => []PayInv
      BY <3>1, PayInvariant
    <3>3. QED
      BY <3>2, PTL
  <2>3. QED
    BY <2>1, <2>2
<1>2. Init => OnceInv
  BY InitOnce
<1>3. TypeOK /\ TypeOK' /\ BaseInv /\ MoneyInv /\ ("check" \notin Kinds => PayInv)
          /\ OnceInv /\ [Next]_vars => OnceInv'
  BY OnceStep
<1>4. QED
  BY <1>1, <1>2, <1>3, TypeCorrect, BaseInvariant, MoneyCorrect, PTL DEF Spec

-------------------------------------------------------------------------------
(* What OnceInv says of an invoice.                                        *)

LEMMA OneLives ==
    ASSUME NEW o \in Orders, placed[o] \in Seq(PlacedOrders), Len(placed[o]) <= 1
    PROVE  Cardinality({i \in DOMAIN placed[o] : placed[o][i].state # "failed"}) <= 1
<1> DEFINE live == {i \in DOMAIN placed[o] : placed[o][i].state # "failed"}
<1>1. live \subseteq {1}
  OBVIOUS
<1>2. live = {} \/ live = {1}
  BY <1>1, Zenon
<1>3. Cardinality({}) = 0 /\ Cardinality({1}) = 1
  BY FS_EmptySet, FS_Singleton
<1> HIDE DEF live
<1>4. Cardinality(live) \in {0, 1}
  BY <1>2, <1>3, Zenon
<1>5. QED
  BY <1>4 DEF live

\* However handlers race, answers are lost and processes stop, an invoice has at
\* most one order at the provider that delivers or still may: a repeated purchase
\* carries the same ref_id, and where a provider knows none (Kiosgamer) no second
\* handler gets to the purchase.  No admin moves the order or its product, and
\* at Kiosgamer a status check of an unpaid order does not put "pending" back
\* under a second payment webhook.
THEOREM DeliveredOnce ==
    ASSUME MaxAdmin = 0, KnownRules, PaidOnceAtKiosgamer
    PROVE  Spec => []NoDoubleDelivery
<1>1. ASSUME TypeOK, OnceInv, NEW o \in Orders
      PROVE  Cardinality({i \in DOMAIN placed[o] : placed[o][i].state # "failed"}) <= 1
  BY <1>1, OneLives DEF TypeOK, OnceInv, OnceOrder, AtRoute
<1>2. TypeOK /\ OnceInv => NoDoubleDelivery
  BY <1>1 DEF NoDoubleDelivery
<1>3. QED
  BY <1>2, TypeCorrect, OnceInvariant, PTL

\* A buyer whose money went back gets no goods, at every provider whose answers
\* tell what became of the order: a credit is planned only after the one order
\* at the provider failed for good, or when the row was never saved and nobody
\* will buy for it.  Kiosgamer is left out, where a lost answer of the payment is
\* such a failure while the order goes through.
THEOREM NoFreeGoods ==
    ASSUME MaxAdmin = 0, KnownRules, PaidOnceAtKiosgamer
    PROVE  Spec => []NoGoodsAfterRefund
<1>1. ASSUME BaseInv, OnceInv, NEW o \in Orders, refunds[o] > 0, TrueToState(o),
             NEW i \in DOMAIN placed[o]
      PROVE  placed[o][i].state = "failed"
  <2>1. CASE row[o].status = "none"
    BY <1>1, <2>1 DEF BaseInv, GoodOrder
  <2>2. CASE row[o].status # "none"
    <3>1. route \notin Kiosgamer
      BY <1>1, <2>2 DEF OnceInv, OnceOrder, AtRoute, OnRoute, TrueToState
    <3>2. AllFailed(placed[o])
      BY <1>1, <2>2, <3>1 DEF OnceInv, OnceOrder, AtRoute, Dead, Failed, Unsaved
    <3>3. QED
      BY <1>1, <3>2 DEF AllFailed
  <2>3. QED
    BY <2>1, <2>2
<1>2. BaseInv /\ OnceInv => NoGoodsAfterRefund
  BY <1>1 DEF NoGoodsAfterRefund
<1>3. QED
  BY <1>2, BaseInvariant, OnceInvariant, PTL

-------------------------------------------------------------------------------
(* RetryInv: an admin retries an order whose product stays on its route.   *)

\* The product keeps its provider and the order its ref_id, which is unique there.
StaysOnRoute == ~Runs("reroute") /\ ~Runs("regen") /\ Providers \subseteq Dedup

LEMMA RetryFrame ==
    ASSUME RetryInv, NEW j \in Jobs, OthersKeep(j), UNCHANGED <<placed, route, lastRef>>,
           \A o \in Orders : OnRoute(o, row'[o]), OnRoute(job'[j].ord, job'[j].tx)
    PROVE  RetryInv'
<1>1. placed' = placed /\ route' = route /\ lastRef' = lastRef
  OBVIOUS
<1>2. \A o \in Orders : AtRoute(o)'
  BY <1>1 DEF RetryInv, AtRoute, OnRoute
<1>3. \A k \in Jobs : OnRoute(job[k].ord, job[k].tx)'
  BY <1>1 DEF RetryInv, OnRoute, OthersKeep
<1>4. QED
  BY <1>2, <1>3 DEF RetryInv

LEMMA AbortRetry ==
    ASSUME TypeOK, RetryInv, NEW j \in Jobs, Abort(j), UNCHANGED <<placed, route, lastRef>>,
           \A o \in Orders : OnRoute(o, row'[o])
    PROVE  RetryInv'
<1>1. OthersKeep(j) /\ job'[j] = IdleJob
  BY AbortFields
<1>2. OnRoute(job'[j].ord, job'[j].tx)
  BY <1>1 DEF OnRoute, IdleJob, NoRow
<1>3. QED
  BY <1>1, <1>2, RetryFrame

LEMMA ContinueRetry ==
    ASSUME TypeOK, RetryInv, NEW j \in Jobs, NEW tx, NEW plan, Continue(j, tx, plan),
           UNCHANGED <<placed, route, lastRef>>,
           \A o \in Orders : OnRoute(o, row'[o]), OnRoute(job[j].ord, tx)
    PROVE  RetryInv'
<1>1. CASE plan = <<>>
  <2>1. OthersKeep(j) /\ job'[j] = IdleJob
    BY <1>1, ContinueFields
  <2>2. OnRoute(job'[j].ord, job'[j].tx)
    BY <2>1 DEF OnRoute, IdleJob, NoRow
  <2>3. QED
    BY <2>1, <2>2, RetryFrame
<1>2. CASE plan # <<>>
  <2>1. OthersKeep(j) /\ job'[j].ord = job[j].ord /\ job'[j].tx = tx
    BY <1>2, ContinueFields
  <2>2. QED
    BY <2>1, RetryFrame
<1>3. QED
  BY <1>1, <1>2

\* A copy of the same provider and ref_id, of a row that exists.
LEMMA SameCopy ==
    ASSUME NEW o, NEW tx, NEW copy, OnRoute(o, tx), tx.status # "none",
           copy.prov = tx.prov, copy.ref = tx.ref
    PROVE  OnRoute(o, copy)
  BY DEF OnRoute

LEMMA StatementRetry ==
    ASSUME TypeOK, BaseInv, RetryInv, NEW j \in Jobs, Statement(j) \/ StatementFails(j)
    PROVE  RetryInv'
<1> DEFINE o == job[j].ord
<1>1. /\ o \in Orders /\ job[j].tx \in Rows /\ row \in [Orders -> Rows] /\ row[o] \in Rows
  BY JobFacts DEF TypeOK
<1>2. OnRoute(o, job[j].tx) /\ \A q \in Orders : OnRoute(q, row[q])
  BY DEF RetryInv, AtRoute
<1>3. UNCHANGED <<placed, route, lastRef>>
  BY DEF Statement, StatementFails, Debit, Credit, HasRefund, RedebitCheck, Insert, Mark,
         Claim, UpdateStatus, Save, Load, Reread
<1>4. ASSUME NEW r, row' = [row EXCEPT ![o] = r], OnRoute(o, r)
      PROVE  \A q \in Orders : OnRoute(q, row'[q])
  BY <1>1, <1>2, <1>4
<1>5. ASSUME \A q \in Orders : OnRoute(q, row'[q]), Proceed(j) \/ Abort(j)
      PROVE  RetryInv'
  BY <1>2, <1>3, <1>5, ContinueRetry, AbortRetry DEF Proceed
<1>6. ASSUME UNCHANGED row, NEW refunded, At(j, "redebit"), Redebit(j, refunded)
      PROVE  RetryInv'
  <2> DEFINE tx == Reopened(job[j].kind, job[j].tx)
  <2>1. \E plan : Continue(j, tx, plan)
    BY <1>6, Zenon DEF Redebit
  <2>2. tx.prov = job[j].tx.prov /\ tx.ref = job[j].tx.ref
    BY <1>1 DEF Reopened, Rows
  <2>3. job[j].plan # <<>> /\ Head(job[j].plan) = "redebit"
    BY <1>6 DEF At
  <2>4. job[j].tx.status # "none"
    BY <2>3, HeadBase
  <2> HIDE DEF tx
  <2>5. OnRoute(o, tx)
    BY <1>2, <2>2, <2>4, SameCopy
  <2>6. \A q \in Orders : OnRoute(q, row'[q])
    BY <1>2, <1>6
  <2>7. QED
    BY <1>3, <2>1, <2>5, <2>6, ContinueRetry
<1>7. ASSUME UNCHANGED row, NEW plan, Continue(j, job[j].tx, plan) PROVE RetryInv'
  <2>1. \A q \in Orders : OnRoute(q, row'[q])
    BY <1>2, <1>7
  <2>2. QED
    BY <1>2, <1>3, <1>7, <2>1, ContinueRetry
<1>8. CASE Debit(j) \/ Credit(j) \/ Claim(j)
  <2>1. UNCHANGED row /\ (Proceed(j) \/ Abort(j))
    BY <1>8 DEF Debit, Credit, Claim
  <2>2. QED
    BY <1>2, <1>5, <2>1
<1>9. CASE HasRefund(j)
  <2>1. UNCHANGED row /\ \E plan : Continue(j, job[j].tx, plan)
    BY <1>9 DEF HasRefund
  <2>2. QED
    BY <1>7, <2>1
<1>10. CASE RedebitCheck(j)
  BY <1>6, <1>10 DEF RedebitCheck
<1>11. CASE Insert(j) \/ Save(j)
  <2>1. row' = [row EXCEPT ![o] = job[j].tx] /\ Proceed(j)
    BY <1>11 DEF Insert, Save
  <2>2. QED
    BY <1>2, <1>4, <1>5, <2>1
<1>12. CASE UpdateStatus(j)
  <2> DEFINE r == [row[o] EXCEPT !.status = job[j].tx.status]
  <2>1. /\ row' = [row EXCEPT ![o] = r] /\ Proceed(j)
        /\ job[j].plan # <<>> /\ Head(job[j].plan) = "status"
    BY <1>1, <1>12 DEF UpdateStatus, At
  <2>2. r.prov = row[o].prov /\ r.ref = row[o].ref
    BY <1>1 DEF Rows
  <2>3. row[o].status # "none"
    BY <2>1, HeadBase
  <2> HIDE DEF r
  <2>4. OnRoute(o, r)
    BY <1>1, <1>2, <2>2, <2>3, SameCopy
  <2>5. QED
    BY <1>4, <1>5, <2>1, <2>4
<1>13. CASE Mark(j)
  <2>1. CASE ~MarksPending(o)
    BY <1>2, <1>5, <1>13, <2>1 DEF Mark
  <2>2. CASE MarksPending(o)
    <3> DEFINE r == [row[o] EXCEPT !.status = "processing", !.verified = TRUE]
    <3>1. row' = [row EXCEPT ![o] = r] /\ Proceed(j)
      BY <1>1, <1>13, <2>2 DEF Mark
    <3>2. r.prov = row[o].prov /\ r.ref = row[o].ref /\ row[o].status # "none"
      BY <1>1, <2>2 DEF Rows, MarksPending
    <3> HIDE DEF r
    <3>3. OnRoute(o, r)
      BY <1>1, <1>2, <3>2, SameCopy
    <3>4. QED
      BY <1>4, <1>5, <3>1, <3>3
  <2>3. QED
    BY <2>1, <2>2
<1>14. CASE Load(j)
  <2>1. UNCHANGED row /\ (Continue(j, row[o], Rest(j)) \/ Abort(j))
    BY <1>14 DEF Load
  <2>2. \A q \in Orders : OnRoute(q, row'[q])
    BY <1>2, <2>1
  <2>3. QED
    BY <1>1, <1>2, <1>3, <1>5, <2>1, <2>2, ContinueRetry
<1>15. CASE Reread(j)
  <2> DEFINE tx == applyResult(row[o], job[j].reply, job[j].src)
  <2>1. UNCHANGED row /\ (Abort(j) \/ (row[o].status = "processing" /\ \E plan : Continue(j, tx, plan)))
    BY <1>15 DEF Reread, Apply
  <2>2. \A q \in Orders : OnRoute(q, row'[q])
    BY <1>2, <2>1
  <2>3. tx.prov = row[o].prov /\ tx.ref = row[o].ref
    BY <1>1 DEF applyResult, Rows
  <2> HIDE DEF tx
  <2>4. row[o].status = "processing" => OnRoute(o, tx)
    BY <1>1, <1>2, <2>3, SameCopy
  <2>5. QED
    BY <1>3, <1>5, <2>1, <2>2, <2>4, ContinueRetry
<1>16. CASE StatementFails(j)
  <2>1. UNCHANGED row /\ job[j].plan # <<>>
    BY <1>16 DEF StatementFails
  <2>2. \/ \E plan : Continue(j, job[j].tx, plan)
        \/ Head(job[j].plan) = "redebit" /\ Redebit(j, FALSE)
        \/ Proceed(j) \/ Abort(j)
    BY <1>16, Zenon DEF StatementFails
  <2>3. QED
    BY <1>2, <1>5, <1>6, <1>7, <2>1, <2>2 DEF At
<1>17. QED
  BY <1>8, <1>9, <1>10, <1>11, <1>12, <1>13, <1>14, <1>15, <1>16 DEF Statement

\* The tables after a call for the order's one ref_id.
LEMMA PlacedRetry ==
    ASSUME StaysOnRoute, TypeOK, RetryInv, NEW j \in Jobs, OthersKeep(j),
           NEW tx \in Rows, tx.ref = lastRef[job[j].ord], NEW call \in {"purchase", "check"},
           NEW x \in Answers(job[j].ord, route, tx, call),
           placed' = [placed EXCEPT ![job[j].ord] = x.orders],
           UNCHANGED <<row, route, lastRef>>, OnRoute(job'[j].ord, job'[j].tx)
    PROVE  RetryInv'
<1> DEFINE o == job[j].ord
<1>1. /\ o \in Orders /\ AtRoute(o) /\ placed \in [Orders -> Seq(PlacedOrders)]
      /\ row' = row /\ route' = route /\ lastRef' = lastRef /\ route \in Providers
  BY JobFacts DEF TypeOK, RetryInv
<1>2. KnownRules /\ route \notin Kiosgamer
  BY <1>1, ProviderAssumption DEF StaysOnRoute, KnownRules
<1>3. /\ x.orders \in Seq(PlacedOrders)
      /\ \/ x.orders = placed[o]
         \/ /\ Len(x.orders) = 1
            /\ x.orders[1].prov = route /\ x.orders[1].ref = lastRef[o]
  BY <1>1, <1>2, AnswersOnce
<1>4. /\ Len(x.orders) <= 1
      /\ \A i \in DOMAIN x.orders : x.orders[i].prov = route /\ x.orders[i].ref = lastRef[o]
  <2>1. CASE x.orders = placed[o]
    BY <1>1, <2>1 DEF AtRoute
  <2>2. CASE x.orders # placed[o]
    <3>1. Len(x.orders) = 1 /\ x.orders[1].prov = route /\ x.orders[1].ref = lastRef[o]
      BY <1>3, <2>2
    <3>2. \A i \in DOMAIN x.orders : i = 1
      BY <1>3, <3>1
    <3>3. 1 <= 1
      OBVIOUS
    <3>4. QED
      BY <3>1, <3>2, <3>3, Zenon
  <2>3. QED
    BY <2>1, <2>2
<1>5. placed'[o] = x.orders /\ \A q \in Orders : q # o => placed'[q] = placed[q]
  BY <1>1
<1>6. ASSUME NEW q \in Orders PROVE AtRoute(q)'
  <2>1. CASE q = o
    BY <1>1, <1>4, <1>5, <2>1, Zenon DEF AtRoute, OnRoute
  <2>2. CASE q # o
    BY <1>1, <1>5, <2>2 DEF RetryInv, AtRoute, OnRoute
  <2>3. QED
    BY <2>1, <2>2
<1>7. \A k \in Jobs : OnRoute(job[k].ord, job[k].tx)'
  BY <1>1 DEF RetryInv, OnRoute, OthersKeep
<1>8. QED
  BY <1>6, <1>7 DEF RetryInv

LEMMA ApplyRetry ==
    ASSUME TypeOK, NEW j \in Jobs, NEW tx \in Rows, NEW reply, NEW src,
           Apply(j, tx, reply, src), OnRoute(job[j].ord, tx), tx.status # "none"
    PROVE  OthersKeep(j) /\ OnRoute(job'[j].ord, job'[j].tx)
<1> DEFINE new == applyResult(tx, reply, src)
<1>1. new.prov = tx.prov /\ new.ref = tx.ref
  BY DEF applyResult, Rows
<1>2. Abort(j) \/ Continue(j, new, ResultWrites(job[j].ord, reply, src))
  BY DEF Apply
<1> HIDE DEF new
<1>3. OnRoute(job[j].ord, new)
  BY <1>1, SameCopy
<1>4. CASE Abort(j)
  <2>1. OthersKeep(j) /\ job'[j] = IdleJob
    BY <1>4, AbortFields
  <2>2. QED
    BY <2>1 DEF OnRoute, IdleJob, NoRow
<1>5. CASE Continue(j, new, ResultWrites(job[j].ord, reply, src))
  <2>1. ResultWrites(job[j].ord, reply, src) # <<>>
    BY ResultWritesOps
  <2>2. OthersKeep(j) /\ job'[j].ord = job[j].ord /\ job'[j].tx = new
    BY <1>5, <2>1, ContinueFields
  <2>3. QED
    BY <1>3, <2>2
<1>6. QED
  BY <1>2, <1>4, <1>5

LEMMA CallRetry ==
    ASSUME StaysOnRoute, TypeOK, BaseInv, RetryInv, NEW j \in Jobs, Call(j)
    PROVE  RetryInv'
<1> DEFINE o == job[j].ord
           p == RouteOf(job[j].tx, route)
           buy == shouldPurchaseInsteadOfCheck(job[j].tx)
           src == IF buy THEN "fulfill" ELSE job[j].kind
           call == IF buy THEN "purchase" ELSE "check"
<1>1. /\ job \in [Jobs -> JobStates] /\ job[j] \in JobStates
      /\ o \in Orders /\ job[j].tx \in Rows
  BY JobFacts DEF TypeOK
<1>2. /\ job[j].plan # <<>> /\ Head(job[j].plan) \in {"purchase", "check"}
      /\ UNCHANGED <<row, route, lastRef>>
  BY DEF Call, Purchase, Check, At
<1>3. job[j].tx.status # "none"
  BY <1>2, HeadBase
<1>4. /\ OnRoute(o, job[j].tx) /\ job[j].tx.prov = route /\ job[j].tx.ref = lastRef[o]
      /\ \A q \in Orders : OnRoute(q, row'[q])
  BY <1>2, <1>3 DEF RetryInv, AtRoute, OnRoute
<1>5. CASE Purchase(j)
  <2>1. p = route
    BY <1>4 DEF RouteOf
  <2>2. Noted(j, route) = job[j].tx
    <3>1. [job[j].tx EXCEPT !.prov = route] = job[j].tx
      BY <1>1, <1>4 DEF Rows
    <3>2. QED
      BY <3>1 DEF Noted
  <2>3. CASE /\ \E q \in {job[j].tx.prov, p} :
                    Continue(j, recordConfigurationError(Noted(j, q)), <<"save">>)
             /\ UNCHANGED placed
    <3> DEFINE held == recordConfigurationError(job[j].tx)
    <3>1. held.prov = job[j].tx.prov /\ held.ref = job[j].tx.ref
      BY <1>1, ParkedType
    <3>2. Continue(j, held, <<"save">>)
      BY <1>4, <2>1, <2>2, <2>3
    <3> HIDE DEF held
    <3>3. OnRoute(o, held)
      BY <1>3, <1>4, <3>1, SameCopy
    <3>4. QED
      BY <1>2, <1>4, <2>3, <3>2, <3>3, ContinueRetry
  <2>4. CASE \E x \in Answers(o, p, job[j].tx, "purchase") :
                /\ placed' = [placed EXCEPT ![o] = x.orders]
                /\ Apply(j, Noted(j, p), x.reply, "fulfill")
    <3>1. PICK x \in Answers(o, route, job[j].tx, "purchase") :
                /\ placed' = [placed EXCEPT ![o] = x.orders]
                /\ Apply(j, job[j].tx, x.reply, "fulfill")
      BY <2>1, <2>2, <2>4
    <3>2. OthersKeep(j) /\ OnRoute(job'[j].ord, job'[j].tx)
      BY <1>1, <1>3, <1>4, <3>1, ApplyRetry
    <3>3. QED
      BY <1>1, <1>2, <1>4, <3>1, <3>2, PlacedRetry
  <2>5. QED
    BY <1>5, <2>3, <2>4, Zenon DEF Purchase
<1>6. CASE Check(j)
  <2>1. CASE Abort(j) /\ UNCHANGED placed
    BY <1>2, <1>4, <2>1, AbortRetry
  <2>2. CASE \E x \in Answers(o, job[j].tx.prov, job[j].tx, call) :
                /\ placed' = [placed EXCEPT ![o] = x.orders]
                /\ IF job[j].kind = "reconcile"
                   THEN job' = [job EXCEPT ![j].tx = NoRow, ![j].plan = <<"reread">>,
                                           ![j].reply = x.reply, ![j].src = src]
                   ELSE Apply(j, job[j].tx, x.reply, src)
    <3>1. call \in {"purchase", "check"}
      OBVIOUS
    <3>2. PICK x \in Answers(o, route, job[j].tx, call) :
                /\ placed' = [placed EXCEPT ![o] = x.orders]
                /\ IF job[j].kind = "reconcile"
                   THEN job' = [job EXCEPT ![j].tx = NoRow, ![j].plan = <<"reread">>,
                                           ![j].reply = x.reply, ![j].src = src]
                   ELSE Apply(j, job[j].tx, x.reply, src)
      BY <1>4, <2>2
    <3> HIDE DEF call, src, buy
    <3>3. OthersKeep(j) /\ OnRoute(job'[j].ord, job'[j].tx)
      <4>1. CASE job[j].kind = "reconcile"
        <5>1. job' = [job EXCEPT ![j] =
                          [job[j] EXCEPT !.tx = NoRow, !.plan = <<"reread">>,
                                         !.reply = x.reply, !.src = src]]
          BY <1>1, <3>2, <4>1
        <5>2. OthersKeep(j) /\ job'[j].tx = NoRow
          BY <1>1, <5>1 DEF OthersKeep, JobStates
        <5>3. QED
          BY <5>2, IdleFacts DEF OnRoute
      <4>2. CASE job[j].kind # "reconcile"
        BY <1>1, <1>3, <1>4, <3>2, <4>2, ApplyRetry
      <4>3. QED
        BY <4>1, <4>2
    <3>4. QED
      BY <1>1, <1>2, <1>4, <3>1, <3>2, <3>3, PlacedRetry
  <2>3. QED
    BY <1>6, <2>1, <2>2, Zenon DEF Check
<1>7. QED
  BY <1>5, <1>6 DEF Call

\* A handler that starts on the order's row, or without a copy of it.
LEMMA StartRetry ==
    ASSUME TypeOK, RetryInv, NEW j \in Jobs, NEW k, NEW o \in Orders, NEW tx, NEW plan,
           Start(j, k, o, tx, plan), plan # <<>>, UNCHANGED <<row, placed, route, lastRef>>,
           \/ tx.status = "none"
           \/ row[o].status # "none" /\ tx.prov = row[o].prov /\ tx.ref = row[o].ref
    PROVE  RetryInv'
<1>1. OthersKeep(j) /\ job'[j].ord = o /\ job'[j].tx = tx
  BY StartFields
<1>2. \A q \in Orders : OnRoute(q, row'[q])
  BY DEF RetryInv, AtRoute
<1>3. OnRoute(o, row[o])
  BY DEF RetryInv, AtRoute
<1>4. OnRoute(o, tx)
  BY <1>3 DEF OnRoute
<1>5. QED
  BY <1>1, <1>2, <1>4, RetryFrame

LEMMA CreateRetry ==
    ASSUME TypeOK, BaseInv, RetryInv, NEW j \in Jobs, NEW o \in Orders, CreateOrder(j, o)
    PROVE  RetryInv'
<1> DEFINE ref == lastRef[o] + 1
           tx == NewRow(o, route, ref)
           plan == CreatePlan(o)
<1>1. /\ Start(j, "order", o, tx, plan) /\ row[o] = NoRow
      /\ UNCHANGED <<row, placed, route>>
      /\ lastRef' = [lastRef EXCEPT ![o] = ref]
      /\ \A k \in Jobs : job[k].kind = "idle" \/ job[k].ord # o
  BY DEF CreateOrder, EntryFrame
<1>2. lastRef \in [Orders -> 0 .. MaxRefs]
  BY DEF TypeOK
<1>3. plan \in CreatePlans /\ tx.prov = route /\ tx.ref = ref
  BY DEF CreatePlan, CreatePlans, NewRow, NoRow
<1> HIDE DEF tx, plan, ref
<1>4. OthersKeep(j) /\ job'[j].ord = o /\ job'[j].tx = tx
  BY <1>1, <1>3, StartingPlans, StartFields
<1>5. lastRef'[o] = ref /\ \A q \in Orders : q # o => lastRef'[q] = lastRef[q]
  BY <1>1, <1>2
<1>6. row' = row /\ placed' = placed /\ route' = route /\ row[o].status = "none"
      /\ placed[o] = <<>>
  BY <1>1, IdleFacts DEF BaseInv, GoodOrder
<1>7. ASSUME NEW q \in Orders PROVE AtRoute(q)'
  <2>1. AtRoute(q)
    BY DEF RetryInv
  <2>2. CASE q = o
    BY <1>6, <2>1, <2>2 DEF AtRoute, OnRoute
  <2>3. CASE q # o
    BY <1>5, <1>6, <2>1, <2>3 DEF AtRoute, OnRoute
  <2>4. QED
    BY <2>2, <2>3
<1>8. ASSUME NEW k \in Jobs PROVE OnRoute(job[k].ord, job[k].tx)'
  <2>1. CASE k = j
    BY <1>3, <1>4, <1>5, <1>6, <2>1 DEF OnRoute
  <2>2. CASE k # j /\ job[k] = IdleJob
    BY <1>4, <2>2 DEF OnRoute, OthersKeep, IdleJob, NoRow
  <2>3. CASE k # j /\ job[k] # IdleJob
    <3>1. job[k].kind \in Kinds
      BY <2>3 DEF BaseInv, GoodHandler, Runs
    <3>2. job[k].ord # o /\ job[k].ord \in Orders
      BY <1>1, <3>1, LifecycleAssumption, JobFacts DEF AllKinds, TypeOK
    <3>3. job'[k] = job[k] /\ OnRoute(job[k].ord, job[k].tx)
      BY <1>4, <2>3 DEF OthersKeep, RetryInv
    <3>4. QED
      BY <1>5, <1>6, <3>2, <3>3 DEF OnRoute
  <2>4. QED
    BY <2>1, <2>2, <2>3
<1>9. QED
  BY <1>7, <1>8 DEF RetryInv

LEMMA AutomaticEntryRetry ==
    ASSUME TypeOK, BaseInv, RetryInv, NEW j \in Jobs, NEW o \in Orders, AutomaticEntry(j, o)
    PROVE  RetryInv'
<1>1. row[o] \in Rows
  BY DEF TypeOK
<1>2. CASE CreateOrder(j, o)
  BY <1>2, CreateRetry
<1>3. CASE HandlePaymentSuccess(j, o)
  <2> DEFINE failed == [row[o] EXCEPT !.status = "failed"]
  <2>1. /\ UNCHANGED <<row, placed, route, lastRef>> /\ row[o].status # "none"
        /\ \/ Start(j, "pay", o, failed, <<"status">>)
           \/ Start(j, "pay", o, row[o], <<"mark", "purchase">>)
    BY <1>3 DEF HandlePaymentSuccess, EntryFrame, FindByInvoiceNumber
  <2>2. failed.prov = row[o].prov /\ failed.ref = row[o].ref
    BY <1>1 DEF Rows
  <2> HIDE DEF failed
  <2>3. QED
    BY <2>1, <2>2, StartingPlans, StartRetry
<1>4. CASE \E i \in DOMAIN placed[o] : HandleProviderCallback(j, o, i)
  <2>1. PICK i \in DOMAIN placed[o] : HandleProviderCallback(j, o, i)
    BY <1>4
  <2>2. PICK r : Start(j, "callback", o, applyResult(row[o], r, "callback"),
                       ResultWrites(o, r, "callback"))
    BY <2>1 DEF HandleProviderCallback
  <2> DEFINE tx == applyResult(row[o], r, "callback")
             plan == ResultWrites(o, r, "callback")
  <2>3. row[o].status # "none" /\ UNCHANGED <<row, placed, route, lastRef>>
    BY <2>1 DEF HandleProviderCallback, EntryFrame
  <2>4. tx.prov = row[o].prov /\ tx.ref = row[o].ref
    BY <1>1 DEF applyResult, Rows
  <2>5. plan # <<>>
    BY ResultWritesOps
  <2> HIDE DEF tx, plan
  <2>6. Start(j, "callback", o, tx, plan)
    BY <2>2 DEF tx, plan
  <2>7. QED
    BY <2>3, <2>4, <2>5, <2>6, StartRetry
<1>5. CASE CheckProviderStatus(j, o)
  <2>1. /\ Start(j, "check", o, row[o], <<"check">>) /\ row[o].status # "none"
        /\ UNCHANGED <<row, placed, route, lastRef>>
    BY <1>5 DEF CheckProviderStatus, EntryFrame
  <2>2. QED
    BY <2>1, StartingPlans, StartRetry
<1>6. CASE ReconcileProcessingTransaction(j, o)
  <2>1. /\ Start(j, "reconcile", o, NoRow, <<"claim", "load", "check">>)
        /\ UNCHANGED <<row, placed, route, lastRef>>
    BY <1>6 DEF ReconcileProcessingTransaction, EntryFrame
  <2>2. QED
    BY <2>1, StartingPlans, IdleFacts, StartRetry
<1>7. CASE RetryDigiflazzBalanceHolds(j, o)
  <2> DEFINE tx == [row[o] EXCEPT !.pst = "retrysaldo"]
  <2>1. /\ Start(j, "holdRetry", o, tx, <<"claim", "save", "purchase">>)
        /\ row[o].status = "processing" /\ UNCHANGED <<row, placed, route, lastRef>>
    BY <1>7 DEF RetryDigiflazzBalanceHolds, EntryFrame
  <2>2. tx.prov = row[o].prov /\ tx.ref = row[o].ref
    BY <1>1 DEF Rows
  <2> HIDE DEF tx
  <2>3. QED
    BY <2>1, <2>2, StartingPlans, StartRetry
<1>8. QED
  BY <1>2, <1>3, <1>4, <1>5, <1>6, <1>7 DEF AutomaticEntry

LEMMA ReopeningRetry ==
    ASSUME TypeOK, RetryInv, NEW j \in Jobs, NEW k, NEW o \in Orders,
           NEW plan \in {<<"save", "purchase">>, <<"save", "status">>},
           row[o].status # "none", StartReopening(j, k, o, row[o], plan),
           UNCHANGED <<row, placed, route, lastRef>>
    PROVE  RetryInv'
<1> DEFINE new == Reopened(k, row[o])
<1>1. row[o] \in Rows
  BY DEF TypeOK
<1>2. new.prov = row[o].prov /\ new.ref = row[o].ref
  BY <1>1 DEF Reopened, Rows
<1>3. \/ Start(j, k, o, row[o], <<"redebit">> \o plan)
      \/ Start(j, k, o, new, plan)
  BY DEF StartReopening
<1> HIDE DEF new
<1>4. <<"redebit">> \o plan # <<>> /\ plan # <<>>
  <2>1. <<"save", "purchase">> \in Seq(Ops) /\ <<"save", "status">> \in Seq(Ops)
    BY DEF Ops
  <2>2. <<"redebit">> \in Seq(Ops) /\ <<"redebit">> # <<>>
    BY DEF Ops
  <2>3. plan \in Seq(Ops) /\ plan # <<>>
    BY <2>1, StartingPlans
  <2>4. QED
    BY <2>2, <2>3
<1>5. QED
  BY <1>2, <1>3, <1>4, StartRetry

LEMMA AdminEntryRetry ==
    ASSUME StaysOnRoute, TypeOK, RetryInv, NEW j \in Jobs, NEW o \in Orders, AdminEntry(j, o)
    PROVE  RetryInv'
<1>1. row[o] \in Rows /\ OnRoute(o, row[o])
  BY DEF TypeOK, RetryInv, AtRoute
<1>2. MaxAdmin > 0
  BY AdminNeedsBound
<1>3. CASE ManualRetry(j, o)
  <2>1. row[o].status # "none"
    BY <1>3 DEF ManualRetry
  <2>2. prepareProviderSwitchForRetry(row[o], route, lastRef[o] + 1) = row[o]
    BY <1>1, <2>1 DEF prepareProviderSwitchForRetry, OnRoute
  <2>3. lastRef' = [lastRef EXCEPT ![o] = lastRef[o]] /\ lastRef \in [Orders -> 0 .. MaxRefs]
    BY <1>3, <2>2 DEF ManualRetry, TypeOK
  <2>4. /\ UNCHANGED <<row, placed, route, lastRef>>
        /\ StartReopening(j, "retry", o, row[o], <<"save", "purchase">>)
    BY <1>3, <2>2, <2>3 DEF ManualRetry, EntryFrame
  <2>5. QED
    BY <2>1, <2>4, ReopeningRetry
<1>4. CASE ManualSetSuccess(j, o)
  <2>1. /\ row[o].status # "none" /\ UNCHANGED <<row, placed, route, lastRef>>
        /\ StartReopening(j, "setSuccess", o, row[o], <<"save", "status">>)
    BY <1>4 DEF ManualSetSuccess, EntryFrame
  <2>2. QED
    BY <2>1, ReopeningRetry
<1>5. CASE ManualRefund(j, o)
  <2> DEFINE tx == [row[o] EXCEPT !.status = "refunded", !.pst = "held"]
             plan == RefundOrAbort(o) \o <<"save", "status">>
  <2>1. /\ Start(j, "refund", o, tx, plan) /\ row[o].status # "none"
        /\ UNCHANGED <<row, placed, route, lastRef>>
    BY <1>5 DEF ManualRefund, EntryFrame
  <2>2. tx.prov = row[o].prov /\ tx.ref = row[o].ref
    BY <1>1 DEF Rows
  <2>3. plan # <<>>
    BY DEF RefundOrAbort
  <2> HIDE DEF tx, plan
  <2>4. QED
    BY <2>1, <2>2, <2>3, StartRetry
<1>6. CASE ManualSetFailed(j, o)
  <2> DEFINE tx == [row[o] EXCEPT !.status = "failed", !.pst = "held"]
             plan == RefundOrAbort(o) \o <<"save">>
  <2>1. /\ Start(j, "setFailed", o, tx, plan) /\ row[o].status = "processing"
        /\ UNCHANGED <<row, placed, route, lastRef>>
    BY <1>6 DEF ManualSetFailed, EntryFrame
  <2>2. tx.prov = row[o].prov /\ tx.ref = row[o].ref
    BY <1>1 DEF Rows
  <2>3. plan # <<>>
    BY DEF RefundOrAbort
  <2> HIDE DEF tx, plan
  <2>4. QED
    BY <2>1, <2>2, <2>3, StartRetry
<1>7. CASE BulkRetryWithProvider(j, o)
  <2> DEFINE tx == [row[o] EXCEPT !.exch = FALSE, !.pst = "held"]
  <2>1. /\ Start(j, "switch", o, tx, <<"saveOrAbort", "purchase">>)
        /\ row[o].status = "processing" /\ UNCHANGED <<row, placed, route, lastRef>>
    BY <1>7 DEF BulkRetryWithProvider, EntryFrame
  <2>2. tx.prov = row[o].prov /\ tx.ref = row[o].ref
    BY <1>1 DEF Rows
  <2> HIDE DEF tx
  <2>3. QED
    BY <2>1, <2>2, StartingPlans, StartRetry
<1>8. CASE RegenerateProviderRefID(j, o)
  <2>1. "regen" \in Kinds
    BY <1>8 DEF RegenerateProviderRefID, Start
  <2>2. QED
    BY <1>2, <2>1 DEF StaysOnRoute, Runs
<1>9. QED
  BY <1>3, <1>4, <1>5, <1>6, <1>7, <1>8 DEF AdminEntry

LEMMA WorldRetry ==
    ASSUME StaysOnRoute, TypeOK, RetryInv, World \/ UNCHANGED vars
    PROVE  RetryInv'
<1>1. ASSUME UNCHANGED <<row, placed, route, lastRef>>,
             \A k \in Jobs : job'[k] = job[k] \/ job'[k] = IdleJob
      PROVE  RetryInv'
  <2>1. row' = row /\ placed' = placed /\ route' = route /\ lastRef' = lastRef
    BY <1>1
  <2>2. \A o \in Orders : AtRoute(o)'
    BY <2>1 DEF RetryInv, AtRoute, OnRoute
  <2>3. IdleJob.tx.status = "none"
    BY DEF IdleJob, NoRow
  <2>4. ASSUME NEW k \in Jobs PROVE OnRoute(job[k].ord, job[k].tx)'
    <3>1. CASE job'[k] = job[k]
      BY <2>1, <3>1 DEF RetryInv, OnRoute
    <3>2. CASE job'[k] = IdleJob
      BY <2>3, <3>2 DEF OnRoute
    <3>3. QED
      BY <1>1, <3>1, <3>2
  <2>5. QED
    BY <2>2, <2>4 DEF RetryInv
<1>2. CASE UNCHANGED vars
  BY <1>1, <1>2 DEF vars
<1>3. CASE \E o \in Orders : Age(o)
  BY <1>1, <1>3 DEF Age
<1>4. CASE \E o \in Orders : \E i \in DOMAIN placed[o] : Decide(o, i)
  <2> PICK o \in Orders : \E i \in DOMAIN placed[o] : Decide(o, i)
    BY <1>4
  <2> PICK i \in DOMAIN placed[o] : Decide(o, i)
    OBVIOUS
  <2>1. PICK s \in {"success", "failed"} :
           /\ placed' = [placed EXCEPT ![o][i].state = s]
           /\ UNCHANGED <<row, route, lastRef, job>>
    BY DEF Decide
  <2>2. /\ placed \in [Orders -> Seq(PlacedOrders)] /\ placed[o][i] \in PlacedOrders
        /\ placed[o] \in Seq(PlacedOrders)
        /\ row' = row /\ route' = route /\ lastRef' = lastRef /\ job' = job
    BY <2>1 DEF TypeOK
  <2>3. /\ placed'[o] = [placed[o] EXCEPT ![i] = [placed[o][i] EXCEPT !.state = s]]
        /\ \A q \in Orders : q # o => placed'[q] = placed[q]
    BY <2>1, <2>2
  <2>4. /\ DOMAIN placed'[o] = DOMAIN placed[o] /\ Len(placed'[o]) = Len(placed[o])
        /\ \A n \in DOMAIN placed[o] :
              placed'[o][n].prov = placed[o][n].prov /\ placed'[o][n].ref = placed[o][n].ref
    BY <2>2, <2>3 DEF PlacedOrders
  <2>5. ASSUME NEW q \in Orders PROVE AtRoute(q)'
    <3>1. AtRoute(q)
      BY DEF RetryInv
    <3>2. CASE q = o
      BY <2>2, <2>4, <3>1, <3>2, Zenon DEF AtRoute, OnRoute
    <3>3. CASE q # o
      BY <2>2, <2>3, <3>1, <3>3 DEF AtRoute, OnRoute
    <3>4. QED
      BY <3>2, <3>3
  <2>6. \A k \in Jobs : OnRoute(job[k].ord, job[k].tx)'
    BY <2>2 DEF RetryInv, OnRoute
  <2>7. QED
    BY <2>5, <2>6 DEF RetryInv
<1>5. CASE SwitchProvider
  <2>1. "reroute" \in Kinds /\ MaxAdmin > 0
    BY <1>5, AdminNeedsBound DEF SwitchProvider
  <2>2. QED
    BY <2>1 DEF StaysOnRoute, Runs
<1>6. CASE Crash
  BY <1>1, <1>6 DEF Crash
<1>7. QED
  BY <1>2, <1>3, <1>4, <1>5, <1>6 DEF World

\* However often an admin retries an order, moves it with the bulk retry, refunds
\* it or sets its status by hand, and whatever handlers run meanwhile, one order
\* exists at the provider, as long as the product stays on its route and no new
\* ref_id is made: every copy of the row names the one provider and the one
\* ref_id, so the provider takes each purchase after the first for the same order.
\* A new route breaks it even for handlers that take turns: see README, 5.
THEOREM RetriedOnce ==
    ASSUME StaysOnRoute
    PROVE  Spec => []NoDoubleDelivery
<1>1. Init => RetryInv
  <2> SUFFICES ASSUME Init PROVE RetryInv
    OBVIOUS
  <2>1. \A o \in Orders : row[o] = NoRow /\ placed[o] = <<>>
    BY DEF Init
  <2>2. \A j \in Jobs : job[j].tx = NoRow
    BY DEF Init, IdleJob
  <2>3. QED
    BY <2>1, <2>2, IdleFacts DEF RetryInv, AtRoute, OnRoute
<1>2. TypeOK /\ BaseInv /\ RetryInv /\ [Next]_vars => RetryInv'
  <2> SUFFICES ASSUME TypeOK, BaseInv, RetryInv, [Next]_vars PROVE RetryInv'
    OBVIOUS
  <2>1. CASE \E j \in Jobs : Statement(j) \/ Call(j) \/ StatementFails(j)
    BY <2>1, StatementRetry, CallRetry
  <2>2. CASE \E j \in Jobs, o \in Orders : AutomaticEntry(j, o) \/ AdminEntry(j, o)
    BY <2>2, AutomaticEntryRetry, AdminEntryRetry
  <2>3. CASE World \/ UNCHANGED vars
    BY <2>3, WorldRetry
  <2>4. QED
    BY <2>1, <2>2, <2>3 DEF Next
<1>3. ASSUME TypeOK, RetryInv, NEW o \in Orders
      PROVE  Cardinality({i \in DOMAIN placed[o] : placed[o][i].state # "failed"}) <= 1
  BY <1>3, OneLives DEF TypeOK, RetryInv, AtRoute
<1>4. TypeOK /\ RetryInv => NoDoubleDelivery
  BY <1>3 DEF NoDoubleDelivery
<1>5. QED
  BY <1>1, <1>2, <1>4, TypeCorrect, BaseInvariant, PTL DEF Spec

-------------------------------------------------------------------------------
(* SettleInv: what a step keeps.                                           *)

SettlingNext(o) ==
    \/ refunds'[o] >= 1
    \/ \E j \in Jobs : job'[j].ord = o /\ Has(job'[j].plan, Credits)

\* The tables a step of job j leaves: money only comes back, only the creation
\* of an order charges it, and a failed row is being settled.
TablesSettle(j) ==
    /\ \A o \in Orders : refunds'[o] \in Nat /\ refunds'[o] >= refunds[o]
    /\ \A o \in Orders : debits'[o] <= 1
    /\ \A k \in Jobs : k # j /\ Has(job[k].plan, {"debit"}) => debits'[job[k].ord] = 0
    /\ \A o \in Orders :
          IsSaldo(o) /\ row'[o].status = "failed" => Settling(o) \/ SettlingNext(o)

\* Job j does not drop a credit it has planned.
CreditKept(j) ==
    Has(job[j].plan, Credits) =>
        \/ refunds'[job[j].ord] >= 1
        \/ job'[j].ord = job[j].ord /\ Has(job'[j].plan, Credits)

\* What a handler must be when it starts, or goes on, with tx and plan.
SettleWith(o, tx, plan) ==
    /\ Has(plan, {"debit"}) => plan = <<"debit", "insert", "purchase">> /\ debits'[o] = 0
    /\ ~Has(plan, {"redebit"})
    /\ Has(plan, Credits) => ~Has(plan, Ops \ WriteOps)
    /\ IsSaldo(o) /\ tx.status = "failed" => Settling(o) \/ Has(plan, Credits)

LEMMA SettlingStays ==
    ASSUME TypeOK, NEW j \in Jobs, OthersKeep(j), TablesSettle(j), CreditKept(j),
           NEW o \in Orders, Settling(o)
    PROVE  SettlingNext(o)
<1>1. CASE refunds[o] >= 1
  <2>1. refunds[o] \in Nat /\ refunds'[o] \in Nat /\ refunds'[o] >= refunds[o]
    BY DEF TypeOK, TablesSettle
  <2>2. refunds'[o] >= 1
    BY <1>1, <2>1
  <2>3. QED
    BY <2>2 DEF SettlingNext
<1>2. CASE \E k \in Jobs : job[k].ord = o /\ Has(job[k].plan, Credits)
  <2>1. PICK k \in Jobs : job[k].ord = o /\ Has(job[k].plan, Credits)
    BY <1>2
  <2>2. CASE k = j
    BY <2>1, <2>2 DEF CreditKept, SettlingNext
  <2>3. CASE k # j
    <3>1. job'[k] = job[k]
      BY <2>3 DEF OthersKeep
    <3>2. QED
      BY <2>1, <3>1 DEF SettlingNext
  <2>4. QED
    BY <2>2, <2>3
<1>3. QED
  BY <1>1, <1>2 DEF Settling

\* A handler that moves: what is left to show.
LEMMA SettleFrame ==
    ASSUME TypeOK, SettleInv, NEW j \in Jobs, OthersKeep(j), TablesSettle(j), CreditKept(j),
           job'[j] # IdleJob =>
               /\ job'[j].ord \in Orders
               /\ SettleWith(job'[j].ord, job'[j].tx, job'[j].plan)
    PROVE  SettleInv'
<1>1. \A o \in Orders : Settling(o) => SettlingNext(o)
  BY SettlingStays
<1>2. ASSUME NEW o \in Orders PROVE SettleOrder(o)'
  <2>1. /\ debits'[o] <= 1
        /\ IsSaldo(o) /\ row'[o].status = "failed" => SettlingNext(o)
    BY <1>1 DEF TablesSettle
  <2>2. QED
    BY <2>1 DEF SettleOrder, Settling, SettlingNext, IsSaldo, Has
<1>3. ASSUME NEW k \in Jobs, k # j, job[k] # IdleJob PROVE SettleHandler(job[k])'
  <2> DEFINE h == job[k]
  <2>1. job'[k] = h /\ h.ord \in Orders /\ SettleHandler(h)
    BY <1>3, JobFacts DEF OthersKeep, SettleInv, TypeOK
  <2>2. /\ Has(h.plan, {"debit"}) =>
              h.plan = <<"debit", "insert", "purchase">> /\ debits'[h.ord] = 0
        /\ ~Has(h.plan, {"redebit"})
        /\ Has(h.plan, Credits) => ~Has(h.plan, Ops \ WriteOps)
        /\ IsSaldo(h.ord) /\ h.tx.status = "failed" => SettlingNext(h.ord)
    BY <1>1, <1>3, <2>1 DEF SettleHandler, TablesSettle
  <2>3. QED
    BY <2>1, <2>2 DEF SettleHandler, Settling, SettlingNext, IsSaldo, Has
<1>4. ASSUME NEW k \in Jobs, k # j, job[k] = IdleJob PROVE SettleHandler(job[k])'
  BY <1>4 DEF OthersKeep, SettleHandler, IdleJob, NoRow, NoReply, Reply
<1>5. SettleHandler(job[j])'
  <2>1. CASE job'[j] = IdleJob
    BY <2>1 DEF SettleHandler
  <2>2. CASE job'[j] # IdleJob
    <3> DEFINE o == job'[j].ord
    <3>1. /\ Has(job'[j].plan, {"debit"}) =>
                job'[j].plan = <<"debit", "insert", "purchase">> /\ debits'[o] = 0
          /\ ~Has(job'[j].plan, {"redebit"})
          /\ Has(job'[j].plan, Credits) => ~Has(job'[j].plan, Ops \ WriteOps)
          /\ IsSaldo(o) /\ job'[j].tx.status = "failed" => SettlingNext(o)
      BY <1>1, <2>2 DEF SettleWith, SettlingNext
    <3>2. QED
      BY <3>1 DEF SettleHandler, Settling, SettlingNext, IsSaldo, Has
  <2>3. QED
    BY <2>1, <2>2
<1>6. QED
  BY <1>2, <1>3, <1>4, <1>5 DEF SettleInv

\* A handler that still does something else than a write has planned no credit.
LEMMA NoCreditYet ==
    ASSUME TypeOK, SettleInv, NEW j \in Jobs, job[j].plan # <<>>,
           Head(job[j].plan) \notin WriteOps
    PROVE  ~Has(job[j].plan, Credits)
<1>1. job[j].plan \in Seq(Ops) /\ SettleHandler(job[j]) /\ job[j] # IdleJob
  BY ActiveJob, JobFacts DEF SettleInv, TypeOK
<1>2. 1 \in DOMAIN job[j].plan /\ job[j].plan[1] = Head(job[j].plan) /\ job[j].plan[1] \in Ops
  BY <1>1
<1>3. Has(job[j].plan, Ops \ WriteOps)
  BY <1>2 DEF Has
<1>4. QED
  BY <1>1, <1>3 DEF SettleHandler

LEMMA AbortSettle ==
    ASSUME TypeOK, SettleInv, NEW j \in Jobs, TablesSettle(j), Abort(j),
           ~Has(job[j].plan, Credits)
    PROVE  SettleInv'
  BY AbortFields, SettleFrame DEF CreditKept

LEMMA ContinueSettle ==
    ASSUME TypeOK, SettleInv, NEW j \in Jobs, NEW tx, NEW plan, TablesSettle(j),
           Continue(j, tx, plan), SettleWith(job[j].ord, tx, plan),
           Has(job[j].plan, Credits) => refunds'[job[j].ord] >= 1 \/ Has(plan, Credits)
    PROVE  SettleInv'
<1>1. /\ OthersKeep(j) /\ (plan = <<>> => job'[j] = IdleJob)
      /\ plan # <<>> => /\ job'[j].ord = job[j].ord
                        /\ job'[j].tx = tx /\ job'[j].plan = plan
  BY ContinueFields
<1>2. job[j].ord \in Orders
  BY JobFacts DEF TypeOK
<1>3. CreditKept(j)
  BY <1>1, IdleFacts DEF CreditKept
<1>4. QED
  BY <1>1, <1>2, <1>3, SettleFrame

\* The handler goes on with its copy and the rest of its plan.
LEMMA ProceedSettle ==
    ASSUME TypeOK, SettleInv, NEW j \in Jobs, job[j].plan # <<>>, Proceed(j),
           TablesSettle(j), Head(job[j].plan) \in Credits => refunds'[job[j].ord] >= 1
    PROVE  SettleInv'
<1>1. /\ SettleHandler(job[j]) /\ job[j] # IdleJob /\ job[j].plan \in Seq(Ops)
      /\ Rest(j) = Tail(job[j].plan) /\ Continue(j, job[j].tx, Rest(j))
  BY ActiveJob, JobFacts DEF SettleInv, TypeOK, Proceed, Rest
<1>2. \A ops : Has(Rest(j), ops) => Has(job[j].plan, ops)
  BY <1>1, HasTail
<1>3. ~Has(Rest(j), {"debit"})
  <2>1. ~Has(Tail(<<"debit", "insert", "purchase">>), {"debit"})
    BY DEF Has
  <2>2. QED
    BY <1>1, <1>2, <2>1 DEF SettleHandler
<1>4. Has(job[j].plan, Credits) => Head(job[j].plan) \in Credits \/ Has(Rest(j), Credits)
  <2>1. ASSUME NEW i \in DOMAIN job[j].plan, job[j].plan[i] \in Credits, i # 1
        PROVE  Has(Rest(j), Credits)
    <3>1. i - 1 \in DOMAIN Rest(j) /\ Rest(j)[i - 1] = job[j].plan[i]
      BY <1>1, <2>1
    <3>2. QED
      BY <2>1, <3>1 DEF Has
  <2>2. Head(job[j].plan) = job[j].plan[1]
    BY <1>1
  <2>3. QED
    BY <2>1, <2>2 DEF Has
<1>5. SettleWith(job[j].ord, job[j].tx, Rest(j))
  BY <1>1, <1>2, <1>3 DEF SettleWith, SettleHandler
<1>6. QED
  BY <1>1, <1>4, <1>5, ContinueSettle

\* A step that writes no row and moves no money.
LEMMA SettleSame ==
    ASSUME TypeOK, SettleInv, NEW j \in Jobs, UNCHANGED <<row, debits, refunds>>
    PROVE  TablesSettle(j)
<1>1. row' = row /\ debits' = debits /\ refunds' = refunds /\ refunds \in [Orders -> Nat]
  BY DEF TypeOK
<1>2. \A o \in Orders : SettleOrder(o)
  BY DEF SettleInv
<1>3. \A k \in Jobs : Has(job[k].plan, {"debit"}) => debits[job[k].ord] = 0
  BY IdleFacts DEF SettleInv, SettleHandler
<1>4. \A o \in Orders : refunds'[o] \in Nat /\ refunds'[o] >= refunds[o]
  BY <1>1
<1>5. QED
  BY <1>1, <1>2, <1>3, <1>4 DEF TablesSettle, SettleOrder

\* A step that writes a row whose failure is being settled.
LEMMA SettleWritten ==
    ASSUME TypeOK, SettleInv, NEW j \in Jobs, NEW o \in Orders, NEW r,
           row' = [row EXCEPT ![o] = r], UNCHANGED <<debits, refunds>>,
           IsSaldo(o) /\ r.status = "failed" => Settling(o)
    PROVE  TablesSettle(j)
<1>1. /\ debits' = debits /\ refunds' = refunds /\ refunds \in [Orders -> Nat]
      /\ row'[o] = r /\ \A q \in Orders : q # o => row'[q] = row[q]
  BY DEF TypeOK
<1>2. \A q \in Orders : SettleOrder(q)
  BY DEF SettleInv
<1>3. \A k \in Jobs : Has(job[k].plan, {"debit"}) => debits[job[k].ord] = 0
  BY IdleFacts DEF SettleInv, SettleHandler
<1>4. \A q \in Orders : refunds'[q] \in Nat /\ refunds'[q] >= refunds[q]
  BY <1>1
<1>5. \A q \in Orders : IsSaldo(q) /\ row'[q].status = "failed" => Settling(q)
  BY <1>1, <1>2 DEF SettleOrder
<1>6. QED
  BY <1>1, <1>2, <1>3, <1>4, <1>5 DEF TablesSettle, SettleOrder

\* A final failure of an order paid from a balance plans its credit, after
\* writes only.
LEMMA ResultSettles ==
    ASSUME NEW o, NEW reply, NEW src
    PROVE  /\ IsSaldo(o) /\ reply.kind \in {"failed", "errFinal"} =>
                 Has(ResultWrites(o, reply, src), Credits)
           /\ \A ops : ops \cap WriteOps = {} => ~Has(ResultWrites(o, reply, src), ops)
<1>1. \A ops : ops \cap WriteOps = {} => ~Has(ResultWrites(o, reply, src), ops)
  BY ResultWritesOps, WritesHaveNot
<1>2. ASSUME IsSaldo(o), reply.kind \in {"failed", "errFinal"}
      PROVE  Has(ResultWrites(o, reply, src), Credits)
  <2> DEFINE first == <<"status">> \o <<"hasRefund", "credit">> \o <<"save">>
             second == <<"save", "status">> \o <<"hasRefund", "credit">>
  <2>1. safeRefundTransaction(o) = <<"hasRefund", "credit">>
    BY <1>2 DEF safeRefundTransaction
  <2>2. ResultWrites(o, reply, src) = first \/ ResultWrites(o, reply, src) = second
    BY <1>2, <2>1, Zenon DEF ResultWrites
  <2>3. 3 \in DOMAIN first /\ first[3] = "credit"
    OBVIOUS
  <2>4. 4 \in DOMAIN second /\ second[4] = "credit"
    OBVIOUS
  <2> HIDE DEF first, second
  <2>5. QED
    BY <2>2, <2>3, <2>4 DEF Has, Credits
<1>3. QED
  BY <1>1, <1>2

\* applyResult, by a handler that has planned no credit yet.
LEMMA ApplySettle ==
    ASSUME TypeOK, SettleInv, NEW j \in Jobs, NEW tx \in Rows, NEW reply, NEW src,
           TablesSettle(j), Apply(j, tx, reply, src), ~Has(job[j].plan, Credits),
           IsSaldo(job[j].ord) /\ tx.status = "failed" => Settling(job[j].ord)
    PROVE  SettleInv'
<1>1. CASE Dropped(reply, src)
  BY <1>1, AbortSettle DEF Apply
<1>2. CASE ~Dropped(reply, src)
  <2> DEFINE plan == ResultWrites(job[j].ord, reply, src)
             new == applyResult(tx, reply, src)
  <2>1. Continue(j, new, plan)
    BY <1>2 DEF Apply
  <2>2. new.status = ResultStatus(tx, reply, src)
    BY DEF applyResult, Rows
  <2>3. new.status = "failed" => tx.status = "failed" \/ reply.kind \in {"failed", "errFinal"}
    BY <2>2 DEF ResultStatus
  <2>4. /\ IsSaldo(job[j].ord) /\ reply.kind \in {"failed", "errFinal"} => Has(plan, Credits)
        /\ ~Has(plan, {"debit"}) /\ ~Has(plan, {"redebit"}) /\ ~Has(plan, Ops \ WriteOps)
    BY ResultSettles DEF WriteOps
  <2> HIDE DEF plan, new
  <2>5. SettleWith(job[j].ord, new, plan)
    BY <2>3, <2>4 DEF SettleWith
  <2>6. QED
    BY <2>1, <2>5, ContinueSettle
<1>3. QED
  BY <1>1, <1>2

-------------------------------------------------------------------------------
(* SettleInv: one step per action.                                         *)

LEMMA DebitSettle ==
    ASSUME TypeOK, BaseInv, SettleInv, NEW j \in Jobs, Debit(j)
    PROVE  SettleInv'
<1> DEFINE o == job[j].ord
<1>1. /\ UNCHANGED row /\ job[j].plan # <<>> /\ Head(job[j].plan) = "debit"
      /\ o \in Orders /\ job[j].plan \in Seq(Ops)
      /\ debits \in [Orders -> Nat] /\ refunds \in [Orders -> Nat]
  BY JobFacts DEF Debit, At, TypeOK
<1>2. job[j].plan = <<"debit", "insert", "purchase">> /\ debits[o] = 0
  <2>1. SettleHandler(job[j]) /\ job[j] # IdleJob
    BY <1>1, ActiveJob DEF SettleInv
  <2>2. Has(job[j].plan, {"debit"})
    BY <1>1 DEF Has
  <2>3. QED
    BY <2>1, <2>2 DEF SettleHandler
<1>3. CASE Abort(j) /\ UNCHANGED money
  <2>1. Head(job[j].plan) \notin WriteOps
    BY <1>1 DEF WriteOps
  <2>2. QED
    BY <1>1, <1>3, <2>1, NoCreditYet, SettleSame, AbortSettle DEF money
<1>4. CASE debits' = [debits EXCEPT ![o] = @ + 1] /\ Proceed(j) /\ UNCHANGED refunds
  <2>1. Creates(job[j])
    BY <1>2 DEF Creates, CreatePlans
  <2>2. ASSUME NEW k \in Jobs, k # j, Has(job[k].plan, {"debit"})
        PROVE  debits'[job[k].ord] = 0
    <3>1. job[k] # IdleJob /\ job[k].ord \in Orders
      BY <2>2, IdleFacts, JobFacts DEF TypeOK
    <3>2. job[k].ord # o
      BY <2>1, <2>2, <3>1 DEF BaseInv, CreatesAlone
    <3>3. debits[job[k].ord] = 0
      BY <2>2, <3>1 DEF SettleInv, SettleHandler
    <3>4. QED
      BY <1>1, <1>4, <3>1, <3>2, <3>3
  <2>3. \A q \in Orders : debits'[q] <= 1
    BY <1>1, <1>2, <1>4 DEF SettleInv, SettleOrder
  <2>4. TablesSettle(j)
    BY <1>1, <1>4, <2>2, <2>3 DEF TablesSettle, SettleInv, SettleOrder
  <2>5. Head(job[j].plan) \notin Credits
    BY <1>1 DEF Credits
  <2>6. QED
    BY <1>1, <1>4, <2>4, <2>5, ProceedSettle
<1>5. QED
  BY <1>3, <1>4, Zenon DEF Debit

LEMMA StatementSettle ==
    ASSUME DBFaults = FALSE, TypeOK, BaseInv, SettleInv, NEW j \in Jobs,
           Statement(j) \/ StatementFails(j)
    PROVE  SettleInv'
<1> DEFINE o == job[j].ord
<1>1. /\ o \in Orders /\ job[j].tx \in Rows /\ row \in [Orders -> Rows] /\ row[o] \in Rows
      /\ job[j].plan \in Seq(Ops) /\ debits \in [Orders -> Nat] /\ refunds \in [Orders -> Nat]
  BY JobFacts DEF TypeOK
<1>2. ASSUME job[j].plan # <<>> PROVE SettleHandler(job[j]) /\ job[j] # IdleJob
  BY <1>2, ActiveJob DEF SettleInv
<1>3. ASSUME job[j].plan # <<>>, Head(job[j].plan) \notin WriteOps,
             UNCHANGED <<row, debits, refunds>>, Abort(j)
      PROVE  SettleInv'
  BY <1>3, NoCreditYet, SettleSame, AbortSettle
<1>4. ASSUME job[j].plan # <<>>, Head(job[j].plan) \notin Credits,
             UNCHANGED <<row, debits, refunds>>, Proceed(j)
      PROVE  SettleInv'
  BY <1>4, SettleSame, ProceedSettle
<1>5. CASE Debit(j)
  BY <1>5, DebitSettle
<1>6. CASE Credit(j)
  <2>1. UNCHANGED <<row, debits>> /\ job[j].plan # <<>> /\ Proceed(j)
    BY <1>6 DEF Credit, At, money
  <2>2. /\ refunds'[o] >= 1
        /\ \A q \in Orders : refunds'[q] \in Nat /\ refunds'[q] >= refunds[q]
    <3>1. CASE refunds[o] > 0 /\ UNCHANGED refunds
      BY <1>1, <3>1
    <3>2. CASE refunds' = [refunds EXCEPT ![o] = @ + 1]
      BY <1>1, <3>2
    <3>3. QED
      BY <1>6, <3>1, <3>2 DEF Credit, RefundRecorded, money
  <2>3. \A k \in Jobs : Has(job[k].plan, {"debit"}) => debits[job[k].ord] = 0
    BY IdleFacts DEF SettleInv, SettleHandler
  <2>4. TablesSettle(j)
    BY <2>1, <2>2, <2>3 DEF TablesSettle, SettleInv, SettleOrder
  <2>5. QED
    BY <2>1, <2>2, <2>4, ProceedSettle
<1>7. CASE HasRefund(j)
  <2> DEFINE skip == SubSeq(job[j].plan, 3, Len(job[j].plan))
  <2>1. /\ UNCHANGED <<row, debits, refunds>> /\ job[j].plan # <<>>
        /\ Head(job[j].plan) = "hasRefund"
    BY <1>7 DEF HasRefund, At, money
  <2>2. CASE refunds[o] > 0
    <3>1. Continue(j, job[j].tx, skip)
      BY <1>7, <2>2 DEF HasRefund
    <3>2. \A ops : Has(skip, ops) => Has(job[j].plan, ops)
      BY <1>1, HasSkip
    <3> HIDE DEF skip
    <3>3. ~Has(job[j].plan, {"debit"})
      BY <1>2, <2>1, CreateTails DEF SettleHandler
    <3>4. SettleWith(o, job[j].tx, skip)
      BY <1>2, <2>1, <3>2, <3>3 DEF SettleWith, SettleHandler
    <3>5. refunds'[o] >= 1
      BY <1>1, <2>1, <2>2
    <3>6. QED
      BY <2>1, <3>1, <3>4, <3>5, SettleSame, ContinueSettle
  <2>3. CASE ~(refunds[o] > 0)
    <3>1. Proceed(j)
      BY <1>7, <2>3 DEF HasRefund, Proceed
    <3>2. Head(job[j].plan) \notin Credits
      BY <2>1 DEF Credits
    <3>3. QED
      BY <1>4, <2>1, <3>1, <3>2
  <2>4. QED
    BY <2>2, <2>3
<1>8. CASE RedebitCheck(j)
  <2>1. job[j].plan # <<>> /\ Head(job[j].plan) = "redebit"
    BY <1>8 DEF RedebitCheck, At
  <2>2. Has(job[j].plan, {"redebit"})
    BY <1>1, <2>1 DEF Has
  <2>3. QED
    BY <1>2, <2>1, <2>2 DEF SettleHandler
<1>9. CASE Insert(j) \/ Save(j)
  <2>1. /\ UNCHANGED <<debits, refunds>> /\ job[j].plan # <<>> /\ Proceed(j)
        /\ Head(job[j].plan) \in {"insert", "save", "saveOrAbort"}
        /\ row' = [row EXCEPT ![o] = job[j].tx]
    BY <1>9 DEF Insert, Save, At, money
  <2>2. IsSaldo(o) /\ job[j].tx.status = "failed" => Settling(o)
    BY <1>2, <2>1 DEF SettleHandler
  <2>3. Head(job[j].plan) \notin Credits
    BY <2>1 DEF Credits
  <2>4. QED
    BY <1>1, <2>1, <2>2, <2>3, SettleWritten, ProceedSettle
<1>10. CASE UpdateStatus(j)
  <2> DEFINE r == [row[o] EXCEPT !.status = job[j].tx.status]
  <2>1. /\ UNCHANGED <<debits, refunds>> /\ job[j].plan # <<>> /\ Proceed(j)
        /\ Head(job[j].plan) = "status" /\ row' = [row EXCEPT ![o] = r]
    BY <1>1, <1>10 DEF UpdateStatus, At, money
  <2>2. r.status = job[j].tx.status
    BY <1>1 DEF Rows
  <2>3. IsSaldo(o) /\ r.status = "failed" => Settling(o)
    BY <1>2, <2>1, <2>2 DEF SettleHandler
  <2>4. Head(job[j].plan) \notin Credits
    BY <2>1 DEF Credits
  <2> HIDE DEF r
  <2>5. QED
    BY <1>1, <2>1, <2>3, <2>4, SettleWritten, ProceedSettle
<1>11. CASE Mark(j)
  <2>1. /\ UNCHANGED <<debits, refunds>> /\ job[j].plan # <<>>
        /\ Head(job[j].plan) = "mark"
    BY <1>11 DEF Mark, At, money
  <2>2. Head(job[j].plan) \notin Credits /\ Head(job[j].plan) \notin WriteOps
    BY <2>1 DEF Credits, WriteOps
  <2>3. CASE MarksPending(o)
    <3> DEFINE r == [row[o] EXCEPT !.status = "processing", !.verified = TRUE]
    <3>1. row' = [row EXCEPT ![o] = r] /\ Proceed(j)
      BY <1>1, <1>11, <2>3 DEF Mark
    <3>2. r.status = "processing"
      BY <1>1 DEF Rows
    <3> HIDE DEF r
    <3>3. TablesSettle(j)
      BY <1>1, <2>1, <3>1, <3>2, SettleWritten
    <3>4. QED
      BY <2>1, <2>2, <3>1, <3>3, ProceedSettle
  <2>4. CASE ~MarksPending(o)
    BY <1>3, <1>11, <2>1, <2>2, <2>4 DEF Mark
  <2>5. QED
    BY <2>3, <2>4
<1>12. CASE Claim(j)
  <2>1. /\ UNCHANGED <<row, debits, refunds>> /\ job[j].plan # <<>>
        /\ Head(job[j].plan) = "claim" /\ (Proceed(j) \/ Abort(j))
    BY <1>12 DEF Claim, At, money
  <2>2. Head(job[j].plan) \notin Credits /\ Head(job[j].plan) \notin WriteOps
    BY <2>1 DEF Credits, WriteOps
  <2>3. QED
    BY <1>3, <1>4, <2>1, <2>2
<1>13. CASE Load(j)
  <2>1. /\ UNCHANGED <<row, debits, refunds>> /\ job[j].plan # <<>>
        /\ Head(job[j].plan) = "load"
    BY <1>13 DEF Load, At, money
  <2>2. Head(job[j].plan) \notin WriteOps
    BY <2>1 DEF WriteOps
  <2>3. CASE row[o].status = "processing"
    <3>1. Continue(j, row[o], Rest(j))
      BY <1>13, <2>3 DEF Load
    <3>2. \A ops : Has(Rest(j), ops) => Has(job[j].plan, ops)
      BY <1>1, <2>1, HasTail DEF Rest
    <3>3. ~Has(job[j].plan, Credits) /\ ~Has(job[j].plan, {"debit"})
      BY <1>2, <2>1, <2>2, NoCreditYet, CreateTails DEF SettleHandler
    <3>4. SettleWith(o, row[o], Rest(j))
      BY <1>2, <2>1, <2>3, <3>2, <3>3 DEF SettleWith, SettleHandler
    <3>5. QED
      BY <2>1, <3>1, <3>3, <3>4, SettleSame, ContinueSettle
  <2>4. CASE row[o].status # "processing"
    BY <1>3, <1>13, <2>1, <2>2, <2>4 DEF Load
  <2>5. QED
    BY <2>3, <2>4
<1>14. CASE Reread(j)
  <2>1. /\ UNCHANGED <<row, debits, refunds>> /\ job[j].plan # <<>>
        /\ Head(job[j].plan) = "reread"
    BY <1>14 DEF Reread, At, money
  <2>2. Head(job[j].plan) \notin WriteOps
    BY <2>1 DEF WriteOps
  <2>3. CASE row[o].status = "processing"
    <3>1. Apply(j, row[o], job[j].reply, job[j].src)
      BY <1>14, <2>3 DEF Reread
    <3>2. QED
      BY <1>1, <2>1, <2>2, <2>3, <3>1, NoCreditYet, SettleSame, ApplySettle
  <2>4. CASE row[o].status # "processing"
    BY <1>3, <1>14, <2>1, <2>2, <2>4 DEF Reread
  <2>5. QED
    BY <2>3, <2>4
<1>15. ~StatementFails(j)
  BY DEF StatementFails
<1>16. QED
  BY <1>5, <1>6, <1>7, <1>8, <1>9, <1>10, <1>11, <1>12, <1>13, <1>14, <1>15 DEF Statement

LEMMA CallSettle ==
    ASSUME TypeOK, SettleInv, NEW j \in Jobs, Call(j)
    PROVE  SettleInv'
<1> DEFINE o == job[j].ord
<1>1. /\ job \in [Jobs -> JobStates] /\ job[j] \in JobStates
      /\ o \in Orders /\ job[j].tx \in Rows /\ route \in Providers
  BY JobFacts DEF TypeOK
<1>2. /\ job[j].plan # <<>> /\ Head(job[j].plan) \in {"purchase", "check"}
      /\ UNCHANGED <<row, debits, refunds>>
  BY DEF Call, Purchase, Check, At, money
<1>3. TablesSettle(j) /\ ~Has(job[j].plan, Credits)
  BY <1>2, NoCreditYet, SettleSame DEF WriteOps
<1>4. IsSaldo(o) /\ job[j].tx.status = "failed" => Settling(o)
  BY <1>2, ActiveJob DEF SettleInv, SettleHandler
<1>5. CASE Purchase(j)
  <2> DEFINE p == RouteOf(job[j].tx, route)
             tx == Noted(j, p)
  <2>1. /\ p \in Providers /\ job[j].tx.prov \in Providers
        /\ tx \in Rows /\ tx.status = job[j].tx.status
    <3>1. p \in Providers /\ job[j].tx.prov \in Providers
      BY <1>1 DEF Rows, RouteOf
    <3>2. QED
      BY <1>1, <3>1, NotedType
  <2>2. CASE \E q \in {job[j].tx.prov, p} :
                Continue(j, recordConfigurationError(Noted(j, q)), <<"save">>)
    <3>1. PICK q \in {job[j].tx.prov, p} :
                Continue(j, recordConfigurationError(Noted(j, q)), <<"save">>)
      BY <2>2
    <3> DEFINE held == recordConfigurationError(Noted(j, q))
    <3>2. held.status = "processing"
      BY <1>1, <2>1, NotedType, ParkedType
    <3>3. /\ ~Has(<<"save">>, {"debit"}) /\ ~Has(<<"save">>, {"redebit"})
          /\ ~Has(<<"save">>, Credits)
      BY DEF Has, Credits
    <3>4. SettleWith(o, held, <<"save">>)
      BY <3>2, <3>3 DEF SettleWith
    <3>5. Continue(j, held, <<"save">>)
      BY <3>1
    <3> HIDE DEF held
    <3>6. QED
      BY <1>3, <3>4, <3>5, ContinueSettle
  <2>3. CASE \E x \in Answers(o, p, job[j].tx, "purchase") :
                Apply(j, tx, x.reply, "fulfill")
    <3>1. PICK x : Apply(j, tx, x.reply, "fulfill")
      BY <2>3
    <3> HIDE DEF tx
    <3>2. QED
      BY <1>3, <1>4, <2>1, <3>1, ApplySettle
  <2>4. QED
    BY <1>5, <2>2, <2>3, Zenon DEF Purchase
<1>6. CASE Check(j)
  <2> DEFINE buy == shouldPurchaseInsteadOfCheck(job[j].tx)
             src == IF buy THEN "fulfill" ELSE job[j].kind
             call == IF buy THEN "purchase" ELSE "check"
  <2>1. CASE Abort(j)
    BY <1>3, <2>1, AbortSettle
  <2>2. CASE \E x \in Answers(o, job[j].tx.prov, job[j].tx, call) :
                IF job[j].kind = "reconcile"
                THEN job' = [job EXCEPT ![j].tx = NoRow, ![j].plan = <<"reread">>,
                                        ![j].reply = x.reply, ![j].src = src]
                ELSE Apply(j, job[j].tx, x.reply, src)
    <3>1. PICK x :
                IF job[j].kind = "reconcile"
                THEN job' = [job EXCEPT ![j].tx = NoRow, ![j].plan = <<"reread">>,
                                        ![j].reply = x.reply, ![j].src = src]
                ELSE Apply(j, job[j].tx, x.reply, src)
      BY <2>2
    <3> HIDE DEF call, src, buy
    <3>2. CASE job[j].kind = "reconcile"
      <4>1. job' = [job EXCEPT ![j] =
                        [job[j] EXCEPT !.tx = NoRow, !.plan = <<"reread">>,
                                       !.reply = x.reply, !.src = src]]
        BY <1>1, <3>1, <3>2
      <4>2. /\ job'[j].ord = o /\ job'[j].tx = NoRow /\ job'[j].plan = <<"reread">>
        BY <1>1, <4>1 DEF JobStates
      <4>3. OthersKeep(j)
        BY <1>1, <4>1 DEF OthersKeep
      <4>4. /\ ~Has(<<"reread">>, {"debit"}) /\ ~Has(<<"reread">>, {"redebit"})
            /\ ~Has(<<"reread">>, Credits)
        BY DEF Has, Credits
      <4>5. SettleWith(o, NoRow, <<"reread">>)
        BY <4>4, IdleFacts DEF SettleWith
      <4>6. QED
        BY <1>1, <1>3, <4>2, <4>3, <4>5, SettleFrame DEF CreditKept
    <3>3. CASE job[j].kind # "reconcile"
      BY <1>1, <1>3, <1>4, <3>1, <3>3, ApplySettle
    <3>4. QED
      BY <3>2, <3>3
  <2>3. QED
    BY <1>6, <2>1, <2>2, Zenon DEF Check
<1>7. QED
  BY <1>5, <1>6 DEF Call

LEMMA StartSettle ==
    ASSUME TypeOK, SettleInv, NEW j \in Jobs, NEW k, NEW o \in Orders, NEW tx, NEW plan,
           Start(j, k, o, tx, plan), plan # <<>>, UNCHANGED <<row, debits, refunds>>,
           SettleWith(o, tx, plan)
    PROVE  SettleInv'
<1>1. /\ OthersKeep(j) /\ job[j] = IdleJob /\ job'[j].ord = o /\ job'[j].tx = tx
      /\ job'[j].plan = plan
  BY StartFields
<1>2. CreditKept(j)
  BY <1>1, IdleFacts DEF CreditKept
<1>3. QED
  BY <1>1, <1>2, SettleSame, SettleFrame

LEMMA AutomaticEntrySettle ==
    ASSUME TypeOK, SettleInv, NEW j \in Jobs, NEW o \in Orders, AutomaticEntry(j, o)
    PROVE  SettleInv'
<1>1. /\ row[o] \in Rows
      /\ IsSaldo(o) /\ row[o].status = "failed" => Settling(o)
  BY DEF TypeOK, SettleInv, SettleOrder
<1>2. ASSUME NEW plan \in {<<"mark", "purchase">>, <<"status">>, <<"check">>,
                           <<"claim", "load", "check">>, <<"claim", "save", "purchase">>}
      PROVE  /\ plan # <<>> /\ ~Has(plan, {"debit"}) /\ ~Has(plan, {"redebit"})
             /\ ~Has(plan, Credits)
  BY DEF Has, Credits
<1>3. CASE CreateOrder(j, o)
  <2> DEFINE tx == NewRow(o, route, lastRef[o] + 1)
             plan == CreatePlan(o)
  <2>1. /\ Start(j, "order", o, tx, plan) /\ debits[o] = 0
        /\ UNCHANGED <<row, debits, refunds>>
    BY <1>3 DEF CreateOrder, EntryFrame, money
  <2>2. plan \in {<<"debit", "insert", "purchase">>, <<"insert">>}
    BY DEF CreatePlan
  <2>3. tx.status # "failed"
    BY DEF NewRow, NoRow
  <2> HIDE DEF tx, plan
  <2>4. ~Has(<<"insert">>, {"debit"})
    BY DEF Has
  <2>5. plan # <<>> /\ ~Has(plan, {"redebit"}) /\ ~Has(plan, Credits)
    <3>1. plan \in CreatePlans
      BY <2>2 DEF CreatePlans
    <3>2. \A p \in CreatePlans : ~Has(p, Credits)
      BY DEF CreatePlans, Has, Credits
    <3>3. QED
      BY <3>1, <3>2, StartingPlans
  <2>6. SettleWith(o, tx, plan)
    BY <2>1, <2>2, <2>3, <2>4, <2>5 DEF SettleWith
  <2>7. QED
    BY <2>1, <2>5, <2>6, StartSettle
<1>4. CASE HandlePaymentSuccess(j, o)
  <2>1. UNCHANGED <<row, debits, refunds>> /\ ~IsSaldo(o)
    BY <1>4 DEF HandlePaymentSuccess, EntryFrame, money, IsSaldo, SaldoMethods
  <2>2. \E tx : \E plan \in {<<"mark", "purchase">>, <<"status">>} : Start(j, "pay", o, tx, plan)
    BY <1>4, Zenon DEF HandlePaymentSuccess
  <2> PICK tx, plan :
          plan \in {<<"mark", "purchase">>, <<"status">>} /\ Start(j, "pay", o, tx, plan)
    BY <2>2, Zenon
  <2>3. SettleWith(o, tx, plan) /\ plan # <<>>
    BY <1>2, <2>1 DEF SettleWith
  <2>4. QED
    BY <2>1, <2>2, <2>3, StartSettle
<1>5. CASE \E i \in DOMAIN placed[o] : HandleProviderCallback(j, o, i)
  <2>1. PICK i \in DOMAIN placed[o] : HandleProviderCallback(j, o, i)
    BY <1>5
  <2>2. PICK r : Start(j, "callback", o, applyResult(row[o], r, "callback"),
                       ResultWrites(o, r, "callback"))
    BY <2>1 DEF HandleProviderCallback
  <2>3. UNCHANGED <<row, debits, refunds>>
    BY <2>1 DEF HandleProviderCallback, EntryFrame, money
  <2> DEFINE tx == applyResult(row[o], r, "callback")
             plan == ResultWrites(o, r, "callback")
  <2>4. tx.status = ResultStatus(row[o], r, "callback")
    BY <1>1 DEF applyResult, Rows
  <2>5. tx.status = "failed" => row[o].status = "failed" \/ r.kind \in {"failed", "errFinal"}
    BY <2>4 DEF ResultStatus
  <2>6. /\ IsSaldo(o) /\ r.kind \in {"failed", "errFinal"} => Has(plan, Credits)
        /\ ~Has(plan, {"debit"}) /\ ~Has(plan, {"redebit"}) /\ ~Has(plan, Ops \ WriteOps)
        /\ plan # <<>>
    BY ResultSettles, ResultWritesOps DEF WriteOps
  <2> HIDE DEF tx, plan
  <2>7. SettleWith(o, tx, plan)
    BY <1>1, <2>5, <2>6 DEF SettleWith
  <2>8. Start(j, "callback", o, tx, plan)
    BY <2>2 DEF tx, plan
  <2>9. QED
    BY <2>3, <2>6, <2>7, <2>8, StartSettle
<1>6. CASE CheckProviderStatus(j, o)
  <2>1. Start(j, "check", o, row[o], <<"check">>) /\ UNCHANGED <<row, debits, refunds>>
    BY <1>6 DEF CheckProviderStatus, EntryFrame, money
  <2>2. SettleWith(o, row[o], <<"check">>) /\ <<"check">> # <<>>
    BY <1>1, <1>2 DEF SettleWith
  <2>3. QED
    BY <2>1, <2>2, StartSettle
<1>7. CASE ReconcileProcessingTransaction(j, o)
  <2> DEFINE plan == <<"claim", "load", "check">>
  <2>1. Start(j, "reconcile", o, NoRow, plan) /\ UNCHANGED <<row, debits, refunds>>
    BY <1>7 DEF ReconcileProcessingTransaction, EntryFrame, money
  <2>2. SettleWith(o, NoRow, plan) /\ plan # <<>>
    BY <1>2, IdleFacts DEF SettleWith
  <2> HIDE DEF plan
  <2>3. QED
    BY <2>1, <2>2, StartSettle
<1>8. CASE RetryDigiflazzBalanceHolds(j, o)
  <2> DEFINE plan == <<"claim", "save", "purchase">>
             tx == [row[o] EXCEPT !.pst = "retrysaldo"]
  <2>1. /\ Start(j, "holdRetry", o, tx, plan) /\ UNCHANGED <<row, debits, refunds>>
        /\ row[o].status = "processing"
    BY <1>8 DEF RetryDigiflazzBalanceHolds, EntryFrame, money
  <2>2. tx.status = "processing"
    BY <1>1, <2>1 DEF Rows
  <2>3. SettleWith(o, tx, plan) /\ plan # <<>>
    BY <1>2, <2>2 DEF SettleWith
  <2> HIDE DEF plan, tx
  <2>4. QED
    BY <2>1, <2>3, StartSettle
<1>9. QED
  BY <1>3, <1>4, <1>5, <1>6, <1>7, <1>8 DEF AutomaticEntry

LEMMA WorldSettle ==
    ASSUME MaxAdmin = 0, MaxCrashes = 0, TypeOK, SettleInv, World \/ UNCHANGED vars
    PROVE  SettleInv'
<1>1. ASSUME UNCHANGED <<row, debits, refunds, job>> PROVE SettleInv'
  <2>1. row' = row /\ debits' = debits /\ refunds' = refunds /\ job' = job
    BY <1>1
  <2>2. \A o \in Orders : SettleOrder(o)'
    BY <2>1 DEF SettleInv, SettleOrder, Settling, IsSaldo, Has
  <2>3. \A k \in Jobs : SettleHandler(job[k])'
    BY <2>1 DEF SettleInv, SettleHandler, Settling, IsSaldo, Has, IdleJob, NoRow, NoReply, Reply
  <2>4. QED
    BY <2>2, <2>3 DEF SettleInv
<1>2. CASE UNCHANGED vars
  BY <1>1, <1>2 DEF vars, money
<1>3. CASE \E o \in Orders : Age(o) \/ \E i \in DOMAIN placed[o] : Decide(o, i)
  BY <1>1, <1>3 DEF Age, Decide, money
<1>4. CASE SwitchProvider
  BY <1>4, AdminNeedsBound
<1>5. CASE Crash
  <2>1. crashes \in 0 .. 0 /\ crashes < 0
    BY <1>5 DEF Crash, TypeOK
  <2>2. QED
    BY <2>1
<1>6. QED
  BY <1>2, <1>3, <1>4, <1>5 DEF World

LEMMA InitSettle == Init => SettleInv
<1> SUFFICES ASSUME Init PROVE SettleInv
  OBVIOUS
<1>1. \A j \in Jobs : job[j] = IdleJob
  BY DEF Init
<1>2. \A o \in Orders : row[o] = NoRow /\ debits[o] = 0
  BY DEF Init
<1>3. \A o \in Orders : SettleOrder(o)
  BY <1>2, IdleFacts DEF SettleOrder
<1>4. QED
  BY <1>1, <1>3 DEF SettleInv, SettleHandler

LEMMA SettleStep ==
    ASSUME MaxAdmin = 0, DBFaults = FALSE, MaxCrashes = 0,
           TypeOK, BaseInv, SettleInv, [Next]_vars
    PROVE  SettleInv'
<1>1. CASE \E j \in Jobs : Statement(j) \/ Call(j) \/ StatementFails(j)
  BY <1>1, StatementSettle, CallSettle
<1>2. CASE \E j \in Jobs, o \in Orders : AutomaticEntry(j, o) \/ AdminEntry(j, o)
  <2>1. ~(\E j \in Jobs, o \in Orders : AdminEntry(j, o))
    BY AdminNeedsBound
  <2>2. QED
    BY <1>2, <2>1, AutomaticEntrySettle
<1>3. CASE World \/ UNCHANGED vars
  BY <1>3, WorldSettle
<1>4. QED
  BY <1>1, <1>2, <1>3 DEF Next

\* When every handler is done, a failed balance order has been given back in
\* full and any other has been charged exactly once, whatever handlers raced: a
\* row becomes "failed" only together with the plan of its credit.  A restart or a
\* failing statement between the two loses the credit, and an admin may charge
\* an order again, hence the three assumptions.
THEOREM BalancesSettle ==
    ASSUME MaxAdmin = 0, DBFaults = FALSE, MaxCrashes = 0
    PROVE  Spec => []SettledWhenQuiet
<1>1. Init => SettleInv
  BY InitSettle
<1>2. TypeOK /\ BaseInv /\ SettleInv /\ [Next]_vars => SettleInv'
  BY SettleStep
<1>3. ASSUME TypeOK, MoneyInv, SettleInv, Quiet, NEW o \in Orders, IsSaldo(o),
             row[o].status # "none"
      PROVE  /\ row[o].status = "failed" => refunds[o] = debits[o]
             /\ debits[o] = 1
  <2>1. debits[o] \in Nat /\ refunds[o] \in Nat /\ debits[o] >= 1 /\ refunds[o] <= debits[o]
    BY <1>3 DEF TypeOK, MoneyInv, RowsAreCharged, RefundedOnlyIfCharged
  <2>2. debits[o] <= 1 /\ (row[o].status = "failed" => Settling(o))
    BY <1>3 DEF SettleInv, SettleOrder
  <2>3. \A j \in Jobs : ~Has(job[j].plan, Credits)
    BY <1>3, IdleFacts DEF Quiet
  <2>4. row[o].status = "failed" => refunds[o] >= 1
    BY <2>2, <2>3 DEF Settling
  <2>5. debits[o] = 1
    BY <2>1, <2>2
  <2>6. QED
    BY <2>1, <2>4, <2>5
<1>4. TypeOK /\ MoneyInv /\ SettleInv => SettledWhenQuiet
  BY <1>3 DEF SettledWhenQuiet
<1>5. QED
  BY <1>1, <1>2, <1>4, TypeCorrect, MoneyCorrect, BaseInvariant, PTL DEF Spec

===============================================================================
