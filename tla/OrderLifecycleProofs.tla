------------------------- MODULE OrderLifecycleProofs -------------------------
(***************************************************************************)
(* Theorems about OrderLifecycle, for every value of its constants.        *)
(***************************************************************************)
EXTENDS OrderProperties, TLAPS

-------------------------------------------------------------------------------
(* Types of what the handlers compute.                                     *)

LEMMA NoRowType == NoRow \in Rows
<1>1. (CHOOSE p \in Providers : TRUE) \in Providers
  BY OrderAssumption
<1>2. 0 \in 0 .. MaxRefs /\ 0 \in Ids
  BY BoundAssumption DEF Ids, Foreign
<1>3. "none" \in Statuses /\ "none" \in ProviderStatuses
  BY DEF Statuses, ProviderStatuses
<1>4. QED
  BY <1>1, <1>2, <1>3 DEF NoRow, Rows

LEMMA IdleJobType == IdleJob \in JobStates
<1>1. (CHOOSE o \in Orders : TRUE) \in Orders
  BY LifecycleAssumption
<1>2. NoReply \in Replies
  BY BoundAssumption DEF Ids, Foreign, NoReply, Reply, Replies, ReplyKinds, ProviderStatuses
<1>3. <<>> \in Seq(Ops) /\ "fulfill" \in Sources
  BY DEF Sources
<1>4. QED
  BY <1>1, <1>2, <1>3, NoRowType DEF IdleJob, JobStates, JobKinds

LEMMA NewRowType ==
    ASSUME NEW o \in Orders, NEW p \in Providers, NEW r \in 0 .. MaxRefs
    PROVE  NewRow(o, p, r) \in Rows
<1>1. "processing" \in Statuses /\ "pending" \in Statuses
  BY DEF Statuses
<1>2. (Method[o] = "SALDO") \in BOOLEAN
  OBVIOUS
<1>3. QED
  BY <1>1, <1>2, NoRowType DEF NewRow, Rows

\* Every row a handler computes from a row and an answer is a row.
LEMMA applyResultType ==
    ASSUME NEW tx \in Rows, NEW reply \in Replies, NEW src
    PROVE  applyResult(tx, reply, src) \in Rows
<1>1. ResultStatus(tx, reply, src) \in Statuses
  BY DEF ResultStatus, Rows, Replies, Statuses
<1>2. QED
  BY <1>1 DEF applyResult, Rows, Replies

LEMMA RefundOpsType ==
    ASSUME NEW o \in Orders
    PROVE  safeRefundTransaction(o) \in Seq(Ops) /\ RefundOrAbort(o) \in Seq(Ops)
<1>1. /\ <<"hasRefund", "credit">> \in Seq(Ops)
      /\ <<"hasRefund", "creditOrAbort">> \in Seq(Ops)
      /\ <<>> \in Seq(Ops)
  BY DEF Ops
<1>2. QED
  BY <1>1, Zenon DEF safeRefundTransaction, RefundOrAbort

LEMMA ResultWritesType ==
    ASSUME NEW o \in Orders, NEW reply \in Replies, NEW src
    PROVE  ResultWrites(o, reply, src) \in Seq(Ops)
<1> DEFINE R == safeRefundTransaction(o)
<1>1. R \in Seq(Ops)
  BY RefundOpsType
<1>2. /\ <<"save">> \in Seq(Ops) /\ <<"status">> \in Seq(Ops)
      /\ <<"save", "status">> \in Seq(Ops) /\ <<"status", "save">> \in Seq(Ops)
  BY DEF Ops
<1>3. <<"status">> \o R \in Seq(Ops)
  BY <1>1, <1>2
<1>4. <<"status">> \o R \o <<"save">> \in Seq(Ops)
  BY <1>2, <1>3
<1>5. <<"save", "status">> \o R \in Seq(Ops)
  BY <1>1, <1>2
<1> HIDE DEF R
<1>6. \/ ResultWrites(o, reply, src) = <<"status">> \o R \o <<"save">>
      \/ ResultWrites(o, reply, src) = <<"save", "status">> \o R
      \/ ResultWrites(o, reply, src) = <<"save", "status">>
      \/ ResultWrites(o, reply, src) = <<"save">>
      \/ ResultWrites(o, reply, src) = <<"status", "save">>
  BY Zenon DEF ResultWrites, R
<1>7. QED
  BY <1>2, <1>4, <1>5, <1>6

LEMMA ReplyType ==
    ASSUME NEW k \in ReplyKinds, NEW i \in Ids, NEW t \in ProviderStatuses
    PROVE  Reply(k, i, t) \in Replies
  BY DEF Reply, Replies

LEMMA IdsType == 0 \in Ids /\ Foreign \in Ids /\ 0 .. MaxPlaced \subseteq Ids
  BY BoundAssumption DEF Ids, Foreign

LEMMA ReplyNames ==
    /\ ReplyKinds = {"success", "failed", "pending", "hold", "errHold", "errConfig", "errFinal"}
    /\ {"pending", "saldo", "process", "held"} \subseteq ProviderStatuses
  BY DEF ReplyKinds, ProviderStatuses

LEMMA RefusalType ==
    ASSUME NEW t
    PROVE  RefusalOf(t) \in Replies
<1>1. RefusalOf(t) \in {Reply("errHold", 0, "pending"), Reply("hold", 0, "saldo"),
                        Reply("errHold", 0, "held"), Reply("errConfig", 0, "held")}
  BY Zenon DEF RefusalOf
<1>2. QED
  BY <1>1, ReplyType, ReplyNames, IdsType

LEMMA VerdictType ==
    ASSUME NEW i \in Ids, NEW s
    PROVE  VerdictReplies(i, s) \subseteq Replies
<1>1. VerdictReplies(i, s) \subseteq
         {Reply("pending", i, "process"), Reply("pending", 0, "pending"),
          Reply("success", i, "held"), Reply("failed", i, "held")}
  <2>1. CASE s = "open"
    BY <2>1 DEF VerdictReplies
  <2>2. CASE s = "success"
    BY <2>2 DEF VerdictReplies
  <2>3. CASE s # "open" /\ s # "success"
    BY <2>3 DEF VerdictReplies
  <2>4. QED
    BY <2>1, <2>2, <2>3
<1>2. QED
  BY <1>1, ReplyType, ReplyNames, IdsType

LEMMA PollType ==
    ASSUME NEW i \in Ids, NEW s
    PROVE  PollReplies(i, s) \subseteq Replies
<1>1. PollReplies(i, s) \subseteq
         {Reply("pending", i, "pending"), Reply("failed", i, "held"),
          Reply("hold", 0, "saldo"), Reply("hold", i, "pending"),
          Reply("success", i, "held")}
  <2>1. CASE s = "failed"
    BY <2>1 DEF PollReplies
  <2>2. CASE s # "failed"
    BY <2>2 DEF PollReplies
  <2>3. QED
    BY <2>1, <2>2
<1>2. QED
  BY <1>1, ReplyType, ReplyNames, IdsType

LEMMA PayType == PayFailures \subseteq Replies /\ AskFailure \in Replies
  BY ReplyType, ReplyNames, IdsType DEF PayFailures, AskFailure

-------------------------------------------------------------------------------
(* Types of the steps of a job.                                            *)

LEMMA StartType ==
    ASSUME job \in [Jobs -> JobStates], NEW j \in Jobs, NEW k, NEW o \in Orders,
           NEW tx \in Rows, NEW plan \in Seq(Ops), Start(j, k, o, tx, plan)
    PROVE  job' \in [Jobs -> JobStates]
<1>1. k \in JobKinds
  BY LifecycleAssumption DEF Start, JobKinds
<1>2. [IdleJob EXCEPT !.kind = k, !.ord = o, !.tx = tx, !.plan = plan] \in JobStates
  BY <1>1, IdleJobType DEF JobStates
<1>3. QED
  BY <1>2 DEF Start

LEMMA ContinueType ==
    ASSUME job \in [Jobs -> JobStates], NEW j \in Jobs, NEW tx \in Rows,
           NEW plan \in Seq(Ops), Continue(j, tx, plan)
    PROVE  job' \in [Jobs -> JobStates]
<1>1. NoReply \in Replies /\ "fulfill" \in Sources
  BY IdleJobType DEF IdleJob, JobStates
<1>2. [job[j] EXCEPT !.tx = tx, !.plan = plan, !.reply = NoReply, !.src = "fulfill"]
        \in JobStates
  BY <1>1 DEF JobStates
<1>3. QED
  BY <1>2, IdleJobType DEF Continue

LEMMA AbortType ==
    ASSUME job \in [Jobs -> JobStates], NEW j \in Jobs, Abort(j)
    PROVE  job' \in [Jobs -> JobStates]
  BY IdleJobType DEF Abort

\* What an action knows of the job it moves.
LEMMA JobFacts ==
    ASSUME job \in [Jobs -> JobStates], NEW j \in Jobs
    PROVE  /\ job[j].kind \in JobKinds /\ job[j].ord \in Orders
           /\ job[j].tx \in Rows
           /\ job[j].plan \in Seq(Ops) /\ job[j].reply \in Replies
           /\ job[j].src \in Sources
           /\ job[j].plan # <<>> => Rest(j) \in Seq(Ops)
<1>1. job[j] \in JobStates
  OBVIOUS
<1>2. QED
  BY <1>1 DEF JobStates, Rest

LEMMA ProceedType ==
    ASSUME job \in [Jobs -> JobStates], NEW j \in Jobs, job[j].plan # <<>>, Proceed(j)
    PROVE  job' \in [Jobs -> JobStates]
  BY JobFacts, ContinueType DEF Proceed

LEMMA ApplyType ==
    ASSUME job \in [Jobs -> JobStates], NEW j \in Jobs, NEW tx \in Rows,
           NEW reply \in Replies, NEW src, Apply(j, tx, reply, src)
    PROVE  job' \in [Jobs -> JobStates]
<1>1. CASE Dropped(reply, src)
  BY <1>1, AbortType DEF Apply
<1>2. CASE ~Dropped(reply, src)
  <2>1. applyResult(tx, reply, src) \in Rows
    BY applyResultType
  <2>2. ResultWrites(job[j].ord, reply, src) \in Seq(Ops)
    BY JobFacts, ResultWritesType
  <2>3. QED
    BY <1>2, <2>1, <2>2, ContinueType DEF Apply
<1>3. QED
  BY <1>1, <1>2

LEMMA ReopenedType ==
    ASSUME NEW k, NEW tx \in Rows
    PROVE  Reopened(k, tx) \in Rows
<1>1. /\ "success" \in Statuses /\ "processing" \in Statuses
      /\ "held" \in ProviderStatuses
  BY DEF Statuses, ProviderStatuses
<1>2. QED
  BY <1>1 DEF Reopened, Rows

LEMMA RedebitType ==
    ASSUME job \in [Jobs -> JobStates], NEW j \in Jobs, job[j].plan # <<>>,
           NEW refunded, Redebit(j, refunded)
    PROVE  job' \in [Jobs -> JobStates]
<1> DEFINE owed == Owed(job[j].tx, refunded)
           plan == (IF owed THEN <<"debit">> ELSE <<>>) \o Rest(j)
<1>1. <<"debit">> \in Seq(Ops) /\ <<>> \in Seq(Ops)
  BY DEF Ops
<1>2. (IF owed THEN <<"debit">> ELSE <<>>) \in Seq(Ops)
  BY <1>1, Zenon
<1>3. plan \in Seq(Ops)
  BY <1>2, JobFacts
<1>4. Reopened(job[j].kind, job[j].tx) \in Rows
  BY JobFacts, ReopenedType
<1>5. Continue(j, Reopened(job[j].kind, job[j].tx), plan)
  BY Zenon DEF Redebit
<1>6. QED
  BY <1>3, <1>4, <1>5, ContinueType

\* A call that creates nothing, and one that creates an order.
LEMMA HearsShape ==
    ASSUME NEW o, NEW replies, NEW x \in Hears(o, replies)
    PROVE  x.reply \in replies /\ x.orders = placed[o]
  BY DEF Hears

LEMMA BoughtShape ==
    ASSUME NEW o, NEW p, NEW tx, NEW replies, NEW x \in Bought(o, p, tx, replies)
    PROVE  /\ Len(placed[o]) < MaxPlaced
           /\ \E s \in PlacedStates :
                 /\ x.orders = Append(placed[o], [prov |-> p, ref |-> tx.ref, state |-> s])
                 /\ x.reply \in replies[s]
<1> DEFINE new(s) == Append(placed[o], [prov |-> p, ref |-> tx.ref, state |-> s])
<1>1. /\ Len(placed[o]) < MaxPlaced
      /\ x \in UNION {{[reply |-> r, orders |-> new(s)] : r \in replies[s]} : s \in PlacedStates}
  <2>1. CASE Len(placed[o]) < MaxPlaced
    BY <2>1, Zenon DEF Bought
  <2>2. CASE ~(Len(placed[o]) < MaxPlaced)
    BY <2>2, Zenon DEF Bought
  <2>3. QED
    BY <2>1, <2>2
<1> HIDE DEF new
<1>2. PICK s \in PlacedStates : \E r \in replies[s] : x = [reply |-> r, orders |-> new(s)]
  BY <1>1
<1>3. x.orders = new(s) /\ x.reply \in replies[s]
  BY <1>2
<1>4. QED
  BY <1>1, <1>3 DEF new

\* A provider answers with a reply, and keeps its orders or adds one of its own:
\* for a ref_id it does not know, where it treats one as an idempotency key.
LEMMA ExchangeShape ==
    ASSUME NEW o, NEW p, NEW tx, NEW call, NEW x \in Exchange(o, p, tx, call)
    PROVE  \/ /\ x.orders = placed[o]
              /\ \/ x.reply \in Refusals
                 \/ x.reply = Reply("pending", 0, "pending")
                 \/ \E i \in Known(o, p, tx) : x.reply \in VerdictReplies(i, placed[o][i].state)
           \/ /\ Buys(p, tx, call)
              /\ p \notin Dedup \/ Known(o, p, tx) = {}
              /\ Len(placed[o]) < MaxPlaced
              /\ \E s \in PlacedStates :
                    /\ x.orders = Append(placed[o], [prov |-> p, ref |-> tx.ref, state |-> s])
                    /\ \/ x.reply \in Lost
                       \/ x.reply \in VerdictReplies(Len(placed[o]) + 1, s)
<1> DEFINE known == Known(o, p, tx)
           verdict == [s \in PlacedStates |-> Lost \cup VerdictReplies(Len(placed[o]) + 1, s)]
           told == UNION {VerdictReplies(i, placed[o][i].state) : i \in known}
           unknown == {Reply("pending", 0, "pending")}
<1>1. \/ x \in Hears(o, Refusals)
      \/ x \in Hears(o, unknown)
      \/ x \in Hears(o, told)
      \/ /\ Buys(p, tx, call)
         /\ p \notin Dedup \/ known = {}
         /\ x \in Bought(o, p, tx, verdict)
  <2> HIDE DEF known, verdict, told, unknown
  <2>1. x \in Hears(o, Refusals) \cup
            (IF Buys(p, tx, call) /\ (p \notin Dedup \/ known = {}) THEN Bought(o, p, tx, verdict)
             ELSE IF known = {} THEN Hears(o, unknown)
             ELSE Hears(o, told))
    BY Zenon DEF Exchange, known, verdict, told, unknown
  <2>2. QED
    BY <2>1, Zenon
<1>2. CASE x \in Hears(o, told)
  <2>1. x.reply \in told /\ x.orders = placed[o]
    BY <1>2, HearsShape
  <2>2. QED
    BY <2>1
<1>3. CASE /\ Buys(p, tx, call)
           /\ p \notin Dedup \/ known = {}
           /\ x \in Bought(o, p, tx, verdict)
  <2>1. PICK s \in PlacedStates :
               /\ x.orders = Append(placed[o], [prov |-> p, ref |-> tx.ref, state |-> s])
               /\ x.reply \in verdict[s]
    <3> HIDE DEF known, verdict
    <3>1. QED
      BY <1>3, BoughtShape
  <2>2. x.reply \in Lost \/ x.reply \in VerdictReplies(Len(placed[o]) + 1, s)
    BY <2>1
  <2>3. Len(placed[o]) < MaxPlaced
    BY <1>3, BoughtShape
  <2>4. QED
    BY <1>3, <2>1, <2>2, <2>3
<1>4. CASE x \in Hears(o, Refusals) \/ x \in Hears(o, unknown)
  BY <1>4, HearsShape
<1>5. QED
  BY <1>1, <1>2, <1>3, <1>4

\* The orders after a call that bought one at p.
Adds(o, p, tx, x) ==
    /\ Len(placed[o]) < MaxPlaced
    /\ \E s \in PlacedStates :
          x.orders = Append(placed[o], [prov |-> p, ref |-> tx.ref, state |-> s])

\* Kiosgamer answers, and keeps its orders or adds one for a purchase of a row
\* without an order id.
LEMMA KiosgamerShape ==
    ASSUME NEW o \in Orders, NEW p, NEW tx \in Rows, NEW call,
           placed \in [Orders -> Seq(PlacedOrders)], Len(placed[o]) <= MaxPlaced,
           NEW x \in KiosgamerExchange(o, p, tx, call)
    PROVE  /\ x.reply \in Replies
           /\ \/ x.orders = placed[o]
              \/ call # "check" /\ ~hasProviderOrder(tx) /\ Adds(o, p, tx, x)
<1> DEFINE own == {i \in DOMAIN placed[o] : placed[o][i].prov = p}
           latest == {i \in own : \A k \in own : k <= i} \cup {Foreign}
           recent == {Reply("success", i, "held") : i \in latest}
                        \cup (IF own = {} THEN {Reply("pending", 0, "pending")} ELSE {})
           polled == IF tx.id \in own THEN {placed[o][tx.id].state} ELSE PlacedStates
           sessionLost == {RefusalOf(t) : t \in Outcomes \cap {"session"}}
           payLost == IF "timeout" \in Outcomes THEN PayFailures ELSE {}
           verdict == [s \in PlacedStates |->
                          sessionLost \cup payLost \cup PollReplies(Len(placed[o]) + 1, s)]
           asked == {AskFailure} \cup UNION {PollReplies(tx.id, s) : s \in polled}
<1>0. own \subseteq Ids /\ tx.id \in Ids /\ Len(placed[o]) \in Nat
  <2>1. placed[o] \in Seq(PlacedOrders)
    OBVIOUS
  <2>2. DOMAIN placed[o] \subseteq Ids
    BY <2>1, BoundAssumption DEF Ids, Foreign
  <2>3. QED
    BY <2>1, <2>2 DEF Rows
<1>1. \/ x \in Hears(o, Refusals)
      \/ x \in Hears(o, asked)
      \/ x \in Hears(o, {AskFailure} \cup recent)
      \/ x \in Hears(o, PayFailures)
      \/ call # "check" /\ ~hasProviderOrder(tx) /\ x \in Bought(o, p, tx, verdict)
  <2> HIDE DEF asked, recent, verdict
  <2>1. x \in Hears(o, Refusals) \cup
           (IF hasProviderOrder(tx) THEN Hears(o, asked)
            ELSE IF call = "check" THEN Hears(o, {AskFailure} \cup recent)
            ELSE Hears(o, PayFailures) \cup Bought(o, p, tx, verdict))
    BY Zenon DEF KiosgamerExchange, asked, recent, verdict
  <2>2. QED
    BY <2>1, Zenon
<1>2. Refusals \subseteq Replies /\ sessionLost \subseteq Replies
  BY RefusalType DEF Refusals
<1>3. payLost \subseteq Replies /\ PayFailures \subseteq Replies /\ AskFailure \in Replies
  BY PayType
<1>4. asked \subseteq Replies
  BY <1>0, <1>3, PollType
<1>5. recent \subseteq Replies
  <2>1. latest \subseteq Ids
    BY <1>0, IdsType
  <2>2. \A i \in latest : Reply("success", i, "held") \in Replies
    BY <2>1, ReplyType, ReplyNames
  <2>3. Reply("pending", 0, "pending") \in Replies
    BY ReplyType, ReplyNames, IdsType
  <2> HIDE DEF latest, own
  <2>4. QED
    BY <2>2, <2>3
<1>6. CASE call # "check" /\ ~hasProviderOrder(tx) /\ x \in Bought(o, p, tx, verdict)
  <2>1. Len(placed[o]) < MaxPlaced
    BY <1>6, BoughtShape
  <2>2. PICK s \in PlacedStates :
               /\ x.orders = Append(placed[o], [prov |-> p, ref |-> tx.ref, state |-> s])
               /\ x.reply \in verdict[s]
    <3> HIDE DEF verdict, own
    <3>1. x \in Bought(o, p, tx, verdict)
      BY <1>6
    <3>2. QED
      BY ONLY <3>1, BoughtShape
  <2>3. Len(placed[o]) + 1 \in Ids
    BY <1>0, <2>1, BoundAssumption DEF Ids, Foreign
  <2>4. PollReplies(Len(placed[o]) + 1, s) \subseteq Replies
    BY <2>3, PollType
  <2> HIDE DEF sessionLost, payLost
  <2>5. verdict[s] \subseteq Replies
    BY <1>2, <1>3, <2>4
  <2>6. QED
    BY <1>6, <2>1, <2>2, <2>5 DEF Adds
<1> HIDE DEF own, latest, recent, polled, sessionLost, payLost, verdict, asked
<1>7. CASE x \in Hears(o, Refusals) \/ x \in Hears(o, PayFailures)
  BY <1>2, <1>3, <1>7, HearsShape
<1>8. CASE x \in Hears(o, asked) \/ x \in Hears(o, {AskFailure} \cup recent)
  BY <1>3, <1>4, <1>5, <1>8, HearsShape
<1>9. QED
  BY <1>1, <1>6, <1>7, <1>8

\* The same of whatever provider is asked.
LEMMA AnswersType ==
    ASSUME NEW o \in Orders, NEW p \in Providers, NEW tx \in Rows, NEW call,
           placed \in [Orders -> Seq(PlacedOrders)], Len(placed[o]) <= MaxPlaced,
           NEW x \in Answers(o, p, tx, call)
    PROVE  /\ x.reply \in Replies
           /\ \/ x.orders = placed[o]
              \/ /\ p \in Dedup => Known(o, p, tx) = {} /\ Buys(p, tx, call)
                 /\ Adds(o, p, tx, x)
           /\ x.orders \in Seq(PlacedOrders) /\ Len(x.orders) <= MaxPlaced
<1>1. placed[o] \in Seq(PlacedOrders) /\ Len(placed[o]) \in Nat
  OBVIOUS
<1>2. \A s \in PlacedStates : [prov |-> p, ref |-> tx.ref, state |-> s] \in PlacedOrders
  BY DEF PlacedOrders, Rows
<1>3. \A s \in PlacedStates : Len(placed[o]) < MaxPlaced =>
         LET new == Append(placed[o], [prov |-> p, ref |-> tx.ref, state |-> s])
         IN  new \in Seq(PlacedOrders) /\ Len(new) <= MaxPlaced
  BY <1>1, <1>2, BoundAssumption
<1>4. CASE p \in Kiosgamer
  <2>1. x \in KiosgamerExchange(o, p, tx, call)
    BY <1>4, Zenon DEF Answers
  <2>2. p \notin Dedup
    BY <1>4, ProviderAssumption
  <2>3. /\ x.reply \in Replies
        /\ x.orders = placed[o] \/ Adds(o, p, tx, x)
    BY <2>1, KiosgamerShape
  <2>4. QED
    BY <1>1, <1>3, <2>2, <2>3 DEF Adds
<1>5. CASE p \notin Kiosgamer
  <2>1. x \in Exchange(o, p, tx, call)
    BY <1>5, Zenon DEF Answers
  <2>2. CASE x.orders = placed[o]
    <3>1. \/ x.reply \in Refusals
          \/ x.reply = Reply("pending", 0, "pending")
          \/ \E i \in DOMAIN placed[o] : x.reply \in VerdictReplies(i, placed[o][i].state)
          \/ x.reply \in Lost
          \/ /\ Len(placed[o]) < MaxPlaced
             /\ \E s : x.reply \in VerdictReplies(Len(placed[o]) + 1, s)
      BY <2>1, ExchangeShape DEF Known
    <3>2. /\ Refusals \subseteq Replies /\ Lost \subseteq Replies
          /\ Reply("pending", 0, "pending") \in Replies
      BY RefusalType, ReplyType, ReplyNames, IdsType DEF Refusals, Lost
    <3>3. \A i \in DOMAIN placed[o] : i \in Ids
      BY <1>1, BoundAssumption DEF Ids, Foreign
    <3>4. Len(placed[o]) < MaxPlaced => Len(placed[o]) + 1 \in Ids
      BY <1>1, BoundAssumption DEF Ids, Foreign
    <3>5. x.reply \in Replies
      BY <3>1, <3>2, <3>3, <3>4, VerdictType
    <3>6. QED
      BY <1>1, <2>2, <3>5
  <2>3. CASE x.orders # placed[o]
    <3>1. /\ Buys(p, tx, call)
          /\ p \notin Dedup \/ Known(o, p, tx) = {}
          /\ Len(placed[o]) < MaxPlaced
          /\ \E s \in PlacedStates :
                /\ x.orders = Append(placed[o], [prov |-> p, ref |-> tx.ref, state |-> s])
                /\ \/ x.reply \in Lost
                   \/ x.reply \in VerdictReplies(Len(placed[o]) + 1, s)
      BY <2>1, <2>3, ExchangeShape
    <3>2. Len(placed[o]) + 1 \in Ids
      BY <1>1, <3>1, BoundAssumption DEF Ids, Foreign
    <3>3. x.reply \in Replies
      BY <3>1, <3>2, RefusalType, VerdictType DEF Lost
    <3>4. QED
      BY <1>3, <3>1, <3>3 DEF Adds
  <2>4. QED
    BY <2>2, <2>3
<1>6. QED
  BY <1>4, <1>5

\* The copy a purchase goes on with differs in the provider at most.
LEMMA NotedType ==
    ASSUME NEW j, job[j].tx \in Rows, NEW p \in Providers
    PROVE  /\ Noted(j, p) \in Rows
           /\ Noted(j, p).status = job[j].tx.status
           /\ Noted(j, p).verified = job[j].tx.verified
           /\ Noted(j, p).ref = job[j].tx.ref
           /\ Noted(j, p).id = job[j].tx.id
           /\ Noted(j, p).exch = job[j].tx.exch
           /\ Noted(j, p).pst = job[j].tx.pst
           /\ Noted(j, p).prov \in {job[j].tx.prov, p}
           /\ job[j].kind # "order" => Noted(j, p) = job[j].tx
           /\ job[j].kind = "order" => Noted(j, p).prov = p
  BY DEF Noted, Rows

\* A purchase that finds no route parks the order.
LEMMA ParkedType ==
    ASSUME NEW tx \in Rows
    PROVE  /\ recordConfigurationError(tx) \in Rows
           /\ recordConfigurationError(tx).status = "processing"
           /\ recordConfigurationError(tx).verified = tx.verified
           /\ recordConfigurationError(tx).ref = tx.ref
           /\ recordConfigurationError(tx).id = tx.id
           /\ recordConfigurationError(tx).exch = tx.exch
           /\ recordConfigurationError(tx).pst = "held"
           /\ recordConfigurationError(tx).prov = tx.prov
  BY DEF recordConfigurationError, Rows, Statuses, ProviderStatuses

-------------------------------------------------------------------------------
(* Every action keeps the types.                                           *)

LEMMA InitType == Init => TypeOK
<1> SUFFICES ASSUME Init PROVE TypeOK
  OBVIOUS
<1>1. row \in [Orders -> Rows]
  BY NoRowType DEF Init
<1>2. job \in [Jobs -> JobStates]
  BY IdleJobType DEF Init
<1>3. placed \in [Orders -> Seq(PlacedOrders)] /\ \A o \in Orders : Len(placed[o]) <= MaxPlaced
  BY BoundAssumption DEF Init
<1>4. balance \in [Users -> Nat]
  BY LifecycleAssumption DEF Init
<1>5. lastRef \in [Orders -> 0 .. MaxRefs]
  BY BoundAssumption DEF Init
<1>6. adminCalls \in 0 .. MaxAdmin /\ crashes \in 0 .. MaxCrashes
  BY LifecycleAssumption DEF Init
<1>7. QED
  BY <1>1, <1>2, <1>3, <1>4, <1>5, <1>6 DEF Init, TypeOK

LEMMA StatementType ==
    ASSUME TypeOK, NEW j \in Jobs, Statement(j) \/ StatementFails(j)
    PROVE  TypeOK'
<1> DEFINE o == job[j].ord
<1>1. /\ job \in [Jobs -> JobStates] /\ row \in [Orders -> Rows]
      /\ o \in Orders /\ job[j].tx \in Rows
  BY JobFacts DEF TypeOK
<1>2. Owner[o] \in Users /\ Price[o] \in Nat
  BY <1>1, OrderAssumption
<1>3. CASE Debit(j)
  <2>1. job' \in [Jobs -> JobStates]
    BY <1>1, <1>3, ProceedType, AbortType DEF Debit, At
  <2>2. balance' \in [Users -> Nat] /\ debits' \in [Orders -> Nat] /\ refunds' \in [Orders -> Nat]
    <3>1. CASE Sufficient(o)
      <4>1. /\ balance' = [balance EXCEPT ![Owner[o]] = @ - Price[o]]
            /\ debits' = [debits EXCEPT ![o] = @ + 1]
            /\ refunds' = refunds
        BY <1>3, <3>1 DEF Debit
      <4>2. balance[Owner[o]] - Price[o] \in Nat /\ debits[o] + 1 \in Nat
        BY <1>1, <1>2, <3>1 DEF Sufficient, TypeOK
      <4>3. QED
        BY <4>1, <4>2 DEF TypeOK
    <3>2. CASE ~Sufficient(o)
      BY <1>3, <3>2 DEF Debit, TypeOK, money
    <3>3. QED
      BY <3>1, <3>2
  <2>3. QED
    BY <1>3, <2>1, <2>2 DEF Debit, TypeOK, bounds
<1>4. CASE Credit(j)
  <2>1. job' \in [Jobs -> JobStates]
    BY <1>1, <1>4, ProceedType DEF Credit, At
  <2>2. balance' \in [Users -> Nat] /\ debits' \in [Orders -> Nat] /\ refunds' \in [Orders -> Nat]
    <3>1. CASE RefundRecorded(o)
      BY <1>4, <3>1 DEF Credit, TypeOK, money
    <3>2. CASE ~RefundRecorded(o)
      <4>1. /\ balance' = [balance EXCEPT ![Owner[o]] = @ + Price[o]]
            /\ refunds' = [refunds EXCEPT ![o] = @ + 1]
            /\ debits' = debits
        BY <1>4, <3>2 DEF Credit, CreditAmount
      <4>2. /\ balance \in [Users -> Nat] /\ debits \in [Orders -> Nat]
            /\ refunds \in [Orders -> Nat]
        BY DEF TypeOK
      <4>3. balance[Owner[o]] + Price[o] \in Nat /\ refunds[o] + 1 \in Nat
        BY <1>1, <1>2, <4>2
      <4>4. QED
        BY <4>1, <4>2, <4>3
    <3>3. QED
      BY <3>1, <3>2
  <2>3. QED
    BY <1>4, <2>1, <2>2 DEF Credit, TypeOK, bounds
<1>5. CASE HasRefund(j)
  <2>1. SubSeq(job[j].plan, 3, Len(job[j].plan)) \in Seq(Ops) /\ Rest(j) \in Seq(Ops)
    BY <1>1, <1>5, JobFacts DEF HasRefund, At
  <2>2. job' \in [Jobs -> JobStates]
    BY <1>1, <1>5, <2>1, ContinueType DEF HasRefund
  <2>3. QED
    BY <1>5, <2>2 DEF HasRefund, TypeOK, money, bounds
<1>6. CASE RedebitCheck(j)
  <2>1. job' \in [Jobs -> JobStates]
    BY <1>1, <1>6, RedebitType DEF RedebitCheck, At
  <2>2. QED
    BY <1>6, <2>1 DEF RedebitCheck, TypeOK, money, bounds
<1>7. CASE Insert(j) \/ Save(j)
  <2>1. job' \in [Jobs -> JobStates]
    BY <1>1, <1>7, ProceedType DEF Insert, Save, At
  <2>2. row' \in [Orders -> Rows] /\ fresh' \in [Orders -> BOOLEAN]
    BY <1>1, <1>7 DEF Insert, Save, TypeOK
  <2>3. QED
    BY <1>7, <2>1, <2>2 DEF Insert, Save, TypeOK, money, bounds
<1>8. CASE Mark(j)
  <2>1. job' \in [Jobs -> JobStates]
    BY <1>1, <1>8, ProceedType, AbortType DEF Mark, At
  <2>2. [row[o] EXCEPT !.status = "processing", !.verified = TRUE] \in Rows
    BY <1>1 DEF Rows, Statuses
  <2>3. /\ row' \in [Orders -> Rows] /\ fresh' \in [Orders -> BOOLEAN]
        /\ marks' \in [Orders -> Nat]
    <3>1. CASE MarksPending(o)
      <4>1. /\ row' = [row EXCEPT ![o] = [row[o] EXCEPT !.status = "processing", !.verified = TRUE]]
            /\ fresh' = [fresh EXCEPT ![o] = TRUE]
            /\ marks' = [marks EXCEPT ![o] = @ + 1]
        BY <1>1, <1>8, <3>1 DEF Mark
      <4>2. marks[o] + 1 \in Nat
        BY <1>1 DEF TypeOK
      <4>3. QED
        BY <1>1, <2>2, <4>1, <4>2 DEF TypeOK
    <3>2. CASE ~MarksPending(o)
      BY <1>8, <3>2 DEF Mark, TypeOK
    <3>3. QED
      BY <3>1, <3>2
  <2>4. QED
    BY <1>8, <2>1, <2>3 DEF Mark, TypeOK, money, bounds
<1>9. CASE Claim(j)
  <2>1. job' \in [Jobs -> JobStates]
    BY <1>1, <1>9, ProceedType, AbortType DEF Claim, At
  <2>2. fresh' \in [Orders -> BOOLEAN]
    BY <1>1, <1>9 DEF Claim, TypeOK
  <2>3. QED
    BY <1>9, <2>1, <2>2 DEF Claim, TypeOK, money, bounds
<1>10. CASE UpdateStatus(j)
  <2>1. job' \in [Jobs -> JobStates]
    BY <1>1, <1>10, ProceedType DEF UpdateStatus, At
  <2>2. [row[o] EXCEPT !.status = job[j].tx.status] \in Rows
    BY <1>1 DEF Rows
  <2>3. row' \in [Orders -> Rows] /\ fresh' \in [Orders -> BOOLEAN]
    BY <1>1, <1>10, <2>2 DEF UpdateStatus, TypeOK
  <2>4. QED
    BY <1>10, <2>1, <2>3 DEF UpdateStatus, TypeOK, money, bounds
<1>11. CASE Load(j)
  <2>1. Rest(j) \in Seq(Ops) /\ row[o] \in Rows
    BY <1>1, <1>11, JobFacts DEF Load, At
  <2>2. job' \in [Jobs -> JobStates]
    BY <1>1, <1>11, <2>1, ContinueType, AbortType DEF Load
  <2>3. QED
    BY <1>11, <2>2 DEF Load, TypeOK, money, bounds
<1>12. CASE Reread(j)
  <2>1. row[o] \in Rows /\ job[j].reply \in Replies
    BY <1>1, JobFacts
  <2>2. job' \in [Jobs -> JobStates]
    BY <1>1, <1>12, <2>1, ApplyType, AbortType DEF Reread
  <2>3. QED
    BY <1>12, <2>2 DEF Reread, TypeOK, money, bounds
<1>13. CASE StatementFails(j)
  <2>1. <<"credit">> \in Seq(Ops) /\ job[j].plan # <<>>
    BY <1>13 DEF StatementFails, Ops
  <2>2. \/ Continue(j, job[j].tx, <<"credit">>) \/ Redebit(j, FALSE)
        \/ Proceed(j) \/ Abort(j)
    BY <1>13, Zenon DEF StatementFails
  <2>3. job' \in [Jobs -> JobStates]
    BY <1>1, <2>1, <2>2, ContinueType, RedebitType, ProceedType, AbortType
  <2>4. QED
    BY <1>13, <2>3 DEF StatementFails, TypeOK, money, bounds
<1>14. QED
  BY <1>3, <1>4, <1>5, <1>6, <1>7, <1>8, <1>9, <1>10, <1>11, <1>12, <1>13
  DEF Statement

\* What a step of job j that talks to a provider leaves behind.
LEMMA AnswersStepType ==
    ASSUME TypeOK, NEW o \in Orders, NEW p \in Providers, NEW tx \in Rows,
           NEW call,
           NEW x \in Answers(o, p, tx, call),
           placed' = [placed EXCEPT ![o] = x.orders]
    PROVE  /\ x.reply \in Replies
           /\ placed' \in [Orders -> Seq(PlacedOrders)]
           /\ \A q \in Orders : Len(placed'[q]) <= MaxPlaced
<1>1. /\ placed \in [Orders -> Seq(PlacedOrders)]
      /\ \A q \in Orders : Len(placed[q]) <= MaxPlaced
  BY DEF TypeOK
<1>2. x.reply \in Replies /\ x.orders \in Seq(PlacedOrders) /\ Len(x.orders) <= MaxPlaced
  BY <1>1, AnswersType
<1>3. QED
  BY <1>1, <1>2

LEMMA CallType ==
    ASSUME TypeOK, NEW j \in Jobs, Call(j)
    PROVE  TypeOK'
<1> DEFINE o == job[j].ord
           p == RouteOf(job[j].tx, route)
           tx == job[j].tx
           buy == shouldPurchaseInsteadOfCheck(job[j].tx)
           src == IF buy THEN "fulfill" ELSE job[j].kind
           call == IF buy THEN "purchase" ELSE "check"
<1>1. /\ job \in [Jobs -> JobStates] /\ row \in [Orders -> Rows]
      /\ route \in Providers /\ o \in Orders /\ job[j].tx \in Rows
      /\ job[j].kind \in JobKinds
  BY JobFacts DEF TypeOK
<1>2. tx.prov \in Providers /\ p \in Providers
  BY <1>1 DEF Rows, RouteOf
<1>3. CASE Purchase(j)
  <2>1. CASE /\ \E q \in {tx.prov, p} :
                   Continue(j, recordConfigurationError(Noted(j, q)), <<"save">>)
             /\ UNCHANGED placed
    <3>0. PICK q \in {tx.prov, p} :
             Continue(j, recordConfigurationError(Noted(j, q)), <<"save">>)
      BY <2>1
    <3>1. recordConfigurationError(Noted(j, q)) \in Rows
      BY <1>1, <1>2, NotedType, ParkedType
    <3>2. <<"save">> \in Seq(Ops)
      BY DEF Ops
    <3>3. job' \in [Jobs -> JobStates]
      BY <1>1, <3>0, <3>1, <3>2, ContinueType
    <3>4. QED
      BY <1>3, <2>1, <3>3 DEF Purchase, TypeOK, money, bounds
  <2>2. CASE \E x \in Answers(o, p, tx, "purchase") :
                /\ placed' = [placed EXCEPT ![o] = x.orders]
                /\ Apply(j, Noted(j, p), x.reply, "fulfill")
    <3>1. PICK x \in Answers(o, p, tx, "purchase") :
                /\ placed' = [placed EXCEPT ![o] = x.orders]
                /\ Apply(j, Noted(j, p), x.reply, "fulfill")
      BY <2>2
    <3>2. /\ x.reply \in Replies
          /\ placed' \in [Orders -> Seq(PlacedOrders)]
          /\ \A q \in Orders : Len(placed'[q]) <= MaxPlaced
      BY <1>1, <1>2, <3>1, AnswersStepType
    <3>3. job' \in [Jobs -> JobStates]
      BY <1>1, <1>2, <3>1, <3>2, ApplyType, NotedType
    <3>4. QED
      BY <1>3, <3>2, <3>3 DEF Purchase, TypeOK, money, bounds
  <2>3. QED
    BY <1>3, <2>1, <2>2, Zenon DEF Purchase
<1>4. CASE Check(j)
  <2>1. CASE Abort(j) /\ UNCHANGED placed
    <3>1. job' \in [Jobs -> JobStates]
      BY <1>1, <2>1, AbortType
    <3>2. QED
      BY <1>4, <2>1, <3>1 DEF Check, TypeOK, money, bounds
  <2>2. CASE \E x \in Answers(o, job[j].tx.prov, job[j].tx, call) :
                /\ placed' = [placed EXCEPT ![o] = x.orders]
                /\ IF job[j].kind = "reconcile"
                   THEN job' = [job EXCEPT ![j].tx = NoRow, ![j].plan = <<"reread">>,
                                           ![j].reply = x.reply, ![j].src = src]
                   ELSE Apply(j, job[j].tx, x.reply, src)
    <3>1. PICK x \in Answers(o, job[j].tx.prov, job[j].tx, call) :
                /\ placed' = [placed EXCEPT ![o] = x.orders]
                /\ IF job[j].kind = "reconcile"
                   THEN job' = [job EXCEPT ![j].tx = NoRow, ![j].plan = <<"reread">>,
                                           ![j].reply = x.reply, ![j].src = src]
                   ELSE Apply(j, job[j].tx, x.reply, src)
      BY <2>2
    <3>2. /\ x.reply \in Replies
          /\ placed' \in [Orders -> Seq(PlacedOrders)]
          /\ \A q \in Orders : Len(placed'[q]) <= MaxPlaced
      BY <1>1, <1>2, <3>1, AnswersStepType
    <3>3. job' \in [Jobs -> JobStates]
      <4>1. CASE job[j].kind = "reconcile"
        <5>1. src \in Sources /\ <<"reread">> \in Seq(Ops)
          BY <4>1 DEF Sources, Ops
        <5>2. [job[j] EXCEPT !.tx = NoRow, !.plan = <<"reread">>,
                             !.reply = x.reply, !.src = src] \in JobStates
          BY <1>1, <3>2, <5>1, NoRowType DEF JobStates
        <5>3. job' = [job EXCEPT ![j] =
                        [job[j] EXCEPT !.tx = NoRow, !.plan = <<"reread">>,
                                       !.reply = x.reply, !.src = src]]
          BY <1>1, <3>1, <4>1
        <5>4. QED
          BY <1>1, <5>2, <5>3
      <4>2. CASE job[j].kind # "reconcile"
        BY <1>1, <3>1, <3>2, <4>2, ApplyType
      <4>3. QED
        BY <4>1, <4>2
    <3>4. QED
      BY <1>4, <3>2, <3>3 DEF Check, TypeOK, money, bounds
  <2>3. QED
    BY <1>4, <2>1, <2>2, Zenon DEF Check
<1>5. QED
  BY <1>3, <1>4 DEF Call

\* A handler that starts touches its job, the refs and the admin bound only.
LEMMA EntryFrameType ==
    ASSUME TypeOK, EntryFrame, job' \in [Jobs -> JobStates],
           lastRef' \in [Orders -> 0 .. MaxRefs], adminCalls' \in 0 .. MaxAdmin
    PROVE  TypeOK'
  BY DEF TypeOK, EntryFrame, money

LEMMA PlansType ==
    ASSUME NEW o \in Orders
    PROVE  /\ CreatePlan(o) \in Seq(Ops)
           /\ RefundOrAbort(o) \o <<"save", "status">> \in Seq(Ops)
           /\ RefundOrAbort(o) \o <<"save">> \in Seq(Ops)
           /\ \A plan \in Seq(Ops) : <<"redebit">> \o plan \in Seq(Ops)
<1>1. <<"debit", "insert", "purchase">> \in Seq(Ops) /\ <<"insert">> \in Seq(Ops)
  BY DEF Ops
<1>2. CreatePlan(o) \in Seq(Ops)
  BY <1>1, Zenon DEF CreatePlan
<1>3. /\ <<"save", "status">> \in Seq(Ops) /\ <<"save">> \in Seq(Ops)
      /\ <<"redebit">> \in Seq(Ops)
  BY DEF Ops
<1>4. RefundOrAbort(o) \in Seq(Ops)
  BY RefundOpsType
<1>5. QED
  BY <1>2, <1>3, <1>4

LEMMA AutomaticEntryType ==
    ASSUME TypeOK, NEW j \in Jobs, NEW o \in Orders, AutomaticEntry(j, o)
    PROVE  TypeOK'
<1>1. /\ job \in [Jobs -> JobStates] /\ row[o] \in Rows /\ route \in Providers
      /\ lastRef \in [Orders -> 0 .. MaxRefs] /\ adminCalls \in 0 .. MaxAdmin
      /\ placed[o] \in Seq(PlacedOrders) /\ Len(placed[o]) <= MaxPlaced
  BY DEF TypeOK
<1>2. /\ "processing" \in Statuses /\ "failed" \in Statuses
      /\ "retrysaldo" \in ProviderStatuses
  BY DEF Statuses, ProviderStatuses
<1>3. CASE CreateOrder(j, o)
  <2>1. lastRef[o] + 1 \in 0 .. MaxRefs
    BY <1>1, <1>3, BoundAssumption DEF CreateOrder
  <2>2. NewRow(o, route, lastRef[o] + 1) \in Rows
    BY <1>1, <2>1, NewRowType
  <2>3. job' \in [Jobs -> JobStates]
    BY <1>1, <1>3, <2>2, PlansType, StartType DEF CreateOrder
  <2>4. lastRef' \in [Orders -> 0 .. MaxRefs] /\ adminCalls' = adminCalls /\ EntryFrame
    BY <1>1, <1>3, <2>1 DEF CreateOrder
  <2>5. QED
    BY <1>1, <2>3, <2>4, EntryFrameType
<1>4. CASE HandlePaymentSuccess(j, o)
  <2>1. [row[o] EXCEPT !.status = "failed"] \in Rows
    BY <1>1, <1>2 DEF Rows
  <2>2. <<"status">> \in Seq(Ops) /\ <<"mark", "purchase">> \in Seq(Ops)
    BY DEF Ops
  <2>3. \/ Start(j, "pay", o, [row[o] EXCEPT !.status = "failed"], <<"status">>)
        \/ Start(j, "pay", o, row[o], <<"mark", "purchase">>)
    BY <1>4 DEF HandlePaymentSuccess
  <2>4. job' \in [Jobs -> JobStates]
    BY <1>1, <2>1, <2>2, <2>3, StartType
  <2>5. QED
    BY <1>1, <1>4, <2>4, EntryFrameType DEF HandlePaymentSuccess
<1>5. CASE \E i \in DOMAIN placed[o] : HandleProviderCallback(j, o, i)
  <2>1. PICK i \in DOMAIN placed[o] : HandleProviderCallback(j, o, i)
    BY <1>5
  <2>2. i \in Ids
    BY <1>1, BoundAssumption DEF Ids, Foreign
  <2>3. PICK r \in VerdictReplies(i, placed[o][i].state) :
            Start(j, "callback", o, applyResult(row[o], r, "callback"),
                  ResultWrites(o, r, "callback"))
    BY <2>1 DEF HandleProviderCallback
  <2>4. r \in Replies
    BY <2>2, VerdictType
  <2>5. job' \in [Jobs -> JobStates]
    BY <1>1, <2>3, <2>4, applyResultType, ResultWritesType, StartType
  <2>6. QED
    BY <1>1, <2>1, <2>5, EntryFrameType DEF HandleProviderCallback
<1>6. CASE CheckProviderStatus(j, o)
  <2>1. <<"check">> \in Seq(Ops)
    BY DEF Ops
  <2>2. job' \in [Jobs -> JobStates]
    BY <1>1, <1>6, <2>1, StartType DEF CheckProviderStatus
  <2>3. QED
    BY <1>1, <1>6, <2>2, EntryFrameType DEF CheckProviderStatus
<1>7. CASE ReconcileProcessingTransaction(j, o)
  <2>1. <<"claim", "load", "check">> \in Seq(Ops)
    BY DEF Ops
  <2>2. job' \in [Jobs -> JobStates]
    BY <1>1, <1>7, <2>1, NoRowType, StartType DEF ReconcileProcessingTransaction
  <2>3. QED
    BY <1>1, <1>7, <2>2, EntryFrameType DEF ReconcileProcessingTransaction
<1>8. CASE RetryDigiflazzBalanceHolds(j, o)
  <2>1. <<"claim", "save", "purchase">> \in Seq(Ops)
    BY DEF Ops
  <2>2. [row[o] EXCEPT !.pst = "retrysaldo"] \in Rows
    BY <1>1, <1>2 DEF Rows
  <2>3. job' \in [Jobs -> JobStates]
    BY <1>1, <1>8, <2>1, <2>2, StartType DEF RetryDigiflazzBalanceHolds
  <2>4. QED
    BY <1>1, <1>8, <2>3, EntryFrameType DEF RetryDigiflazzBalanceHolds
<1>9. QED
  BY <1>3, <1>4, <1>5, <1>6, <1>7, <1>8 DEF AutomaticEntry

LEMMA StartReopeningType ==
    ASSUME job \in [Jobs -> JobStates], NEW j \in Jobs, NEW k, NEW o \in Orders,
           NEW tx \in Rows, NEW plan \in Seq(Ops), StartReopening(j, k, o, tx, plan)
    PROVE  job' \in [Jobs -> JobStates]
<1>1. <<"redebit">> \o plan \in Seq(Ops) /\ Reopened(k, tx) \in Rows
  BY PlansType, ReopenedType
<1>2. \/ Start(j, k, o, tx, <<"redebit">> \o plan)
      \/ Start(j, k, o, Reopened(k, tx), plan)
  BY DEF StartReopening
<1>3. QED
  BY <1>1, <1>2, StartType

LEMMA AdminEntryType ==
    ASSUME TypeOK, NEW j \in Jobs, NEW o \in Orders, AdminEntry(j, o)
    PROVE  TypeOK'
<1>1. /\ job \in [Jobs -> JobStates] /\ row[o] \in Rows /\ route \in Providers
      /\ lastRef \in [Orders -> 0 .. MaxRefs] /\ lastRef[o] \in 0 .. MaxRefs
      /\ adminCalls \in 0 .. MaxAdmin
  BY DEF TypeOK
<1>2. /\ "refunded" \in Statuses /\ "failed" \in Statuses
      /\ "held" \in ProviderStatuses
  BY DEF Statuses, ProviderStatuses
<1>3. AdminCall => adminCalls' \in 0 .. MaxAdmin
  BY <1>1, LifecycleAssumption DEF AdminCall
<1>4. CASE ManualRetry(j, o)
  <2> DEFINE switched == prepareProviderSwitchForRetry(row[o], route, lastRef[o] + 1)
  <2>1. switched.ref <= MaxRefs /\ EntryFrame
        /\ lastRef' = [lastRef EXCEPT ![o] = IF switched = row[o] THEN @ ELSE @ + 1]
        /\ StartReopening(j, "retry", o, switched, <<"save", "purchase">>)
        /\ adminCalls' \in 0 .. MaxAdmin
    BY <1>3, <1>4 DEF ManualRetry
  <2>2. \/ switched = row[o]
        \/ switched = [row[o] EXCEPT !.ref = lastRef[o] + 1, !.id = 0, !.exch = FALSE]
    BY DEF prepareProviderSwitchForRetry
  <2> HIDE DEF switched
  <2>3. switched # row[o] => lastRef[o] + 1 \in 0 .. MaxRefs
    <3>1. ASSUME switched # row[o] PROVE switched.ref = lastRef[o] + 1
      BY <1>1, <2>2, <3>1 DEF Rows
    <3>2. QED
      BY <1>1, <2>1, <3>1, BoundAssumption
  <2>4. switched \in Rows
    <3>1. CASE switched = row[o]
      BY <1>1, <3>1
    <3>2. CASE switched # row[o]
      <4>1. 0 \in Ids /\ lastRef[o] + 1 \in 0 .. MaxRefs
        BY <2>3, <3>2, IdsType
      <4>2. QED
        BY <1>1, <2>2, <3>2, <4>1 DEF Rows
    <3>3. QED
      BY <3>1, <3>2
  <2>5. <<"save", "purchase">> \in Seq(Ops)
    BY DEF Ops
  <2>6. job' \in [Jobs -> JobStates]
    BY <1>1, <2>1, <2>4, <2>5, StartReopeningType
  <2>7. lastRef' \in [Orders -> 0 .. MaxRefs]
    BY <1>1, <2>1, <2>3
  <2>8. QED
    BY <2>1, <2>6, <2>7, EntryFrameType
<1>5. CASE ManualSetSuccess(j, o)
  <2>1. <<"save", "status">> \in Seq(Ops)
    BY DEF Ops
  <2>2. job' \in [Jobs -> JobStates]
    BY <1>1, <1>5, <2>1, StartReopeningType DEF ManualSetSuccess
  <2>3. QED
    BY <1>1, <1>3, <1>5, <2>2, EntryFrameType DEF ManualSetSuccess
<1>6. CASE ManualRefund(j, o)
  <2>1. [row[o] EXCEPT !.status = "refunded", !.pst = "held"] \in Rows
    BY <1>1, <1>2 DEF Rows
  <2>2. job' \in [Jobs -> JobStates]
    BY <1>1, <1>6, <2>1, PlansType, StartType DEF ManualRefund
  <2>3. QED
    BY <1>1, <1>3, <1>6, <2>2, EntryFrameType DEF ManualRefund
<1>7. CASE ManualSetFailed(j, o)
  <2>1. [row[o] EXCEPT !.status = "failed", !.pst = "held"] \in Rows
    BY <1>1, <1>2 DEF Rows
  <2>2. job' \in [Jobs -> JobStates]
    BY <1>1, <1>7, <2>1, PlansType, StartType DEF ManualSetFailed
  <2>3. QED
    BY <1>1, <1>3, <1>7, <2>2, EntryFrameType DEF ManualSetFailed
<1>8. CASE BulkRetryWithProvider(j, o)
  <2>1. [row[o] EXCEPT !.exch = FALSE, !.pst = "held"] \in Rows
    BY <1>1, <1>2 DEF Rows
  <2>2. <<"saveOrAbort", "purchase">> \in Seq(Ops)
    BY DEF Ops
  <2>3. job' \in [Jobs -> JobStates]
    BY <1>1, <1>8, <2>1, <2>2, StartType DEF BulkRetryWithProvider
  <2>4. QED
    BY <1>1, <1>3, <1>8, <2>3, EntryFrameType DEF BulkRetryWithProvider
<1>9. CASE RegenerateProviderRefID(j, o)
  <2>1. lastRef[o] + 1 \in 0 .. MaxRefs
    BY <1>1, <1>9, BoundAssumption DEF RegenerateProviderRefID
  <2>2. [row[o] EXCEPT !.ref = lastRef[o] + 1] \in Rows
    BY <1>1, <2>1 DEF Rows
  <2>3. <<"save">> \in Seq(Ops)
    BY DEF Ops
  <2>4. job' \in [Jobs -> JobStates]
    BY <1>1, <1>9, <2>2, <2>3, StartType DEF RegenerateProviderRefID
  <2>5. lastRef' \in [Orders -> 0 .. MaxRefs] /\ EntryFrame /\ AdminCall
    BY <1>1, <1>9, <2>1 DEF RegenerateProviderRefID
  <2>6. QED
    BY <1>3, <2>4, <2>5, EntryFrameType
<1>10. QED
  BY <1>4, <1>5, <1>6, <1>7, <1>8, <1>9 DEF AdminEntry

LEMMA WorldType ==
    ASSUME TypeOK, World
    PROVE  TypeOK'
<1>1. CASE \E o \in Orders : Age(o)
  BY <1>1 DEF Age, TypeOK, money, bounds
<1>2. CASE \E o \in Orders : \E i \in DOMAIN placed[o] : Decide(o, i)
  <2>1. PICK o \in Orders : \E i \in DOMAIN placed[o] : Decide(o, i)
    BY <1>2
  <2>2. PICK i \in DOMAIN placed[o] : Decide(o, i)
    BY <2>1
  <2>3. PICK s \in {"success", "failed"} :
           placed' = [placed EXCEPT ![o][i].state = s]
    BY <2>2 DEF Decide
  <2>4. placed \in [Orders -> Seq(PlacedOrders)] /\ \A q \in Orders : Len(placed[q]) <= MaxPlaced
    BY DEF TypeOK
  <2>5. [placed[o][i] EXCEPT !.state = s] \in PlacedOrders
    <3>1. placed[o][i] \in PlacedOrders
      BY <2>4
    <3>2. QED
      BY <3>1 DEF PlacedOrders, PlacedStates
  <2>6. /\ [placed[o] EXCEPT ![i] = [placed[o][i] EXCEPT !.state = s]] \in Seq(PlacedOrders)
        /\ Len([placed[o] EXCEPT ![i] = [placed[o][i] EXCEPT !.state = s]]) = Len(placed[o])
    BY <2>4, <2>5
  <2>7. placed' \in [Orders -> Seq(PlacedOrders)] /\ \A q \in Orders : Len(placed'[q]) <= MaxPlaced
    BY <2>3, <2>4, <2>6
  <2>8. QED
    BY <2>2, <2>7 DEF Decide, TypeOK, money, bounds
<1>3. CASE SwitchProvider
  <2>1. adminCalls' \in 0 .. MaxAdmin
    BY <1>3, LifecycleAssumption DEF SwitchProvider, AdminCall, TypeOK
  <2>2. QED
    BY <1>3, <2>1 DEF SwitchProvider, TypeOK, money
<1>4. CASE Crash
  <2>1. crashes' \in 0 .. MaxCrashes
    BY <1>4, LifecycleAssumption DEF Crash, TypeOK
  <2>2. job' \in [Jobs -> JobStates]
    BY <1>4, IdleJobType DEF Crash
  <2>3. QED
    BY <1>4, <2>1, <2>2 DEF Crash, TypeOK, money
<1>5. QED
  BY <1>1, <1>2, <1>3, <1>4 DEF World

LEMMA TypeStep == TypeOK /\ [Next]_vars => TypeOK'
<1> SUFFICES ASSUME TypeOK, [Next]_vars PROVE TypeOK'
  OBVIOUS
<1>1. CASE \E j \in Jobs : Statement(j) \/ Call(j) \/ StatementFails(j)
  BY <1>1, StatementType, CallType
<1>2. CASE \E j \in Jobs, o \in Orders : AutomaticEntry(j, o) \/ AdminEntry(j, o)
  BY <1>2, AutomaticEntryType, AdminEntryType
<1>3. CASE World
  BY <1>3, WorldType
<1>4. CASE UNCHANGED vars
  BY <1>4 DEF vars, TypeOK
<1>5. QED
  BY <1>1, <1>2, <1>3, <1>4 DEF Next

\* The variables keep their types whatever the handlers do: a balance, in
\* particular, never goes below zero, because UpdateBalance tests it under the
\* row lock.
THEOREM TypeCorrect == Spec => []TypeOK
<1>1. Init => TypeOK
  BY InitType
<1>2. TypeOK /\ [Next]_vars => TypeOK'
  BY TypeStep
<1>3. QED
  BY <1>1, <1>2, PTL DEF Spec
===============================================================================
