--------------------------- MODULE OrderMoneyProofs ---------------------------
(***************************************************************************)
(* The money theorems of OrderLifecycle: an invoice is refunded at most    *)
(* once, never before it was charged, and a row is marked refunded only     *)
(* after the credit.  MoneyInv is the inductive invariant.                  *)
(***************************************************************************)
EXTENDS OrderLifecycleProofs, SequenceTheorems

-------------------------------------------------------------------------------
(* Which plans hold a credit.                                              *)

LEMMA TailCredits ==
    ASSUME NEW s \in Seq(Ops), s # <<>>, PlansCredit(Tail(s))
    PROVE  PlansCredit(s)
<1>1. PICK i \in DOMAIN Tail(s) : Tail(s)[i] \in {"credit", "creditOrAbort"}
  BY DEF PlansCredit
<1>2. i + 1 \in DOMAIN s /\ s[i + 1] = Tail(s)[i]
  BY <1>1
<1>3. QED
  BY <1>1, <1>2 DEF PlansCredit

LEMMA ConcatCredits ==
    ASSUME NEW s \in Seq(Ops), NEW t \in Seq(Ops), PlansCredit(s \o t)
    PROVE  PlansCredit(s) \/ PlansCredit(t)
<1>1. PICK i \in DOMAIN (s \o t) : (s \o t)[i] \in {"credit", "creditOrAbort"}
  BY DEF PlansCredit
<1>2. CASE i <= Len(s)
  BY <1>1, <1>2 DEF PlansCredit
<1>3. CASE i > Len(s)
  <2>1. i - Len(s) \in DOMAIN t /\ t[i - Len(s)] = (s \o t)[i]
    BY <1>1, <1>3
  <2>2. QED
    BY <1>1, <2>1 DEF PlansCredit
<1>4. QED
  BY <1>1, <1>2, <1>3

\* A credit is part of what applyResult or an admin plans for balance orders.
LEMMA NoCreditOps ==
    /\ ~PlansCredit(<<>>)
    /\ ~PlansCredit(<<"save">>) /\ ~PlansCredit(<<"status">>)
    /\ ~PlansCredit(<<"save", "status">>) /\ ~PlansCredit(<<"status", "save">>)
    /\ ~PlansCredit(<<"debit">>) /\ ~PlansCredit(<<"redebit">>)
    /\ ~PlansCredit(<<"save", "purchase">>) /\ ~PlansCredit(<<"saveOrAbort", "purchase">>)
    /\ ~PlansCredit(<<"mark", "purchase">>) /\ ~PlansCredit(<<"check">>)
    /\ ~PlansCredit(<<"claim", "load", "check">>)
    /\ ~PlansCredit(<<"claim", "save", "purchase">>)
    /\ ~PlansCredit(<<"debit", "insert", "purchase">>) /\ ~PlansCredit(<<"insert">>)
    /\ ~PlansCredit(<<"reread">>)
  BY DEF PlansCredit

LEMMA ResultCredits ==
    ASSUME NEW o \in Orders, NEW reply \in Replies, NEW src, ~IsSaldo(o)
    PROVE  ~PlansCredit(ResultWrites(o, reply, src))
<1>1. safeRefundTransaction(o) = <<>>
  BY DEF safeRefundTransaction
<1>2. \/ ResultWrites(o, reply, src) = <<"status">> \o <<>> \o <<"save">>
      \/ ResultWrites(o, reply, src) = <<"save", "status">> \o <<>>
      \/ ResultWrites(o, reply, src) = <<"save", "status">>
      \/ ResultWrites(o, reply, src) = <<"save">>
      \/ ResultWrites(o, reply, src) = <<"status", "save">>
  BY <1>1, Zenon DEF ResultWrites
<1>3. \A s \in Seq(Ops) : s \o <<>> = s
  OBVIOUS
<1>4. /\ <<"status">> \in Seq(Ops) /\ <<"save">> \in Seq(Ops)
      /\ <<"save", "status">> \in Seq(Ops)
  BY DEF Ops
<1>5. ~PlansCredit(<<"status">> \o <<"save">>)
  BY <1>4, NoCreditOps, ConcatCredits
<1>6. QED
  BY <1>2, <1>3, <1>4, <1>5, NoCreditOps

-------------------------------------------------------------------------------
(* One job moves, the money only grows: what is left to show.              *)

OthersKeep(j) == \A k \in Jobs : k # j => job'[k] = job[k]
GoodRow(o) ==
    IsSaldo(o) => /\ row[o].status # "none" => debits[o] >= 1
                  /\ row[o].status = "refunded" => refunds[o] >= 1

LEMMA MoneyFrame ==
    ASSUME TypeOK, TypeOK', MoneyInv, NEW j \in Jobs,
           \A o \in Orders : debits'[o] >= debits[o] /\ refunds'[o] >= refunds[o],
           RefundAtMostOnce', RefundedOnlyIfCharged',
           OthersKeep(j), GoodJob(job[j])', \A o \in Orders : GoodRow(o)'
    PROVE  MoneyInv'
<1>1. /\ debits \in [Orders -> Nat] /\ debits' \in [Orders -> Nat]
      /\ refunds \in [Orders -> Nat] /\ refunds' \in [Orders -> Nat]
      /\ job \in [Jobs -> JobStates]
  BY DEF TypeOK
<1>2. ASSUME NEW k \in Jobs PROVE GoodJob(job[k])'
  <2>1. CASE k = j
    BY <2>1
  <2>2. CASE k # j
    <3>1. job'[k] = job[k] /\ job[k].ord \in Orders /\ GoodJob(job[k])
      BY <1>1, <2>2, JobFacts DEF OthersKeep, MoneyInv
    <3>2. debits'[job[k].ord] >= debits[job[k].ord] /\ refunds'[job[k].ord] >= refunds[job[k].ord]
      BY <3>1
    <3>3. Charged(job[k])'
      BY <1>1, <3>1, <3>2 DEF GoodJob, Charged, IsSaldo
    <3>4. CreditsSaldo(job[k])'
      BY <3>1 DEF GoodJob, CreditsSaldo, PlansCredit, IsSaldo
    <3>5. CopyCredited(job[k])'
      BY <1>1, <3>1, <3>2 DEF GoodJob, CopyCredited, IsSaldo
    <3>6. QED
      BY <3>3, <3>4, <3>5 DEF GoodJob
  <2>3. QED
    BY <2>1, <2>2
<1>3. RowsAreCharged' /\ RefundedMeansCredited'
  BY DEF GoodRow, RowsAreCharged, RefundedMeansCredited, IsSaldo
<1>4. QED
  BY <1>2, <1>3 DEF MoneyInv

\* A step that writes neither rows nor money.
LEMMA JobFrame ==
    ASSUME TypeOK, TypeOK', MoneyInv, NEW j \in Jobs,
           UNCHANGED <<row, money>>, OthersKeep(j), GoodJob(job[j])'
    PROVE  MoneyInv'
<1>1. row' = row /\ debits' = debits /\ refunds' = refunds
  BY DEF money
<1>2. \A o \in Orders : GoodRow(o)'
  BY <1>1 DEF MoneyInv, RowsAreCharged, RefundedMeansCredited, GoodRow, IsSaldo
<1>3. \A o \in Orders : debits'[o] >= debits[o] /\ refunds'[o] >= refunds[o]
  BY <1>1 DEF TypeOK
<1>4. RefundAtMostOnce' /\ RefundedOnlyIfCharged'
  BY <1>1 DEF MoneyInv, RefundAtMostOnce, RefundedOnlyIfCharged
<1>5. QED
  BY <1>2, <1>3, <1>4, MoneyFrame

LEMMA StartGood ==
    ASSUME TypeOK, NEW j \in Jobs, NEW k, NEW o \in Orders, NEW tx, NEW plan,
           Start(j, k, o, tx, plan),
           PlansCredit(plan) => IsSaldo(o),
           IsSaldo(o) => debits'[o] >= 1 \/ plan = <<"debit", "insert", "purchase">>,
           IsSaldo(o) /\ tx.status = "refunded" =>
              refunds'[o] >= 1 \/ plan = <<"hasRefund", "creditOrAbort", "save", "status">>
    PROVE  OthersKeep(j) /\ GoodJob(job[j])'
<1>1. job \in [Jobs -> JobStates]
  BY DEF TypeOK
<1>2. OthersKeep(j)
  BY <1>1 DEF Start, OthersKeep
<1>3. job'[j].ord = o /\ job'[j].tx = tx /\ job'[j].plan = plan
  BY <1>1 DEF Start, IdleJob
<1>4. QED
  BY <1>2, <1>3 DEF GoodJob, Charged, CreditsSaldo, CopyCredited, PlansCredit, IsSaldo

LEMMA AbortGood ==
    ASSUME TypeOK, NEW j \in Jobs, Abort(j)
    PROVE  OthersKeep(j) /\ GoodJob(job[j])'
<1>1. job \in [Jobs -> JobStates]
  BY DEF TypeOK
<1>2. OthersKeep(j)
  BY <1>1 DEF Abort, OthersKeep
<1>3. job'[j].plan = <<>>
  BY <1>1 DEF Abort, IdleJob
<1>4. QED
  BY <1>2, <1>3 DEF GoodJob, Charged, CreditsSaldo, CopyCredited, PlansCredit

LEMMA ContinueGood ==
    ASSUME TypeOK, NEW j \in Jobs, NEW tx, NEW plan, Continue(j, tx, plan),
           PlansCredit(plan) => IsSaldo(job[j].ord),
           IsSaldo(job[j].ord) => debits'[job[j].ord] >= 1,
           IsSaldo(job[j].ord) /\ tx.status = "refunded" =>
              \/ refunds'[job[j].ord] >= 1
              \/ plan = <<"creditOrAbort", "save", "status">>
    PROVE  OthersKeep(j) /\ GoodJob(job[j])'
<1>1. job \in [Jobs -> JobStates] /\ job[j] \in JobStates
  BY DEF TypeOK
<1>2. OthersKeep(j)
  BY <1>1 DEF Continue, OthersKeep
<1>3. CASE plan = <<>>
  <2>1. job'[j].plan = <<>>
    BY <1>1, <1>3 DEF Continue, IdleJob
  <2>2. QED
    BY <1>2, <2>1 DEF GoodJob, Charged, CreditsSaldo, CopyCredited, PlansCredit
<1>4. CASE plan # <<>>
  <2>1. job'[j].ord = job[j].ord /\ job'[j].tx = tx /\ job'[j].plan = plan
    BY <1>1, <1>4 DEF Continue, JobStates
  <2>2. QED
    BY <1>2, <2>1 DEF GoodJob, Charged, CreditsSaldo, CopyCredited, PlansCredit, IsSaldo
<1>5. QED
  BY <1>3, <1>4

\* What the invariant says of a job past its first debit.
LEMMA AtFacts ==
    ASSUME TypeOK, MoneyInv, NEW j \in Jobs, job[j].plan # <<>>,
           Head(job[j].plan) # "debit"
    PROVE  /\ IsSaldo(job[j].ord) => debits[job[j].ord] >= 1
           /\ PlansCredit(job[j].plan) => IsSaldo(job[j].ord)
           /\ PlansCredit(Rest(j)) => IsSaldo(job[j].ord)
           /\ /\ IsSaldo(job[j].ord)
              /\ job[j].tx.status = "refunded"
              /\ Head(job[j].plan) \notin {"hasRefund", "creditOrAbort"}
              => refunds[job[j].ord] >= 1
<1>1. GoodJob(job[j]) /\ job[j].plan \in Seq(Ops)
  BY JobFacts DEF MoneyInv, TypeOK
<1>2. PlansCredit(Rest(j)) => PlansCredit(job[j].plan)
  BY <1>1, TailCredits DEF Rest
<1>3. job[j].plan # <<"debit", "insert", "purchase">>
  OBVIOUS
<1>4. Head(job[j].plan) \notin {"hasRefund", "creditOrAbort"} =>
         /\ job[j].plan # <<"hasRefund", "creditOrAbort", "save", "status">>
         /\ job[j].plan # <<"creditOrAbort", "save", "status">>
  OBVIOUS
<1>5. QED
  BY <1>1, <1>2, <1>3, <1>4 DEF GoodJob, Charged, CreditsSaldo, CopyCredited

\* A handler that goes on with its copy and the rest of its plan, when the
\* operation it carried out was no debit.
LEMMA ProceedGood ==
    ASSUME TypeOK, TypeOK', MoneyInv, NEW j \in Jobs, job[j].plan # <<>>,
           Head(job[j].plan) # "debit", Proceed(j),
           debits'[job[j].ord] >= debits[job[j].ord],
           refunds'[job[j].ord] >= refunds[job[j].ord],
           Head(job[j].plan) = "creditOrAbort" => refunds'[job[j].ord] >= 1
    PROVE  OthersKeep(j) /\ GoodJob(job[j])'
<1> DEFINE o == job[j].ord
<1>1. /\ o \in Orders /\ debits[o] \in Nat /\ refunds[o] \in Nat
      /\ debits'[o] \in Nat /\ refunds'[o] \in Nat
      /\ GoodJob(job[j])
  BY JobFacts DEF TypeOK, MoneyInv
<1>2. Continue(j, job[j].tx, Rest(j))
  BY DEF Proceed
<1>3. PlansCredit(Rest(j)) => IsSaldo(o)
  BY AtFacts
<1>4. IsSaldo(o) => debits'[o] >= 1
  <2>1. IsSaldo(o) => debits[o] >= 1
    BY AtFacts
  <2>2. QED
    BY <1>1, <2>1
<1>5. IsSaldo(o) /\ job[j].tx.status = "refunded" =>
         refunds'[o] >= 1 \/ Rest(j) = <<"creditOrAbort", "save", "status">>
  <2>1. CASE refunds[o] >= 1
    BY <1>1, <2>1
  <2>2. CASE job[j].plan = <<"hasRefund", "creditOrAbort", "save", "status">>
    BY <2>2 DEF Rest
  <2>3. CASE job[j].plan = <<"creditOrAbort", "save", "status">>
    <3>1. Head(job[j].plan) = "creditOrAbort"
      BY <2>3
    <3>2. QED
      BY <3>1
  <2>4. QED
    BY <1>1, <2>1, <2>2, <2>3 DEF GoodJob, CopyCredited
<1>6. QED
  BY <1>2, <1>3, <1>4, <1>5, ContinueGood

\* applyResult plans credits for balance orders, and makes no refunded copy.
LEMMA ApplyGood ==
    ASSUME TypeOK, NEW j \in Jobs, NEW tx \in Rows, NEW reply \in Replies, NEW src,
           Apply(j, tx, reply, src),
           IsSaldo(job[j].ord) => debits'[job[j].ord] >= 1,
           IsSaldo(job[j].ord) /\ tx.status = "refunded" => refunds'[job[j].ord] >= 1
    PROVE  OthersKeep(j) /\ GoodJob(job[j])'
<1>1. CASE Dropped(reply, src)
  BY <1>1, AbortGood DEF Apply
<1>2. CASE ~Dropped(reply, src)
  <2>1. Continue(j, applyResult(tx, reply, src), ResultWrites(job[j].ord, reply, src))
    BY <1>2 DEF Apply
  <2>2. applyResult(tx, reply, src).status = ResultStatus(tx, reply, src)
    BY DEF applyResult, Rows
  <2>3. ResultStatus(tx, reply, src) = "refunded" => tx.status = "refunded"
    BY DEF ResultStatus
  <2>4. job[j].ord \in Orders
    BY JobFacts DEF TypeOK
  <2>5. PlansCredit(ResultWrites(job[j].ord, reply, src)) => IsSaldo(job[j].ord)
    BY <2>4, ResultCredits
  <2>6. QED
    BY <2>1, <2>2, <2>3, <2>5, ContinueGood
<1>3. QED
  BY <1>1, <1>2

LEMMA RedebitGood ==
    ASSUME TypeOK, MoneyInv, NEW j \in Jobs, At(j, "redebit"), NEW refunded,
           Redebit(j, refunded), UNCHANGED money
    PROVE  OthersKeep(j) /\ GoodJob(job[j])'
<1> DEFINE owed == Owed(job[j].tx, refunded)
           first == IF owed THEN <<"debit">> ELSE <<>>
           tx == Reopened(job[j].kind, job[j].tx)
<1>1. Continue(j, tx, first \o Rest(j))
  BY Zenon DEF Redebit
<1>2. /\ job[j].plan # <<>> /\ Head(job[j].plan) = "redebit"
      /\ job[j].tx \in Rows /\ Rest(j) \in Seq(Ops)
  BY JobFacts DEF TypeOK, At
<1>3. tx.status \in {"success", "processing"}
  BY <1>2 DEF Reopened, Rows
<1>4. first \in Seq(Ops) /\ ~PlansCredit(first)
  <2>1. <<"debit">> \in Seq(Ops) /\ <<>> \in Seq(Ops)
    BY DEF Ops
  <2>2. first = <<"debit">> \/ first = <<>>
    BY Zenon
  <2>3. QED
    BY <2>1, <2>2, NoCreditOps
<1> HIDE DEF first, tx
<1>5. PlansCredit(first \o Rest(j)) => IsSaldo(job[j].ord)
  BY <1>2, <1>4, ConcatCredits, AtFacts
<1>6. IsSaldo(job[j].ord) => debits'[job[j].ord] >= 1
  BY <1>2, AtFacts DEF money
<1>7. QED
  BY <1>1, <1>3, <1>5, <1>6, ContinueGood

-------------------------------------------------------------------------------
(* Every action keeps the invariant.                                       *)

\* A statement that writes the row of a charged order, with a status that is
\* refunded only after the credit.
LEMMA RowWrite ==
    ASSUME TypeOK, TypeOK', MoneyInv, NEW j \in Jobs, NEW r,
           job[j].plan # <<>>, Head(job[j].plan) \notin {"debit", "hasRefund", "creditOrAbort"},
           row' = [row EXCEPT ![job[j].ord] = r], UNCHANGED money,
           r.status = "refunded" => "refunded" \in {job[j].tx.status, row[job[j].ord].status},
           Proceed(j)
    PROVE  MoneyInv'
<1> DEFINE o == job[j].ord
<1>1. /\ o \in Orders /\ row \in [Orders -> Rows]
      /\ debits \in [Orders -> Nat] /\ refunds \in [Orders -> Nat]
      /\ debits' = debits /\ refunds' = refunds
  BY JobFacts DEF TypeOK, money
<1>2. /\ IsSaldo(o) => debits[o] >= 1
      /\ IsSaldo(o) /\ job[j].tx.status = "refunded" => refunds[o] >= 1
  BY AtFacts
<1>3. \A q \in Orders : GoodRow(q)
  BY DEF MoneyInv, RowsAreCharged, RefundedMeansCredited, GoodRow
<1>4. ASSUME NEW q \in Orders PROVE GoodRow(q)'
  <2>1. CASE q = o
    <3>1. row'[q] = r
      BY <1>1, <2>1
    <3>2. QED
      BY <1>1, <1>2, <1>3, <2>1, <3>1 DEF GoodRow, IsSaldo
  <2>2. CASE q # o
    <3>1. row'[q] = row[q]
      BY <1>1, <2>2
    <3>2. QED
      BY <1>1, <1>3, <3>1 DEF GoodRow, IsSaldo
  <2>3. QED
    BY <2>1, <2>2
<1>5. OthersKeep(j) /\ GoodJob(job[j])'
  BY <1>1, ProceedGood
<1>6. \A q \in Orders : debits'[q] >= debits[q] /\ refunds'[q] >= refunds[q]
  BY <1>1
<1>7. RefundAtMostOnce' /\ RefundedOnlyIfCharged'
  BY <1>1 DEF MoneyInv, RefundAtMostOnce, RefundedOnlyIfCharged
<1>8. QED
  BY <1>4, <1>5, <1>6, <1>7, MoneyFrame

LEMMA DebitMoney ==
    ASSUME TypeOK, TypeOK', MoneyInv, NEW j \in Jobs, Debit(j)
    PROVE  MoneyInv'
<1> DEFINE o == job[j].ord
<1>1. /\ o \in Orders /\ row' = row
      /\ debits \in [Orders -> Nat] /\ refunds \in [Orders -> Nat]
      /\ GoodJob(job[j])
      /\ \A q \in Orders : GoodRow(q)
  BY JobFacts DEF TypeOK, Debit, MoneyInv, RowsAreCharged, RefundedMeansCredited, GoodRow
<1>2. CASE Sufficient(o)
  <2>1. /\ debits' = [debits EXCEPT ![o] = @ + 1] /\ refunds' = refunds
        /\ Proceed(j) /\ At(j, "debit")
    BY <1>2 DEF Debit
  <2>2. \A q \in Orders : debits'[q] >= debits[q] /\ refunds'[q] >= refunds[q]
    BY <1>1, <2>1
  <2>3. RefundAtMostOnce'
    BY <1>1, <2>1 DEF MoneyInv, RefundAtMostOnce
  <2>4. RefundedOnlyIfCharged'
    BY <1>1, <2>1, <2>2 DEF MoneyInv, RefundedOnlyIfCharged
  <2>5. \A q \in Orders : GoodRow(q)'
    BY <1>1, <2>1 DEF GoodRow, IsSaldo
  <2>6. debits'[o] >= 1
    BY <1>1, <2>1
  <2>7. Continue(j, job[j].tx, Rest(j)) /\ job[j].plan # <<>> /\ job[j].plan \in Seq(Ops)
    BY <2>1, JobFacts DEF Proceed, At, TypeOK
  <2>8. PlansCredit(Rest(j)) => IsSaldo(o)
    BY <1>1, <2>7, TailCredits DEF Rest, GoodJob, CreditsSaldo
  <2>9. IsSaldo(o) /\ job[j].tx.status = "refunded" => refunds'[o] >= 1
    <3>1. /\ job[j].plan # <<"hasRefund", "creditOrAbort", "save", "status">>
          /\ job[j].plan # <<"creditOrAbort", "save", "status">>
      BY <2>1 DEF At
    <3>2. QED
      BY <1>1, <2>1, <2>7, <3>1 DEF GoodJob, CopyCredited
  <2>10. OthersKeep(j) /\ GoodJob(job[j])'
    BY <2>6, <2>7, <2>8, <2>9, ContinueGood
  <2>11. QED
    BY <2>2, <2>3, <2>4, <2>5, <2>10, MoneyFrame
<1>3. CASE ~Sufficient(o)
  <2>1. Abort(j) /\ UNCHANGED money
    BY <1>3 DEF Debit
  <2>2. QED
    BY <1>1, <2>1, AbortGood, JobFrame
<1>4. QED
  BY <1>2, <1>3

LEMMA CreditMoney ==
    ASSUME TypeOK, TypeOK', MoneyInv, NEW j \in Jobs, Credit(j)
    PROVE  MoneyInv'
<1> DEFINE o == job[j].ord
<1>1. /\ o \in Orders /\ row' = row
      /\ debits \in [Orders -> Nat] /\ refunds \in [Orders -> Nat]
      /\ \A q \in Orders : GoodRow(q)
  BY JobFacts DEF TypeOK, Credit, MoneyInv, RowsAreCharged, RefundedMeansCredited, GoodRow
<1>2. /\ job[j].plan # <<>> /\ job[j].plan \in Seq(Ops)
      /\ Head(job[j].plan) \in {"credit", "creditOrAbort"} /\ Proceed(j)
  BY JobFacts DEF Credit, At, TypeOK
<1>3. CASE RefundRecorded(o)
  <2>1. UNCHANGED money
    BY <1>3 DEF Credit
  <2>2. debits' = debits /\ refunds' = refunds /\ refunds[o] >= 1
    BY <1>1, <1>3, <2>1 DEF money, RefundRecorded
  <2>3. OthersKeep(j) /\ GoodJob(job[j])'
    BY <1>1, <1>2, <2>2, ProceedGood
  <2>4. QED
    BY <1>1, <2>1, <2>3, JobFrame
<1>4. CASE ~RefundRecorded(o)
  <2>1. refunds' = [refunds EXCEPT ![o] = @ + 1] /\ debits' = debits
    BY <1>4 DEF Credit
  <2>2. refunds[o] = 0
    BY <1>1, <1>4 DEF RefundRecorded
  <2>3. IsSaldo(o) /\ debits[o] >= 1
    <3>1. PlansCredit(job[j].plan)
      BY <1>2 DEF PlansCredit
    <3>2. QED
      BY <1>2, <3>1, AtFacts
  <2>4. \A q \in Orders : debits'[q] >= debits[q] /\ refunds'[q] >= refunds[q]
    BY <1>1, <2>1
  <2>5. RefundAtMostOnce'
    BY <1>1, <2>1, <2>2 DEF MoneyInv, RefundAtMostOnce
  <2>6. RefundedOnlyIfCharged'
    BY <1>1, <2>1, <2>2, <2>3 DEF MoneyInv, RefundedOnlyIfCharged
  <2>7. \A q \in Orders : GoodRow(q)'
    BY <1>1, <2>1 DEF GoodRow, IsSaldo
  <2>8. refunds'[o] >= 1 /\ debits'[o] >= debits[o] /\ refunds'[o] >= refunds[o]
    BY <1>1, <2>1
  <2>9. OthersKeep(j) /\ GoodJob(job[j])'
    BY <1>2, <2>8, ProceedGood
  <2>10. QED
    BY <2>4, <2>5, <2>6, <2>7, <2>9, MoneyFrame
<1>5. QED
  BY <1>3, <1>4

LEMMA StatementMoney ==
    ASSUME TypeOK, TypeOK', MoneyInv, NEW j \in Jobs, Statement(j) \/ StatementFails(j)
    PROVE  MoneyInv'
<1> DEFINE o == job[j].ord
<1>1. /\ o \in Orders /\ job[j].tx \in Rows /\ row \in [Orders -> Rows] /\ row[o] \in Rows
      /\ debits \in [Orders -> Nat] /\ refunds \in [Orders -> Nat]
      /\ job[j].plan \in Seq(Ops) /\ job[j].reply \in Replies
  BY JobFacts DEF TypeOK
<1>2. ASSUME UNCHANGED money
      PROVE  debits'[o] >= debits[o] /\ refunds'[o] >= refunds[o]
  BY <1>1, <1>2 DEF money
<1>3. CASE Debit(j) \/ Credit(j)
  BY <1>3, DebitMoney, CreditMoney
<1>4. CASE HasRefund(j)
  <2> DEFINE skip == SubSeq(job[j].plan, 3, Len(job[j].plan))
  <2>1. UNCHANGED <<row, money>> /\ At(j, "hasRefund")
    BY <1>4 DEF HasRefund
  <2>2. CASE refunds[o] > 0
    <3>1. Continue(j, job[j].tx, skip)
      BY <1>4, <2>2 DEF HasRefund
    <3>2. PlansCredit(skip) => PlansCredit(job[j].plan)
      <4>1. ASSUME NEW i \in DOMAIN skip
            PROVE  i + 2 \in DOMAIN job[j].plan /\ skip[i] = job[j].plan[i + 2]
        BY <1>1
      <4>2. QED
        BY <4>1 DEF PlansCredit
    <3> HIDE DEF skip
    <3>3. PlansCredit(skip) => IsSaldo(o)
      BY <2>1, <3>2, AtFacts DEF At
    <3>4. (IsSaldo(o) => debits'[o] >= 1) /\ refunds'[o] >= 1
      BY <1>1, <2>1, <2>2, AtFacts DEF At, money
    <3>5. QED
      BY <2>1, <3>1, <3>3, <3>4, ContinueGood, JobFrame
  <2>3. CASE ~(refunds[o] > 0)
    <3>1. Proceed(j) /\ job[j].plan # <<>> /\ Head(job[j].plan) = "hasRefund"
      BY <1>4, <2>3 DEF HasRefund, Proceed, At
    <3>2. QED
      BY <1>2, <2>1, <3>1, ProceedGood, JobFrame
  <2>4. QED
    BY <2>2, <2>3
<1>5. CASE RedebitCheck(j)
  <2>1. UNCHANGED <<row, money>> /\ At(j, "redebit") /\ Redebit(j, refunds[o] > 0)
    BY <1>5 DEF RedebitCheck
  <2>2. QED
    BY <2>1, RedebitGood, JobFrame
<1>6. CASE Insert(j) \/ Save(j)
  <2>1. /\ job[j].plan # <<>> /\ Head(job[j].plan) \in {"insert", "save", "saveOrAbort"}
        /\ row' = [row EXCEPT ![o] = job[j].tx] /\ Proceed(j) /\ UNCHANGED money
    BY <1>6 DEF Insert, Save, At
  <2>2. QED
    BY <2>1, RowWrite
<1>7. CASE UpdateStatus(j)
  <2> DEFINE r == [row[o] EXCEPT !.status = job[j].tx.status]
  <2>1. /\ job[j].plan # <<>> /\ Head(job[j].plan) = "status"
        /\ row' = [row EXCEPT ![o] = r] /\ Proceed(j) /\ UNCHANGED money
    BY <1>7 DEF UpdateStatus, At
  <2>2. r.status = job[j].tx.status
    BY <1>1 DEF Rows
  <2> HIDE DEF r
  <2>3. QED
    BY <2>1, <2>2, RowWrite
<1>8. CASE Mark(j)
  <2>1. UNCHANGED money /\ At(j, "mark")
    BY <1>8 DEF Mark
  <2>2. CASE MarksPending(o)
    <3> DEFINE r == [row[o] EXCEPT !.status = "processing", !.verified = TRUE]
    <3>1. row' = [row EXCEPT ![o] = r] /\ Proceed(j)
      BY <1>1, <1>8, <2>2 DEF Mark
    <3>2. r.status = "processing"
      BY <1>1 DEF Rows
    <3>3. job[j].plan # <<>> /\ Head(job[j].plan) = "mark"
      BY <2>1 DEF At
    <3> HIDE DEF r
    <3>4. QED
      BY <2>1, <3>1, <3>2, <3>3, RowWrite
  <2>3. CASE ~MarksPending(o)
    <3>1. Abort(j) /\ UNCHANGED row
      BY <1>8, <2>3 DEF Mark
    <3>2. QED
      BY <2>1, <3>1, AbortGood, JobFrame
  <2>4. QED
    BY <2>2, <2>3
<1>9. CASE Claim(j)
  <2>1. /\ UNCHANGED <<row, money>> /\ job[j].plan # <<>> /\ Head(job[j].plan) = "claim"
        /\ Proceed(j) \/ Abort(j)
    BY <1>9 DEF Claim, At
  <2>2. QED
    BY <1>2, <2>1, ProceedGood, AbortGood, JobFrame
<1>10. CASE Load(j) \/ Reread(j)
  <2>1. /\ UNCHANGED <<row, money>> /\ job[j].plan # <<>>
        /\ Head(job[j].plan) \in {"load", "reread"}
    BY <1>10 DEF Load, Reread, At
  <2>2. /\ IsSaldo(o) => debits'[o] >= 1
        /\ PlansCredit(Rest(j)) => IsSaldo(o)
    BY <1>1, <2>1, AtFacts DEF money
  <2>3. CASE Abort(j)
    BY <2>1, <2>3, AbortGood, JobFrame
  <2>4. CASE row[o].status = "processing" /\ Continue(j, row[o], Rest(j))
    <3>1. row[o].status # "refunded"
      BY <2>4
    <3>2. OthersKeep(j) /\ GoodJob(job[j])'
      BY <1>1, <2>2, <2>4, <3>1, ContinueGood
    <3>3. QED
      BY <2>1, <3>2, JobFrame
  <2>5. CASE row[o].status = "processing" /\ Apply(j, row[o], job[j].reply, job[j].src)
    <3>1. row[o].status # "refunded"
      BY <2>5
    <3>2. OthersKeep(j) /\ GoodJob(job[j])'
      BY <1>1, <2>2, <2>5, <3>1, ApplyGood
    <3>3. QED
      BY <2>1, <3>2, JobFrame
  <2>6. QED
    BY <1>10, <2>3, <2>4, <2>5 DEF Load, Reread
<1>11. CASE StatementFails(j)
  <2>1. UNCHANGED <<row, money>> /\ job[j].plan # <<>>
    BY <1>11 DEF StatementFails
  <2> DEFINE op == Head(job[j].plan)
  <2>2. \/ op = "insert" /\ IsSaldo(o) /\ Continue(j, job[j].tx, <<"credit">>)
        \/ op = "redebit" /\ Redebit(j, FALSE)
        \/ op \in {"status", "save", "credit", "hasRefund"} /\ Proceed(j)
        \/ Abort(j)
    BY <1>11, Zenon DEF StatementFails
  <2>3. CASE op = "insert" /\ IsSaldo(o) /\ Continue(j, job[j].tx, <<"credit">>)
    <3>1. op = "insert"
      BY <2>3
    <3>2. debits[o] >= 1 /\ (job[j].tx.status = "refunded" => refunds[o] >= 1)
      BY <2>1, <2>3, <3>1, AtFacts
    <3>3. debits'[o] >= 1 /\ (job[j].tx.status = "refunded" => refunds'[o] >= 1)
      BY <2>1, <3>2 DEF money
    <3>4. QED
      BY <2>1, <2>3, <3>3, ContinueGood, JobFrame
  <2>4. CASE op = "redebit" /\ Redebit(j, FALSE)
    BY <2>1, <2>4, RedebitGood, JobFrame DEF At
  <2>5. CASE op \in {"status", "save", "credit", "hasRefund"} /\ Proceed(j)
    BY <1>2, <2>1, <2>5, ProceedGood, JobFrame
  <2>6. CASE Abort(j)
    BY <2>1, <2>6, AbortGood, JobFrame
  <2>7. QED
    BY <2>2, <2>3, <2>4, <2>5, <2>6
<1>12. QED
  BY <1>3, <1>4, <1>5, <1>6, <1>7, <1>8, <1>9, <1>10, <1>11 DEF Statement

LEMMA CallMoney ==
    ASSUME TypeOK, TypeOK', MoneyInv, NEW j \in Jobs, Call(j)
    PROVE  MoneyInv'
<1> DEFINE o == job[j].ord
           p == RouteOf(job[j].tx, route)
           tx == Noted(j, p)
           buy == shouldPurchaseInsteadOfCheck(job[j].tx)
           src == IF buy THEN "fulfill" ELSE job[j].kind
           call == IF buy THEN "purchase" ELSE "check"
<1>1. /\ o \in Orders /\ job[j].tx \in Rows /\ job \in [Jobs -> JobStates]
      /\ job[j].kind \in JobKinds /\ route \in Providers
      /\ debits \in [Orders -> Nat] /\ refunds \in [Orders -> Nat]
  BY JobFacts DEF TypeOK
<1>2. /\ job[j].tx.prov \in Providers /\ p \in Providers
      /\ tx \in Rows /\ tx.status = job[j].tx.status
  <2>1. job[j].tx.prov \in Providers /\ p \in Providers
    BY <1>1 DEF Rows, RouteOf
  <2>2. QED
    BY <1>1, <2>1, NotedType
<1>3. /\ UNCHANGED <<row, money>> /\ job[j].plan # <<>>
      /\ Head(job[j].plan) \in {"purchase", "check"}
  BY DEF Call, Purchase, Check, At
<1>4. /\ IsSaldo(o) => debits'[o] >= 1
      /\ IsSaldo(o) /\ job[j].tx.status = "refunded" => refunds'[o] >= 1
  BY <1>1, <1>3, AtFacts DEF money
<1>5. CASE Purchase(j)
  <2>1. CASE \E q \in {job[j].tx.prov, p} :
                Continue(j, recordConfigurationError(Noted(j, q)), <<"save">>)
    <3>0. PICK q \in {job[j].tx.prov, p} :
             Continue(j, recordConfigurationError(Noted(j, q)), <<"save">>)
      BY <2>1
    <3>1. recordConfigurationError(Noted(j, q)).status = "processing"
      BY <1>1, <1>2, NotedType, ParkedType
    <3>2. OthersKeep(j) /\ GoodJob(job[j])'
      BY <1>4, <3>0, <3>1, NoCreditOps, ContinueGood
    <3>3. QED
      BY <1>3, <3>2, JobFrame
  <2>2. CASE \E x \in Answers(o, p, job[j].tx, "purchase") :
                /\ placed' = [placed EXCEPT ![o] = x.orders]
                /\ Apply(j, tx, x.reply, "fulfill")
    <3>1. PICK x \in Answers(o, p, job[j].tx, "purchase") :
                /\ placed' = [placed EXCEPT ![o] = x.orders]
                /\ Apply(j, tx, x.reply, "fulfill")
      BY <2>2
    <3>2. x.reply \in Replies
      BY <1>1, <1>2, <3>1, AnswersStepType
    <3>3. OthersKeep(j) /\ GoodJob(job[j])'
      BY <1>2, <1>4, <3>1, <3>2, ApplyGood
    <3>4. QED
      BY <1>3, <3>3, JobFrame
  <2>3. QED
    BY <1>5, <2>1, <2>2, Zenon DEF Purchase
<1>6. CASE Check(j)
  <2>1. CASE Abort(j)
    BY <1>3, <2>1, AbortGood, JobFrame
  <2>2. CASE \E x \in Answers(o, job[j].tx.prov, job[j].tx, call) :
                /\ placed' = [placed EXCEPT ![o] = x.orders]
                /\ IF job[j].kind = "reconcile"
                   THEN job' = [job EXCEPT ![j].tx = NoRow, ![j].plan = <<"reread">>,
                                           ![j].reply = x.reply, ![j].src = src]
                   ELSE Apply(j, job[j].tx, x.reply, src)
    <3>1. PICK x \in Answers(o, job[j].tx.prov, job[j].tx, call) :
                /\ placed' = [placed EXCEPT ![o] = x.orders]
                /\ IF job[j].kind = "reconcile"
                   THEN job' = [job EXCEPT ![j].tx = NoRow, ![j].plan = <<"reread">>,
                                           ![j].reply = x.reply, ![j].src = src]
                   ELSE Apply(j, job[j].tx, x.reply, src)
      BY <2>2
    <3>2. CASE job[j].kind = "reconcile"
      <4>1. job' = [job EXCEPT ![j] =
                      [job[j] EXCEPT !.tx = NoRow, !.plan = <<"reread">>,
                                     !.reply = x.reply, !.src = src]]
        BY <1>1, <3>1, <3>2
      <4>2. OthersKeep(j)
        BY <1>1, <4>1 DEF OthersKeep
      <4>3. /\ job'[j].ord = o /\ job'[j].tx = NoRow /\ job'[j].plan = <<"reread">>
        BY <1>1, <4>1 DEF JobStates
      <4>4. NoRow.status = "none"
        BY DEF NoRow
      <4>5. GoodJob(job[j])'
        BY <1>4, <4>3, <4>4, NoCreditOps
        DEF GoodJob, Charged, CreditsSaldo, CopyCredited, PlansCredit, IsSaldo
      <4>6. QED
        BY <1>3, <4>2, <4>5, JobFrame
    <3>3. CASE job[j].kind # "reconcile"
      <4>1. x.reply \in Replies
        BY <1>1, <1>2, <3>1, AnswersStepType
      <4>2. OthersKeep(j) /\ GoodJob(job[j])'
        BY <1>1, <1>4, <3>1, <3>3, <4>1, ApplyGood
      <4>3. QED
        BY <1>3, <4>2, JobFrame
    <3>4. QED
      BY <3>2, <3>3
  <2>3. QED
    BY <1>6, <2>1, <2>2, Zenon DEF Check
<1>7. QED
  BY <1>5, <1>6 DEF Call

\* What a handler that starts on an existing row knows.
LEMMA RowFacts ==
    ASSUME TypeOK, MoneyInv, NEW o \in Orders, EntryFrame
    PROVE  /\ UNCHANGED <<row, money>>
           /\ IsSaldo(o) /\ row[o].status # "none" => debits'[o] >= 1
           /\ IsSaldo(o) /\ row[o].status = "refunded" => refunds'[o] >= 1
  BY DEF MoneyInv, RowsAreCharged, RefundedMeansCredited, EntryFrame, money

LEMMA AutomaticEntryMoney ==
    ASSUME TypeOK, TypeOK', MoneyInv, NEW j \in Jobs, NEW o \in Orders,
           AutomaticEntry(j, o)
    PROVE  MoneyInv'
<1>1. EntryFrame /\ row[o] \in Rows
  BY DEF AutomaticEntry, CreateOrder, HandlePaymentSuccess, HandleProviderCallback,
         CheckProviderStatus, ReconcileProcessingTransaction,
         RetryDigiflazzBalanceHolds, TypeOK
<1>2. /\ UNCHANGED <<row, money>>
      /\ IsSaldo(o) /\ row[o].status # "none" => debits'[o] >= 1
      /\ IsSaldo(o) /\ row[o].status = "refunded" => refunds'[o] >= 1
  BY <1>1, RowFacts
<1>3. CASE CreateOrder(j, o)
  <2>1. Start(j, "order", o, NewRow(o, route, lastRef[o] + 1), CreatePlan(o))
    BY <1>3 DEF CreateOrder
  <2>2. NewRow(o, route, lastRef[o] + 1).status # "refunded"
    BY DEF NewRow, NoRow
  <2>3. /\ ~PlansCredit(CreatePlan(o))
        /\ IsSaldo(o) => CreatePlan(o) = <<"debit", "insert", "purchase">>
    BY NoCreditOps DEF CreatePlan
  <2>4. QED
    BY <1>2, <2>1, <2>2, <2>3, StartGood, JobFrame
<1>4. CASE HandlePaymentSuccess(j, o)
  <2>1. /\ row[o].status # "none"
        /\ \/ Start(j, "pay", o, [row[o] EXCEPT !.status = "failed"], <<"status">>)
           \/ Start(j, "pay", o, row[o], <<"mark", "purchase">>)
    BY <1>4 DEF HandlePaymentSuccess, FindByInvoiceNumber
  <2>2. [row[o] EXCEPT !.status = "failed"].status = "failed"
    BY <1>1 DEF Rows
  <2>3. QED
    BY <1>2, <2>1, <2>2, NoCreditOps, StartGood, JobFrame
<1>5. CASE \E i \in DOMAIN placed[o] : HandleProviderCallback(j, o, i)
  <2>1. PICK i \in DOMAIN placed[o] : HandleProviderCallback(j, o, i)
    BY <1>5
  <2>2. PICK r \in VerdictReplies(i, placed[o][i].state) :
            Start(j, "callback", o, applyResult(row[o], r, "callback"),
                  ResultWrites(o, r, "callback"))
    BY <2>1 DEF HandleProviderCallback
  <2>3. i \in Ids
    BY BoundAssumption DEF TypeOK, Ids, Foreign
  <2>4. r \in Replies
    BY <2>3, VerdictType
  <2>5. /\ applyResult(row[o], r, "callback").status = ResultStatus(row[o], r, "callback")
    BY <1>1 DEF applyResult, Rows
  <2>6. ResultStatus(row[o], r, "callback") = "refunded" => row[o].status = "refunded"
    BY DEF ResultStatus
  <2>7. PlansCredit(ResultWrites(o, r, "callback")) => IsSaldo(o)
    BY <2>4, ResultCredits
  <2>8. row[o].status # "none"
    BY <2>1 DEF HandleProviderCallback
  <2>9. QED
    BY <1>2, <2>2, <2>5, <2>6, <2>7, <2>8, StartGood, JobFrame
<1>6. CASE CheckProviderStatus(j, o)
  <2>1. row[o].status # "none" /\ Start(j, "check", o, row[o], <<"check">>)
    BY <1>6 DEF CheckProviderStatus
  <2>2. QED
    BY <1>2, <2>1, NoCreditOps, StartGood, JobFrame
<1>7. CASE ReconcileProcessingTransaction(j, o)
  <2>1. /\ row[o].status = "processing"
        /\ Start(j, "reconcile", o, NoRow, <<"claim", "load", "check">>)
    BY <1>7 DEF ReconcileProcessingTransaction
  <2>2. NoRow.status = "none"
    BY DEF NoRow
  <2>3. QED
    BY <1>2, <2>1, <2>2, NoCreditOps, StartGood, JobFrame
<1>8. CASE RetryDigiflazzBalanceHolds(j, o)
  <2>1. /\ row[o].status = "processing"
        /\ Start(j, "holdRetry", o, [row[o] EXCEPT !.pst = "retrysaldo"],
                 <<"claim", "save", "purchase">>)
    BY <1>8 DEF RetryDigiflazzBalanceHolds
  <2>2. [row[o] EXCEPT !.pst = "retrysaldo"].status = row[o].status
    BY <1>1 DEF Rows
  <2>3. QED
    BY <1>2, <2>1, <2>2, NoCreditOps, StartGood, JobFrame
<1>9. QED
  BY <1>3, <1>4, <1>5, <1>6, <1>7, <1>8 DEF AutomaticEntry

LEMMA AdminPlanCredits ==
    ASSUME NEW o \in Orders
    PROVE  /\ PlansCredit(RefundOrAbort(o) \o <<"save", "status">>) => IsSaldo(o)
           /\ PlansCredit(RefundOrAbort(o) \o <<"save">>) => IsSaldo(o)
           /\ IsSaldo(o) => RefundOrAbort(o) \o <<"save", "status">> =
                              <<"hasRefund", "creditOrAbort", "save", "status">>
<1>1. /\ <<"save", "status">> \in Seq(Ops) /\ <<"save">> \in Seq(Ops)
      /\ RefundOrAbort(o) \in Seq(Ops)
  BY RefundOpsType DEF Ops
<1>2. ~IsSaldo(o) => ~PlansCredit(RefundOrAbort(o))
  BY NoCreditOps DEF RefundOrAbort
<1>3. IsSaldo(o) => RefundOrAbort(o) = <<"hasRefund", "creditOrAbort">>
  BY DEF RefundOrAbort
<1>4. <<"hasRefund", "creditOrAbort">> \o <<"save", "status">> =
        <<"hasRefund", "creditOrAbort", "save", "status">>
  <2> DEFINE a == <<"hasRefund", "creditOrAbort">>
             b == <<"save", "status">>
             c == <<"hasRefund", "creditOrAbort", "save", "status">>
  <2>1. a \in Seq(Ops) /\ b \in Seq(Ops) /\ c \in Seq(Ops)
    BY DEF Ops
  <2>2. Len(a) = 2 /\ Len(b) = 2 /\ Len(c) = 4 /\ Len(a \o b) = 4
    OBVIOUS
  <2>3. \A i \in 1 .. 4 : (a \o b)[i] = c[i]
    OBVIOUS
  <2>4. a \o b \in Seq(Ops)
    BY <2>1
  <2> HIDE DEF a, b, c
  <2>5. a \o b = c
    BY <2>1, <2>2, <2>3, <2>4, SeqEqual
  <2>6. QED
    BY <2>5 DEF a, b, c
<1>5. QED
  BY <1>1, <1>2, <1>3, <1>4, ConcatCredits, NoCreditOps

LEMMA ReopeningMoney ==
    ASSUME TypeOK, MoneyInv, NEW j \in Jobs, NEW o \in Orders, EntryFrame, NEW k,
           NEW tx \in Rows, NEW plan \in Seq(Ops), ~PlansCredit(plan),
           row[o].status # "none", tx.status = row[o].status,
           StartReopening(j, k, o, tx, plan)
    PROVE  OthersKeep(j) /\ GoodJob(job[j])'
<1>1. /\ IsSaldo(o) => debits'[o] >= 1
      /\ IsSaldo(o) /\ row[o].status = "refunded" => refunds'[o] >= 1
  BY RowFacts
<1>2. CASE IsSaldo(o)
  <2>1. Start(j, k, o, tx, <<"redebit">> \o plan)
    BY <1>2 DEF StartReopening
  <2>2. QED
    BY <1>1, <1>2, <2>1, StartGood
<1>3. CASE ~IsSaldo(o)
  <2>1. Start(j, k, o, Reopened(k, tx), plan)
    BY <1>3 DEF StartReopening
  <2>2. QED
    BY <1>3, <2>1, StartGood
<1>4. QED
  BY <1>2, <1>3

LEMMA AdminEntryMoney ==
    ASSUME TypeOK, TypeOK', MoneyInv, NEW j \in Jobs, NEW o \in Orders,
           AdminEntry(j, o)
    PROVE  MoneyInv'
<1>1. EntryFrame /\ row[o] \in Rows /\ row[o].status # "none"
  BY DEF AdminEntry, ManualRetry, ManualSetSuccess, ManualRefund, ManualSetFailed,
         BulkRetryWithProvider, RegenerateProviderRefID, TypeOK
<1>2. /\ UNCHANGED <<row, money>>
      /\ IsSaldo(o) => debits'[o] >= 1
      /\ IsSaldo(o) /\ row[o].status = "refunded" => refunds'[o] >= 1
  BY <1>1, RowFacts
<1>3. /\ <<"save", "purchase">> \in Seq(Ops) /\ <<"save", "status">> \in Seq(Ops)
  BY DEF Ops
<1>4. CASE ManualRetry(j, o)
  <2> DEFINE switched == prepareProviderSwitchForRetry(row[o], route, lastRef[o] + 1)
  <2>1. /\ StartReopening(j, "retry", o, switched, <<"save", "purchase">>)
        /\ switched.ref <= MaxRefs
    BY <1>4 DEF ManualRetry
  <2>2. \/ switched = row[o]
        \/ switched = [row[o] EXCEPT !.ref = lastRef[o] + 1, !.id = 0, !.exch = FALSE]
    BY DEF prepareProviderSwitchForRetry
  <2> HIDE DEF switched
  <2>3. switched.status = row[o].status
    BY <1>1, <2>2 DEF Rows
  <2>4. switched \in Rows
    <3>1. CASE switched = row[o]
      BY <1>1, <3>1
    <3>2. CASE switched # row[o]
      <4>1. switched = [row[o] EXCEPT !.ref = lastRef[o] + 1, !.id = 0, !.exch = FALSE]
        BY <2>2, <3>2
      <4>2. switched.ref = lastRef[o] + 1
        BY <1>1, <4>1 DEF Rows
      <4>3. lastRef[o] \in 0 .. MaxRefs
        BY DEF TypeOK
      <4>4. lastRef[o] + 1 \in 0 .. MaxRefs /\ 0 \in Ids
        BY <2>1, <4>2, <4>3, BoundAssumption, IdsType
      <4>5. QED
        BY <1>1, <4>1, <4>4 DEF Rows
    <3>3. QED
      BY <3>1, <3>2
  <2>5. OthersKeep(j) /\ GoodJob(job[j])'
    BY <1>1, <1>3, <2>1, <2>3, <2>4, NoCreditOps, ReopeningMoney
  <2>6. QED
    BY <1>2, <2>5, JobFrame
<1>5. CASE ManualSetSuccess(j, o)
  <2>1. StartReopening(j, "setSuccess", o, row[o], <<"save", "status">>)
    BY <1>5 DEF ManualSetSuccess
  <2>2. OthersKeep(j) /\ GoodJob(job[j])'
    BY <1>1, <1>3, <2>1, NoCreditOps, ReopeningMoney
  <2>3. QED
    BY <1>2, <2>2, JobFrame
<1>6. CASE ManualRefund(j, o)
  <2>1. Start(j, "refund", o, [row[o] EXCEPT !.status = "refunded", !.pst = "held"],
              RefundOrAbort(o) \o <<"save", "status">>)
    BY <1>6 DEF ManualRefund
  <2>2. OthersKeep(j) /\ GoodJob(job[j])'
    BY <1>2, <2>1, AdminPlanCredits, StartGood
  <2>3. QED
    BY <1>2, <2>2, JobFrame
<1>7. CASE ManualSetFailed(j, o)
  <2> DEFINE tx == [row[o] EXCEPT !.status = "failed", !.pst = "held"]
  <2>1. Start(j, "setFailed", o, tx, RefundOrAbort(o) \o <<"save">>)
    BY <1>7 DEF ManualSetFailed
  <2>2. tx.status = "failed"
    BY <1>1 DEF Rows
  <2>3. OthersKeep(j) /\ GoodJob(job[j])'
    BY <1>2, <2>1, <2>2, AdminPlanCredits, StartGood
  <2>4. QED
    BY <1>2, <2>3, JobFrame
<1>8. CASE BulkRetryWithProvider(j, o)
  <2> DEFINE tx == [row[o] EXCEPT !.exch = FALSE, !.pst = "held"]
  <2>1. Start(j, "switch", o, tx, <<"saveOrAbort", "purchase">>)
    BY <1>8 DEF BulkRetryWithProvider
  <2>2. tx.status = row[o].status
    BY <1>1 DEF Rows
  <2>3. OthersKeep(j) /\ GoodJob(job[j])'
    BY <1>2, <2>1, <2>2, NoCreditOps, StartGood
  <2>4. QED
    BY <1>2, <2>3, JobFrame
<1>9. CASE RegenerateProviderRefID(j, o)
  <2> DEFINE tx == [row[o] EXCEPT !.ref = lastRef[o] + 1]
  <2>1. Start(j, "regen", o, tx, <<"save">>)
    BY <1>9 DEF RegenerateProviderRefID
  <2>2. tx.status = row[o].status
    BY <1>1 DEF Rows
  <2>3. OthersKeep(j) /\ GoodJob(job[j])'
    BY <1>2, <2>1, <2>2, NoCreditOps, StartGood
  <2>4. QED
    BY <1>2, <2>3, JobFrame
<1>10. QED
  BY <1>4, <1>5, <1>6, <1>7, <1>8, <1>9 DEF AdminEntry

LEMMA WorldMoney ==
    ASSUME TypeOK, MoneyInv, World \/ UNCHANGED vars
    PROVE  MoneyInv'
<1>1. UNCHANGED <<row, money>>
  BY DEF World, Age, Decide, SwitchProvider, Crash, vars, money
<1>2. debits' = debits /\ refunds' = refunds /\ row' = row
  BY <1>1 DEF money
<1>3. \A j \in Jobs : job'[j] = job[j] \/ job'[j] = IdleJob
  BY DEF World, Age, Decide, SwitchProvider, Crash, vars
<1>4. ASSUME NEW j \in Jobs PROVE GoodJob(job[j])'
  <2>1. CASE job'[j] = job[j]
    BY <1>2, <2>1 DEF MoneyInv, GoodJob, Charged, CreditsSaldo, CopyCredited,
                      PlansCredit, IsSaldo
  <2>2. CASE job'[j] = IdleJob
    <3>1. job'[j].plan = <<>>
      BY <2>2 DEF IdleJob
    <3>2. QED
      BY <3>1 DEF GoodJob, Charged, CreditsSaldo, CopyCredited, PlansCredit
  <2>3. QED
    BY <1>3, <2>1, <2>2
<1>5. QED
  BY <1>2, <1>4 DEF MoneyInv, RefundAtMostOnce, RefundedOnlyIfCharged,
                    RefundedMeansCredited, RowsAreCharged, IsSaldo

-------------------------------------------------------------------------------
(* The theorems.                                                           *)

LEMMA InitMoney == Init => MoneyInv
<1> SUFFICES ASSUME Init PROVE MoneyInv
  OBVIOUS
<1>1. \A o \in Orders : row[o].status = "none" /\ debits[o] = 0 /\ refunds[o] = 0
  BY DEF Init, NoRow
<1>2. \A j \in Jobs : job[j].plan = <<>>
  BY DEF Init, IdleJob
<1>3. \A j \in Jobs : GoodJob(job[j])
  BY <1>2 DEF GoodJob, Charged, CreditsSaldo, CopyCredited, PlansCredit
<1>4. QED
  BY <1>1, <1>3 DEF MoneyInv, RefundAtMostOnce, RefundedOnlyIfCharged,
                    RefundedMeansCredited, RowsAreCharged

LEMMA MoneyStep == TypeOK /\ TypeOK' /\ MoneyInv /\ [Next]_vars => MoneyInv'
<1> SUFFICES ASSUME TypeOK, TypeOK', MoneyInv, [Next]_vars PROVE MoneyInv'
  OBVIOUS
<1>1. CASE \E j \in Jobs : Statement(j) \/ Call(j) \/ StatementFails(j)
  BY <1>1, StatementMoney, CallMoney
<1>2. CASE \E j \in Jobs, o \in Orders : AutomaticEntry(j, o) \/ AdminEntry(j, o)
  BY <1>2, AutomaticEntryMoney, AdminEntryMoney
<1>3. CASE World \/ UNCHANGED vars
  BY <1>3, WorldMoney
<1>4. QED
  BY <1>1, <1>2, <1>3 DEF Next

\* The money invariant holds for any number of orders, handlers, providers and
\* restarts, failing statements included.
THEOREM MoneyCorrect == Spec => []MoneyInv
<1>1. Init => MoneyInv
  BY InitMoney
<1>2. TypeOK /\ TypeOK' /\ MoneyInv /\ [Next]_vars => MoneyInv'
  BY MoneyStep
<1>3. QED
  BY <1>1, <1>2, TypeCorrect, PTL DEF Spec

\* safeRefundTransaction credits an invoice at most once, whoever calls it.
THEOREM RefundsOnce == Spec => []RefundAtMostOnce
<1>1. MoneyInv => RefundAtMostOnce
  BY DEF MoneyInv
<1>2. QED
  BY <1>1, MoneyCorrect, PTL

\* No handler refunds an invoice that was never charged, a handler that lost
\* its insert or died half-way included.
THEOREM RefundsOnlyCharged == Spec => []RefundedOnlyIfCharged
<1>1. MoneyInv => RefundedOnlyIfCharged
  BY DEF MoneyInv
<1>2. QED
  BY <1>1, MoneyCorrect, PTL

\* A row says refunded only after the buyer got the credit.
THEOREM RefundedCredited == Spec => []RefundedMeansCredited
<1>1. MoneyInv => RefundedMeansCredited
  BY DEF MoneyInv
<1>2. QED
  BY <1>1, MoneyCorrect, PTL

-------------------------------------------------------------------------------
(* The orders implement the ledger.                                        *)

LEMMA LedgerStep ==
    ASSUME TypeOK, MoneyInv, [Next]_vars
    PROVE  [Ledger!Next]_(Ledger!vars)
<1>1. CASE UNCHANGED money
  BY <1>1 DEF money, Ledger!vars
<1>2. ASSUME NEW j \in Jobs, Debit(j) PROVE [Ledger!Next]_(Ledger!vars)
  <2> DEFINE o == job[j].ord
  <2>1. o \in Orders
    BY DEF TypeOK, JobStates
  <2>2. CASE Sufficient(o)
    BY <1>2, <2>1, <2>2 DEF Debit, Sufficient, Ledger!Next, Ledger!Charge
  <2>3. CASE ~Sufficient(o)
    BY <1>2, <2>3 DEF Debit, money, Ledger!vars
  <2>4. QED
    BY <2>2, <2>3
<1>3. ASSUME NEW j \in Jobs, Credit(j) PROVE [Ledger!Next]_(Ledger!vars)
  <2> DEFINE o == job[j].ord
  <2>1. o \in Orders /\ refunds[o] \in Nat /\ debits[o] \in Nat
    BY DEF TypeOK, JobStates
  <2>2. CASE RefundRecorded(o)
    BY <1>3, <2>2 DEF Credit, money, Ledger!vars
  <2>3. CASE ~RefundRecorded(o)
    <3>1. refunds[o] = 0 /\ refunds[o] + 1 = 1
      BY <2>1, <2>3 DEF RefundRecorded
    <3>2. debits[o] > 0
      <4>1. /\ job[j].plan # <<>> /\ Head(job[j].plan) \in {"credit", "creditOrAbort"}
            /\ job[j].plan \in Seq(Ops)
        BY <1>3 DEF Credit, At, TypeOK, JobStates
      <4>2. job[j].plan[1] = Head(job[j].plan) /\ 1 \in DOMAIN job[j].plan
        BY <4>1
      <4>3. PlansCredit(job[j].plan)
        BY <4>1, <4>2 DEF PlansCredit
      <4>4. QED
        BY <2>1, <4>1, <4>3, AtFacts
    <3>3. /\ balance' = [balance EXCEPT ![Owner[o]] = @ + Price[o]]
          /\ refunds' = [refunds EXCEPT ![o] = 1] /\ debits' = debits
      BY <1>3, <2>3, <3>1 DEF Credit, CreditAmount
    <3>4. QED
      BY <2>1, <3>1, <3>2, <3>3 DEF Ledger!Next, Ledger!GiveBack
  <2>4. QED
    BY <2>2, <2>3
<1>4. ASSUME ~UNCHANGED money
      PROVE  \E j \in Jobs : Debit(j) \/ Credit(j)
  <2>1. ASSUME NEW j \in Jobs, Statement(j) \/ Call(j) \/ StatementFails(j)
        PROVE  Debit(j) \/ Credit(j)
    BY <1>4, <2>1 DEF Statement, Call, StatementFails, HasRefund, RedebitCheck, Insert,
       Mark, Claim, UpdateStatus, Save, Load, Reread, Purchase, Check
  <2>2. ASSUME NEW j \in Jobs, NEW o \in Orders, AutomaticEntry(j, o) \/ AdminEntry(j, o)
        PROVE  FALSE
    BY <1>4, <2>2 DEF AutomaticEntry, AdminEntry, CreateOrder, HandlePaymentSuccess,
       HandleProviderCallback, CheckProviderStatus, ReconcileProcessingTransaction,
       RetryDigiflazzBalanceHolds, ManualRetry, ManualSetSuccess, ManualRefund,
       ManualSetFailed, BulkRetryWithProvider, RegenerateProviderRefID, EntryFrame
  <2>3. ~World
    BY <1>4 DEF World, Age, Decide, SwitchProvider, Crash
  <2>4. ~UNCHANGED vars
    BY <1>4 DEF vars, money
  <2>5. QED
    BY <2>1, <2>2, <2>3, <2>4 DEF Next
<1>5. QED
  BY <1>1, <1>2, <1>3, <1>4

\* The handlers implement the ledger: no interleaving of theirs, no failing
\* statement and no restart does anything to the money that a single charge or
\* a first refund of a charged invoice would not do.
THEOREM LedgerImplemented == Spec => ImplementsLedger
<1>1. Init => Ledger!Init
  BY DEF Init, Ledger!Init
<1>2. QED
  BY <1>1, LedgerStep, TypeCorrect, MoneyCorrect, PTL DEF Spec, ImplementsLedger, Ledger!Spec
===============================================================================
