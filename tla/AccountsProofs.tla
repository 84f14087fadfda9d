---------------------------- MODULE AccountsProofs ----------------------------
(***************************************************************************)
(* Theorems about Accounts, for every value of its constants: mutations    *)
(* explain the balances, and a deposit is credited once.                   *)
(***************************************************************************)
EXTENDS Accounts, TLAPS

-------------------------------------------------------------------------------
(* Handlers.                                                               *)

LEMMA IdleType == IdleJob \in JobStates
<1>1. (CHOOSE d \in Deposits : TRUE) \in Deposits /\ (CHOOSE u \in Users : TRUE) \in Users
  BY AccountsAssumption
<1>2. <<>> \in Seq(Ops) /\ "idle" \in Kinds /\ "none" \in DepositStatuses
  BY DEF Kinds, DepositStatuses
<1>3. QED
  BY <1>1, <1>2 DEF IdleJob, JobStates

LEMMA PlanType ==
    /\ <<"mark", "post">> \in Seq(Ops) /\ <<"save", "post">> \in Seq(Ops)
    /\ <<"save">> \in Seq(Ops) /\ <<"post">> \in Seq(Ops)
    /\ <<"saveUser">> \in Seq(Ops) /\ <<"saveUser", "post">> \in Seq(Ops)
BY DEF Ops

\* What is left of a plan after its first step.
LEMMA PlanTail ==
    /\ Tail(<<"mark", "post">>) = <<"post">> /\ Tail(<<"save", "post">>) = <<"post">>
    /\ Tail(<<"saveUser", "post">>) = <<"post">>
    /\ Tail(<<"save">>) = <<>> /\ Tail(<<"post">>) = <<>> /\ Tail(<<"saveUser">>) = <<>>
    /\ <<"post">> # <<>>
OBVIOUS

\* A deposit handler starts as a good job.
LEMMA OnDepositGood ==
    ASSUME AccountsTypeOK, NEW d \in Deposits, NEW s \in DepositStatuses, NEW p \in Seq(Ops),
           \/ p = <<"mark", "post">> /\ d \in Instant
           \/ p = <<"save", "post">> /\ s = "approved" /\ d \in Reviewed
           \/ p = <<"save">> /\ s = "rejected" /\ d \in Reviewed
    PROVE  OnDeposit(d, s, p) \in JobStates /\ GoodJob(OnDeposit(d, s, p))
<1>1. Depositor[d] \in Users /\ Amount[d] \in Int /\ balance[Depositor[d]] \in Nat
  BY AccountsAssumption DEF AccountsTypeOK
<1>2. OnDeposit(d, s, p) \in JobStates
  BY <1>1 DEF OnDeposit, JobStates, Kinds
<1>3. QED
  BY <1>2 DEF OnDeposit, GoodJob, DepositJob

LEMMA OnUserType ==
    ASSUME AccountsTypeOK, NEW k \in Kinds, NEW u \in Users, NEW n \in Int, NEW p \in Seq(Ops)
    PROVE  OnUser(k, u, n, p) \in JobStates
<1>1. balance[u] \in Nat
  BY DEF AccountsTypeOK
<1>2. QED
  BY <1>1, IdleType DEF OnUser, JobStates

\* The idle handler works on nothing.
LEMMA IdleWorksOnNothing ==
    ASSUME NEW j \in Jobs, job[j] = IdleJob, NEW d
    PROVE  ~WorksOn(j, d) /\ ~Pays(j, d)
BY DEF IdleJob, WorksOn, Pays

-------------------------------------------------------------------------------
(* Types and handlers are preserved.                                       *)

Shape == AccountsTypeOK /\ \A j \in Jobs : GoodJob(job[j])

LEMMA ProceedShape ==
    ASSUME Shape, NEW j \in Jobs, job[j].plan # <<>>, Proceed(j)
    PROVE  job' \in [Jobs -> JobStates] /\ \A k \in Jobs : GoodJob(job'[k])
<1> DEFINE h == job[j]
           g == IF Tail(h.plan) = <<>> THEN IdleJob ELSE [h EXCEPT !.plan = Tail(h.plan)]
<1>1. h \in JobStates /\ GoodJob(h) /\ h # IdleJob
  BY DEF Shape, AccountsTypeOK, IdleJob
<1>2. Tail(h.plan) \in {<<>>, <<"post">>}
  <2>1. h.plan \in {<<"mark", "post">>, <<"save", "post">>, <<"save">>, <<"post">>,
                    <<"saveUser">>, <<"saveUser", "post">>}
    BY <1>1, Zenon DEF GoodJob, DepositJob, OrderJob, EditJob
  <2>2. QED
    BY <2>1, PlanTail, Zenon
<1>3. g \in JobStates
  BY <1>1, <1>2, IdleType, PlanType DEF JobStates
<1>4. GoodJob(g)
  <2>1. CASE Tail(h.plan) = <<>>
    BY <2>1 DEF GoodJob
  <2>2. CASE Tail(h.plan) = <<"post">>
    <3>0. g = [h EXCEPT !.plan = <<"post">>]
      BY <2>2, PlanTail
    <3>1. g.kind = h.kind /\ g.dep = h.dep /\ g.user = h.user
          /\ g.amount = h.amount /\ g.plan = <<"post">>
      BY <1>1, <3>0 DEF JobStates
    <3>2. ~OrderJob(h)
      BY <2>2, PlanTail, Zenon DEF OrderJob
    <3>3. QED
      BY <1>1, <3>1, <3>2 DEF GoodJob, DepositJob, EditJob
  <2>3. QED
    BY <1>2, <2>1, <2>2
<1>5. job' = [job EXCEPT ![j] = g]
  BY DEF Proceed
<1>6. QED
  BY <1>3, <1>4, <1>5 DEF Shape, AccountsTypeOK

LEMMA AbortShape ==
    ASSUME Shape, NEW j \in Jobs, Abort(j)
    PROVE  job' \in [Jobs -> JobStates] /\ \A k \in Jobs : GoodJob(job'[k])
BY IdleType DEF Shape, AccountsTypeOK, Abort, GoodJob

LEMMA StartShape ==
    ASSUME Shape, NEW j \in Jobs, NEW h \in JobStates, GoodJob(h), Start(j, h)
    PROVE  job' \in [Jobs -> JobStates] /\ \A k \in Jobs : GoodJob(job'[k])
BY DEF Shape, AccountsTypeOK, Start

\* What a posting does to the account of the handler's user.
LEMMA Posting ==
    ASSUME Shape, NEW j \in Jobs, UpdateBalance(j)
    PROVE  /\ balance' \in [Users -> Nat]
           /\ log' \in [Users -> Seq(Mutations)]
           /\ \/ UNCHANGED account
              \/ \E e \in Mutations :
                    /\ e.before = balance[job[j].user]
                    /\ e.ref = IF job[j].kind = "deposit" THEN job[j].dep ELSE job[j].kind
                    /\ balance' = [balance EXCEPT ![job[j].user] = e.after]
                    /\ log' = [log EXCEPT ![job[j].user] = Append(@, e)]
<1> DEFINE h == job[j]
           b == balance[h.user]
           ref == IF h.kind = "deposit" THEN h.dep ELSE h.kind
           e == [before |-> b, after |-> b + h.amount, ref |-> ref]
<1>1. h \in JobStates /\ GoodJob(h)
  BY DEF Shape, AccountsTypeOK
<1>2. h.user \in Users /\ h.amount \in Int /\ b \in Nat
  BY <1>1 DEF JobStates, Shape, AccountsTypeOK
<1>3. ref \in Deposits \cup OtherRefs
  <2>1. h.plan # <<>>
    BY DEF UpdateBalance, At
  <2>2. h.kind \in {"deposit", "order", "edit"}
    BY <1>1, <2>1 DEF GoodJob, DepositJob, OrderJob, EditJob, IdleJob
  <2>3. QED
    BY <1>1, <2>2 DEF JobStates, OtherRefs
<1>4. CASE b + h.amount >= 0
  <2>1. e \in Mutations
    BY <1>2, <1>3, <1>4 DEF Mutations
  <2>2. /\ balance' = [balance EXCEPT ![h.user] = e.after]
        /\ log' = [log EXCEPT ![h.user] = Append(@, e)]
    BY <1>4 DEF UpdateBalance, LockedBalance, Covers
  <2>3. balance' \in [Users -> Nat] /\ log' \in [Users -> Seq(Mutations)]
    <3> HIDE DEF e
    <3>1. e.after \in Nat
      BY <2>1 DEF Mutations
    <3>2. Append(log[h.user], e) \in Seq(Mutations)
      BY <1>2, <2>1 DEF Shape, AccountsTypeOK
    <3>3. QED
      BY <1>2, <2>2, <3>1, <3>2 DEF Shape, AccountsTypeOK
  <2>4. e.before = b /\ e.ref = ref
    OBVIOUS
  <2>5. QED
    BY <2>1, <2>2, <2>3, <2>4
<1>5. CASE ~(b + h.amount >= 0)
  BY <1>5 DEF UpdateBalance, LockedBalance, Covers, account, Shape, AccountsTypeOK
<1>6. QED
  BY <1>4, <1>5

LEMMA ShapeStep ==
    ASSUME Shape, [Next]_vars
    PROVE  Shape'
<1> USE DEF Shape
<1>1. ASSUME NEW j \in Jobs, UpdateBalance(j) PROVE Shape'
  <2>1. job[j].plan # <<>> /\ Proceed(j) /\ UNCHANGED <<deposit, lost>>
    BY <1>1 DEF UpdateBalance, At
  <2>2. QED
    BY <1>1, <2>1, Posting, ProceedShape DEF AccountsTypeOK
<1>2. ASSUME NEW j \in Jobs, SaveUser(j) PROVE Shape'
  <2>1. job[j].plan # <<>> /\ Proceed(j) /\ UNCHANGED <<log, deposit, lost>>
    BY <1>2 DEF SaveUser, At
  <2>2. job[j].seen \in Nat
    BY DEF AccountsTypeOK, JobStates
  <2>3. balance' \in [Users -> Nat]
    BY <1>2, <2>2 DEF SaveUser, AccountsTypeOK
  <2>4. QED
    BY <2>1, <2>3, ProceedShape DEF AccountsTypeOK
<1>3. ASSUME NEW j \in Jobs, MarkAsApprovedIfPending(j) PROVE Shape'
  <2>1. job[j].plan # <<>> /\ (Proceed(j) \/ Abort(j)) /\ UNCHANGED <<balance, log, lost>>
    BY <1>3 DEF MarkAsApprovedIfPending, At, account
  <2>2. deposit' \in [Deposits -> DepositStatuses]
    BY <1>3 DEF MarkAsApprovedIfPending, AccountsTypeOK, DepositStatuses
  <2>3. QED
    BY <2>1, <2>2, ProceedShape, AbortShape DEF AccountsTypeOK
<1>4. ASSUME NEW j \in Jobs, SaveDeposit(j) PROVE Shape'
  <2>1. job[j].plan # <<>> /\ Proceed(j) /\ UNCHANGED <<balance, log, lost>>
    BY <1>4 DEF SaveDeposit, At, account
  <2>2. job[j].status \in DepositStatuses
    BY DEF AccountsTypeOK, JobStates
  <2>3. deposit' \in [Deposits -> DepositStatuses]
    BY <1>4, <2>2 DEF SaveDeposit, AccountsTypeOK
  <2>4. QED
    BY <2>1, <2>3, ProceedShape DEF AccountsTypeOK
<1>5. ASSUME NEW j \in Jobs, StatementFails(j) PROVE Shape'
  <2>1. job[j].plan # <<>> /\ (Proceed(j) \/ Abort(j)) /\ UNCHANGED <<balance, log, deposit>>
    BY <1>5 DEF StatementFails, account
  <2>2. lost' \in SUBSET Deposits
    BY <1>5 DEF StatementFails, AccountsTypeOK, Owed
  <2>3. QED
    BY <2>1, <2>2, ProceedShape, AbortShape DEF AccountsTypeOK
<1>6. ASSUME NEW d \in Deposits, CreateDeposit(d) PROVE Shape'
  <2>1. deposit' \in [Deposits -> DepositStatuses]
    BY <1>6 DEF CreateDeposit, AccountsTypeOK, DepositStatuses
  <2>2. QED
    BY <1>6, <2>1 DEF CreateDeposit, AccountsTypeOK, account
<1>7. ASSUME NEW j \in Jobs, NEW d \in Deposits,
             \/ HandleTripayDepositSuccess(j, d)
             \/ ApproveDeposit(j, d)
             \/ RejectDeposit(j, d)
      PROVE  Shape'
  <2>1. UNCHANGED <<balance, log, deposit, lost>>
    BY <1>7 DEF HandleTripayDepositSuccess, ApproveDeposit, RejectDeposit, account
  <2>2. PICK s \in DepositStatuses, p \in Seq(Ops) :
           /\ Start(j, OnDeposit(d, s, p))
           /\ \/ p = <<"mark", "post">> /\ d \in Instant
              \/ p = <<"save", "post">> /\ s = "approved" /\ d \in Reviewed
              \/ p = <<"save">> /\ s = "rejected" /\ d \in Reviewed
    BY <1>7, PlanType DEF HandleTripayDepositSuccess, ApproveDeposit, RejectDeposit,
       Admitted, ApprovalPlan, DepositStatuses
  <2>3. OnDeposit(d, s, p) \in JobStates /\ GoodJob(OnDeposit(d, s, p))
    BY <2>2, OnDepositGood
  <2>4. QED
    BY <2>1, <2>2, <2>3, StartShape DEF AccountsTypeOK
<1>8. ASSUME NEW j \in Jobs, NEW u \in Users, NEW n \in Postings \cup {0}, UpdateUser(j, u, n)
      PROVE  Shape'
  <2>1. PICK p \in {<<"saveUser">>, <<"saveUser", "post">>} : Start(j, OnUser("edit", u, n, p))
    BY <1>8 DEF UpdateUser
  <2>2. n \in Int /\ "edit" \in Kinds /\ u \in Edited
    BY <1>8, AccountsAssumption DEF Kinds, UpdateUser
  <2>3. OnUser("edit", u, n, p) \in JobStates
    BY <2>1, <2>2, OnUserType, PlanType
  <2>4. GoodJob(OnUser("edit", u, n, p))
    BY <2>1, <2>2, IdleType DEF OnUser, JobStates, GoodJob, EditJob
  <2>5. QED
    BY <1>8, <2>1, <2>3, <2>4, StartShape DEF UpdateUser, AccountsTypeOK, account
<1>9. ASSUME NEW j \in Jobs, NEW u \in Users, NEW n \in Postings, OrderPosting(j, u, n)
      PROVE  Shape'
  <2>1. n \in Int /\ "order" \in Kinds
    BY AccountsAssumption DEF Kinds
  <2>2. OnUser("order", u, n, <<"post">>) \in JobStates
    BY <2>1, OnUserType, PlanType
  <2>3. GoodJob(OnUser("order", u, n, <<"post">>))
    BY IdleType DEF OnUser, JobStates, GoodJob, OrderJob
  <2>4. QED
    BY <1>9, <2>2, <2>3, StartShape DEF OrderPosting, AccountsTypeOK, account
<1>10. CASE Crash
  BY <1>10, IdleType DEF Crash, AccountsTypeOK, account, GoodJob, Owed
<1>11. CASE UNCHANGED vars
  BY <1>11 DEF vars, AccountsTypeOK
<1>12. QED
  BY <1>1, <1>2, <1>3, <1>4, <1>5, <1>6, <1>7, <1>8, <1>9, <1>10, <1>11 DEF Next, Statement
LEMMA ShapeInit == Init => Shape
BY IdleType, AccountsAssumption DEF Init, Shape, AccountsTypeOK, GoodJob, DepositStatuses

\* The variables keep their types; no interleaving of debits takes a balance
\* below zero.
THEOREM AccountsTypeCorrect == Spec => []AccountsTypeOK
<1>1. Shape => AccountsTypeOK
  BY DEF Shape
<1>2. QED
  BY <1>1, ShapeInit, ShapeStep, PTL DEF Spec

-------------------------------------------------------------------------------
(* The chain of mutations.                                                 *)

\* A mutation that starts at the closing balance extends the chain.
LEMMA ExtendChain ==
    ASSUME NEW s \in Seq(Mutations), NEW e \in Mutations,
           Opening(s), Linked(s), e.before = Closing(s)
    PROVE  Opening(Append(s, e)) /\ Linked(Append(s, e)) /\ Closing(Append(s, e)) = e.after
<1> DEFINE t == Append(s, e)
<1>1. /\ t # <<>> /\ Len(t) = Len(s) + 1 /\ Len(s) \in Nat
      /\ t[Len(t)] = e /\ \A i \in 1 .. Len(s) : t[i] = s[i]
  OBVIOUS
<1>2. s = <<>> <=> Len(s) = 0
  OBVIOUS
<1> HIDE DEF t
<1>3. Closing(t) = e.after
  BY <1>1 DEF Closing
<1>4. Opening(t)
  BY <1>1, <1>2 DEF Opening, Closing
<1>5. Linked(t)
  <2> SUFFICES ASSUME NEW i \in 2 .. Len(t) PROVE t[i].before = t[i - 1].after
    BY DEF Linked
  <2>1. CASE i = Len(t)
    BY <1>1, <1>2, <2>1 DEF Closing
  <2>2. CASE i < Len(t)
    <3>1. i \in 2 .. Len(s) /\ i - 1 \in 1 .. Len(s) /\ i \in 1 .. Len(s)
      BY <1>1, <2>2
    <3>2. QED
      BY <1>1, <3>1 DEF Linked
  <2>3. QED
    BY <1>1, <2>1, <2>2
<1>6. QED
  BY <1>3, <1>4, <1>5 DEF t

Chain(u) == Opening(log[u]) /\ Linked(log[u]) /\ balance[u] = Closing(log[u])

LEMMA ChainInit == Init => MutationsExplainBalance
<1>1. \A i \in 2 .. Len(<<>>) : FALSE
  OBVIOUS
<1>2. QED
  BY <1>1 DEF Init, MutationsExplainBalance, Opening, Linked, Closing

LEMMA ChainStep ==
    ASSUME Shape, MutationsExplainBalance, [Next]_vars
    PROVE  MutationsExplainBalance'
<1>1. CASE UNCHANGED account
  BY <1>1 DEF MutationsExplainBalance, account
<1>2. ASSUME NEW j \in Jobs, UpdateBalance(j) PROVE MutationsExplainBalance'
  <2> SUFFICES ASSUME NEW u \in Users \ Edited PROVE Chain(u)'
    BY DEF MutationsExplainBalance, Chain
  <2>1. Chain(u)
    BY DEF MutationsExplainBalance, Chain
  <2>2. CASE UNCHANGED account
    BY <2>1, <2>2 DEF Chain, account
  <2>3. CASE ~UNCHANGED account
    <3>1. PICK e \in Mutations :
             /\ e.before = balance[job[j].user]
             /\ balance' = [balance EXCEPT ![job[j].user] = e.after]
             /\ log' = [log EXCEPT ![job[j].user] = Append(@, e)]
      BY <1>2, <2>3, Posting
    <3>2. log[u] \in Seq(Mutations) /\ u \in DOMAIN balance /\ u \in DOMAIN log
      BY DEF Shape, AccountsTypeOK
    <3>3. CASE u = job[j].user
      <4>1. balance'[u] = e.after /\ log'[u] = Append(log[u], e) /\ e.before = balance[u]
        BY <3>1, <3>2, <3>3
      <4>2. QED
        BY <2>1, <3>2, <4>1, ExtendChain DEF Chain
    <3>4. CASE u # job[j].user
      BY <2>1, <3>1, <3>2, <3>4 DEF Chain
    <3>5. QED
      BY <3>3, <3>4
  <2>4. QED
    BY <2>2, <2>3
<1>3. ASSUME NEW j \in Jobs, SaveUser(j) PROVE MutationsExplainBalance'
  <2>1. job[j].plan # <<>> /\ Head(job[j].plan) = "saveUser" /\ GoodJob(job[j])
    BY <1>3 DEF SaveUser, At, Shape
  <2>2. job[j].user \in Edited
    <3>1. /\ Head(<<"mark", "post">>) # "saveUser" /\ Head(<<"save", "post">>) # "saveUser"
          /\ Head(<<"save">>) # "saveUser" /\ Head(<<"post">>) # "saveUser"
      OBVIOUS
    <3>2. job[j] # IdleJob
      BY <2>1 DEF IdleJob
    <3>3. QED
      BY <2>1, <3>1, <3>2, Zenon DEF GoodJob, DepositJob, OrderJob, EditJob
  <2>3. \A u \in Users \ Edited : balance'[u] = balance[u] /\ log'[u] = log[u]
    BY <1>3, <2>2 DEF SaveUser, Shape, AccountsTypeOK
  <2>4. QED
    BY <2>3 DEF MutationsExplainBalance
<1>4. ASSUME ~UNCHANGED account
      PROVE  \E j \in Jobs : UpdateBalance(j) \/ SaveUser(j)
  BY <1>4 DEF Next, Statement, MarkAsApprovedIfPending, SaveDeposit, StatementFails,
     CreateDeposit, HandleTripayDepositSuccess, ApproveDeposit, RejectDeposit,
     UpdateUser, OrderPosting, Crash, vars, account
<1>5. QED
  BY <1>1, <1>2, <1>3, <1>4

\* Whatever deposits, orders and other users' edits do at the same time, the
\* mutations of a user nobody edits form a chain that ends at the balance:
\* UpdateBalance reads, writes and records under one row lock.
THEOREM MutationsExplain == Spec => []MutationsExplainBalance
<1> DEFINE I == Shape /\ MutationsExplainBalance
<1>1. Init => I
  BY ShapeInit, ChainInit
<1>2. I /\ [Next]_vars => I'
  BY ShapeStep, ChainStep
<1>3. I => MutationsExplainBalance
  OBVIOUS
<1>4. QED
  BY <1>1, <1>2, <1>3, PTL DEF Spec

-------------------------------------------------------------------------------
(* One credit per deposit.                                                 *)

DI(d) == CreditedOnce(d) /\ PayerIsAlone(d) /\ AdminIsAlone(d) /\ ApprovalAccounted(d)

\* A mutation touches the credits of its own deposit only.
LEMMA CreditsOf ==
    ASSUME Shape, NEW u \in Users, NEW e \in Mutations, NEW d \in Deposits,
           log' = [log EXCEPT ![u] = Append(@, e)]
    PROVE  /\ e.ref # d => Credits(d)' = Credits(d)
           /\ u # Depositor[d] => Credits(d)' = Credits(d)
           /\ e.ref = d /\ u = Depositor[d] /\ Credits(d) = {} =>
                 Credits(d)' # {} /\ CreditedOnce(d)'
<1> DEFINE s == log[Depositor[d]]
           t == Append(s, e)
<1>1. Depositor[d] \in Users /\ s \in Seq(Mutations) /\ log \in [Users -> Seq(Mutations)]
  BY AccountsAssumption DEF Shape, AccountsTypeOK
<1>2. CASE u # Depositor[d]
  BY <1>1, <1>2 DEF Credits
<1>3. CASE u = Depositor[d]
  <2>1. log'[Depositor[d]] = t
    BY <1>1, <1>3
  <2>2. /\ DOMAIN s = 1 .. Len(s) /\ DOMAIN t = 1 .. Len(s) + 1 /\ Len(s) \in Nat
        /\ t[Len(s) + 1] = e /\ \A i \in 1 .. Len(s) : t[i] = s[i]
    BY <1>1
  <2>3. Credits(d) = {i \in 1 .. Len(s) : s[i].ref = d}
    BY <2>2 DEF Credits
  <2> HIDE DEF t
  <2>4. Credits(d)' = {i \in 1 .. Len(s) + 1 : t[i].ref = d}
    BY <2>1, <2>2 DEF Credits
  <2>5. CASE e.ref # d
    BY <1>3, <2>2, <2>3, <2>4, <2>5
  <2>6. CASE e.ref = d
    <3>1. ASSUME Credits(d) = {}
          PROVE  Credits(d)' = {Len(s) + 1}
      BY <2>2, <2>3, <2>4, <2>6, <3>1
    <3>2. QED
      BY <1>3, <2>6, <3>1 DEF CreditedOnce
  <2>7. QED
    BY <2>5, <2>6
<1>4. QED
  BY <1>2, <1>3

\* Whatever happens elsewhere leaves a deposit as it is.
LEMMA Elsewhere ==
    ASSUME NEW d \in Deposits, DI(d), NEW j \in Jobs,
           deposit'[d] = deposit[d], Credits(d)' = Credits(d), d \in lost' <=> d \in lost,
           \A k \in Jobs \ {j} : job'[k] = job[k],
           ~WorksOn(j, d), ~WorksOn(j, d)'
    PROVE  DI(d)'
<1>1. \A k \in Jobs : WorksOn(k, d)' <=> WorksOn(k, d)
  BY DEF WorksOn
<1>2. \A k \in Jobs : WorksOn(k, d) => k # j /\ job'[k] = job[k]
  OBVIOUS
<1>3. \A k \in Jobs : Pays(k, d)' <=> Pays(k, d)
  BY <1>1, <1>2 DEF Pays
<1>4. CreditedOnce(d)'
  BY DEF DI, CreditedOnce
<1>5. PayerIsAlone(d)'
  BY <1>3 DEF DI, PayerIsAlone
<1>6. AdminIsAlone(d)'
  BY <1>1, <1>2 DEF DI, AdminIsAlone
<1>7. ApprovalAccounted(d)'
  BY <1>3 DEF DI, ApprovalAccounted
<1>8. QED
  BY <1>4, <1>5, <1>6, <1>7 DEF DI

\* A handler that gives up a deposit it was not paying leaves it as it is.
LEMMA GivesUp ==
    ASSUME NEW d \in Deposits, DI(d), NEW j \in Jobs, ~Pays(j, d), Shape, Abort(j),
           deposit'[d] = deposit[d], Credits(d)' = Credits(d), d \in lost' <=> d \in lost
    PROVE  DI(d)'
<1>1. job'[j] = IdleJob /\ \A k \in Jobs \ {j} : job'[k] = job[k]
  BY DEF Abort, Shape, AccountsTypeOK
<1>2. ~WorksOn(j, d)' /\ ~Pays(j, d)'
  BY <1>1 DEF WorksOn, Pays, IdleJob
<1>3. \A k \in Jobs : WorksOn(k, d)' => WorksOn(k, d) /\ job'[k] = job[k]
  BY <1>1, <1>2 DEF WorksOn
<1>4. \A k \in Jobs : Pays(k, d)' <=> Pays(k, d)
  BY <1>1, <1>2 DEF Pays, WorksOn
<1>5. CreditedOnce(d)'
  BY DEF DI, CreditedOnce
<1>6. PayerIsAlone(d)'
  BY <1>4 DEF DI, PayerIsAlone
<1>7. AdminIsAlone(d)'
  BY <1>3 DEF DI, AdminIsAlone
<1>8. ApprovalAccounted(d)'
  BY <1>4 DEF DI, ApprovalAccounted
<1>9. QED
  BY <1>5, <1>6, <1>7, <1>8 DEF DI

\* What a good deposit handler is about to do.
LEMMA WorkerPlan ==
    ASSUME Shape, NEW j \in Jobs, NEW d \in Deposits, WorksOn(j, d)
    PROVE  /\ DepositJob(job[j]) /\ job[j].dep = d /\ job[j].user = Depositor[d]
           /\ job[j].plan # <<>>
           /\ At(j, "post") <=> job[j].plan = <<"post">>
           /\ At(j, "mark") => job[j].plan = <<"mark", "post">> /\ d \in Instant
           /\ At(j, "save") => d \in Reviewed
           /\ At(j, "save") => \/ job[j].plan = <<"save", "post">> /\ job[j].status = "approved"
                               \/ job[j].plan = <<"save">> /\ job[j].status = "rejected"
           /\ ~At(j, "saveUser")
<1>1. GoodJob(job[j]) /\ job[j].kind = "deposit" /\ job[j].dep = d
  BY DEF Shape, WorksOn
<1>2. DepositJob(job[j])
  BY <1>1 DEF GoodJob, OrderJob, EditJob, IdleJob
<1>3. /\ Head(<<"mark", "post">>) = "mark" /\ Head(<<"save", "post">>) = "save"
      /\ Head(<<"save">>) = "save" /\ Head(<<"post">>) = "post"
      /\ <<"mark", "post">> # <<>> /\ <<"save", "post">> # <<>>
      /\ <<"save">> # <<>> /\ <<"post">> # <<>>
  OBVIOUS
<1>4. "mark" # "save" /\ "mark" # "post" /\ "save" # "post"
      /\ "saveUser" \notin {"mark", "save", "post"}
  OBVIOUS
<1>5. QED
  BY <1>1, <1>2, <1>3, <1>4, Zenon DEF DepositJob, At

\* The job array after a step of handler j.
LEMMA OnlyJ ==
    ASSUME Shape, NEW j \in Jobs, Proceed(j) \/ Abort(j)
    PROVE  /\ \A k \in Jobs \ {j} : job'[k] = job[k]
           /\ job'[j] = IdleJob \/ (/\ Proceed(j) /\ Tail(job[j].plan) # <<>>
                                   /\ job'[j] = [job[j] EXCEPT !.plan = Tail(job[j].plan)])
           /\ \A d \in Deposits : ~WorksOn(j, d) => ~WorksOn(j, d)'
<1>1. job \in [Jobs -> JobStates]
  BY DEF Shape, AccountsTypeOK
<1>2. /\ \A k \in Jobs \ {j} : job'[k] = job[k]
      /\ job'[j] = IdleJob \/ (/\ Proceed(j) /\ Tail(job[j].plan) # <<>>
                              /\ job'[j] = [job[j] EXCEPT !.plan = Tail(job[j].plan)])
  BY <1>1 DEF Proceed, Abort
<1>3. ASSUME NEW d \in Deposits, ~WorksOn(j, d)
      PROVE  ~WorksOn(j, d)'
  <2>1. CASE job'[j] = IdleJob
    BY <2>1 DEF WorksOn, IdleJob
  <2>2. CASE job'[j] = [job[j] EXCEPT !.plan = Tail(job[j].plan)]
    BY <1>1, <1>3, <2>2 DEF WorksOn, JobStates
  <2>3. QED
    BY <1>2, <2>1, <2>2
<1>4. QED
  BY <1>2, <1>3

\* A credit is paid to its deposit, and to no other.
LEMMA PostingPays ==
    ASSUME Shape, NEW d \in Deposits, DI(d), NEW j \in Jobs, UpdateBalance(j)
    PROVE  DI(d)'
<1>1. Proceed(j) /\ deposit' = deposit /\ lost' = lost /\ At(j, "post")
  BY DEF UpdateBalance
<1>2. CASE WorksOn(j, d)
  <2>1. /\ DepositJob(job[j]) /\ job[j].dep = d /\ job[j].user = Depositor[d]
        /\ job[j].plan = <<"post">> /\ job[j].kind = "deposit"
    BY <1>1, <1>2, WorkerPlan DEF DepositJob
  <2>2. Pays(j, d)
    BY <1>2, <2>1 DEF Pays
  <2>3. Credits(d) = {} /\ deposit[d] = "approved"
        /\ \A k \in Jobs : Pays(k, d) => k = j
    BY <2>2 DEF DI, PayerIsAlone
  <2>4. ~UNCHANGED account
    <3>1. job[j].amount \in Nat \ {0} /\ balance[Depositor[d]] \in Nat /\ Depositor[d] \in Users
      BY <2>1, AccountsAssumption DEF DepositJob, Shape, AccountsTypeOK
    <3>2. balance'[Depositor[d]] = balance[Depositor[d]] + job[j].amount
      BY <2>1, <3>1 DEF UpdateBalance, LockedBalance, Covers, Shape, AccountsTypeOK
    <3>3. QED
      BY <3>1, <3>2 DEF account
  <2>5. PICK e \in Mutations :
           e.ref = d /\ log' = [log EXCEPT ![Depositor[d]] = Append(@, e)]
    BY <2>1, <2>4, Posting
  <2>6. Credits(d)' # {} /\ CreditedOnce(d)'
    BY <2>3, <2>5, CreditsOf, AccountsAssumption
  <2>7. job'[j] = IdleJob /\ \A k \in Jobs \ {j} : job'[k] = job[k]
    BY <1>1, <2>1, PlanTail, OnlyJ
  <2>8. ~WorksOn(j, d)' /\ \A k \in Jobs : ~Pays(k, d)'
    BY <2>3, <2>7 DEF WorksOn, Pays, IdleJob
  <2>9. AdminIsAlone(d)'
    BY <1>2, <2>7, <2>8 DEF DI, AdminIsAlone, WorksOn
  <2>10. QED
    BY <1>1, <2>3, <2>6, <2>8, <2>9 DEF DI, PayerIsAlone, ApprovalAccounted
<1>3. CASE ~WorksOn(j, d)
  <2>1. Credits(d)' = Credits(d)
    <3>1. CASE UNCHANGED account
      BY <3>1 DEF account, Credits
    <3>2. CASE ~UNCHANGED account
      <4>1. PICK e \in Mutations :
               /\ e.ref = IF job[j].kind = "deposit" THEN job[j].dep ELSE job[j].kind
               /\ log' = [log EXCEPT ![job[j].user] = Append(@, e)]
        BY <3>2, Posting
      <4>2. job[j].user \in Users
        BY DEF Shape, AccountsTypeOK, JobStates
      <4>3. e.ref # d
        <5>1. CASE job[j].kind = "deposit"
          BY <1>3, <4>1, <5>1 DEF WorksOn
        <5>2. CASE job[j].kind # "deposit"
          <6>1. job[j].kind \in OtherRefs
            <7>1. job[j] # IdleJob /\ GoodJob(job[j])
              BY <1>1 DEF At, IdleJob, Shape
            <7>2. QED
              BY <5>2, <7>1 DEF GoodJob, DepositJob, OrderJob, EditJob, OtherRefs
          <6>2. QED
            BY <4>1, <5>2, <6>1, RefAssumption
        <5>3. QED
          BY <5>1, <5>2
      <4>4. QED
        BY <4>1, <4>2, <4>3, CreditsOf
    <3>3. QED
      BY <3>1, <3>2
  <2>2. QED
    BY <1>1, <1>3, <2>1, OnlyJ, Elsewhere
<1>4. QED
  BY <1>2, <1>3

\* The webhook that finds the deposit pending becomes its only payer.
LEMMA MarkWins ==
    ASSUME Shape, NEW d \in Orderly, DI(d), NEW j \in Jobs, MarkAsApprovedIfPending(j)
    PROVE  DI(d)'
<1>1. /\ Proceed(j) \/ Abort(j)
      /\ lost' = lost /\ log' = log /\ At(j, "mark") /\ d \in Deposits
  BY DEF MarkAsApprovedIfPending, account, Orderly
<1>2. Credits(d)' = Credits(d)
  BY <1>1 DEF Credits
<1>3. CASE ~WorksOn(j, d)
  <2>1. deposit'[d] = deposit[d]
    <3>1. job[j].kind = "deposit"
      <4>1. job[j] # IdleJob /\ GoodJob(job[j]) /\ Head(job[j].plan) = "mark"
        BY <1>1 DEF At, IdleJob, Shape
      <4>2. /\ Head(<<"saveUser">>) # "mark" /\ Head(<<"saveUser", "post">>) # "mark"
            /\ Head(<<"post">>) # "mark"
        OBVIOUS
      <4>3. QED
        BY <4>1, <4>2, Zenon DEF GoodJob, DepositJob, OrderJob, EditJob
    <3>2. job[j].dep # d
      BY <1>3, <3>1 DEF WorksOn
    <3>3. QED
      BY <1>1, <3>2 DEF MarkAsApprovedIfPending, Shape, AccountsTypeOK
  <2>2. QED
    BY <1>1, <1>2, <1>3, <2>1, OnlyJ, Elsewhere
<1>4. CASE WorksOn(j, d)
  <2>1. job[j].dep = d /\ job[j].plan = <<"mark", "post">> /\ d \in Instant
    BY <1>1, <1>4, WorkerPlan
  <2>2. ~Pays(j, d)
    <3>1. <<"mark", "post">> # <<"post">>
      OBVIOUS
    <3>2. QED
      BY <2>1, <3>1, Zenon DEF Pays
  <2>3. CASE deposit[d] # "pending"
    BY <1>1, <1>2, <2>1, <2>2, <2>3, GivesUp DEF MarkAsApprovedIfPending
  <2>4. CASE deposit[d] = "pending"
    <3>1. Credits(d) = {} /\ d \notin lost /\ \A k \in Jobs : ~Pays(k, d)
      BY <2>4 DEF DI, ApprovalAccounted
    <3>2. Proceed(j) /\ deposit'[d] = "approved"
      BY <1>1, <2>1, <2>4 DEF MarkAsApprovedIfPending, Shape, AccountsTypeOK
    <3>3. /\ job'[j] = [job[j] EXCEPT !.plan = <<"post">>]
          /\ \A k \in Jobs \ {j} : job'[k] = job[k]
      BY <2>1, <3>2, PlanTail DEF Proceed, Shape, AccountsTypeOK
    <3>4. Pays(j, d)'
      BY <1>4, <3>3 DEF WorksOn, Pays, Shape, AccountsTypeOK, JobStates
    <3>5. \A k \in Jobs : Pays(k, d)' => k = j
      BY <3>1, <3>3 DEF Pays, WorksOn
    <3>6. d \notin Reviewed
      BY <2>1 DEF Orderly
    <3>7. QED
      BY <1>1, <1>2, <3>1, <3>2, <3>4, <3>5, <3>6
         DEF DI, CreditedOnce, PayerIsAlone, AdminIsAlone, ApprovalAccounted
  <2>5. QED
    BY <2>3, <2>4
<1>5. QED
  BY <1>3, <1>4

\* An admin's save finds the deposit as the admin read it.
LEMMA SaveIsFresh ==
    ASSUME Shape, NEW d \in Orderly, DI(d), NEW j \in Jobs, SaveDeposit(j)
    PROVE  DI(d)'
<1>1. /\ Proceed(j) /\ lost' = lost /\ log' = log /\ At(j, "save") /\ d \in Deposits
      /\ deposit' = [deposit EXCEPT ![job[j].dep] = job[j].status]
  BY DEF SaveDeposit, account, Orderly
<1>2. Credits(d)' = Credits(d)
  BY <1>1 DEF Credits
<1>3. CASE ~WorksOn(j, d)
  <2>1. job[j].kind = "deposit"
    <3>1. job[j] # IdleJob /\ GoodJob(job[j]) /\ Head(job[j].plan) = "save"
      BY <1>1 DEF At, IdleJob, Shape
    <3>2. /\ Head(<<"saveUser">>) # "save" /\ Head(<<"saveUser", "post">>) # "save"
          /\ Head(<<"post">>) # "save"
      OBVIOUS
    <3>3. QED
      BY <3>1, <3>2, Zenon DEF GoodJob, DepositJob, OrderJob, EditJob
  <2>2. deposit'[d] = deposit[d]
    BY <1>1, <1>3, <2>1 DEF WorksOn
  <2>3. QED
    BY <1>1, <1>2, <1>3, <2>2, OnlyJ, Elsewhere
<1>4. CASE WorksOn(j, d)
  <2>1. /\ job[j].dep = d /\ d \in Reviewed
        /\ \/ job[j].plan = <<"save", "post">> /\ job[j].status = "approved"
           \/ job[j].plan = <<"save">> /\ job[j].status = "rejected"
    BY <1>1, <1>4, WorkerPlan
  <2>2. job[j].plan # <<"post">>
    <3>1. <<"save", "post">> # <<"post">> /\ <<"save">> # <<"post">>
      OBVIOUS
    <3>2. QED
      BY <2>1, <3>1, Zenon
  <2>3. deposit[d] = "pending" /\ \A k \in Jobs : WorksOn(k, d) => k = j
    BY <1>4, <2>1, <2>2 DEF DI, AdminIsAlone
  <2>4. Credits(d) = {} /\ d \notin lost
    BY <2>3 DEF DI, ApprovalAccounted
  <2>5. \A k \in Jobs \ {j} : job'[k] = job[k]
    BY <1>1, OnlyJ
  <2>6. \A k \in Jobs : WorksOn(k, d)' => k = j
    BY <2>3, <2>5 DEF WorksOn
  <2>7. deposit'[d] = job[j].status
    BY <1>1, <2>1 DEF Shape, AccountsTypeOK
  <2>8. CASE job[j].plan = <<"save", "post">> /\ job[j].status = "approved"
    <3>1. job'[j] = [job[j] EXCEPT !.plan = <<"post">>]
      BY <1>1, <2>8, PlanTail DEF Proceed, Shape, AccountsTypeOK
    <3>2. Pays(j, d)' /\ (job[j].plan)' = <<"post">>
      BY <1>4, <3>1 DEF WorksOn, Pays, Shape, AccountsTypeOK, JobStates
    <3>3. QED
      BY <1>1, <1>2, <2>4, <2>6, <2>7, <2>8, <3>2
         DEF DI, CreditedOnce, PayerIsAlone, AdminIsAlone, ApprovalAccounted, Pays
  <2>9. CASE job[j].plan = <<"save">> /\ job[j].status = "rejected"
    <3>1. job'[j] = IdleJob
      BY <1>1, <2>9, PlanTail DEF Proceed, Shape, AccountsTypeOK
    <3>2. \A k \in Jobs : ~WorksOn(k, d)'
      BY <2>6, <3>1 DEF WorksOn, IdleJob
    <3>3. QED
      BY <1>1, <1>2, <2>4, <2>7, <2>9, <3>2
         DEF DI, CreditedOnce, PayerIsAlone, AdminIsAlone, ApprovalAccounted, Pays
  <2>10. QED
    BY <2>1, <2>8, <2>9
<1>5. QED
  BY <1>3, <1>4

\* A failing statement ends the handler; a credit that fails is lost.
LEMMA FailureAccounted ==
    ASSUME Shape, NEW d \in Deposits, DI(d), NEW j \in Jobs, StatementFails(j)
    PROVE  DI(d)'
<1>1. /\ Proceed(j) \/ Abort(j)
      /\ deposit' = deposit /\ log' = log /\ lost' = lost \cup Owed({j})
  BY DEF StatementFails, account
<1>2. Credits(d)' = Credits(d)
  BY <1>1 DEF Credits
<1>3. d \in Owed({j}) <=> Pays(j, d)
  BY DEF Owed, Pays
<1>4. CASE ~WorksOn(j, d)
  BY <1>1, <1>2, <1>3, <1>4, OnlyJ, Elsewhere DEF Pays
<1>5. CASE WorksOn(j, d) /\ ~Pays(j, d)
  <2>1. Abort(j)
    BY <1>5, WorkerPlan DEF StatementFails
  <2>2. QED
    BY <1>1, <1>2, <1>3, <1>5, <2>1, GivesUp
<1>6. CASE Pays(j, d)
  <2>1. Abort(j)
    BY <1>6, WorkerPlan DEF StatementFails, Pays
  <2>2. job'[j] = IdleJob /\ \A k \in Jobs \ {j} : job'[k] = job[k]
    BY <2>1 DEF Abort, Shape, AccountsTypeOK
  <2>3. deposit[d] = "approved" /\ \A k \in Jobs : Pays(k, d) => k = j
    BY <1>6 DEF DI, PayerIsAlone
  <2>4. \A k \in Jobs : ~Pays(k, d)'
    BY <2>2, <2>3 DEF Pays, WorksOn, IdleJob
  <2>5. \A k \in Jobs : WorksOn(k, d)' => WorksOn(k, d) /\ job'[k] = job[k]
    BY <2>2 DEF WorksOn, IdleJob
  <2>6. d \in lost'
    BY <1>1, <1>3, <1>6
  <2>7. QED
    BY <1>1, <1>2, <2>3, <2>4, <2>5, <2>6
       DEF DI, CreditedOnce, PayerIsAlone, AdminIsAlone, ApprovalAccounted
<1>7. QED
  BY <1>4, <1>5, <1>6 DEF Pays

\* A restart ends all handlers; the credits they owed are lost.
LEMMA CrashAccounted ==
    ASSUME Shape, NEW d \in Deposits, DI(d), Crash
    PROVE  DI(d)'
<1>1. /\ deposit' = deposit /\ log' = log /\ lost' = lost \cup Owed(Jobs)
      /\ \A j \in Jobs : job'[j] = IdleJob
  BY DEF Crash, account
<1>2. Credits(d)' = Credits(d)
  BY <1>1 DEF Credits
<1>3. \A j \in Jobs : ~WorksOn(j, d)' /\ ~Pays(j, d)'
  <2>1. IdleJob.kind = "idle"
    BY DEF IdleJob
  <2>2. QED
    BY <1>1, <2>1 DEF WorksOn, Pays
<1>4. d \in Owed(Jobs) <=> \E j \in Jobs : Pays(j, d)
  BY DEF Owed, Pays
<1>5. QED
  BY <1>1, <1>2, <1>3, <1>4
     DEF DI, CreditedOnce, PayerIsAlone, AdminIsAlone, ApprovalAccounted

\* A handler starts on a pending deposit: a webhook with any others, an admin
\* alone.
LEMMA DepositStarts ==
    ASSUME Shape, NEW d \in Orderly, DI(d), NEW j \in Jobs, NEW c \in Deposits,
           \/ HandleTripayDepositSuccess(j, c)
           \/ ApproveDeposit(j, c)
           \/ RejectDeposit(j, c)
    PROVE  DI(d)'
<1>1. /\ deposit' = deposit /\ log' = log /\ lost' = lost
      /\ deposit[c] = "pending" /\ job[j] = IdleJob /\ d \in Deposits
      /\ c \in Reviewed => Admitted(c) \/ c \in Instant
  BY DEF HandleTripayDepositSuccess, ApproveDeposit, RejectDeposit, Start, account, Orderly
<1>2. PICK s \in DepositStatuses, p \in {<<"mark", "post">>, <<"save", "post">>, <<"save">>} :
         job' = [job EXCEPT ![j] = OnDeposit(c, s, p)]
  BY DEF HandleTripayDepositSuccess, ApproveDeposit, RejectDeposit, Start,
     ApprovalPlan, DepositStatuses
<1>3. Credits(d)' = Credits(d)
  BY <1>1 DEF Credits
<1>4. /\ job'[j] = OnDeposit(c, s, p) /\ \A k \in Jobs \ {j} : job'[k] = job[k]
      /\ ~WorksOn(j, d)
  BY <1>1, <1>2, IdleWorksOnNothing DEF Shape, AccountsTypeOK
<1>5. CASE c # d
  <2>1. ~WorksOn(j, d)'
    BY <1>4, <1>5 DEF WorksOn, OnDeposit
  <2>2. QED
    BY <1>1, <1>3, <1>4, <2>1, Elsewhere
<1>6. CASE c = d
  <2>1. p # <<"post">>
    <3>1. /\ <<"mark", "post">> # <<"post">> /\ <<"save", "post">> # <<"post">>
          /\ <<"save">> # <<"post">>
      OBVIOUS
    <3>2. QED
      BY <3>1, Zenon
  <2>2. ~Pays(j, d)' /\ ~Pays(j, d)
    BY <1>4, <2>1 DEF Pays, OnDeposit
  <2>3. \A k \in Jobs : Pays(k, d)' <=> Pays(k, d)
    BY <1>4, <2>2 DEF Pays, WorksOn
  <2>4. AdminIsAlone(d)'
    <3>1. SUFFICES ASSUME d \in Reviewed PROVE AdminIsAlone(d)'
      BY DEF AdminIsAlone
    <3>2. \A k \in Jobs : ~WorksOn(k, d)
      BY <1>1, <1>6, <3>1 DEF Admitted, Orderly
    <3>3. \A k \in Jobs : WorksOn(k, d)' => k = j
      BY <1>4, <3>2 DEF WorksOn
    <3>4. QED
      BY <1>1, <1>6, <3>3 DEF AdminIsAlone
  <2>5. QED
    BY <1>1, <1>3, <2>3, <2>4 DEF DI, CreditedOnce, PayerIsAlone, ApprovalAccounted
<1>7. QED
  BY <1>5, <1>6

LEMMA DepositInit == Init => DepositInv
<1> SUFFICES ASSUME Init, NEW d \in Deposits PROVE DI(d)
  BY DEF DepositInv, DI, Orderly
<1>1. deposit[d] = "none" /\ lost = {} /\ \A j \in Jobs : job[j] = IdleJob
  BY DEF Init
<1>2. Credits(d) = {}
  <2>1. log[Depositor[d]] = <<>>
    BY AccountsAssumption DEF Init
  <2>2. QED
    BY <2>1 DEF Credits
<1>3. \A j \in Jobs : ~WorksOn(j, d) /\ ~Pays(j, d)
  BY <1>1, IdleWorksOnNothing
<1>4. QED
  BY <1>1, <1>2, <1>3 DEF DI, CreditedOnce, PayerIsAlone, AdminIsAlone, ApprovalAccounted

LEMMA DepositStep ==
    ASSUME Shape, DepositInv, [Next]_vars
    PROVE  DepositInv'
<1> SUFFICES ASSUME NEW d \in Orderly PROVE DI(d)'
  BY DEF DepositInv, DI
<1>1. DI(d) /\ d \in Deposits
  BY DEF DepositInv, DI, Orderly
<1>2. ASSUME NEW j \in Jobs, UpdateBalance(j) PROVE DI(d)'
  BY <1>1, <1>2, PostingPays
<1>3. ASSUME NEW j \in Jobs, SaveUser(j) PROVE DI(d)'
  <2>1. /\ Proceed(j) /\ At(j, "saveUser") /\ deposit' = deposit
        /\ lost' = lost /\ log' = log
    BY <1>3 DEF SaveUser
  <2>2. Credits(d)' = Credits(d)
    BY <2>1 DEF Credits
  <2>3. ~WorksOn(j, d)
    BY <1>1, <2>1, WorkerPlan
  <2>4. QED
    BY <1>1, <2>1, <2>2, <2>3, OnlyJ, Elsewhere
<1>4. ASSUME NEW j \in Jobs, MarkAsApprovedIfPending(j) PROVE DI(d)'
  BY <1>1, <1>4, MarkWins
<1>5. ASSUME NEW j \in Jobs, SaveDeposit(j) PROVE DI(d)'
  BY <1>1, <1>5, SaveIsFresh
<1>6. ASSUME NEW j \in Jobs, StatementFails(j) PROVE DI(d)'
  BY <1>1, <1>6, FailureAccounted
<1>7. ASSUME NEW c \in Deposits, CreateDeposit(c) PROVE DI(d)'
  <2>1. /\ job' = job /\ log' = log /\ lost' = lost
        /\ deposit[c] = "none" /\ deposit' = [deposit EXCEPT ![c] = "pending"]
    BY <1>7 DEF CreateDeposit, account
  <2>2. Credits(d)' = Credits(d) /\ \A k \in Jobs : (WorksOn(k, d)' <=> WorksOn(k, d)) /\ (Pays(k, d)' <=> Pays(k, d))
    BY <2>1 DEF Credits, WorksOn, Pays
  <2>3. deposit'[d] = deposit[d] \/ (deposit[d] = "none" /\ deposit'[d] = "pending")
    BY <1>1, <2>1 DEF Shape, AccountsTypeOK
  <2>4. QED
    BY <1>1, <2>1, <2>2, <2>3
       DEF DI, CreditedOnce, PayerIsAlone, AdminIsAlone, ApprovalAccounted
<1>8. ASSUME NEW j \in Jobs, NEW c \in Deposits,
             \/ HandleTripayDepositSuccess(j, c)
             \/ ApproveDeposit(j, c)
             \/ RejectDeposit(j, c)
      PROVE  DI(d)'
  BY <1>1, <1>8, DepositStarts
<1>9. ASSUME NEW j \in Jobs, NEW u \in Users, NEW n,
             UpdateUser(j, u, n) \/ OrderPosting(j, u, n)
      PROVE  DI(d)'
  <2>1. /\ deposit' = deposit /\ lost' = lost /\ log' = log /\ job[j] = IdleJob
    BY <1>9 DEF UpdateUser, OrderPosting, account, Start
  <2>2. PICK k \in {"edit", "order"},
               p \in {<<"post">>, <<"saveUser">>, <<"saveUser", "post">>} :
          job' = [job EXCEPT ![j] = OnUser(k, u, n, p)]
    BY <1>9 DEF UpdateUser, OrderPosting, Start
  <2>3. /\ job'[j] = OnUser(k, u, n, p) /\ \A i \in Jobs \ {j} : job'[i] = job[i]
    BY <2>2 DEF Shape, AccountsTypeOK
  <2>4. ~WorksOn(j, d) /\ ~WorksOn(j, d)'
    BY <2>1, <2>3 DEF WorksOn, IdleJob, OnUser
  <2>5. Credits(d)' = Credits(d)
    BY <2>1 DEF Credits
  <2>6. QED
    BY <1>1, <2>1, <2>3, <2>4, <2>5, Elsewhere
<1>10. CASE Crash
  BY <1>1, <1>10, CrashAccounted
<1>11. CASE UNCHANGED vars
  BY <1>1, <1>11 DEF vars, DI, CreditedOnce, PayerIsAlone, AdminIsAlone,
     ApprovalAccounted, Pays, WorksOn, Credits
<1>12. QED
  BY <1>2, <1>3, <1>4, <1>5, <1>6, <1>7, <1>8, <1>9, <1>10, <1>11 DEF Next, Statement

\* The whole invariant, for every number of users, deposits and handlers.
THEOREM AccountsCorrect == Spec => []AccountsInv
<1> DEFINE I == Shape /\ MutationsExplainBalance /\ DepositInv
<1>1. Init => I
  BY ShapeInit, ChainInit, DepositInit
<1>2. I /\ [Next]_vars => I'
  BY ShapeStep, ChainStep, DepositStep
<1>3. I => AccountsInv
  BY DEF Shape, AccountsInv
<1>4. QED
  BY <1>1, <1>2, <1>3, PTL DEF Spec

\* Duplicate webhooks of a deposit, or the requests of an admin who works on it
\* alone, credit it once.
THEOREM DepositsOnce == Spec => []DepositCreditedOnce
<1>1. AccountsInv => DepositCreditedOnce
  BY DEF AccountsInv, DepositInv, DepositCreditedOnce
<1>2. QED
  BY <1>1, AccountsCorrect, PTL

\* A deposit nobody works on is approved exactly when it was credited or its
\* credit was lost to a failure or a restart.
THEOREM DepositsSettled == Spec => []DepositSettled
<1>1. AccountsInv => DepositSettled
  BY DEF AccountsInv, DepositInv, ApprovalAccounted, DepositSettled, Pays
<1>2. QED
  BY <1>1, AccountsCorrect, PTL
===============================================================================
