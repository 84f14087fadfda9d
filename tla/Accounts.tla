------------------------------- MODULE Accounts -------------------------------
(***************************************************************************)
(* The users table, its balance mutations and the deposits: what a member  *)
(* pays in (internal/service/deposit_service.go), what orders post, and the *)
(* edits of a user by admins.  UserRepository.UpdateBalance is the one     *)
(* operation inside a database transaction; all other statements of a      *)
(* handler commit one by one and write back what was read before them.     *)
(***************************************************************************)
EXTENDS Integers, Sequences, FiniteSets

CONSTANTS
    Users,
    Deposits,
    Depositor,     \* the user who asked for a deposit
    Amount,        \* what a deposit credits
    Jobs,          \* handlers that can be in progress at once
    Instant,       \* deposits paid through the gateway: webhooks come
    Reviewed,      \* deposits an admin approves or rejects
    Overlapping,   \* deposits on which admin requests overlap each other
    Edited,        \* users an admin edits
    Postings,      \* amounts orders post, negative for a charge
    InitBalance,   \* opening balance of every user
    DBFaults,      \* TRUE when a database statement may fail
    MaxEdits,      \* bound: edits of users
    MaxPostings,   \* bound: order postings
    MaxCrashes     \* bound: restarts of the process

ASSUME AccountsAssumption ==
    /\ Users # {} /\ Deposits # {}
    /\ Depositor \in [Deposits -> Users]
    /\ Amount \in [Deposits -> Nat \ {0}]
    /\ Instant \subseteq Deposits
    /\ Reviewed \subseteq Deposits
    /\ Edited \subseteq Users
    /\ Postings \subseteq Int
    /\ InitBalance \in Nat
    /\ DBFaults \in BOOLEAN
    /\ MaxEdits \in Nat /\ MaxPostings \in Nat /\ MaxCrashes \in Nat

\* References of mutations that do not come from a deposit.
OtherRefs == {"order", "edit"}
ASSUME RefAssumption == Deposits \cap OtherRefs = {}

VARIABLES
    balance,    \* users.balance
    log,        \* balance_mutations of a user, oldest first
    deposit,    \* status column of the deposits
    lost,       \* history: approved deposits whose credit never ran
    job,        \* handlers in progress
    edits, postings, crashes    \* bound counters

vars == <<balance, log, deposit, lost, job, edits, postings, crashes>>
account == <<balance, log>>
bounds == <<edits, postings, crashes>>

DepositStatuses == {"none", "pending", "approved", "rejected"}
Kinds == {"idle", "deposit", "order", "edit"}
Ops == {"mark", "save", "saveUser", "post"}
Mutations == [before : Nat, after : Nat, ref : Deposits \cup OtherRefs]

\* A handler's memory: the deposit and the user it read, and what is left to do.
JobStates == [kind : Kinds, dep : Deposits, status : DepositStatuses,
              user : Users, seen : Nat, amount : Int, plan : Seq(Ops)]
IdleJob == [kind |-> "idle", dep |-> CHOOSE d \in Deposits : TRUE,
            status |-> "none", user |-> CHOOSE u \in Users : TRUE,
            seen |-> 0, amount |-> 0, plan |-> <<>>]

Init ==
    /\ balance = [u \in Users |-> InitBalance]
    /\ log = [u \in Users |-> <<>>]
    /\ deposit = [d \in Deposits |-> "none"]
    /\ lost = {}
    /\ job = [j \in Jobs |-> IdleJob]
    /\ edits = 0 /\ postings = 0 /\ crashes = 0

At(j, op) == job[j].plan # <<>> /\ Head(job[j].plan) = op

Proceed(j) ==
    job' = [job EXCEPT ![j] = IF Tail(job[j].plan) = <<>> THEN IdleJob
                              ELSE [job[j] EXCEPT !.plan = Tail(job[j].plan)]]

Abort(j) == job' = [job EXCEPT ![j] = IdleJob]

WorksOn(j, d) == job[j].kind = "deposit" /\ job[j].dep = d

-------------------------------------------------------------------------------
(* Statements.                                                             *)

\* The balance a posting starts from: read again under the row lock.  The
\* variant takes the one the handler preloaded with the deposit.
PreloadedBalance(j) == job[j].seen
LockedBalance(j) == balance[job[j].user]

\* The test of the balance a debit starts from, and a version without it.
CoversAny(b, n) == TRUE
Covers(b, n) == b + n >= 0

\* UpdateBalance: one transaction that moves the balance and records why, and
\* refuses a debit the balance does not cover.
UpdateBalance(j) ==
    LET h == job[j]
        b == LockedBalance(j)
        ref == IF h.kind = "deposit" THEN h.dep ELSE h.kind
    IN /\ At(j, "post")
       /\ IF Covers(b, h.amount)
          THEN /\ balance' = [balance EXCEPT ![h.user] = b + h.amount]
               /\ log' = [log EXCEPT ![h.user] =
                     Append(@, [before |-> b, after |-> b + h.amount, ref |-> ref])]
          ELSE UNCHANGED account
       /\ Proceed(j)
       /\ UNCHANGED <<deposit, lost, bounds>>

\* UserRepository.Update: every column of the copy, its balance included.
SaveUser(j) ==
    /\ At(j, "saveUser")
    /\ balance' = [balance EXCEPT ![job[j].user] = job[j].seen]
    /\ Proceed(j)
    /\ UNCHANGED <<log, deposit, lost, bounds>>

\* MarkAsApprovedIfPending, and an update without its condition.
MarkAlways(j) ==
    /\ At(j, "mark")
    /\ deposit' = [deposit EXCEPT ![job[j].dep] = "approved"]
    /\ Proceed(j)
    /\ UNCHANGED <<account, lost, bounds>>
MarkAsApprovedIfPending(j) ==
    /\ At(j, "mark")
    /\ IF deposit[job[j].dep] = "pending"
       THEN /\ deposit' = [deposit EXCEPT ![job[j].dep] = "approved"]
            /\ Proceed(j)
       ELSE Abort(j) /\ UNCHANGED deposit
    /\ UNCHANGED <<account, lost, bounds>>

\* DepositRepository.Update writes the copy, whatever the row has become.
SaveDeposit(j) ==
    /\ At(j, "save")
    /\ deposit' = [deposit EXCEPT ![job[j].dep] = job[j].status]
    /\ Proceed(j)
    /\ UNCHANGED <<account, lost, bounds>>

\* Deposits whose approval is written and whose credit is still to come.
Owed(jobs) == {d \in Deposits : \E j \in jobs : WorksOn(j, d) /\ job[j].plan = <<"post">>}

\* A statement fails.  The edit of a user ignores it, every other handler ends.
StatementFails(j) ==
    /\ DBFaults
    /\ job[j].plan # <<>>
    /\ IF At(j, "saveUser") THEN Proceed(j) ELSE Abort(j)
    /\ lost' = lost \cup Owed({j})
    /\ UNCHANGED <<account, deposit, bounds>>

-------------------------------------------------------------------------------
(* Entry points.                                                           *)

Start(j, h) ==
    /\ job[j] = IdleJob
    /\ job' = [job EXCEPT ![j] = h]

\* A handler that read deposit d and its user.
OnDeposit(d, status, plan) ==
    [kind |-> "deposit", dep |-> d, status |-> status, user |-> Depositor[d],
     seen |-> balance[Depositor[d]], amount |-> Amount[d], plan |-> plan]

\* CreateDeposit: the gateway has accepted the invoice when the row appears.
CreateDeposit(d) ==
    /\ deposit[d] = "none"
    /\ deposit' = [deposit EXCEPT ![d] = "pending"]
    /\ UNCHANGED <<account, lost, job, bounds>>

\* HandleTripayDepositSuccess with the deposit's own amount; a webhook with
\* another amount changes nothing.
HandleTripayDepositSuccess(j, d) ==
    /\ d \in Instant
    /\ deposit[d] = "pending"
    /\ Start(j, OnDeposit(d, "approved", <<"mark", "post">>))
    /\ UNCHANGED <<account, deposit, lost, bounds>>

\* An admin works on a deposit alone, unless requests on it overlap.
Admitted(d) ==
    /\ d \in Reviewed
    /\ d \in Overlapping \/ \A j \in Jobs : ~WorksOn(j, d)

\* The credit follows the status; the variant credits first.
CreditThenSave == <<"post", "save">>
ApprovalPlan == <<"save", "post">>

ApproveDeposit(j, d) ==
    /\ deposit[d] = "pending"
    /\ Admitted(d)
    /\ Start(j, OnDeposit(d, "approved", ApprovalPlan))
    /\ UNCHANGED <<account, deposit, lost, bounds>>

RejectDeposit(j, d) ==
    /\ deposit[d] = "pending"
    /\ Admitted(d)
    /\ Start(j, OnDeposit(d, "rejected", <<"save">>))
    /\ UNCHANGED <<account, deposit, lost, bounds>>

\* A handler that read user u and will post n, if anything.
OnUser(k, u, n, plan) ==
    [IdleJob EXCEPT !.kind = k, !.user = u, !.seen = balance[u],
                    !.amount = n, !.plan = plan]

\* UpdateUser with and without an adjustment; UpdateMyProfile and
\* ChangeMyPassword save the row in the same way.
UpdateUser(j, u, n) ==
    /\ edits < MaxEdits
    /\ edits' = edits + 1
    /\ u \in Edited
    /\ Start(j, OnUser("edit", u, n, IF n = 0 THEN <<"saveUser">> ELSE <<"saveUser", "post">>))
    /\ UNCHANGED <<account, deposit, lost, postings, crashes>>

\* An order of user u charges or refunds.
OrderPosting(j, u, n) ==
    /\ postings < MaxPostings
    /\ postings' = postings + 1
    /\ Start(j, OnUser("order", u, n, <<"post">>))
    /\ UNCHANGED <<account, deposit, lost, edits, crashes>>

\* The process stops: handlers in progress are gone.
Crash ==
    /\ crashes < MaxCrashes
    /\ crashes' = crashes + 1
    /\ job' = [j \in Jobs |-> IdleJob]
    /\ lost' = lost \cup Owed(Jobs)
    /\ UNCHANGED <<account, deposit, edits, postings>>

Statement(j) ==
    \/ UpdateBalance(j) \/ SaveUser(j)
    \/ MarkAsApprovedIfPending(j) \/ SaveDeposit(j) \/ StatementFails(j)

Next ==
    \/ \E j \in Jobs : Statement(j)
    \/ \E d \in Deposits : CreateDeposit(d)
    \/ \E j \in Jobs, d \in Deposits :
          \/ HandleTripayDepositSuccess(j, d)
          \/ ApproveDeposit(j, d) \/ RejectDeposit(j, d)
    \/ \E j \in Jobs, u \in Users :
          \/ \E n \in Postings \cup {0} : UpdateUser(j, u, n)
          \/ \E n \in Postings : OrderPosting(j, u, n)
    \/ Crash

Spec == Init /\ [][Next]_vars

-------------------------------------------------------------------------------
(* What accounts and deposits promise.                                     *)

\* Every variable has its type; no interleaving of postings overdraws a user.
AccountsTypeOK ==
    /\ balance \in [Users -> Nat]
    /\ log \in [Users -> Seq(Mutations)]
    /\ deposit \in [Deposits -> DepositStatuses]
    /\ lost \in SUBSET Deposits
    /\ job \in [Jobs -> JobStates]

\* The mutations of a user no admin edits explain the balance: each starts
\* where the one before it ended, and the last ends at the balance.
Linked(s) == \A i \in 2 .. Len(s) : s[i].before = s[i - 1].after
Opening(s) == s # <<>> => s[1].before = InitBalance
Closing(s) == IF s = <<>> THEN InitBalance ELSE s[Len(s)].after
MutationsExplainBalance ==
    \A u \in Users \ Edited :
        Opening(log[u]) /\ Linked(log[u]) /\ balance[u] = Closing(log[u])

\* Deposits that one kind of actor works on: webhooks, or an admin at a time.
Orderly == Deposits \ (Overlapping \cup (Instant \cap Reviewed))

Credits(d) == {i \in DOMAIN log[Depositor[d]] : log[Depositor[d]][i].ref = d}
CreditedOnce(d) == \A i, k \in Credits(d) : i = k

\* Duplicate and concurrent webhooks credit a deposit once, and so does an admin.
DepositCreditedOnce == \A d \in Orderly : CreditedOnce(d)

\* What "deposit already processed" and "Already approved" say: whoever processes
\* a deposit, nobody processes it again.  An approval racing a webhook does.
ProcessedDepositKept == \A d \in Deposits : CreditedOnce(d)

\* When nobody works on a deposit it is approved exactly when its owner was
\* credited, unless the credit itself failed or the process stopped before it.
DepositSettled ==
    \A d \in Orderly : (\A j \in Jobs : ~WorksOn(j, d)) =>
        (deposit[d] = "approved" <=> Credits(d) # {} \/ d \in lost)

-------------------------------------------------------------------------------
(* Why they hold: the inductive invariant.                                 *)

\* What a handler in progress may have in its hands.
DepositJob(h) ==
    /\ h.kind = "deposit"
    /\ h.user = Depositor[h.dep] /\ h.amount = Amount[h.dep]
    /\ \/ h.plan = <<"mark", "post">> /\ h.dep \in Instant
       \/ h.plan = <<"save", "post">> /\ h.status = "approved" /\ h.dep \in Reviewed
       \/ h.plan = <<"save">> /\ h.status = "rejected" /\ h.dep \in Reviewed
       \/ h.plan = <<"post">>
OrderJob(h) == h.kind = "order" /\ h.plan = <<"post">>
EditJob(h) ==
    /\ h.kind = "edit"
    /\ h.user \in Edited
    /\ h.plan \in {<<"saveUser">>, <<"saveUser", "post">>, <<"post">>}
GoodJob(h) == h = IdleJob \/ DepositJob(h) \/ OrderJob(h) \/ EditJob(h)

\* A handler that is about to credit deposit d has won it for itself alone ...
Pays(j, d) == WorksOn(j, d) /\ job[j].plan = <<"post">>
PayerIsAlone(d) ==
    \A j \in Jobs : Pays(j, d) =>
        /\ deposit[d] = "approved" /\ Credits(d) = {} /\ d \notin lost
        /\ \A k \in Jobs : Pays(k, d) => k = j

\* ... an admin's handler is alone on its deposit, which waits for it ...
AdminIsAlone(d) ==
    d \in Reviewed => \A j \in Jobs : WorksOn(j, d) =>
        /\ \A k \in Jobs : WorksOn(k, d) => k = j
        /\ job[j].plan # <<"post">> => deposit[d] = "pending"

\* ... and an approval was paid, is being paid, or is lost.
ApprovalAccounted(d) ==
    deposit[d] = "approved" <=>
        Credits(d) # {} \/ d \in lost \/ \E j \in Jobs : Pays(j, d)

DepositInv ==
    \A d \in Orderly :
        CreditedOnce(d) /\ PayerIsAlone(d) /\ AdminIsAlone(d) /\ ApprovalAccounted(d)
AccountsInv ==
    /\ AccountsTypeOK
    /\ \A j \in Jobs : GoodJob(job[j])
    /\ MutationsExplainBalance
    /\ DepositInv
===============================================================================
