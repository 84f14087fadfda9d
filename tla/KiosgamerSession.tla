--------------------------- MODULE KiosgamerSession ---------------------------
(***************************************************************************)
(* The session with the Kiosgamer web shop and the orders bought through    *)
(* it: internal/provider/kiosgamer/client.go and adapter.go.  The key of    *)
(* the session lives in three places: the credential row, the cookie jar    *)
(* of the process, and the shop.  Several calls read and write them; only   *)
(* the exchanges for a new key hold the mutex.  The shop itself is          *)
(* external.                                                               *)
(***************************************************************************)
EXTENDS Naturals, Sequences, FiniteSets

CONSTANTS
    Callings,      \* goroutines inside the client
    Crews,         \* sets of kinds of calls that may run in one behaviour
    Solo,          \* the crews whose calls never overlap
    Lasting,       \* the crews that meet a shop where a key lives on
    Goods,         \* transactions at Kiosgamer
    Steady,        \* those whose purchase loses no answer and no session
    Looked,        \* those whose status is asked for before their id is known
    Tokens,        \* session keys, 1 .. a number no behaviour uses up
    MaxItems,      \* bound: orders at the shop
    MaxTroubles    \* bound: lost answers, challenges, dead sessions, restarts

ASSUME KiosgamerAssumption ==
    /\ Solo \cup Lasting \subseteq Crews
    /\ Steady \cup Looked \subseteq Goods
    /\ Goods # {}
    /\ IsFiniteSet(Callings)
    /\ Tokens \subseteq Nat \ {0} /\ 1 \in Tokens
    /\ MaxItems \in Nat /\ MaxTroubles \in Nat

VARIABLES
    credential,   \* the kiosgamer_credentials row
    jar,          \* session_key in the cookie jar, 0 if there is none
    accepted,     \* external: the keys the shop accepts
    login,        \* external: the Garena login behind the exchanges lives
    items,        \* external: the orders of the shop account, oldest first
    holder,       \* the call that holds mu, at most one
    recent,       \* lastTxSessionAt is less than two minutes old
    calling,      \* what each goroutine does
    sale,         \* what the transaction knows of its order
    crew, troubles

sessionVars == <<credential, jar, accepted, login, items, holder, recent,
                 calling, sale, crew, troubles>>
shopVars == <<accepted, login, items>>
lockVars == <<holder, recent>>

Statuses == {"unknown", "active", "expired", "reauth_required", "challenge_required"}
CallKinds == {"keepAlive", "check", "recover", "save", "buy", "ask"}
CallSteps == {"idle", "load", "ping", "note", "lock", "swap", "giveUp", "store", "touch",
              "persist", "persistWrite", "saveWrite", "tx", "txSwap", "txStore", "pay", "poll",
              "history"}
Credentials == [key : Tokens \cup {0}, status : Statuses]
NoCopy == [key |-> 0, status |-> "unknown"]
AnyGood == CHOOSE o \in Goods : TRUE
IdleCall == [kind |-> "check", at |-> "idle", round |-> 1, copy |-> NoCopy, ord |-> AnyGood, id |-> 0]

SessionInit ==
    /\ credential = [key |-> 1, status |-> "unknown"]
    /\ jar = 0
    /\ accepted = {1}
    /\ login = TRUE
    /\ items = <<>>
    /\ holder = {}
    /\ recent = FALSE
    /\ calling = [c \in Callings |-> IdleCall]
    /\ sale = [o \in Goods |-> [id |-> 0, status |-> "open"]]
    /\ crew \in Crews
    /\ troubles = 0

Goes(c, step) == calling' = [calling EXCEPT ![c].at = step]
EndsCall(c) == calling' = [calling EXCEPT ![c] = IdleCall]
Knows(c, id, status) == sale' = [sale EXCEPT ![calling[c].ord] = [id |-> id, status |-> status]]
Fails(c) ==
    /\ EndsCall(c)
    /\ IF calling[c].kind \in {"buy", "ask"}
       THEN Knows(c, sale[calling[c].ord].id, "hold") ELSE UNCHANGED sale
Buying(o) == \E c \in Callings : calling[c].kind = "buy" /\ calling[c].ord = o
Trouble == troubles < MaxTroubles /\ troubles' = troubles + 1

\* A key nobody holds any more stands for the next one the shop invents.
Held == {jar, credential.key} \cup {calling[c].copy.key : c \in Callings}
NewToken == CHOOSE k \in Tokens : k \notin accepted \cup Held

-------------------------------------------------------------------------------
(* How calls begin.                                                        *)

\* An order that has an id is polled, also by Purchase; one without an id is
\* bought, or looked for in the history.
NeverKnown(o) == FALSE
KnownOrder(o) == sale[o].id # 0
AfterSession(c) ==
    IF calling[c].id # 0 THEN "poll" ELSE IF calling[c].kind = "buy" THEN "tx" ELSE "history"

Begin(c, k) ==
    /\ calling[c].at = "idle" /\ k \in crew
    /\ crew \in Solo => \A e \in Callings : calling[e] = IdleCall
    /\ \/ /\ k \in {"keepAlive", "check"}
          /\ calling' = [calling EXCEPT ![c] = [IdleCall EXCEPT !.kind = k, !.at = "load"]]
       \/ /\ k = "recover"
          /\ calling' = [calling EXCEPT ![c] = [IdleCall EXCEPT !.kind = k, !.at = "lock"]]
    /\ UNCHANGED <<credential, jar, shopVars, lockVars, sale, crew, troubles>>

\* One call at a time works on a transaction; which, is OrderLifecycle's.
BeginOrder(c, k, o) ==
    /\ calling[c].at = "idle" /\ k \in crew
    /\ \A e \in Callings : calling[e] = IdleCall \/ calling[e].ord # o
    /\ \/ k = "buy" /\ sale[o].status \in {"open", "hold", "pending"}
       \/ /\ k = "ask" /\ sale[o].status \in {"hold", "pending"}
          /\ KnownOrder(o) \/ o \in Looked
    /\ calling' = [calling EXCEPT ![c] =
          [IdleCall EXCEPT !.kind = k, !.at = "load", !.ord = o,
                           !.id = IF KnownOrder(o) THEN sale[o].id ELSE 0]]
    /\ UNCHANGED <<credential, jar, shopVars, lockVars, sale, crew, troubles>>

-------------------------------------------------------------------------------
(* HealthCheck, without the mutex.                                         *)

\* loadCredential: the row is copied and its key put into the jar.
LoadCredential(c) ==
    /\ calling[c].at = "load"
    /\ jar' = credential.key
    /\ calling' = [calling EXCEPT ![c].at = "ping", ![c].copy = credential]
    /\ UNCHANGED <<credential, shopVars, lockVars, sale, crew, troubles>>

\* doJSON: the shop judges the key in the jar, which may be another by now.
\* Other errors go the way of a challenge.
Judged(c, status) == calling' = [calling EXCEPT ![c].at = "note", ![c].copy.status = status]
Ping(c) ==
    /\ calling[c].at = "ping"
    /\ \/ jar \in accepted /\ Judged(c, "active") /\ UNCHANGED troubles
       \/ jar \notin accepted /\ Judged(c, "expired") /\ UNCHANGED troubles
       \/ Judged(c, "challenge_required") /\ Trouble
    /\ UNCHANGED <<credential, jar, shopVars, lockVars, sale, crew>>

\* The whole copy is written back.  EnsureSession recovers once from an
\* expired session, KeepAlive from any error; the others pass the error on.
Note(c) ==
    LET verdict == calling[c].copy.status
        again == /\ calling[c].round = 1 /\ calling[c].kind # "check"
                 /\ verdict = "expired" \/ calling[c].kind = "keepAlive"
    IN /\ calling[c].at = "note"
       /\ credential' = calling[c].copy
       /\ \/ /\ verdict = "active"
             /\ IF calling[c].kind = "check" THEN EndsCall(c)
                ELSE Goes(c, IF calling[c].kind = "keepAlive" THEN "touch" ELSE AfterSession(c))
             /\ UNCHANGED sale
          \/ verdict # "active" /\ again /\ Goes(c, "lock") /\ UNCHANGED sale
          \/ verdict # "active" /\ ~again /\ Fails(c)
       /\ UNCHANGED <<jar, shopVars, lockVars, crew, troubles>>

-------------------------------------------------------------------------------
(* RecoverSession, under mu.                                               *)

\* The variant does not wait for mu.
MuIgnored == TRUE
MuFree == holder = {}

Lock(c) ==
    /\ calling[c].at = "lock" /\ MuFree
    /\ holder' = holder \cup {c}
    /\ jar' = credential.key
    /\ calling' = [calling EXCEPT ![c].at = "swap", ![c].copy = credential]
    /\ UNCHANGED <<credential, shopVars, recent, sale, crew, troubles>>

\* GET check_session and POST sso: the same key again or a new one, the old
\* ones living on or not.
Exchange ==
    \/ jar \in accepted /\ UNCHANGED <<jar, accepted>>
    \/ /\ crew \notin Lasting
       /\ jar' = NewToken
       /\ accepted' \in {{NewToken}, {NewToken} \cup (accepted \cap Held)}

Swap(c) ==
    /\ calling[c].at = "swap"
    /\ \/ login /\ Exchange /\ Goes(c, "store") /\ UNCHANGED <<holder, troubles, sale>>
       \/ /\ ~login /\ UNCHANGED <<accepted, jar, holder, troubles, sale>>
          /\ calling' = [calling EXCEPT ![c].at = "giveUp", ![c].copy.status = "reauth_required"]
       \/ /\ Trouble /\ UNCHANGED <<accepted, jar, holder, sale>>
          /\ calling' = [calling EXCEPT ![c].at = "giveUp", ![c].copy.status = "challenge_required"]
       \/ Trouble /\ Fails(c) /\ holder' = holder \ {c} /\ UNCHANGED <<accepted, jar>>
    /\ UNCHANGED <<credential, login, items, recent, crew>>

\* The copy of the row that failed to recover is written back.
GiveUp(c) ==
    /\ calling[c].at = "giveUp"
    /\ credential' = calling[c].copy
    /\ holder' = holder \ {c}
    /\ Fails(c)
    /\ UNCHANGED <<jar, shopVars, recent, crew, troubles>>

\* The key found in the jar goes into the row; the variant forgets it.
StoreStatusOnly(c) == credential' = [calling[c].copy EXCEPT !.status = "active"]
StoreKey(c) == credential' = [key |-> jar, status |-> "active"]

Store(c) ==
    /\ calling[c].at = "store"
    /\ StoreKey(c)
    /\ holder' = holder \ {c}
    /\ IF calling[c].kind = "recover" THEN EndsCall(c)
       ELSE calling' = [calling EXCEPT ![c].at = "load", ![c].round = 2]
    /\ UNCHANGED <<jar, shopVars, recent, sale, crew, troubles>>

-------------------------------------------------------------------------------
(* KeepAlive after a good health check, and SaveCredentials.               *)

\* A page of the shop may rotate the key in the jar.
VisitShop(c) ==
    /\ calling[c].at = "touch"
    /\ Goes(c, "persist")
    /\ UNCHANGED <<accepted, jar, troubles>> \/ (Trouble /\ Exchange)
    /\ UNCHANGED <<credential, login, items, lockVars, sale, crew>>

\* persistCurrentCookies reads jar and row, and writes the row.
Persist(c) ==
    /\ calling[c].at = "persist"
    /\ calling' = [calling EXCEPT ![c].at = "persistWrite", ![c].copy = [credential EXCEPT !.key = jar]]
    /\ UNCHANGED <<credential, jar, shopVars, lockVars, sale, crew, troubles>>

WriteCopy(c) ==
    /\ calling[c].at \in {"persistWrite", "saveWrite"}
    /\ credential' = calling[c].copy
    /\ EndsCall(c)
    /\ UNCHANGED <<jar, shopVars, lockVars, sale, crew, troubles>>

\* An admin pastes the key of a fresh login.
SaveCredentials(c) ==
    /\ calling[c].at = "idle" /\ "save" \in crew
    /\ crew \in Solo => \A e \in Callings : calling[e] = IdleCall
    /\ Trouble
    /\ Exchange /\ login' = TRUE
    /\ calling' = [calling EXCEPT ![c] = [IdleCall EXCEPT !.kind = "save", !.at = "saveWrite",
                                            !.copy = [credential EXCEPT !.key = jar']]]
    /\ UNCHANGED <<credential, items, lockVars, sale, crew>>

-------------------------------------------------------------------------------
(* PlaceOrder, PollOrder and CheckRecentOrder.                             *)

\* ensureGarenaTransactionSession tests the window of the last exchange under
\* mu.

TxSession(c) ==
    /\ calling[c].at = "tx" /\ MuFree
    /\ IF recent THEN Goes(c, "pay") /\ UNCHANGED holder
       ELSE Goes(c, "txSwap") /\ holder' = holder \cup {c}
    /\ UNCHANGED <<credential, jar, shopVars, recent, sale, crew, troubles>>

\* No login is no error here, and an error that is not about the session is
\* passed over.
TxSwap(c) ==
    /\ calling[c].at = "txSwap"
    /\ \/ login /\ Exchange /\ Goes(c, "txStore") /\ UNCHANGED <<holder, troubles, sale>>
       \/ ~login /\ Goes(c, "pay") /\ holder' = holder \ {c} /\ UNCHANGED <<accepted, jar, troubles, sale>>
       \/ Trouble /\ Goes(c, "pay") /\ holder' = holder \ {c} /\ UNCHANGED <<accepted, jar, sale>>
       \/ Trouble /\ Fails(c) /\ holder' = holder \ {c} /\ UNCHANGED <<accepted, jar>>
    /\ UNCHANGED <<credential, login, items, recent, crew>>

TxStore(c) ==
    /\ calling[c].at = "txStore"
    /\ credential' = [key |-> jar, status |-> "active"]
    /\ recent' = TRUE
    /\ holder' = holder \ {c}
    /\ Goes(c, "pay")
    /\ UNCHANGED <<jar, shopVars, sale, crew, troubles>>

\* The way to pay/init and its answer.  A lost answer looks like a failure:
\* final, or on hold if its text speaks of a timeout.  A refusal that comes
\* with an id is an order that fails at once.
Pay(c) ==
    LET o == calling[c].ord
        Buys == Len(items) < MaxItems /\ items' = Append(items, [ord |-> o, state |-> "open"])
    IN /\ calling[c].at = "pay"
       /\ \/ /\ jar \in accepted /\ Buys
             /\ calling' = [calling EXCEPT ![c].at = "poll", ![c].id = Len(items) + 1]
             /\ UNCHANGED <<sale, troubles>>
          \/ /\ jar \in accepted /\ o \notin Steady /\ Trouble /\ Buys /\ EndsCall(c)
             /\ \E s \in {"hold", "failed"} : Knows(c, 0, s)
          \/ /\ EndsCall(c) /\ UNCHANGED <<items, troubles>>
             /\ \E s \in {"hold", "failed"} : Knows(c, 0, s)
       /\ UNCHANGED <<credential, jar, accepted, login, lockVars, crew>>

\* parseKiosgamerPoll: "failed" is only read where the shop says so; an answer
\* with the data of the order and no such word is read as a success, whatever
\* became of the order, and one with an error or no data as pending.
Readings(id) ==
    {"success", "pending"} \cup ({"failed"} \cap {items[id].state})

\* mapResult: a failure whose text speaks of the shop's own shortage is held
\* without the id, one that speaks of its other troubles with it.
FailureHeard(c) ==
    \/ \E s \in {"failed", "hold"} : Knows(c, calling[c].id, s)
    \/ Knows(c, sale[calling[c].ord].id, "hold")

\* A session error drops the id of an order that was just bought.
Poll(c) ==
    /\ calling[c].at = "poll"
    /\ EndsCall(c)
    /\ \/ /\ jar \in accepted /\ UNCHANGED troubles
          /\ \E s \in Readings(calling[c].id) :
                IF s = "failed" THEN FailureHeard(c) ELSE Knows(c, calling[c].id, s)
       \/ jar \notin accepted /\ Fails(c) /\ UNCHANGED troubles
       \/ calling[c].ord \notin Steady /\ Trouble /\ Fails(c)
    /\ UNCHANGED <<credential, jar, shopVars, lockVars, crew>>

\* The latest order of the account is taken for this one, and for a success.
History(c) ==
    /\ calling[c].at = "history"
    /\ \/ /\ jar \in accepted
          /\ IF items = <<>> THEN Knows(c, 0, "pending") ELSE Knows(c, Len(items), "success")
       \/ jar \notin accepted /\ Knows(c, 0, "hold")
    /\ EndsCall(c)
    /\ UNCHANGED <<credential, jar, shopVars, lockVars, crew, troubles>>

-------------------------------------------------------------------------------
(* Time, the shop and the process.                                         *)

WindowEnds ==
    /\ recent /\ recent' = FALSE
    /\ UNCHANGED <<credential, jar, shopVars, holder, calling, sale, crew, troubles>>

Finish(id) ==
    /\ items[id].state = "open"
    /\ \E s \in {"done", "failed"} : items' = [items EXCEPT ![id].state = s]
    /\ UNCHANGED <<credential, jar, accepted, login, lockVars, calling, sale, crew, troubles>>

Dies ==
    /\ Trouble
    /\ crew \notin Lasting
    /\ accepted' = {}
    /\ login' \in {login, FALSE}
    /\ UNCHANGED <<credential, jar, items, lockVars, calling, sale, crew>>

RestartClient ==
    /\ Trouble
    /\ jar' = 0 /\ holder' = {} /\ recent' = FALSE
    /\ calling' = [c \in Callings |-> IdleCall]
    /\ \A o \in Steady : ~Buying(o)
    /\ UNCHANGED <<credential, shopVars, sale, crew>>

StepOf(c) ==
    \/ LoadCredential(c) \/ Ping(c) \/ Note(c)
    \/ Lock(c) \/ Swap(c) \/ GiveUp(c) \/ Store(c)
    \/ VisitShop(c) \/ Persist(c) \/ WriteCopy(c)
    \/ TxSession(c) \/ TxSwap(c) \/ TxStore(c) \/ Pay(c) \/ Poll(c) \/ History(c)

SessionNext ==
    \/ \E c \in Callings : StepOf(c) \/ SaveCredentials(c)
    \/ \E c \in Callings, k \in CallKinds : Begin(c, k)
    \/ \E c \in Callings, k \in {"buy", "ask"}, o \in Goods : BeginOrder(c, k, o)
    \/ \E id \in DOMAIN items : Finish(id)
    \/ WindowEnds \/ Dies \/ RestartClient

-------------------------------------------------------------------------------
SessionTypeOK ==
    /\ credential \in Credentials
    /\ jar \in Tokens \cup {0}
    /\ accepted \subseteq Tokens
    /\ login \in BOOLEAN /\ recent \in BOOLEAN
    /\ items \in Seq([ord : Goods, state : {"open", "done", "failed"}]) /\ Len(items) <= MaxItems
    /\ holder \subseteq Callings /\ Cardinality(holder) <= 1
    /\ calling \in [Callings -> [kind : CallKinds, at : CallSteps, round : 1 .. 2,
                                 copy : Credentials, ord : Goods, id : 0 .. MaxItems]]
    /\ sale \in [Goods -> [id : 0 .. MaxItems,
                           status : {"open", "hold", "pending", "success", "failed"}]]
    /\ crew \in Crews
    /\ troubles \in 0 .. MaxTroubles

\* A transaction whose purchase loses neither an answer nor its session never
\* has two orders at the shop that may both deliver, whatever retries and status
\* checks follow; it fails, and is paid back, only when every order bought for
\* it failed, and it never succeeds without one.
OwnOrderOnce ==
    crew \in Lasting =>
        \A o \in Steady \ Looked :
            LET own == {i \in DOMAIN items : items[i].ord = o}
            IN /\ Cardinality({i \in own : items[i].state # "failed"}) <= 1
               /\ sale[o].status = "success" => own # {}
               /\ sale[o].status = "failed" => \A i \in own : items[i].state = "failed"

\* While calls do not overlap, a session the shop dropped is replaced as long
\* as the login behind it lives, and the row has the new key.
SessionHeals ==
    []<>(crew \in Solo /\ login => credential.key \in accepted)
===============================================================================
