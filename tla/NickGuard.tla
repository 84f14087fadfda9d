------------------------------- MODULE NickGuard -------------------------------
(***************************************************************************)
(* GuardedChecker of internal/service/nick_guard.go: nickname lookups that *)
(* share a cache, join a running lookup of the same key, count against a   *)
(* limit of their sender and take one of a few slots of the upstream shop. *)
(***************************************************************************)
EXTENDS Integers, FiniteSets

CONSTANTS
    Callers,       \* goroutines in Check
    Keys,          \* userId:zoneId
    Senders,       \* limitKey
    Slots,         \* capacity of sem
    MaxPerChat,    \* lookups per sender and window
    Nobody         \* no lookup of a key is running

ASSUME GuardAssumption ==
    /\ Slots \in Nat \ {0} /\ MaxPerChat \in Nat \ {0}
    /\ Keys # {} /\ Nobody \notin Callers

VARIABLES
    call,       \* what each goroutine does
    inflight,   \* the goroutine that leads the lookup of a key
    cache,      \* what is cached for a key
    hits,       \* lookups of a sender within the window
    sem         \* slots taken

guardVars == <<call, inflight, cache, hits, sem>>

\* An incomplete result is cached for a shorter time, which Expire leaves open.
Results == {"nick", "error"}
Steps == {"idle", "acquire", "call", "publish", "close", "wait", "woken"}
\* asks is the key, leader whom a goroutine waits for, found what it found.
Calls == [at : Steps, asks : Keys, leader : Callers \cup {Nobody}, found : Results \cup {"none"}]
IdleCall == [at |-> "idle", asks |-> CHOOSE k \in Keys : TRUE,
             leader |-> Nobody, found |-> "none"]

GuardInit ==
    /\ call = [c \in Callers |-> IdleCall]
    /\ inflight = [k \in Keys |-> Nobody]
    /\ cache = [k \in Keys |-> "none"]
    /\ hits = [s \in Senders |-> 0]
    /\ sem = 0

Sets(c, r) == call' = [call EXCEPT ![c] = r]
\* Check returns its answer to the handler.
Returns(c) == Sets(c, IdleCall)

-------------------------------------------------------------------------------
(* Check up to the unlock.                                                 *)

\* A key in the cache, or a sender at its limit, is answered at once and
\* changes nothing.
Join(c, k) ==
    /\ cache[k] = "none"
    /\ inflight[k] # Nobody
    /\ Sets(c, [at |-> "wait", asks |-> k, leader |-> inflight[k], found |-> "none"])
    /\ UNCHANGED <<inflight, hits>>

\* A key nobody is looking up; the variant does not ask.
JoinsNobody(k) == cache[k] = "none"
Unasked(k) == cache[k] = "none" /\ inflight[k] = Nobody

Lead(c, k, s) ==
    /\ Unasked(k)
    /\ hits[s] < MaxPerChat
    /\ hits' = [hits EXCEPT ![s] = @ + 1]
    /\ inflight' = [inflight EXCEPT ![k] = c]
    /\ Sets(c, [at |-> "acquire", asks |-> k, leader |-> Nobody, found |-> "none"])

GuardCheck(c, k, s) ==
    /\ call[c].at = "idle"
    /\ Join(c, k) \/ Lead(c, k, s)
    /\ UNCHANGED <<cache, sem>>

-------------------------------------------------------------------------------
(* run: a slot or the call's own timeout, then the upstream shop.          *)

Acquire(c) ==
    /\ call[c].at = "acquire"
    /\ sem < Slots
    /\ sem' = sem + 1
    /\ Sets(c, [call[c] EXCEPT !.at = "call"])
    /\ UNCHANGED <<inflight, cache, hits>>

\* The deferred release runs only when the slot was taken; the variant
\* releases on every path.
ReleaseAnyway == sem' = sem - 1
NoSlotToRelease == UNCHANGED sem

AcquireTimesOut(c) ==
    /\ call[c].at = "acquire"
    /\ Sets(c, [call[c] EXCEPT !.at = "publish", !.found = "error"])
    /\ NoSlotToRelease
    /\ UNCHANGED <<inflight, cache, hits>>

\* The shop answers, fails, or is cut off by callTimeout.
InnerCheck(c) ==
    /\ call[c].at = "call"
    /\ \E r \in Results : Sets(c, [call[c] EXCEPT !.at = "publish", !.found = r])
    /\ sem' = sem - 1
    /\ UNCHANGED <<inflight, cache, hits>>

-------------------------------------------------------------------------------
(* The second locked section and the broadcast after it.                   *)

\* Only answers are cached, never failures.
Publish(c) ==
    LET k == call[c].asks
    IN /\ call[c].at = "publish"
       /\ inflight' = [inflight EXCEPT ![k] = Nobody]
       /\ cache' = IF call[c].found = "error" THEN cache
                   ELSE [cache EXCEPT ![k] = call[c].found]
       /\ Sets(c, [call[c] EXCEPT !.at = "close"])
       /\ UNCHANGED <<hits, sem>>

\* close(done): who waits for this lookup is woken; the variant forgets them.
WaitsFor(w, c) == call[w].at = "wait" /\ call[w].leader = c
WakesNobody(c) == {}
Woken(c) == {w \in Callers : WaitsFor(w, c)}
CloseDone(c) ==
    /\ call[c].at = "close"
    /\ call' = [w \in Callers |->
          IF w = c THEN IdleCall
          ELSE IF w \in Woken(c)
               THEN [call[w] EXCEPT !.at = "woken", !.leader = Nobody]
               ELSE call[w]]
    /\ UNCHANGED <<inflight, cache, hits, sem>>

WaiterReturns(w) ==
    /\ call[w].at = "woken"
    /\ Returns(w)
    /\ UNCHANGED <<inflight, cache, hits, sem>>

\* The context of a waiter ends; the lookup itself goes on.
WaiterGivesUp(w) ==
    /\ call[w].at \in {"wait", "woken"}
    /\ Returns(w)
    /\ UNCHANGED <<inflight, cache, hits, sem>>

\* Time: an entry expires (a sweep removes no other), a hit leaves the window.
Expire(k) ==
    /\ cache[k] # "none"
    /\ cache' = [cache EXCEPT ![k] = "none"]
    /\ UNCHANGED <<call, inflight, hits, sem>>
WindowPasses(s) ==
    /\ hits[s] > 0
    /\ hits' = [hits EXCEPT ![s] = @ - 1]
    /\ UNCHANGED <<call, inflight, cache, sem>>

\* What a goroutine does by itself once it leads or was woken.
Proceeds(c) ==
    \/ Acquire(c) \/ AcquireTimesOut(c) \/ InnerCheck(c)
    \/ Publish(c) \/ CloseDone(c) \/ WaiterReturns(c)

GuardNext ==
    \/ \E c \in Callers, k \in Keys, s \in Senders : GuardCheck(c, k, s)
    \/ \E c \in Callers : Proceeds(c) \/ WaiterGivesUp(c)
    \/ \E k \in Keys : Expire(k)
    \/ \E s \in Senders : WindowPasses(s)

GuardSpec == GuardInit /\ [][GuardNext]_guardVars

-------------------------------------------------------------------------------
Leads(c, k) == call[c].at \in {"acquire", "call", "publish"} /\ call[c].asks = k
Calling == {c \in Callers : call[c].at = "call"}

\* Every variable has its type, and the slots taken are those of the lookups
\* at the shop, whichever way each of them ended.
GuardTypeOK ==
    /\ call \in [Callers -> Calls]
    /\ inflight \in [Keys -> Callers \cup {Nobody}]
    /\ cache \in [Keys -> {"none", "nick"}]
    /\ hits \in [Senders -> 0 .. MaxPerChat]
    /\ sem \in 0 .. Slots
    /\ sem = Cardinality(Calling)

\* At most one lookup of a key runs, and a key is marked as running only while
\* one does: a stale mark would keep everybody waiting.
OneLookupPerKey ==
    \A k \in Keys :
        /\ \A c, d \in Callers : Leads(c, k) /\ Leads(d, k) => c = d
        /\ inflight[k] # Nobody => Leads(inflight[k], k)

\* Who joins a lookup is answered even if the one who started it is long gone
\* and its own context never ends.
JoinedIsAnswered == \A c \in Callers : []<>(call[c].at \notin {"wait", "woken"})

\* Why a key is looked up once: who leads a lookup is marked for its key.
LeaderIsMarked == \A k \in Keys, c \in Callers : Leads(c, k) => inflight[k] = c
MarkIsLed == \A k \in Keys : inflight[k] # Nobody => Leads(inflight[k], k)
GuardInv ==
    /\ call \in [Callers -> Calls]
    /\ inflight \in [Keys -> Callers \cup {Nobody}]
    /\ cache \in [Keys -> {"none", "nick"}]
    /\ LeaderIsMarked /\ MarkIsLed
===============================================================================
