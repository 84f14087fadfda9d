--------------------------- MODULE ReconcilerBatch ---------------------------
(***************************************************************************)
(* The loop of ReconcilerWorker (internal/service/reconciler.go): a window *)
(* of due orders per tick, a claim for each, a bounded number of goroutines *)
(* that keep a gap between calls to one provider, and the wait for all of  *)
(* them.  What a check does to its order is OrderLifecycle's matter.       *)
(***************************************************************************)
EXTENDS Integers, Sequences, FiniteSets
LOCAL INSTANCE Functions

CONSTANTS
    Created,        \* the orders that shouldSkip lets pass, oldest first
    ProviderOf,     \* provider code of an order
    BatchSize, Concurrency,
    Gap,            \* ProviderRateLimit in ticks of the clock
    MaxTouches,     \* bound: saves of orders by other handlers
    NoOrder

BatchOrders == Range(Created)
Codes == {ProviderOf[o] : o \in BatchOrders}

ASSUME BatchAssumption ==
    /\ BatchSize \in Nat /\ Concurrency \in Nat \ {0} /\ Gap \in Nat
    /\ MaxTouches \in Nat
    /\ NoOrder \notin BatchOrders

VARIABLES
    phase,      \* where Run is
    window,     \* orders of this tick not looked at yet
    claimed,    \* the order that was claimed and waits for the semaphore
    held,       \* places taken in the semaphore of this tick
    routine,    \* the goroutine of an order
    wait,       \* time until the slot a goroutine reserved
    last,       \* time until the last slot reserved at a provider
    queued,     \* orders in the reconcile queue
    ripe,       \* orders whose updated_at is older than their minimum age
    stale,      \* orders saved since the window was read
    touches,    \* bound counter
    shutdown    \* the context is cancelled

batchVars == <<phase, window, claimed, held, routine, wait, last,
               queued, ripe, stale, touches, shutdown>>
rows == <<queued, ripe, stale, touches>>
loop == <<phase, window, claimed, held>>
slots == <<wait, last>>

BatchInit ==
    /\ phase = "idle" /\ window = {} /\ claimed = NoOrder /\ held = 0
    /\ routine = [o \in BatchOrders |-> "none"]
    /\ wait = [o \in BatchOrders |-> 0]
    /\ last = [p \in Codes |-> -Gap]
    /\ queued = BatchOrders
    /\ ripe = {}
    /\ stale = {} /\ touches = 0
    /\ shutdown = FALSE

Running == {o \in BatchOrders : routine[o] # "none"}

\* FindReconcileQueue and the window: the oldest due orders.
Older(o, q) ==
    \E i, j \in DOMAIN Created : i < j /\ Created[i] = o /\ Created[j] = q
Due == queued \cap ripe
DueWindow == {o \in Due : Cardinality({q \in Due : Older(q, o)}) < BatchSize}

Tick ==
    /\ phase = "idle"
    /\ DueWindow # {}
    /\ phase' = "claim"
    /\ window' = DueWindow
    /\ held' = 0
    /\ UNCHANGED <<claimed, routine, slots, rows, shutdown>>

\* The window is gone through from its oldest order.  The claim misses one that
\* left the queue or was saved since the query; the statement may also fail, and
\* the loop goes on with the next order.
Claimable(o) == o \in queued \ stale
ClaimNext ==
    \E o \in window :
       /\ phase = "claim" /\ claimed = NoOrder
       /\ \A q \in window : ~Older(q, o)
       /\ window' = window \ {o}
       /\ \/ Claimable(o) /\ claimed' = o /\ ripe' = ripe \ {o}
          \/ UNCHANGED <<claimed, ripe>>
       /\ UNCHANGED <<phase, held, routine, slots, queued, stale, touches, shutdown>>

Spawn ==
    /\ claimed # NoOrder
    /\ held < Concurrency
    /\ held' = held + 1
    /\ routine' = [routine EXCEPT ![claimed] = "new"]
    /\ claimed' = NoOrder
    /\ UNCHANGED <<phase, window, slots, rows, shutdown>>

\* The context ends while the semaphore is asked: the claimed order is dropped.
DropBatch ==
    /\ claimed # NoOrder
    /\ shutdown
    /\ phase' = "wait" /\ window' = {} /\ claimed' = NoOrder
    /\ UNCHANGED <<held, routine, slots, rows, shutdown>>

WindowDone ==
    /\ phase = "claim" /\ window = {} /\ claimed = NoOrder
    /\ phase' = "wait"
    /\ UNCHANGED <<window, claimed, held, routine, slots, rows, shutdown>>

\* wg.Wait, and a version that does not wait.
WaitsForNobody == TRUE
AllReturned == Running = {}
BatchDone ==
    /\ phase = "wait"
    /\ AllReturned
    /\ phase' = "idle"
    /\ stale' = {}
    /\ UNCHANGED <<window, claimed, held, routine, slots, queued, ripe, touches, shutdown>>

\* Run sees the cancelled context between two ticks.
LeaveLoop ==
    /\ phase = "idle" /\ shutdown
    /\ phase' = "stopped"
    /\ UNCHANGED <<window, claimed, held, routine, slots, rows, shutdown>>

-------------------------------------------------------------------------------
(* The goroutine of an order.                                              *)

\* waitRateSlot: now, or one gap after the last slot.  What is noted is the time
\* of the slot, not of the call.
Later(a, b) == IF a > b THEN a ELSE b
NotesSlot(slot) == slot

ReserveSlot(o) ==
    LET p == ProviderOf[o]
        slot == Later(0, last[p] + Gap)
    IN /\ routine[o] = "new"
       /\ routine' = [routine EXCEPT ![o] = "slot"]
       /\ wait' = [wait EXCEPT ![o] = slot]
       /\ last' = [last EXCEPT ![p] = NotesSlot(slot)]
       /\ UNCHANGED <<loop, rows, shutdown>>

\* The slot comes, or the context ends the wait for it.
StartCheck(o) ==
    /\ routine[o] = "slot"
    /\ wait[o] = 0 \/ shutdown
    /\ routine' = [routine EXCEPT ![o] = "check"]
    /\ wait' = [wait EXCEPT ![o] = 0]
    /\ UNCHANGED <<loop, last, rows, shutdown>>

\* The deferred release gives the place back however the check ended; the
\* variant may keep it.
MayKeepPlace(o) == {held, held - 1}
GivesPlaceBack(o) == {held - 1}

\* reconcileOne returns: the order is saved again, or final, or untouched
\* because the check failed.
EndCheck(o) ==
    /\ routine[o] = "check"
    /\ routine' = [routine EXCEPT ![o] = "none"]
    /\ held' \in GivesPlaceBack(o)
    /\ \/ queued' = queued \ {o} /\ ripe' = ripe \ {o}
       \/ ripe' = ripe \ {o} /\ UNCHANGED queued
       \/ UNCHANGED <<queued, ripe>>
    /\ UNCHANGED <<phase, window, claimed, slots, stale, touches, shutdown>>

-------------------------------------------------------------------------------
(* The world: time, other handlers, the end of the process.                *)

Behind(t) == IF t > -Gap THEN t - 1 ELSE t
Clock ==
    /\ \E o \in BatchOrders : wait[o] > 0 \/ last[ProviderOf[o]] > -Gap
    /\ wait' = [o \in BatchOrders |-> Later(0, wait[o] - 1)]
    /\ last' = [p \in Codes |-> Behind(last[p])]
    /\ UNCHANGED <<loop, routine, rows, shutdown>>

\* minAgeFor of the order passes.  Minimum ages are many gaps long, so every
\* slot reserved has gone by.
Ripens(o) ==
    /\ o \in queued \ ripe
    /\ \A p \in Codes : last[p] <= 0
    /\ ripe' = ripe \cup {o}
    /\ UNCHANGED <<loop, routine, slots, queued, stale, touches, shutdown>>

\* Another handler saves the order or finishes it.
Touched(o) ==
    /\ touches < MaxTouches
    /\ touches' = touches + 1
    /\ o \in queued
    /\ ripe' = ripe \ {o}
    /\ queued' \in {queued, queued \ {o}}
    /\ stale' = IF phase = "claim" THEN stale \cup {o} ELSE stale
    /\ UNCHANGED <<loop, routine, slots, shutdown>>

Shutdown ==
    /\ ~shutdown
    /\ shutdown' = TRUE
    /\ UNCHANGED <<loop, routine, slots, rows>>

Loop == Tick \/ ClaimNext \/ Spawn \/ DropBatch \/ WindowDone \/ BatchDone \/ LeaveLoop
Goroutine(o) == ReserveSlot(o) \/ StartCheck(o) \/ EndCheck(o)

BatchNext ==
    \/ Loop \/ Clock \/ Shutdown
    \/ \E o \in BatchOrders : Goroutine(o) \/ Ripens(o) \/ Touched(o)

BatchSpec == BatchInit /\ [][BatchNext]_batchVars

-------------------------------------------------------------------------------
\* Every variable has its type, and the semaphore bounds the goroutines.
BatchTypeOK ==
    /\ phase \in {"idle", "claim", "wait", "stopped"}
    /\ window \in SUBSET BatchOrders
    /\ claimed \in BatchOrders \cup {NoOrder}
    /\ routine \in [BatchOrders -> {"none", "new", "slot", "check"}]
    /\ wait \in [BatchOrders -> Nat]
    /\ last \in [Codes -> Int]
    /\ queued \in SUBSET BatchOrders /\ ripe \in SUBSET BatchOrders
    /\ stale \in SUBSET BatchOrders
    /\ touches \in 0 .. MaxTouches
    /\ shutdown \in BOOLEAN
    /\ held \in 0 .. Concurrency /\ held = Cardinality(Running)

\* The provider is asked at its pace: the goroutines of one tick keep the gap
\* between their slots, and the next tick, or the return of Run, finds none of
\* them left, so one order is never reconciled twice at once.
Waiting(o) == routine[o] = "slot" /\ wait[o] > 0
BatchesDoNotOverlap ==
    /\ phase \in {"idle", "stopped"} => Running = {}
    /\ phase = "claim" => \A o \in Running : o # claimed /\ o \notin window
SlotsSpaced ==
    \A o, q \in BatchOrders :
        (o # q /\ ProviderOf[o] = ProviderOf[q] /\ Waiting(o) /\ Waiting(q))
            => (wait[o] - wait[q] >= Gap \/ wait[q] - wait[o] >= Gap)
ReconcilerPaced == BatchesDoNotOverlap /\ SlotsSpaced

\* A claim makes the order wait for its next turn, so a claimed order is
\* checked, however slots and semaphore are taken, unless the process ends.
ClaimedIsChecked ==
    \A o \in BatchOrders :
        []<>(shutdown \/ (claimed # o /\ routine[o] \notin {"new", "slot"}))
===============================================================================
