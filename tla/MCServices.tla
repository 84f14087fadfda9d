------------------------------ MODULE MCServices ------------------------------
(***************************************************************************)
(* The small concurrent services of the process and the provider adapters, *)
(* for TLC.  They share no state, so a behaviour runs one of them (focus)   *)
(* and leaves the others at their start: the instance is as large as their  *)
(* sum, not their product.                                                 *)
(***************************************************************************)
EXTENDS WorkerPool, NickGuard, ReconcilerBatch, ProviderAdapters,
        DashboardHub, BalanceWatch, RolePermissions

CONSTANTS r1, r2, r3

VARIABLE focus

Services == {"pool", "guard", "batch", "adapters", "hub", "watch", "roles"}
vars == <<poolVars, guardVars, batchVars, adapterVars, hubVars, watchVars, rolesVars, focus>>

ThreeOrders == <<r1, r2, r3>>
OneProvider == [o \in {r1, r2, r3} |-> "asmarket"]

Init ==
    /\ focus \in Services
    /\ PoolInit /\ GuardInit /\ BatchInit /\ AdapterInit /\ HubInit /\ WatchInit /\ RolesInit
    /\ focus # "adapters" => code = "SIPAS" /\ ~barred
    /\ focus # "watch" => purse = "ok" /\ settings = {}

Next ==
    /\ UNCHANGED focus
    /\ \/ focus = "pool" /\ PoolNext
       \/ focus # "pool" /\ UNCHANGED poolVars
    /\ \/ focus = "guard" /\ GuardNext
       \/ focus # "guard" /\ UNCHANGED guardVars
    /\ \/ focus = "batch" /\ BatchNext
       \/ focus # "batch" /\ UNCHANGED batchVars
    /\ \/ focus = "adapters" /\ AdapterNext
       \/ focus # "adapters" /\ UNCHANGED adapterVars
    /\ \/ focus = "hub" /\ HubNext
       \/ focus # "hub" /\ UNCHANGED hubVars
    /\ \/ focus = "watch" /\ WatchNext
       \/ focus # "watch" /\ UNCHANGED watchVars
    /\ \/ focus = "roles" /\ RolesNext
       \/ focus # "roles" /\ UNCHANGED rolesVars

\* Goroutines are scheduled and time passes; a task and a check end because
\* the provider clients have timeouts, and both waits of a lookup end by
\* callTimeout.  The reconciler comes back to an open order, a provider call
\* ends, and a request made again and again is answered in the end.  A
\* broadcast takes its next step at the latest after 200 ms.  The alert check is
\* started every five minutes, cooldowns end, and the requests that write a row
\* or the settings end.  Nothing is assumed of handlers, contexts, callbacks,
\* providers, dashboards or the shutdown.
Fairness ==
    /\ \A w \in Workers : WF_poolVars(focus = "pool" /\ Work(w))
    /\ \A t \in Tasks : WF_poolVars(focus = "pool" /\ FinishAside(t))
    /\ \A c \in Callers : WF_guardVars(focus = "guard" /\ Proceeds(c))
    /\ WF_batchVars(focus = "batch" /\ Loop) /\ WF_batchVars(focus = "batch" /\ Clock)
    /\ \A o \in BatchOrders : WF_batchVars(focus = "batch" /\ Goroutine(o))
    /\ WF_adapterVars(focus = "adapters" /\ Reconcile)
    /\ WF_adapterVars(focus = "adapters" /\ Network)
    /\ SF_adapterVars(focus = "adapters" /\ OrderAnswered)
    /\ SF_adapterVars(focus = "adapters" /\ AskAnswered)
    /\ \A a \in Announcers : WF_hubVars(focus = "hub" /\ Broadcast(a))
    /\ WF_watchVars(focus = "watch" /\ AlertCheck) /\ WF_watchVars(focus = "watch" /\ CoolsDown)
    /\ WF_watchVars(focus = "watch" /\ WriteKey)
    /\ \A w \in Writers : WF_watchVars(focus = "watch" /\ WriteBalance(w))

Spec == Init /\ [][Next]_vars /\ Fairness

\* The type invariants of the services together.
ServicesTypeOK ==
    /\ PoolTypeOK /\ GuardTypeOK /\ BatchTypeOK /\ AdapterTypeOK
    /\ HubTypeOK /\ WatchTypeOK /\ RolesTypeOK
===============================================================================
