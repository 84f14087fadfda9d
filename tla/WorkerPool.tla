------------------------------ MODULE WorkerPool ------------------------------
(***************************************************************************)
(* The pool that buys paid orders (internal/pkg/worker/pool.go) and its    *)
(* stop at the end of the process (cmd/server/main.go).  Handlers submit   *)
(* tasks at any time, also after the server gave up waiting for them.      *)
(***************************************************************************)
EXTENDS Integers, Sequences, FiniteSets

CONSTANTS Workers, Tasks, QueueSize, NoTask

ASSUME PoolAssumption ==
    /\ Workers # {}
    /\ QueueSize \in Nat \ {0}
    /\ NoTask \notin Tasks

VARIABLES
    queue,      \* the buffered channel taskQueue
    worker,     \* what each worker goroutine does
    task,       \* what has become of each task
    early,      \* history: tasks the queue took before the pool was cancelled
    stop        \* progress of Stop

poolVars == <<queue, worker, task, early, stop>>

\* A worker waits in its loop, drains the queue after the cancel, or is gone;
\* it may be running a task in either loop.
WorkerStates == [at : {"loop", "drain", "gone"}, runs : Tasks \cup {NoTask}]
TaskStates == {"new", "queued", "running", "aside", "done", "refused", "panicked"}
StopStates == {"no", "cancelled", "closed", "clean", "timedOut"}

PoolInit ==
    /\ queue = <<>>
    /\ worker = [w \in Workers |-> [at |-> "loop", runs |-> NoTask]]
    /\ task = [t \in Tasks |-> "new"]
    /\ early = {}
    /\ stop = "no"

\* The process ends when Stop returns: everything in memory ends with it.
Alive == stop \notin {"clean", "timedOut"}
Cancelled == stop # "no"
Closed == stop \notin {"no", "cancelled"}

Becomes(t, s) == task' = [task EXCEPT ![t] = s]

-------------------------------------------------------------------------------
(* Submit: select takes any case that is ready; a send on a closed channel *)
(* is ready and panics in the handler.                                     *)

HasRoom == Len(queue) < QueueSize

Refuse(t) ==
    /\ Cancelled
    /\ Becomes(t, "refused")
    /\ UNCHANGED <<queue, early>>

Enqueue(t) ==
    /\ ~Closed
    /\ HasRoom
    /\ queue' = Append(queue, t)
    /\ Becomes(t, "queued")
    /\ early' = IF Cancelled THEN early ELSE early \cup {t}

SendOnClosed(t) ==
    /\ Closed
    /\ Becomes(t, "panicked")
    /\ UNCHANGED <<queue, early>>

\* A full queue: the task runs in a goroutine of its own, which nobody waits for.
FallBack(t) ==
    /\ ~Cancelled /\ ~HasRoom
    /\ Becomes(t, "aside")
    /\ UNCHANGED <<queue, early>>

Submit(t) ==
    /\ Alive
    /\ task[t] = "new"
    /\ Refuse(t) \/ Enqueue(t) \/ SendOnClosed(t) \/ FallBack(t)
    /\ UNCHANGED <<worker, stop>>

-------------------------------------------------------------------------------
(* Workers.                                                                *)

Free(w) == Alive /\ worker[w].at # "gone" /\ worker[w].runs = NoTask

\* Both loops receive from the queue.
Receive(w) ==
    /\ Free(w)
    /\ queue # <<>>
    /\ queue' = Tail(queue)
    /\ worker' = [worker EXCEPT ![w].runs = Head(queue)]
    /\ Becomes(Head(queue), "running")
    /\ UNCHANGED <<early, stop>>

\* The cancel is seen only between tasks; the variant leaves without draining.
LeaveAtOnce(w) == "gone"
AfterCancel(w) == "drain"

SeeCancel(w) ==
    /\ Free(w) /\ worker[w].at = "loop"
    /\ Cancelled
    /\ worker' = [worker EXCEPT ![w].at = AfterCancel(w)]
    /\ UNCHANGED <<queue, task, early, stop>>

\* The drain finds the queue empty, or either loop finds it empty and closed.
Leave(w) ==
    /\ Free(w)
    /\ queue = <<>>
    /\ worker[w].at = "drain" \/ Closed
    /\ worker' = [worker EXCEPT ![w].at = "gone"]
    /\ UNCHANGED <<queue, task, early, stop>>

\* A task returns or panics; safeExecute recovers, so the worker goes on.  In
\* the variant a panic may end the worker.
WorkerDies(w) == {worker[w].at, "gone"}
AfterTask(w) == {worker[w].at}

Finish(w) ==
    /\ Alive
    /\ worker[w].runs # NoTask
    /\ \E at \in AfterTask(w) :
          worker' = [worker EXCEPT ![w] = [at |-> at, runs |-> NoTask]]
    /\ Becomes(worker[w].runs, "done")
    /\ UNCHANGED <<queue, early, stop>>

FinishAside(t) ==
    /\ Alive
    /\ task[t] = "aside"
    /\ Becomes(t, "done")
    /\ UNCHANGED <<queue, worker, early, stop>>

-------------------------------------------------------------------------------
(* Stop.                                                                   *)

StopStep(s) == stop' = s /\ UNCHANGED <<queue, worker, task, early>>

Cancel == stop = "no" /\ StopStep("cancelled")
CloseQueue == stop = "cancelled" /\ StopStep("closed")
StopClean ==
    /\ stop = "closed"
    /\ \A w \in Workers : worker[w].at = "gone"
    /\ StopStep("clean")
StopTimesOut == stop = "closed" /\ StopStep("timedOut")

Stop == Cancel \/ CloseQueue \/ StopClean \/ StopTimesOut

Work(w) == Receive(w) \/ SeeCancel(w) \/ Leave(w) \/ Finish(w)

PoolNext ==
    \/ \E t \in Tasks : Submit(t) \/ FinishAside(t)
    \/ \E w \in Workers : Work(w)
    \/ Stop

PoolSpec == PoolInit /\ [][PoolNext]_poolVars

-------------------------------------------------------------------------------
\* Every variable has its type, and the buffer never exceeds its capacity.
PoolTypeOK ==
    /\ queue \in Seq(Tasks) /\ Len(queue) <= QueueSize
    /\ worker \in [Workers -> WorkerStates]
    /\ task \in [Tasks -> TaskStates]
    /\ early \in SUBSET Tasks
    /\ stop \in StopStates

\* "waits for queued tasks to finish": when Stop returns before its timeout
\* every task queued before the cancel has run.  Tasks that race the stop or
\* run aside have no such promise.
CleanStopKeepsQueue == stop = "clean" => \A t \in early : task[t] = "done"

\* Unless the process is told to stop, a task that Submit accepted runs to its
\* end, whatever other tasks do to the workers.
AcceptedRuns ==
    <>[](\A t \in Tasks : task[t] \in {"queued", "running", "aside"} => Cancelled)

-------------------------------------------------------------------------------
(* Why a clean stop keeps them: the inductive invariant.                   *)

\* Where a task queued in time is ...
EarlyTaskPlaced(t) ==
    /\ task[t] \in {"queued", "running", "done"}
    /\ task[t] = "queued" => t \in {queue[i] : i \in DOMAIN queue}
    /\ task[t] = "running" => \E w \in Workers : worker[w].runs = t

\* ... and what it means that a worker drains or has left.
WorkerLeft(w) ==
    /\ worker[w].at # "loop" => Cancelled
    /\ worker[w].at = "gone" =>
          /\ worker[w].runs = NoTask
          /\ \A t \in early : task[t] # "queued"

PoolInv ==
    /\ PoolTypeOK
    /\ \A t \in early : EarlyTaskPlaced(t)
    /\ \A w \in Workers : WorkerLeft(w)
    /\ stop = "clean" => \A w \in Workers : worker[w].at = "gone"
===============================================================================
