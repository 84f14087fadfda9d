---------------------------- MODULE ServicesProofs ----------------------------
(* The small concurrent services of the process, each for any size of it:  *)
(* the worker pool, the nickname lookups, the permission matrix and the    *)
(* reconciler's loop.                                                      *)
EXTENDS MCServices, ProviderAdaptersProofs, FiniteSetTheorems

-------------------------------------------------------------------------------
(* The worker pool: a clean stop leaves no task behind that was queued in  *)
(* time.                                                                   *)

\* What the queue holds after a send and after a receive.
LEMMA QueueSend ==
    ASSUME NEW S, NEW q \in Seq(S), NEW t \in S
    PROVE  /\ Append(q, t) \in Seq(S)
           /\ Len(Append(q, t)) = Len(q) + 1
           /\ \A x : x \in {q[i] : i \in DOMAIN q} \/ x = t
                   => x \in {Append(q, t)[i] : i \in DOMAIN Append(q, t)}
<1>1. /\ Append(q, t) \in Seq(S) /\ Len(Append(q, t)) = Len(q) + 1
      /\ Append(q, t)[Len(q) + 1] = t /\ Len(q) + 1 \in DOMAIN Append(q, t)
  OBVIOUS
<1>2. ASSUME NEW i \in DOMAIN q
      PROVE  i \in DOMAIN Append(q, t) /\ Append(q, t)[i] = q[i]
  OBVIOUS
<1>3. QED
  BY <1>1, <1>2

LEMMA QueueReceive ==
    ASSUME NEW S, NEW q \in Seq(S), q # <<>>
    PROVE  /\ Tail(q) \in Seq(S) /\ Head(q) \in S
           /\ Len(Tail(q)) = Len(q) - 1
           /\ \A x : x \in {q[i] : i \in DOMAIN q} /\ x # Head(q)
                   => x \in {Tail(q)[i] : i \in DOMAIN Tail(q)}
<1>1. Tail(q) \in Seq(S) /\ Head(q) \in S /\ Len(Tail(q)) = Len(q) - 1
  OBVIOUS
<1>2. ASSUME NEW x, NEW i \in DOMAIN q, x = q[i], x # Head(q)
      PROVE  x \in {Tail(q)[k] : k \in DOMAIN Tail(q)}
  <2>1. i - 1 \in DOMAIN Tail(q) /\ Tail(q)[i - 1] = x
    BY <1>2
  <2>2. QED
    BY <2>1
<1>3. QED
  BY <1>1, <1>2

\* The invariant holds at the start ...
LEMMA PoolInvInit == PoolInit => PoolInv
  BY PoolAssumption DEF PoolInit, PoolInv, PoolTypeOK, WorkerStates, TaskStates,
     StopStates, WorkerLeft

\* ... is kept by handlers that submit, at whatever moment of a stop ...
LEMMA SubmitKeeps ==
    ASSUME PoolInv, NEW t \in Tasks, Submit(t)
    PROVE  PoolInv'
<1>1. /\ PoolTypeOK /\ task[t] = "new" /\ Alive
      /\ worker' = worker /\ stop' = stop
      /\ \A e \in early : EarlyTaskPlaced(e)
      /\ \A w \in Workers : WorkerLeft(w)
  BY DEF PoolInv, Submit
<1>2. t \notin early
  BY <1>1 DEF EarlyTaskPlaced
<1>3. ASSUME NEW s \in TaskStates, Becomes(t, s), UNCHANGED <<queue, early>>
      PROVE  PoolInv'
  BY <1>1, <1>2, <1>3
     DEF PoolInv, PoolTypeOK, Becomes, EarlyTaskPlaced, WorkerLeft, Cancelled, Alive
<1>4. CASE Enqueue(t)
  <2>1. PoolTypeOK'
    <3>1. /\ queue' \in Seq(Tasks) /\ Len(queue') = Len(queue) + 1
          /\ Len(queue) \in Nat /\ Len(queue) < QueueSize
      BY <1>1, <1>4, QueueSend DEF PoolTypeOK, Enqueue, HasRoom
    <3>2. QED
      BY <1>1, <1>4, <3>1, PoolAssumption DEF PoolTypeOK, Enqueue, Becomes, TaskStates
  <2>2. ASSUME NEW e \in early'
        PROVE  EarlyTaskPlaced(e)'
    <3>1. CASE e = t
      BY <1>1, <1>4, <3>1, QueueSend DEF PoolTypeOK, Enqueue, Becomes, EarlyTaskPlaced
    <3>2. CASE e # t
      <4>1. e \in early /\ EarlyTaskPlaced(e) /\ task'[e] = task[e]
        BY <1>1, <1>4, <2>2, <3>2 DEF Enqueue, Becomes, PoolTypeOK
      <4>2. QED
        BY <1>1, <1>4, <4>1, QueueSend DEF PoolTypeOK, Enqueue, EarlyTaskPlaced
    <3>3. QED
      BY <3>1, <3>2
  <2>3. ASSUME NEW w \in Workers
        PROVE  WorkerLeft(w)'
    <3>1. CASE Cancelled
      BY <1>1, <1>2, <1>4, <3>1 DEF Enqueue, Becomes, PoolTypeOK, WorkerLeft, Cancelled
    <3>2. CASE ~Cancelled
      BY <1>1, <3>2 DEF WorkerLeft, Cancelled, PoolTypeOK, WorkerStates
    <3>3. QED
      BY <3>1, <3>2
  <2>4. QED
    BY <1>1, <2>1, <2>2, <2>3 DEF PoolInv, Alive
<1>5. CASE Refuse(t) \/ SendOnClosed(t) \/ FallBack(t)
  BY <1>3, <1>5 DEF Refuse, SendOnClosed, FallBack, TaskStates
<1>6. QED
  BY <1>4, <1>5 DEF Submit

\* ... by workers ...
LEMMA ReceiveKeeps ==
    ASSUME PoolInv, NEW w \in Workers, Receive(w)
    PROVE  PoolInv'
<1>1. /\ PoolTypeOK /\ Alive /\ queue # <<>>
      /\ worker[w].at # "gone" /\ worker[w].runs = NoTask
      /\ early' = early /\ stop' = stop /\ queue' = Tail(queue)
      /\ worker' = [worker EXCEPT ![w].runs = Head(queue)]
      /\ Head(queue) \in Tasks /\ task' = [task EXCEPT ![Head(queue)] = "running"]
      /\ \A e \in early : EarlyTaskPlaced(e)
      /\ \A v \in Workers : WorkerLeft(v)
  BY QueueReceive DEF PoolInv, PoolTypeOK, Receive, Free, Becomes
<1>2. PoolTypeOK'
  <2>1. queue' \in Seq(Tasks) /\ Len(queue') = Len(queue) - 1 /\ Len(queue) \in Nat
    BY <1>1, QueueReceive DEF PoolTypeOK
  <2>2. QED
    BY <1>1, <2>1, PoolAssumption DEF PoolTypeOK, WorkerStates, TaskStates
<1>3. worker'[w].runs = Head(queue) /\ \A v \in Workers \ {w} : worker'[v] = worker[v]
  BY <1>1 DEF PoolTypeOK, WorkerStates
<1>4. ASSUME NEW e \in early'
      PROVE  EarlyTaskPlaced(e)'
  <2>1. CASE e = Head(queue)
    BY <1>1, <1>3, <2>1 DEF PoolTypeOK, EarlyTaskPlaced
  <2>2. CASE e # Head(queue)
    <3>1. EarlyTaskPlaced(e) /\ task'[e] = task[e] /\ e \in Tasks
      BY <1>1, <1>4, <2>2 DEF PoolTypeOK
    <3>2. task[e] = "queued" => e \in {queue'[i] : i \in DOMAIN queue'}
      <4>1. \A x : x \in {queue[i] : i \in DOMAIN queue} /\ x # Head(queue)
                    => x \in {queue'[i] : i \in DOMAIN queue'}
        <5>1. queue \in Seq(Tasks) /\ queue # <<>>
          BY <1>1 DEF PoolTypeOK
        <5>2. \A x : x \in {queue[i] : i \in DOMAIN queue} /\ x # Head(queue)
                      => x \in {Tail(queue)[i] : i \in DOMAIN Tail(queue)}
          BY <5>1, QueueReceive
        <5>3. QED
          BY <1>1, <5>2
      <4>2. QED
        BY <2>2, <3>1, <4>1 DEF EarlyTaskPlaced
    <3>3. task[e] = "running" => \E v \in Workers : worker'[v].runs = e
      BY <1>1, <1>3, <3>1, PoolAssumption DEF EarlyTaskPlaced
    <3>4. QED
      BY <3>1, <3>2, <3>3 DEF EarlyTaskPlaced
  <2>3. QED
    BY <2>1, <2>2
<1>5. ASSUME NEW v \in Workers
      PROVE  WorkerLeft(v)'
  <2>1. worker'[v].at = worker[v].at
    BY <1>1 DEF PoolTypeOK, WorkerStates
  <2>2. \A e \in early : task'[e] = "queued" => task[e] = "queued"
    BY <1>1 DEF PoolTypeOK
  <2>3. QED
    BY <1>1, <1>3, <2>1, <2>2 DEF WorkerLeft, Cancelled
<1>6. QED
  BY <1>1, <1>2, <1>4, <1>5 DEF PoolInv, Alive

LEMMA WorkKeeps ==
    ASSUME PoolInv, NEW w \in Workers, SeeCancel(w) \/ Leave(w) \/ Finish(w)
    PROVE  PoolInv'
<1>1. /\ PoolTypeOK /\ Alive
      /\ early' = early /\ stop' = stop /\ queue' = queue
      /\ \A e \in early : EarlyTaskPlaced(e)
      /\ \A v \in Workers : WorkerLeft(v)
  BY DEF PoolInv, SeeCancel, Leave, Finish, Free
<1>2. CASE SeeCancel(w) \/ Leave(w)
  <2>1. PICK a \in {"drain", "gone"} : worker' = [worker EXCEPT ![w].at = a]
    BY <1>2 DEF SeeCancel, Leave, AfterCancel
  <2>2. task' = task /\ worker[w].runs = NoTask /\ Cancelled
    BY <1>1, <1>2 DEF SeeCancel, Leave, Free, WorkerLeft, Cancelled, Closed
  <2>3. \A v \in Workers : /\ worker'[v].runs = worker[v].runs
                           /\ worker'[v].at = IF v = w THEN a ELSE worker[v].at
    BY <1>1, <2>1 DEF PoolTypeOK, WorkerStates
  <2>4. a = "gone" => \A e \in early : task[e] # "queued"
    <3>1. CASE SeeCancel(w)
      BY <1>1, <2>3, <3>1 DEF SeeCancel, AfterCancel, PoolTypeOK, WorkerStates
    <3>2. CASE Leave(w)
      <4>1. {queue[i] : i \in DOMAIN queue} = {}
        BY <3>2 DEF Leave
      <4>2. QED
        BY <1>1, <4>1 DEF EarlyTaskPlaced
    <3>3. QED
      BY <1>2, <3>1, <3>2
  <2>5. PoolTypeOK'
    BY <1>1, <2>1, <2>2 DEF PoolTypeOK, WorkerStates
  <2>6. \A e \in early' : EarlyTaskPlaced(e)'
    BY <1>1, <2>2, <2>3 DEF EarlyTaskPlaced
  <2>7. \A v \in Workers : WorkerLeft(v)'
    BY <1>1, <2>2, <2>3, <2>4 DEF WorkerLeft, Cancelled
  <2>8. QED
    BY <1>1, <2>5, <2>6, <2>7 DEF PoolInv, Alive
<1>3. CASE Finish(w)
  <2>1. /\ worker[w].runs # NoTask /\ worker[w].runs \in Tasks
        /\ task' = [task EXCEPT ![worker[w].runs] = "done"]
        /\ worker' = [worker EXCEPT ![w] = [at |-> worker[w].at, runs |-> NoTask]]
    BY <1>1, <1>3 DEF Finish, Becomes, AfterTask, PoolTypeOK, WorkerStates
  <2>2. \A v \in Workers : /\ worker'[v].at = worker[v].at
                           /\ worker'[v].runs = IF v = w THEN NoTask ELSE worker[v].runs
    BY <1>1, <2>1 DEF PoolTypeOK
  <2>3. PoolTypeOK'
    BY <1>1, <2>1 DEF PoolTypeOK, WorkerStates, TaskStates
  <2>4. ASSUME NEW e \in early'
        PROVE  EarlyTaskPlaced(e)'
    <3>1. CASE e = worker[w].runs
      BY <1>1, <2>1, <3>1 DEF PoolTypeOK, EarlyTaskPlaced
    <3>2. CASE e # worker[w].runs
      <4>1. task'[e] = task[e] /\ EarlyTaskPlaced(e) /\ e \in Tasks
        BY <1>1, <2>1, <2>4, <3>2 DEF PoolTypeOK
      <4>2. QED
        BY <1>1, <2>2, <3>2, <4>1 DEF EarlyTaskPlaced
    <3>3. QED
      BY <3>1, <3>2
  <2>5. \A e \in early : task'[e] = "queued" => task[e] = "queued"
    BY <1>1, <2>1 DEF PoolTypeOK
  <2>6. \A v \in Workers : WorkerLeft(v)'
    BY <1>1, <2>2, <2>5 DEF WorkerLeft, Cancelled
  <2>7. QED
    BY <1>1, <2>3, <2>4, <2>6 DEF PoolInv, Alive
<1>4. QED
  BY <1>2, <1>3

\* ... and by the stop itself.
LEMMA PoolStep == PoolInv /\ [PoolNext]_poolVars => PoolInv'
<1> SUFFICES ASSUME PoolInv, [PoolNext]_poolVars
             PROVE  PoolInv'
  OBVIOUS
<1>1. ASSUME NEW t \in Tasks, Submit(t)
      PROVE  PoolInv'
  BY <1>1, SubmitKeeps
<1>2. ASSUME NEW t \in Tasks, FinishAside(t)
      PROVE  PoolInv'
  <2>1. t \notin early
    BY <1>2 DEF PoolInv, EarlyTaskPlaced, FinishAside
  <2>2. QED
    BY <1>2, <2>1 DEF PoolInv, PoolTypeOK, FinishAside, Becomes, TaskStates,
       EarlyTaskPlaced, WorkerLeft, Cancelled, Alive
<1>3. ASSUME NEW w \in Workers, Work(w)
      PROVE  PoolInv'
  BY <1>3, ReceiveKeeps, WorkKeeps DEF Work
<1>4. CASE Stop
  BY <1>4 DEF Stop, Cancel, CloseQueue, StopClean, StopTimesOut, StopStep, PoolInv,
     PoolTypeOK, StopStates, EarlyTaskPlaced, WorkerLeft, Cancelled
<1>5. CASE UNCHANGED poolVars
  BY <1>5 DEF poolVars, PoolInv, PoolTypeOK, EarlyTaskPlaced, WorkerLeft, Cancelled
<1>6. QED
  BY <1>1, <1>2, <1>3, <1>4, <1>5 DEF PoolNext

LEMMA PoolCorrect == PoolSpec => []PoolInv
  BY PoolInvInit, PoolStep, PTL DEF PoolSpec

\* Types hold for every size of the pool; the buffer never overflows.
THEOREM PoolTypeCorrect == PoolSpec => []PoolTypeOK
<1>1. PoolInv => PoolTypeOK
  BY DEF PoolInv
<1>2. QED
  BY <1>1, PoolCorrect, PTL

\* Stop that returns before its timeout has run every task queued before it.
THEOREM CleanStop == PoolSpec => []CleanStopKeepsQueue
<1>1. PoolInv => CleanStopKeepsQueue
  BY PoolAssumption
     DEF PoolInv, PoolTypeOK, EarlyTaskPlaced, WorkerLeft, CleanStopKeepsQueue
<1>2. QED
  BY <1>1, PoolCorrect, PTL

-------------------------------------------------------------------------------
(* The nickname lookups: one lookup of a key at a time.                    *)

\* The shape of the state alone.
GuardShape ==
    /\ call \in [Callers -> Calls]
    /\ inflight \in [Keys -> Callers \cup {Nobody}]
    /\ cache \in [Keys -> {"none", "nick"}]

LEMMA IdleCallType == IdleCall \in Calls
  BY GuardAssumption DEF IdleCall, Calls, Steps

\* A step that changes nobody's lead, nor a mark, keeps the marks right.
LEMMA SameLeads ==
    ASSUME LeaderIsMarked, MarkIsLed, inflight \in [Keys -> Callers \cup {Nobody}],
           inflight' = inflight,
           \A c \in Callers, k \in Keys : Leads(c, k)' <=> Leads(c, k)
    PROVE  LeaderIsMarked' /\ MarkIsLed'
  BY DEF LeaderIsMarked, MarkIsLed

LEMMA GuardInvInit == GuardInit => GuardInv
<1> SUFFICES ASSUME GuardInit PROVE GuardInv
  OBVIOUS
<1>1. /\ call \in [Callers -> Calls]
      /\ inflight \in [Keys -> Callers \cup {Nobody}]
      /\ cache \in [Keys -> {"none", "nick"}]
  BY IdleCallType DEF GuardInit
<1>2. \A c \in Callers : call[c].at = "idle"
  BY DEF GuardInit, IdleCall
<1>3. \A c \in Callers, k \in Keys : ~Leads(c, k)
  BY <1>2 DEF Leads
<1>4. LeaderIsMarked
  BY <1>3 DEF LeaderIsMarked
<1>5. MarkIsLed
  BY DEF GuardInit, MarkIsLed
<1>6. QED
  BY <1>1, <1>4, <1>5 DEF GuardInv

\* Asking: the lead of an unmarked key is taken together with its mark.
LEMMA GuardCheckKeeps ==
    ASSUME GuardInv, NEW c \in Callers, NEW k \in Keys, NEW s \in Senders,
           GuardCheck(c, k, s)
    PROVE  GuardInv'
<1>1. /\ GuardShape /\ LeaderIsMarked /\ MarkIsLed
      /\ call[c].at = "idle" /\ cache' = cache
  BY DEF GuardInv, GuardShape, GuardCheck
<1>2. \A h \in Keys : ~Leads(c, h)
  BY <1>1 DEF Leads
<1>3. CASE Join(c, k)
  <2>1. /\ call'[c].at = "wait" /\ \A d \in Callers \ {c} : call'[d] = call[d]
        /\ inflight' = inflight
    BY <1>1, <1>3 DEF Join, Sets, GuardShape
  <2>2. call' \in [Callers -> Calls]
    BY <1>1, <1>3 DEF Join, Sets, GuardShape, Calls, Steps
  <2>3. LeaderIsMarked' /\ MarkIsLed'
    <3>1. \A d \in Callers, h \in Keys : Leads(d, h)' <=> Leads(d, h)
      BY <1>2, <2>1 DEF Leads
    <3>2. QED
      BY <1>1, <2>1, <3>1, SameLeads DEF GuardShape
  <2>4. QED
    BY <1>1, <2>1, <2>2, <2>3 DEF GuardInv, GuardShape
<1>4. CASE Lead(c, k, s)
  <2>1. /\ call'[c].at = "acquire" /\ call'[c].asks = k
        /\ \A d \in Callers \ {c} : call'[d] = call[d]
        /\ inflight[k] = Nobody /\ inflight' = [inflight EXCEPT ![k] = c]
    BY <1>1, <1>4 DEF Lead, Unasked, Sets, GuardShape
  <2>2. call' \in [Callers -> Calls]
    BY <1>1, <1>4 DEF Lead, Sets, GuardShape, Calls, Steps
  <2>3. LeaderIsMarked'
    BY <1>1, <1>2, <2>1, GuardAssumption DEF LeaderIsMarked, Leads, GuardShape
  <2>4. MarkIsLed'
    BY <1>1, <1>2, <2>1, GuardAssumption DEF MarkIsLed, Leads, GuardShape
  <2>5. QED
    BY <1>1, <2>1, <2>2, <2>3, <2>4 DEF GuardInv, GuardShape
<1>5. QED
  BY <1>3, <1>4 DEF GuardCheck

\* Leading up to the answer keeps the lead.
LEMMA RunKeeps ==
    ASSUME GuardInv, NEW c \in Callers, Acquire(c) \/ AcquireTimesOut(c) \/ InnerCheck(c)
    PROVE  GuardInv'
<1>1. GuardShape /\ LeaderIsMarked /\ MarkIsLed /\ inflight' = inflight /\ cache' = cache
  BY DEF GuardInv, GuardShape, Acquire, AcquireTimesOut, InnerCheck
<1>2. call[c].at \in {"acquire", "call"} /\ call[c] \in Calls
  BY <1>1 DEF GuardShape, Acquire, AcquireTimesOut, InnerCheck
<1>3. PICK a \in {"call", "publish"}, f \in Results \cup {"none"} :
         call' = [call EXCEPT ![c] = [call[c] EXCEPT !.at = a, !.found = f]]
  <2>1. CASE Acquire(c)
    <3>1. [call[c] EXCEPT !.at = "call"]
             = [call[c] EXCEPT !.at = "call", !.found = call[c].found]
      BY <1>2 DEF Calls
    <3>2. call[c].found \in Results \cup {"none"}
      BY <1>2 DEF Calls
    <3>3. QED
      BY <2>1, <3>1, <3>2 DEF Acquire, Sets
  <2>2. CASE AcquireTimesOut(c) \/ InnerCheck(c)
    BY <2>2 DEF AcquireTimesOut, InnerCheck, Sets, Results
  <2>3. QED
    BY <2>1, <2>2
<1>4. call' \in [Callers -> Calls]
  BY <1>1, <1>2, <1>3 DEF GuardShape, Calls, Steps
<1>5. /\ call'[c].at = a /\ call'[c].asks = call[c].asks
      /\ \A d \in Callers \ {c} : call'[d] = call[d]
  BY <1>1, <1>2, <1>3 DEF GuardShape, Calls
<1>6. \A d \in Callers, h \in Keys : Leads(d, h)' <=> Leads(d, h)
  BY <1>2, <1>5 DEF Leads
<1>7. QED
  BY <1>1, <1>4, <1>6, SameLeads DEF GuardInv, GuardShape

\* The mark and the lead end together.
LEMMA PublishKeeps ==
    ASSUME GuardInv, NEW c \in Callers, Publish(c)
    PROVE  GuardInv'
<1> DEFINE k == call[c].asks
<1>1. /\ GuardShape /\ LeaderIsMarked /\ MarkIsLed
      /\ call[c].at = "publish" /\ call[c] \in Calls /\ k \in Keys
      /\ call[c].found \in {"nick", "error", "none"}
      /\ inflight' = [inflight EXCEPT ![k] = Nobody]
      /\ call' = [call EXCEPT ![c] = [call[c] EXCEPT !.at = "close"]]
  BY DEF GuardInv, GuardShape, Publish, Sets, Calls, Results
<1>2. Leads(c, k) /\ inflight[k] = c
  BY <1>1 DEF Leads, LeaderIsMarked
<1>3. call'[c].at = "close" /\ \A d \in Callers \ {c} : call'[d] = call[d]
  BY <1>1 DEF GuardShape, Calls
<1>4. GuardShape'
  BY <1>1 DEF GuardShape, Publish, Calls, Steps
<1>5. LeaderIsMarked'
  BY <1>1, <1>2, <1>3 DEF LeaderIsMarked, Leads, GuardShape
<1>6. MarkIsLed'
  BY <1>1, <1>2, <1>3, GuardAssumption DEF MarkIsLed, Leads, GuardShape
<1>7. QED
  BY <1>4, <1>5, <1>6 DEF GuardInv, GuardShape

\* Nobody leads before or after waking or returning.
LEMMA ReturnKeeps ==
    ASSUME GuardInv, NEW c \in Callers,
           CloseDone(c) \/ WaiterReturns(c) \/ WaiterGivesUp(c)
    PROVE  GuardInv'
<1>1. GuardShape /\ LeaderIsMarked /\ MarkIsLed /\ inflight' = inflight /\ cache' = cache
  BY DEF GuardInv, GuardShape, CloseDone, WaiterReturns, WaiterGivesUp
<1>2. CASE CloseDone(c)
  <2>1. ASSUME NEW d \in Callers
        PROVE  /\ call'[d] \in Calls
               /\ \A h \in Keys : Leads(d, h)' <=> Leads(d, h)
    <3>1. CASE d = c
      BY <1>1, <1>2, <3>1, IdleCallType DEF CloseDone, Leads, IdleCall
    <3>2. CASE d # c /\ d \in Woken(c)
      BY <1>1, <1>2, <3>2 DEF CloseDone, Woken, WaitsFor, Leads, GuardShape, Calls, Steps
    <3>3. CASE d # c /\ d \notin Woken(c)
      BY <1>1, <1>2, <3>3 DEF CloseDone, Leads, GuardShape
    <3>4. QED
      BY <3>1, <3>2, <3>3
  <2>2. call' \in [Callers -> Calls]
    BY <1>2, <2>1 DEF CloseDone
  <2>3. QED
    BY <1>1, <2>1, <2>2, SameLeads DEF GuardInv, GuardShape
<1>3. CASE WaiterReturns(c) \/ WaiterGivesUp(c)
  <2>1. call[c].at \in {"wait", "woken"} /\ call' = [call EXCEPT ![c] = IdleCall]
    BY <1>3 DEF WaiterReturns, WaiterGivesUp, Returns, Sets
  <2>2. call' \in [Callers -> Calls]
    BY <1>1, <2>1, IdleCallType DEF GuardShape
  <2>3. \A d \in Callers, h \in Keys : Leads(d, h)' <=> Leads(d, h)
    BY <1>1, <2>1 DEF Leads, IdleCall, GuardShape
  <2>4. QED
    BY <1>1, <2>2, <2>3, SameLeads DEF GuardInv, GuardShape
<1>4. QED
  BY <1>2, <1>3

LEMMA GuardStep == GuardInv /\ [GuardNext]_guardVars => GuardInv'
<1> SUFFICES ASSUME GuardInv, [GuardNext]_guardVars
             PROVE  GuardInv'
  OBVIOUS
<1>1. ASSUME NEW c \in Callers, NEW k \in Keys, NEW s \in Senders, GuardCheck(c, k, s)
      PROVE  GuardInv'
  BY <1>1, GuardCheckKeeps
<1>2. ASSUME NEW c \in Callers, Proceeds(c) \/ WaiterGivesUp(c)
      PROVE  GuardInv'
  BY <1>2, RunKeeps, PublishKeeps, ReturnKeeps DEF Proceeds
<1>3. ASSUME UNCHANGED <<call, inflight>>, cache' \in [Keys -> {"none", "nick"}]
      PROVE  GuardInv'
  BY <1>3 DEF GuardInv, LeaderIsMarked, MarkIsLed, Leads
<1>4. ASSUME NEW k \in Keys, Expire(k)
      PROVE  GuardInv'
  BY <1>3, <1>4 DEF Expire, GuardInv
<1>5. ASSUME NEW s \in Senders, WindowPasses(s)
      PROVE  GuardInv'
  BY <1>3, <1>5 DEF WindowPasses, GuardInv
<1>6. CASE UNCHANGED guardVars
  BY <1>3, <1>6 DEF guardVars, GuardInv
<1>7. QED
  BY <1>1, <1>2, <1>4, <1>5, <1>6 DEF GuardNext

\* The slots taken are those of the lookups at the shop, of which there are
\* finitely many, and a sender stays within its limit.
SlotsCounted ==
    /\ IsFiniteSet(Calling)
    /\ sem = Cardinality(Calling) /\ sem \in 0 .. Slots
HitsCounted == hits \in [Senders -> 0 .. MaxPerChat]

LEMMA GuardCountInit == GuardInit => SlotsCounted /\ HitsCounted
<1> SUFFICES ASSUME GuardInit PROVE SlotsCounted /\ HitsCounted
  OBVIOUS
<1>1. Calling = {}
  BY DEF GuardInit, IdleCall, Calling
<1>2. SlotsCounted
  BY <1>1, FS_EmptySet, GuardAssumption DEF GuardInit, SlotsCounted
<1>3. HitsCounted
  BY GuardAssumption DEF GuardInit, HitsCounted
<1>4. QED
  BY <1>2, <1>3

\* A slot is taken with the call to the shop and released with its end.
LEMMA SlotTaken ==
    ASSUME GuardInv, SlotsCounted, NEW c \in Callers, Acquire(c) PROVE SlotsCounted'
<1>1. /\ call[c].at = "acquire" /\ sem < Slots /\ sem' = sem + 1
      /\ call' = [call EXCEPT ![c] = [call[c] EXCEPT !.at = "call"]]
      /\ call \in [Callers -> Calls]
  BY DEF Acquire, Sets, GuardInv
<1>2. \A d \in Callers : call'[d].at = IF d = c THEN "call" ELSE call[d].at
  BY <1>1 DEF Calls
<1>3. Calling' = Calling \cup {c} /\ c \notin Calling
  BY <1>1, <1>2 DEF Calling
<1>4. IsFiniteSet(Calling') /\ Cardinality(Calling') = Cardinality(Calling) + 1
  BY <1>3, FS_AddElement DEF SlotsCounted
<1>5. QED
  BY <1>1, <1>4, GuardAssumption DEF SlotsCounted

LEMMA SlotReleased ==
    ASSUME GuardInv, SlotsCounted, NEW c \in Callers, InnerCheck(c) PROVE SlotsCounted'
<1>1. PICK r \in Results :
         /\ call[c].at = "call" /\ sem' = sem - 1
         /\ call' = [call EXCEPT ![c] = [call[c] EXCEPT !.at = "publish", !.found = r]]
         /\ call \in [Callers -> Calls]
  BY DEF InnerCheck, Sets, GuardInv
<1>2. \A d \in Callers : call'[d].at = IF d = c THEN "publish" ELSE call[d].at
  BY <1>1 DEF Calls
<1>3. Calling' = Calling \ {c} /\ c \in Calling
  BY <1>1, <1>2 DEF Calling
<1>4. IsFiniteSet(Calling') /\ Cardinality(Calling') = Cardinality(Calling) - 1
  BY <1>3, FS_RemoveElement DEF SlotsCounted
<1>5. Cardinality(Calling') \in Nat
  BY <1>4, FS_CardinalityType
<1>6. QED
  BY <1>1, <1>4, <1>5, GuardAssumption DEF SlotsCounted

\* Every other step leaves the calls and the slots as they are.
LEMMA SlotsLeft ==
    ASSUME GuardInv, SlotsCounted, sem' = sem,
           \A c \in Callers : call'[c].at = "call" <=> call[c].at = "call"
    PROVE  SlotsCounted'
<1>1. Calling' = Calling
  BY DEF Calling
<1>2. QED
  BY <1>1 DEF SlotsCounted

LEMMA OneCallMoves ==
    ASSUME GuardInv, NEW c \in Callers, NEW r, Sets(c, r),
           call[c].at # "call", r.at # "call"
    PROVE  \A d \in Callers : call'[d].at = "call" <=> call[d].at = "call"
<1>1. \A d \in Callers : call'[d] = IF d = c THEN r ELSE call[d]
  BY DEF GuardInv, Sets
<1>2. QED
  BY <1>1

LEMMA GuardCountStep ==
    GuardInv /\ SlotsCounted /\ HitsCounted /\ [GuardNext]_guardVars
        => SlotsCounted' /\ HitsCounted'
<1> SUFFICES ASSUME GuardInv, SlotsCounted, HitsCounted, [GuardNext]_guardVars
             PROVE  SlotsCounted' /\ HitsCounted'
  OBVIOUS
<1>1. ASSUME NEW c \in Callers, NEW k \in Keys, NEW s \in Senders, GuardCheck(c, k, s)
      PROVE  SlotsCounted' /\ HitsCounted'
  <2>1. call[c].at = "idle" /\ sem' = sem
    BY <1>1 DEF GuardCheck
  <2>2. PICK r : Sets(c, r) /\ r.at # "call"
    <3>1. CASE Join(c, k)
      BY <3>1 DEF Join
    <3>2. CASE Lead(c, k, s)
      BY <3>2 DEF Lead
    <3>3. QED
      BY <1>1, <3>1, <3>2 DEF GuardCheck
  <2>3. SlotsCounted'
    BY <2>1, <2>2, OneCallMoves, SlotsLeft
  <2>4. HitsCounted'
    BY <1>1, GuardAssumption DEF GuardCheck, Join, Lead, HitsCounted
  <2>5. QED
    BY <2>3, <2>4
<1>2. ASSUME NEW c \in Callers, Proceeds(c) \/ WaiterGivesUp(c)
      PROVE  SlotsCounted' /\ HitsCounted'
  <2>1. HitsCounted'
    BY <1>2 DEF Proceeds, Acquire, AcquireTimesOut, InnerCheck, Publish, CloseDone,
       WaiterReturns, WaiterGivesUp, HitsCounted
  <2>2. CASE Acquire(c)
    BY <2>1, <2>2, SlotTaken
  <2>3. CASE InnerCheck(c)
    BY <2>1, <2>3, SlotReleased
  <2>4. CASE AcquireTimesOut(c) \/ Publish(c)
    <3>1. sem' = sem /\ call[c].at \in {"acquire", "publish"}
      BY <2>4 DEF AcquireTimesOut, NoSlotToRelease, Publish
    <3>2. PICK r : Sets(c, r) /\ r.at # "call"
      <4>1. call[c] \in Calls
        BY DEF GuardInv
      <4>2. CASE AcquireTimesOut(c)
        <5>1. Sets(c, [call[c] EXCEPT !.at = "publish", !.found = "error"])
          BY <4>2 DEF AcquireTimesOut
        <5>2. [call[c] EXCEPT !.at = "publish", !.found = "error"].at = "publish"
          BY <4>1 DEF Calls
        <5>3. QED
          BY <5>1, <5>2
      <4>3. CASE Publish(c)
        BY <4>1, <4>3 DEF Publish, Calls
      <4>4. QED
        BY <2>4, <4>2, <4>3
    <3>3. QED
      BY <2>1, <3>1, <3>2, OneCallMoves, SlotsLeft
  <2>5. CASE CloseDone(c)
    <3>1. sem' = sem /\ call[c].at = "close"
      BY <2>5 DEF CloseDone
    <3>2. \A d \in Callers : call'[d].at = "call" <=> call[d].at = "call"
      <4>1. \A d \in Callers : call[d] \in Calls
        BY DEF GuardInv
      <4>2. \A d \in Callers : \/ d = c /\ call'[d] = IdleCall
                               \/ /\ call[d].at = "wait"
                                  /\ call'[d] = [call[d] EXCEPT !.at = "woken", !.leader = Nobody]
                               \/ call'[d] = call[d]
        BY <2>5 DEF CloseDone, Woken, WaitsFor
      <4>3. IdleCall.at = "idle"
        BY DEF IdleCall
      <4>4. ASSUME NEW d \in Callers, call[d].at = "wait",
                   call'[d] = [call[d] EXCEPT !.at = "woken", !.leader = Nobody]
            PROVE  call'[d].at = "woken"
        BY <4>1, <4>4 DEF Calls
      <4>5. QED
        BY <3>1, <4>2, <4>3, <4>4
    <3>3. QED
      BY <2>1, <3>1, <3>2, SlotsLeft
  <2>6. CASE WaiterReturns(c) \/ WaiterGivesUp(c)
    <3>1. sem' = sem /\ call[c].at \in {"wait", "woken"} /\ Sets(c, IdleCall)
      BY <2>6 DEF WaiterReturns, WaiterGivesUp, Returns
    <3>2. IdleCall.at # "call"
      BY DEF IdleCall
    <3>3. QED
      BY <2>1, <3>1, <3>2, OneCallMoves, SlotsLeft
  <2>7. QED
    BY <1>2, <2>2, <2>3, <2>4, <2>5, <2>6 DEF Proceeds
<1>3. ASSUME NEW k \in Keys, Expire(k)
      PROVE  SlotsCounted' /\ HitsCounted'
  BY <1>3, SlotsLeft DEF Expire, HitsCounted
<1>4. ASSUME NEW s \in Senders, WindowPasses(s)
      PROVE  SlotsCounted' /\ HitsCounted'
  <2>1. SlotsCounted'
    BY <1>4, SlotsLeft DEF WindowPasses
  <2>2. HitsCounted'
    BY <1>4, GuardAssumption DEF WindowPasses, HitsCounted
  <2>3. QED
    BY <2>1, <2>2
<1>5. CASE UNCHANGED guardVars
  BY <1>5, SlotsLeft DEF guardVars, HitsCounted
<1>6. QED
  BY <1>1, <1>2, <1>3, <1>4, <1>5 DEF GuardNext

\* At most one lookup of a key runs, and no mark outlives its lookup.
THEOREM OneLookup == GuardSpec => []OneLookupPerKey
<1>1. GuardInv => OneLookupPerKey
  BY DEF GuardInv, LeaderIsMarked, MarkIsLed, OneLookupPerKey
<1>2. QED
  BY <1>1, GuardInvInit, GuardStep, PTL DEF GuardSpec

-------------------------------------------------------------------------------
(* The permission matrix: its copy is the table once the saves are over.   *)

Busy(u) == updater[u].at # "idle"

\* Between reading the table and storing the copy a save holds the mutex ...
ReaderHoldsLock ==
    \A u \in Refreshers : updater[u].at \in {"read", "store"} => lock = {u}

\* ... and a table that moved on since the reading still has a refresh to come.
ReadingIsFresh ==
    \A u \in Refreshers : updater[u].at = "store" =>
        \/ updater[u].read = table.allowed
        \/ \E v \in Refreshers : updater[v].at \in {"seed", "refresh"}

\* A copy that is not the table has a refresh to come, too.
CopyIsFresh ==
    missed \/ rbacCache = table.allowed \/ \E u \in Refreshers : Busy(u)

RolesInv == RolesTypeOK /\ ReaderHoldsLock /\ ReadingIsFresh /\ CopyIsFresh

LEMMA RolesInvInit == RolesInit => RolesInv
<1> SUFFICES ASSUME RolesInit PROVE RolesInv
  OBVIOUS
<1>1. RolesTypeOK
  <2>1. table \in Tables /\ table.allowed \subseteq table.known
    BY DEF RolesInit, Tables
  <2>2. updater \in [Refreshers -> [at : {"idle", "seed", "refresh", "read", "store"},
                                  read : SUBSET Cells]]
    BY DEF RolesInit, UpdateAt
  <2>3. updates \in 0 .. MaxUpdates
    BY RolesAssumption DEF RolesInit
  <2>4. QED
    BY <2>1, <2>2, <2>3 DEF RolesInit, RolesTypeOK
<1>2. \A u \in Refreshers : updater[u].at \in {"idle", "seed"}
  BY DEF RolesInit, UpdateAt
<1>3. QED
  BY <1>1, <1>2 DEF RolesInv, ReaderHoldsLock, ReadingIsFresh, CopyIsFresh, RolesInit

\* The rows are seeded while only the start runs.
LEMMA SeedKeeps ==
    ASSUME RolesInv, SeedDefaultPermissions PROVE RolesInv'
<1>1. /\ Starter \in Refreshers /\ updater'[Starter].at = "refresh"
      /\ updater' = [updater EXCEPT ![Starter].at = "refresh"]
      /\ UNCHANGED <<rbacCache, lock, missed, updates>>
  BY DEF RolesInv, RolesTypeOK, SeedDefaultPermissions, Goes, Refreshers
<1>2. table' \in Tables /\ table'.allowed \subseteq table'.known
  <2> DEFINE missing == (Staff \X (Resources \ {Reserved})) \ table.known
  <2>1. missing \subseteq Cells
    BY DEF Cells
  <2>2. table' \in {table, [known |-> table.known \cup missing, allowed |-> table.allowed \cup missing]}
    BY DEF SeedDefaultPermissions, CreatedAllowed
  <2> HIDE DEF missing
  <2>3. QED
    BY <2>1, <2>2 DEF RolesInv, RolesTypeOK, Tables
<1>3. RolesTypeOK'
  BY <1>1, <1>2, RolesAssumption DEF RolesInv, RolesTypeOK
<1>4. ReaderHoldsLock'
  BY <1>1 DEF RolesInv, RolesTypeOK, ReaderHoldsLock
<1>5. ReadingIsFresh' /\ CopyIsFresh'
  BY <1>1 DEF ReadingIsFresh, CopyIsFresh, Busy
<1>6. QED
  BY <1>3, <1>4, <1>5 DEF RolesInv

\* A save leaves its own refresh to come.
LEMMA SaveKeeps ==
    ASSUME RolesInv, NEW u \in Refreshers, BulkUpsertPermissions(u) PROVE RolesInv'
<1>1. /\ updater[u].at = "idle" /\ updater'[u].at = "refresh"
      /\ updater' = [updater EXCEPT ![u].at = "refresh"]
      /\ UNCHANGED <<rbacCache, lock, missed>>
  BY DEF RolesInv, RolesTypeOK, BulkUpsertPermissions, Goes
<1>2. table' \in Tables /\ table'.allowed \subseteq table'.known
  <2>1. PICK sent \in SUBSET Cells, allowed \in SUBSET Cells :
           /\ allowed \subseteq sent
           /\ table' = [known |-> table.known \cup sent,
                        allowed |-> (table.allowed \ sent) \cup allowed
                                        \cup (sent \ table.known)]
    BY DEF BulkUpsertPermissions, CreatedAllowed
  <2>2. QED
    BY <2>1 DEF RolesInv, RolesTypeOK, Tables
<1>3. updates' \in 0 .. MaxUpdates
  BY RolesAssumption DEF RolesInv, RolesTypeOK, BulkUpsertPermissions
<1>4. RolesTypeOK'
  BY <1>1, <1>2, <1>3 DEF RolesInv, RolesTypeOK
<1>5. ReaderHoldsLock'
  BY <1>1 DEF RolesInv, RolesTypeOK, ReaderHoldsLock
<1>6. ReadingIsFresh' /\ CopyIsFresh'
  BY <1>1 DEF ReadingIsFresh, CopyIsFresh, Busy
<1>7. QED
  BY <1>4, <1>5, <1>6 DEF RolesInv

\* Nobody is between reading and storing when the mutex is free.
LEMMA LockKeeps ==
    ASSUME RolesInv, NEW u \in Refreshers, LockCache(u) PROVE RolesInv'
<1>1. /\ lock = {} /\ lock' = {u}
      /\ updater' = [updater EXCEPT ![u].at = "read"]
      /\ UNCHANGED <<table, rbacCache, missed, updates>>
  BY DEF LockCache, Goes
<1>2. RolesTypeOK'
  BY <1>1 DEF RolesInv, RolesTypeOK
<1>3. \A v \in Refreshers : updater[v].at \notin {"read", "store"}
  BY <1>1 DEF RolesInv, ReaderHoldsLock
<1>4. \A v \in Refreshers : updater'[v].at # "store" /\ (v # u => updater'[v].at # "read")
  BY <1>1, <1>3 DEF RolesInv, RolesTypeOK
<1>5. updater'[u].at = "read"
  BY <1>1 DEF RolesInv, RolesTypeOK
<1>6. QED
  BY <1>1, <1>2, <1>4, <1>5 DEF RolesInv, ReaderHoldsLock, ReadingIsFresh, CopyIsFresh, Busy

\* What is read under the mutex is the table.
LEMMA ReadKeeps ==
    ASSUME RolesInv, NEW u \in Refreshers, GetAllPermissions(u) PROVE RolesInv'
<1>1. /\ updater[u].at = "read"
      /\ updater' = [updater EXCEPT ![u] = [at |-> "store", read |-> table.allowed]]
      /\ UNCHANGED <<table, rbacCache, lock, missed, updates>>
  BY DEF GetAllPermissions, MayRead
<1>2. RolesTypeOK'
  BY <1>1 DEF RolesInv, RolesTypeOK, Tables
<1>3. /\ updater'[u].at = "store" /\ updater'[u].read = table'.allowed
      /\ \A v \in Refreshers \ {u} : updater'[v] = updater[v]
  BY <1>1 DEF RolesInv, RolesTypeOK
<1>4. lock' = {u} /\ \A v \in Refreshers \ {u} : updater[v].at \notin {"read", "store"}
  BY <1>1 DEF RolesInv, ReaderHoldsLock
<1>5. QED
  BY <1>2, <1>3, <1>4 DEF RolesInv, ReaderHoldsLock, ReadingIsFresh, CopyIsFresh, Busy

\* Both ends of a refresh leave the mutex free and nobody inside it.
LEMMA EndOfRefresh ==
    ASSUME RolesInv, NEW u \in Refreshers, updater[u].at \in {"read", "store"},
           updater' = [updater EXCEPT ![u] = NoUpdate]
    PROVE  /\ \A v \in Refreshers : updater'[v].at \notin {"read", "store"}
           /\ \A v \in Refreshers \ {u} : updater'[v] = updater[v]
           /\ updater'[u].at = "idle"
           /\ updater' \in [Refreshers -> [at : {"idle", "seed", "refresh", "read", "store"},
                                           read : SUBSET Cells]]
<1>1. lock = {u} /\ \A v \in Refreshers \ {u} : updater[v].at \notin {"read", "store"}
  BY DEF RolesInv, ReaderHoldsLock
<1>2. QED
  BY <1>1 DEF RolesInv, RolesTypeOK, NoUpdate, UpdateAt

\* A failed reading is noted; a good one is stored while it is the table, or
\* while the next refresh is to come.
LEMMA RefreshEndKeeps ==
    ASSUME RolesInv, NEW u \in Refreshers, ReadFails(u) \/ StoreCache(u) PROVE RolesInv'
<1>1. /\ updater[u].at \in {"read", "store"} /\ lock' = {}
      /\ updater' = [updater EXCEPT ![u] = NoUpdate]
      /\ UNCHANGED <<table, updates>>
  BY DEF ReadFails, StoreCache
<1>2. /\ \A v \in Refreshers : updater'[v].at \notin {"read", "store"}
      /\ \A v \in Refreshers \ {u} : updater'[v] = updater[v]
      /\ updater' \in [Refreshers -> [at : {"idle", "seed", "refresh", "read", "store"},
                                      read : SUBSET Cells]]
  BY <1>1, EndOfRefresh
<1>3. RolesTypeOK'
  BY <1>1, <1>2 DEF RolesInv, RolesTypeOK, ReadFails, StoreCache
<1>4. ReaderHoldsLock' /\ ReadingIsFresh'
  BY <1>2 DEF ReaderHoldsLock, ReadingIsFresh
<1>5. CASE ReadFails(u)
  BY <1>3, <1>4, <1>5 DEF RolesInv, CopyIsFresh, ReadFails
<1>6. CASE StoreCache(u)
  <2>1. rbacCache' = updater[u].read /\ updater[u].at = "store"
    BY <1>6 DEF StoreCache
  <2>2. CASE updater[u].read = table.allowed
    BY <1>1, <1>3, <1>4, <2>1, <2>2 DEF RolesInv, CopyIsFresh
  <2>3. CASE \E v \in Refreshers : updater[v].at \in {"seed", "refresh"}
    <3>1. \E v \in Refreshers : Busy(v)'
      BY <1>2, <2>1, <2>3 DEF Busy
    <3>2. QED
      BY <1>3, <1>4, <3>1 DEF RolesInv, CopyIsFresh
  <2>4. QED
    BY <2>1, <2>2, <2>3 DEF RolesInv, ReadingIsFresh
<1>7. QED
  BY <1>5, <1>6

\* A start has its refresh to come.
LEMMA RestartKeeps ==
    ASSUME RolesInv, RestartRoles PROVE RolesInv'
<1>1. \A u \in Refreshers : updater'[u].at \in {"idle", "seed"}
  BY DEF RestartRoles, UpdateAt
<1>2. Starter \in Refreshers /\ updater'[Starter].at = "seed"
  BY DEF RestartRoles, UpdateAt, Refreshers
<1>3. RolesTypeOK'
  <2>1. updater' \in [Refreshers -> [at : {"idle", "seed", "refresh", "read", "store"},
                                   read : SUBSET Cells]]
    BY DEF RestartRoles, UpdateAt
  <2>2. updates' \in 0 .. MaxUpdates
    BY RolesAssumption DEF RolesInv, RolesTypeOK, RestartRoles
  <2>3. QED
    BY <2>1, <2>2 DEF RolesInv, RolesTypeOK, RestartRoles
<1>4. QED
  BY <1>1, <1>2, <1>3 DEF RolesInv, ReaderHoldsLock, ReadingIsFresh, CopyIsFresh, Busy

\* The invariant survives every step.
LEMMA RolesInvStep == RolesInv /\ [RolesNext]_rolesVars => RolesInv'
<1> SUFFICES ASSUME RolesInv, [RolesNext]_rolesVars PROVE RolesInv'
  OBVIOUS
<1>1. CASE SeedDefaultPermissions
  BY <1>1, SeedKeeps
<1>2. ASSUME NEW u \in Refreshers, BulkUpsertPermissions(u) PROVE RolesInv'
  BY <1>2, SaveKeeps
<1>3. ASSUME NEW u \in Refreshers, refreshCache(u) PROVE RolesInv'
  BY <1>3, LockKeeps, ReadKeeps, RefreshEndKeeps DEF refreshCache
<1>4. CASE RestartRoles
  BY <1>4, RestartKeeps
<1>5. CASE UNCHANGED rolesVars
  BY <1>5 DEF rolesVars, RolesInv, RolesTypeOK, ReaderHoldsLock, ReadingIsFresh, CopyIsFresh, Busy
<1>6. QED
  BY <1>1, <1>2, <1>3, <1>4, <1>5 DEF RolesNext

\* With no save under way a request is let in exactly where role_permissions
\* allows it, or the last refresh could not read the table: refreshCache reads
\* and stores under one lock (rbac_service.go).
THEOREM CopyFollowsTable == RolesSpec => []RolesAtRest
<1>1. RolesInv => RolesAtRest
  BY DEF RolesInv, CopyIsFresh, RolesAtRest, CanAccess, Busy, Superadmin
<1>2. QED
  BY <1>1, RolesInvInit, RolesInvStep, PTL DEF RolesSpec
-------------------------------------------------------------------------------
(* The reconciler's loop: its ticks do not overlap, and the goroutines of    *)
(* one tick keep the provider's gap.                                       *)

\* The semaphore counts the goroutines, of which there are finitely many.
PlacesCounted ==
    /\ IsFiniteSet(Running)
    /\ held = Cardinality(Running) /\ held \in 0 .. Concurrency

\* An order is claimed inside a tick, out of the window, and only then spawned.
ClaimInTick ==
    /\ claimed # NoOrder => phase = "claim"
    /\ claimed \notin window

\* No slot lies after the last one noted for its provider.
SlotsNoted == \A o \in BatchOrders : Waiting(o) => wait[o] <= last[ProviderOf[o]]

BatchShape ==
    /\ phase \in {"idle", "claim", "wait", "stopped"}
    /\ window \in SUBSET BatchOrders
    /\ claimed \in BatchOrders \cup {NoOrder}
    /\ routine \in [BatchOrders -> {"none", "new", "slot", "check"}]
    /\ wait \in [BatchOrders -> Nat]
    /\ last \in [Codes -> Int]
    /\ queued \in SUBSET BatchOrders /\ ripe \in SUBSET BatchOrders
    /\ stale \in SUBSET BatchOrders
    /\ touches \in 0 .. MaxTouches
    /\ shutdown \in BOOLEAN

BatchInv ==
    /\ BatchShape /\ PlacesCounted
    /\ ClaimInTick /\ BatchesDoNotOverlap
    /\ SlotsNoted /\ SlotsSpaced

LEMMA CodeOfOrder == \A o \in BatchOrders : ProviderOf[o] \in Codes
  BY DEF Codes

LEMMA BatchInvInit == BatchInit => BatchInv
<1> SUFFICES ASSUME BatchInit PROVE BatchInv
  OBVIOUS
<1>1. Running = {}
  BY DEF BatchInit, Running
<1>2. BatchShape
  <2>1. last \in [Codes -> Int]
    BY BatchAssumption DEF BatchInit
  <2>2. touches \in 0 .. MaxTouches
    BY BatchAssumption DEF BatchInit
  <2>3. routine \in [BatchOrders -> {"none", "new", "slot", "check"}]
    BY DEF BatchInit
  <2>4. wait \in [BatchOrders -> Nat]
    BY DEF BatchInit
  <2>5. QED
    BY <2>1, <2>2, <2>3, <2>4 DEF BatchInit, BatchShape
<1>3. PlacesCounted
  BY <1>1, FS_EmptySet, BatchAssumption DEF BatchInit, PlacesCounted
<1>4. ClaimInTick /\ BatchesDoNotOverlap
  BY <1>1 DEF BatchInit, ClaimInTick, BatchesDoNotOverlap
<1>5. SlotsNoted /\ SlotsSpaced
  BY DEF BatchInit, SlotsNoted, SlotsSpaced, Waiting
<1>6. QED
  BY <1>2, <1>3, <1>4, <1>5 DEF BatchInv

\* A step that starts and ends no goroutine leaves the count right ...
LEMMA SameRoutines ==
    ASSUME PlacesCounted, Running' = Running, held' = held
    PROVE  PlacesCounted'
  BY DEF PlacesCounted

\* ... and one that lets the slots alone leaves them noted and spaced.
LEMMA SameSlots ==
    ASSUME SlotsNoted, SlotsSpaced, last' = last, wait' = wait,
           \A o \in BatchOrders : Waiting(o)' => Waiting(o)
    PROVE  SlotsNoted' /\ SlotsSpaced'
<1>1. SlotsNoted'
  BY DEF SlotsNoted
<1>2. SlotsSpaced'
  BY DEF SlotsSpaced
<1>3. QED
  BY <1>1, <1>2

\* The loop between its goroutines: a tick, claims, the waits, the return.
LEMMA LoopKeeps ==
    ASSUME BatchInv,
           Tick \/ ClaimNext \/ DropBatch \/ WindowDone \/ BatchDone \/ LeaveLoop
    PROVE  BatchInv'
<1>1. /\ BatchShape /\ PlacesCounted /\ ClaimInTick /\ BatchesDoNotOverlap
      /\ SlotsNoted /\ SlotsSpaced
  BY DEF BatchInv
<1>2. routine' = routine /\ wait' = wait /\ last' = last
  BY DEF Tick, ClaimNext, DropBatch, WindowDone, BatchDone, LeaveLoop, slots
<1>3. Running' = Running
  BY <1>2 DEF Running
<1>4. SlotsNoted' /\ SlotsSpaced'
  <2>1. \A o \in BatchOrders : Waiting(o)' => Waiting(o)
    BY <1>2 DEF Waiting
  <2>2. QED
    BY <1>1, <1>2, <2>1, SameSlots
<1>5. CASE Tick
  <2>1. /\ phase = "idle" /\ phase' = "claim" /\ window' = DueWindow /\ held' = 0
        /\ UNCHANGED <<claimed, queued, ripe, stale, touches, shutdown>>
    BY <1>5 DEF Tick, rows
  <2>2. Running = {} /\ claimed = NoOrder
    BY <1>1, <2>1 DEF BatchesDoNotOverlap, ClaimInTick
  <2>3. DueWindow \in SUBSET BatchOrders
    BY <1>1 DEF BatchShape, DueWindow, Due
  <2>4. BatchShape'
    BY <1>1, <1>2, <2>1, <2>3 DEF BatchShape
  <2>5. PlacesCounted'
    BY <1>3, <2>1, <2>2, FS_EmptySet, BatchAssumption DEF PlacesCounted
  <2>6. ClaimInTick' /\ BatchesDoNotOverlap'
    BY <1>3, <2>1, <2>2, <2>3, BatchAssumption DEF ClaimInTick, BatchesDoNotOverlap
  <2>7. QED
    BY <1>4, <2>4, <2>5, <2>6 DEF BatchInv
<1>6. CASE ClaimNext
  <2>1. PICK o \in window :
           /\ phase = "claim" /\ claimed = NoOrder /\ window' = window \ {o}
           /\ \/ claimed' = o /\ ripe' = ripe \ {o}
              \/ UNCHANGED <<claimed, ripe>>
           /\ UNCHANGED <<phase, held, queued, stale, touches, shutdown>>
    BY <1>6 DEF ClaimNext
  <2>2. o \in BatchOrders /\ o # NoOrder
    BY <1>1, <2>1, BatchAssumption DEF BatchShape
  <2>3. BatchShape'
    BY <1>1, <1>2, <2>1, <2>2 DEF BatchShape
  <2>4. PlacesCounted'
    BY <1>1, <1>3, <2>1, SameRoutines
  <2>5. ClaimInTick'
    BY <1>1, <2>1 DEF ClaimInTick
  <2>6. BatchesDoNotOverlap'
    BY <1>1, <1>3, <2>1 DEF BatchesDoNotOverlap
  <2>7. QED
    BY <1>4, <2>3, <2>4, <2>5, <2>6 DEF BatchInv
<1>7. CASE DropBatch \/ WindowDone
  <2>1. /\ phase' = "wait" /\ window' = {} /\ claimed' = NoOrder /\ held' = held
        /\ UNCHANGED <<queued, ripe, stale, touches, shutdown>>
    BY <1>7 DEF DropBatch, WindowDone, rows
  <2>2. BatchShape'
    BY <1>1, <1>2, <2>1 DEF BatchShape
  <2>3. PlacesCounted'
    BY <1>1, <1>3, <2>1, SameRoutines
  <2>4. ClaimInTick' /\ BatchesDoNotOverlap'
    BY <2>1 DEF ClaimInTick, BatchesDoNotOverlap
  <2>5. QED
    BY <1>4, <2>2, <2>3, <2>4 DEF BatchInv
<1>8. CASE BatchDone \/ LeaveLoop
  <2>1. /\ phase \in {"idle", "wait"} /\ phase' \in {"idle", "stopped"}
        /\ window' = window /\ claimed' = claimed /\ held' = held
        /\ stale' \in {{}, stale}
        /\ UNCHANGED <<queued, ripe, touches, shutdown>>
    BY <1>8 DEF BatchDone, LeaveLoop, rows
  <2>2. Running = {}
    BY <1>1, <1>8 DEF BatchDone, AllReturned, LeaveLoop, BatchesDoNotOverlap
  <2>3. BatchShape'
    BY <1>1, <1>2, <2>1 DEF BatchShape
  <2>4. PlacesCounted'
    BY <1>1, <1>3, <2>1, SameRoutines
  <2>5. ClaimInTick'
    BY <1>1, <2>1 DEF ClaimInTick
  <2>6. BatchesDoNotOverlap'
    BY <1>3, <2>1, <2>2 DEF BatchesDoNotOverlap
  <2>7. QED
    BY <1>4, <2>3, <2>4, <2>5, <2>6 DEF BatchInv
<1>9. QED
  BY <1>5, <1>6, <1>7, <1>8

\* A goroutine takes a place and is counted.
LEMMA SpawnKeeps == ASSUME BatchInv, Spawn PROVE BatchInv'
<1>1. /\ BatchShape /\ PlacesCounted /\ ClaimInTick /\ BatchesDoNotOverlap
      /\ SlotsNoted /\ SlotsSpaced
  BY DEF BatchInv
<1>2. /\ claimed # NoOrder /\ held < Concurrency /\ held' = held + 1
      /\ routine' = [routine EXCEPT ![claimed] = "new"] /\ claimed' = NoOrder
      /\ UNCHANGED <<phase, window, wait, last, queued, ripe, stale, touches, shutdown>>
  BY DEF Spawn, slots, rows
<1>3. claimed \in BatchOrders /\ phase = "claim"
  BY <1>1, <1>2 DEF BatchShape, ClaimInTick
<1>4. Running' = Running \cup {claimed} /\ claimed \notin Running
  <2>1. \A o \in BatchOrders : routine'[o] = IF o = claimed THEN "new" ELSE routine[o]
    BY <1>1, <1>2, <1>3 DEF BatchShape
  <2>2. claimed \notin Running
    BY <1>1, <1>3 DEF BatchesDoNotOverlap
  <2>3. QED
    BY <1>3, <2>1, <2>2 DEF Running
<1>5. BatchShape'
  BY <1>1, <1>2 DEF BatchShape
<1>6. PlacesCounted'
  <2>1. IsFiniteSet(Running') /\ Cardinality(Running') = Cardinality(Running) + 1
    BY <1>1, <1>4, FS_AddElement DEF PlacesCounted
  <2>2. held' \in 0 .. Concurrency
    BY <1>1, <1>2, BatchAssumption DEF PlacesCounted
  <2>3. QED
    BY <1>1, <1>2, <2>1, <2>2 DEF PlacesCounted
<1>7. ClaimInTick'
  BY <1>1, <1>2, BatchAssumption DEF ClaimInTick, BatchShape
<1>8. BatchesDoNotOverlap'
  <2>1. \A o \in Running' : o # NoOrder /\ o \notin window
    BY <1>1, <1>3, <1>4, BatchAssumption DEF BatchesDoNotOverlap, ClaimInTick, Running
  <2>2. QED
    BY <1>2, <1>3, <2>1 DEF BatchesDoNotOverlap
<1>9. SlotsNoted' /\ SlotsSpaced'
  <2>1. \A o \in BatchOrders : Waiting(o)' => Waiting(o)
    BY <1>1, <1>2 DEF Waiting, BatchShape
  <2>2. QED
    BY <1>1, <1>2, <2>1, SameSlots
<1>10. QED
  BY <1>5, <1>6, <1>7, <1>8, <1>9 DEF BatchInv

\* A slot is reserved one gap after the last one, so after all of them.
LEMMA ReserveKeeps ==
    ASSUME BatchInv, NEW o \in BatchOrders, ReserveSlot(o) PROVE BatchInv'
<1> DEFINE p == ProviderOf[o]
           slot == Later(0, last[p] + Gap)
<1>1. /\ BatchShape /\ PlacesCounted /\ ClaimInTick /\ BatchesDoNotOverlap
      /\ SlotsNoted /\ SlotsSpaced
  BY DEF BatchInv
<1>2. /\ routine[o] = "new" /\ routine' = [routine EXCEPT ![o] = "slot"]
      /\ wait' = [wait EXCEPT ![o] = slot] /\ last' = [last EXCEPT ![p] = slot]
      /\ UNCHANGED <<phase, window, claimed, held, queued, ripe, stale, touches, shutdown>>
  BY DEF ReserveSlot, NotesSlot, loop, rows
<1>3. /\ p \in Codes /\ last[p] \in Int /\ slot \in Nat
      /\ slot >= last[p] + Gap /\ slot >= last[p] /\ Gap \in Nat
  BY <1>1, CodeOfOrder, BatchAssumption DEF BatchShape, Later
<1> HIDE DEF slot, p
<1>4. /\ routine'[o] = "slot" /\ wait'[o] = slot
      /\ \A q \in BatchOrders \ {o} : routine'[q] = routine[q] /\ wait'[q] = wait[q]
  BY <1>1, <1>2 DEF BatchShape
<1>5. \A c \in Codes : last'[c] = IF c = p THEN slot ELSE last[c]
  BY <1>1, <1>2 DEF BatchShape
<1>6. BatchShape'
  BY <1>1, <1>2, <1>3 DEF BatchShape
<1>7. Running' = Running
  BY <1>2, <1>4 DEF Running
<1>8. PlacesCounted'
  BY <1>1, <1>2, <1>7, SameRoutines
<1>9. ClaimInTick' /\ BatchesDoNotOverlap'
  BY <1>1, <1>2, <1>7 DEF ClaimInTick, BatchesDoNotOverlap
<1>10. \A q \in BatchOrders \ {o} : Waiting(q)' <=> Waiting(q)
  BY <1>4 DEF Waiting
<1>11. ASSUME NEW q \in BatchOrders, Waiting(q)'
       PROVE  wait'[q] <= last'[ProviderOf[q]]
  <2>1. CASE q = o
    BY <1>3, <1>4, <1>5, <2>1 DEF p
  <2>2. CASE q # o
    <3>1. /\ wait'[q] = wait[q] /\ wait[q] \in Nat
          /\ wait[q] <= last[ProviderOf[q]] /\ last[ProviderOf[q]] \in Int
          /\ ProviderOf[q] \in Codes
      BY <1>1, <1>4, <1>10, <1>11, <2>2, CodeOfOrder DEF BatchShape, SlotsNoted
    <3>2. last'[ProviderOf[q]] = last[ProviderOf[q]]
             \/ (ProviderOf[q] = p /\ last'[ProviderOf[q]] = slot)
      BY <1>5, <3>1
    <3>3. QED
      BY <1>3, <3>1, <3>2
  <2>3. QED
    BY <2>1, <2>2
<1>12. ASSUME NEW q \in BatchOrders, q # o, ProviderOf[q] = p, Waiting(q)
       PROVE  wait'[o] - wait'[q] >= Gap
  <2>1. wait'[q] = wait[q] /\ wait[q] \in Nat /\ wait[q] <= last[p]
    BY <1>1, <1>4, <1>12 DEF BatchShape, SlotsNoted
  <2>2. QED
    BY <1>3, <1>4, <2>1
<1>13. SlotsSpaced'
  <2>1. SUFFICES ASSUME NEW q \in BatchOrders, NEW s \in BatchOrders, q # s,
                        ProviderOf[q] = ProviderOf[s], Waiting(q)', Waiting(s)'
                 PROVE  \/ wait'[q] - wait'[s] >= Gap
                        \/ wait'[s] - wait'[q] >= Gap
    BY DEF SlotsSpaced
  <2>2. CASE q = o
    BY <1>10, <1>12, <2>1, <2>2 DEF p
  <2>3. CASE s = o
    BY <1>10, <1>12, <2>1, <2>3 DEF p
  <2>4. CASE q # o /\ s # o
    BY <1>1, <1>4, <1>10, <2>1, <2>4 DEF SlotsSpaced
  <2>5. QED
    BY <2>2, <2>3, <2>4
<1>14. SlotsNoted'
  BY <1>11 DEF SlotsNoted
<1>15. QED
  BY <1>6, <1>8, <1>9, <1>13, <1>14 DEF BatchInv

\* A slot that came waits no longer.
LEMMA StartKeeps ==
    ASSUME BatchInv, NEW o \in BatchOrders, StartCheck(o) PROVE BatchInv'
<1>1. /\ BatchShape /\ PlacesCounted /\ ClaimInTick /\ BatchesDoNotOverlap
      /\ SlotsNoted /\ SlotsSpaced
  BY DEF BatchInv
<1>2. /\ routine[o] = "slot" /\ routine' = [routine EXCEPT ![o] = "check"]
      /\ wait' = [wait EXCEPT ![o] = 0]
      /\ UNCHANGED <<phase, window, claimed, held, last, queued, ripe, stale, touches, shutdown>>
  BY DEF StartCheck, loop, rows
<1>3. /\ routine'[o] = "check"
      /\ \A q \in BatchOrders \ {o} : routine'[q] = routine[q] /\ wait'[q] = wait[q]
  BY <1>1, <1>2 DEF BatchShape
<1>4. BatchShape'
  BY <1>1, <1>2 DEF BatchShape
<1>5. Running' = Running
  BY <1>2, <1>3 DEF Running
<1>6. PlacesCounted'
  BY <1>1, <1>2, <1>5, SameRoutines
<1>7. ClaimInTick' /\ BatchesDoNotOverlap'
  BY <1>1, <1>2, <1>5 DEF ClaimInTick, BatchesDoNotOverlap
<1>8. \A q \in BatchOrders : Waiting(q)' => q # o /\ Waiting(q) /\ wait'[q] = wait[q]
  BY <1>3 DEF Waiting
<1>9. SlotsNoted'
  BY <1>1, <1>2, <1>8 DEF SlotsNoted
<1>10. SlotsSpaced'
  BY <1>1, <1>8 DEF SlotsSpaced
<1>11. QED
  BY <1>4, <1>6, <1>7, <1>9, <1>10 DEF BatchInv

\* A check that ends gives its one place back.
LEMMA EndCheckKeeps ==
    ASSUME BatchInv, NEW o \in BatchOrders, EndCheck(o) PROVE BatchInv'
<1>1. /\ BatchShape /\ PlacesCounted /\ ClaimInTick /\ BatchesDoNotOverlap
      /\ SlotsNoted /\ SlotsSpaced
  BY DEF BatchInv
<1>2. /\ routine[o] = "check" /\ routine' = [routine EXCEPT ![o] = "none"]
      /\ held' = held - 1
      /\ queued' \in SUBSET queued /\ ripe' \in SUBSET ripe
      /\ UNCHANGED <<phase, window, claimed, wait, last, stale, touches, shutdown>>
  BY DEF EndCheck, GivesPlaceBack, slots
<1>3. \A q \in BatchOrders : routine'[q] = IF q = o THEN "none" ELSE routine[q]
  BY <1>1, <1>2 DEF BatchShape
<1>4. Running' = Running \ {o} /\ o \in Running
  BY <1>2, <1>3 DEF Running
<1>5. BatchShape'
  BY <1>1, <1>2 DEF BatchShape
<1>6. PlacesCounted'
  <2>1. IsFiniteSet(Running') /\ Cardinality(Running') = Cardinality(Running) - 1
    BY <1>1, <1>4, FS_RemoveElement DEF PlacesCounted
  <2>2. Cardinality(Running') \in Nat
    BY <2>1, FS_CardinalityType
  <2>3. QED
    BY <1>1, <1>2, <2>1, <2>2, BatchAssumption DEF PlacesCounted
<1>7. ClaimInTick' /\ BatchesDoNotOverlap'
  BY <1>1, <1>2, <1>4 DEF ClaimInTick, BatchesDoNotOverlap
<1>8. SlotsNoted' /\ SlotsSpaced'
  <2>1. \A q \in BatchOrders : Waiting(q)' => Waiting(q)
    BY <1>2, <1>3 DEF Waiting
  <2>2. QED
    BY <1>1, <1>2, <2>1, SameSlots
<1>9. QED
  BY <1>5, <1>6, <1>7, <1>8 DEF BatchInv

\* Time moves all slots and what was noted of them together.
LEMMA ClockKeeps == ASSUME BatchInv, Clock PROVE BatchInv'
<1>1. /\ BatchShape /\ PlacesCounted /\ ClaimInTick /\ BatchesDoNotOverlap
      /\ SlotsNoted /\ SlotsSpaced
  BY DEF BatchInv
<1>2. /\ wait' = [o \in BatchOrders |-> Later(0, wait[o] - 1)]
      /\ last' = [p \in Codes |-> Behind(last[p])]
      /\ UNCHANGED <<phase, window, claimed, held, routine, queued, ripe, stale, touches, shutdown>>
  BY DEF Clock, loop, rows
<1>3. ASSUME NEW o \in BatchOrders
      PROVE  /\ wait'[o] \in Nat
             /\ Waiting(o)' => Waiting(o) /\ wait'[o] = wait[o] - 1 /\ wait[o] \in Nat
  BY <1>1, <1>2 DEF BatchShape, Later, Waiting
<1>4. ASSUME NEW p \in Codes
      PROVE  last'[p] \in Int /\ last[p] \in Int /\ (last[p] > 0 => last'[p] = last[p] - 1)
  BY <1>1, <1>2, BatchAssumption DEF BatchShape, Behind
<1>5. BatchShape'
  <2>1. wait' \in [BatchOrders -> Nat]
    BY <1>2, <1>3
  <2>2. last' \in [Codes -> Int]
    BY <1>2, <1>4
  <2>3. QED
    BY <1>1, <1>2, <2>1, <2>2 DEF BatchShape
<1>6. Running' = Running
  BY <1>2 DEF Running
<1>7. PlacesCounted'
  BY <1>1, <1>2, <1>6, SameRoutines
<1>8. ClaimInTick' /\ BatchesDoNotOverlap'
  BY <1>1, <1>2, <1>6 DEF ClaimInTick, BatchesDoNotOverlap
<1>9. SlotsNoted'
  <2>1. SUFFICES ASSUME NEW o \in BatchOrders, Waiting(o)'
                 PROVE  wait'[o] <= last'[ProviderOf[o]]
    BY DEF SlotsNoted
  <2>2. /\ Waiting(o) /\ wait'[o] = wait[o] - 1 /\ wait[o] \in Nat
        /\ wait[o] <= last[ProviderOf[o]] /\ wait[o] > 0 /\ ProviderOf[o] \in Codes
    BY <1>1, <1>3, <2>1, CodeOfOrder DEF SlotsNoted, Waiting
  <2>3. QED
    BY <1>4, <2>2
<1>10. SlotsSpaced'
  <2>1. SUFFICES ASSUME NEW q \in BatchOrders, NEW s \in BatchOrders, q # s,
                        ProviderOf[q] = ProviderOf[s], Waiting(q)', Waiting(s)'
                 PROVE  \/ wait'[q] - wait'[s] >= Gap
                        \/ wait'[s] - wait'[q] >= Gap
    BY DEF SlotsSpaced
  <2>2. /\ Waiting(q) /\ wait'[q] = wait[q] - 1 /\ wait[q] \in Nat
        /\ Waiting(s) /\ wait'[s] = wait[s] - 1 /\ wait[s] \in Nat
    BY <1>3, <2>1
  <2>3. wait[q] - wait[s] >= Gap \/ wait[s] - wait[q] >= Gap
    BY <1>1, <2>1, <2>2 DEF SlotsSpaced
  <2>4. QED
    BY <2>2, <2>3, BatchAssumption
<1>11. QED
  BY <1>5, <1>7, <1>8, <1>9, <1>10 DEF BatchInv

\* Orders ripen, are saved by others, and the process is told to stop.
LEMMA WorldKeeps ==
    ASSUME BatchInv, Shutdown \/ \E o \in BatchOrders : Ripens(o) \/ Touched(o)
    PROVE  BatchInv'
<1>1. /\ BatchShape /\ PlacesCounted /\ ClaimInTick /\ BatchesDoNotOverlap
      /\ SlotsNoted /\ SlotsSpaced
  BY DEF BatchInv
<1>2. UNCHANGED <<phase, window, claimed, held, routine, wait, last>>
  BY DEF Shutdown, Ripens, Touched, loop, slots
<1>3. /\ queued' \in SUBSET BatchOrders /\ ripe' \in SUBSET BatchOrders
      /\ stale' \in SUBSET BatchOrders
      /\ touches' \in 0 .. MaxTouches /\ shutdown' \in BOOLEAN
  <2>1. CASE Shutdown
    BY <1>1, <2>1 DEF Shutdown, rows, BatchShape
  <2>2. ASSUME NEW o \in BatchOrders, Ripens(o)
        PROVE  /\ ripe' \in SUBSET BatchOrders
               /\ UNCHANGED <<queued, stale, touches, shutdown>>
    BY <1>1, <2>2 DEF Ripens, BatchShape
  <2>3. ASSUME NEW o \in BatchOrders, Touched(o)
        PROVE  /\ queued' \in SUBSET BatchOrders /\ ripe' \in SUBSET BatchOrders
               /\ stale' \in SUBSET BatchOrders
               /\ touches' \in 0 .. MaxTouches /\ shutdown' = shutdown
    BY <1>1, <2>3, BatchAssumption DEF Touched, BatchShape
  <2>4. QED
    BY <1>1, <2>1, <2>2, <2>3 DEF BatchShape
<1>4. BatchShape'
  BY <1>1, <1>2, <1>3 DEF BatchShape
<1>5. Running' = Running
  BY <1>2 DEF Running
<1>6. PlacesCounted'
  BY <1>1, <1>2, <1>5, SameRoutines
<1>7. ClaimInTick' /\ BatchesDoNotOverlap'
  BY <1>1, <1>2, <1>5 DEF ClaimInTick, BatchesDoNotOverlap
<1>8. SlotsNoted' /\ SlotsSpaced'
  <2>1. \A o \in BatchOrders : Waiting(o)' => Waiting(o)
    BY <1>2 DEF Waiting
  <2>2. QED
    BY <1>1, <1>2, <2>1, SameSlots
<1>9. QED
  BY <1>4, <1>6, <1>7, <1>8 DEF BatchInv

LEMMA BatchStep == BatchInv /\ [BatchNext]_batchVars => BatchInv'
<1> SUFFICES ASSUME BatchInv, [BatchNext]_batchVars PROVE BatchInv'
  OBVIOUS
<1>1. CASE Loop
  BY <1>1, LoopKeeps, SpawnKeeps DEF Loop
<1>2. CASE Clock
  BY <1>2, ClockKeeps
<1>3. ASSUME NEW o \in BatchOrders, Goroutine(o) PROVE BatchInv'
  BY <1>3, ReserveKeeps, StartKeeps, EndCheckKeeps DEF Goroutine
<1>4. CASE Shutdown \/ \E o \in BatchOrders : Ripens(o) \/ Touched(o)
  BY <1>4, WorldKeeps
<1>5. CASE UNCHANGED batchVars
  BY <1>5 DEF batchVars, BatchInv, BatchShape, PlacesCounted, ClaimInTick,
     BatchesDoNotOverlap, SlotsNoted, SlotsSpaced, Waiting, Running
<1>6. QED
  BY <1>1, <1>2, <1>3, <1>4, <1>5 DEF BatchNext

LEMMA BatchTyped == BatchInv => BatchTypeOK
  BY DEF BatchInv, BatchShape, PlacesCounted, BatchTypeOK

\* The provider is asked at its pace and no order is reconciled twice at once,
\* for every number of orders, providers and goroutines and every gap: a slot is
\* noted under the mutex before it is waited for, and the claim, not the window,
\* decides who is spawned (runOnce and waitRateSlot in reconciler.go).
THEOREM PacedForAll == BatchSpec => []ReconcilerPaced
<1>1. BatchInv => ReconcilerPaced
  BY DEF BatchInv, ReconcilerPaced
<1>2. QED
  BY <1>1, BatchInvInit, BatchStep, PTL DEF BatchSpec
-------------------------------------------------------------------------------
(* The dashboards' hub, and the types of the balance watch.                *)

\* What a broadcast still has to serve is ahead of it in the list it took.
DueIsAhead ==
    \A a \in Announcers : announcing[a].at = "send" =>
        announcing[a].due \subseteq
            {announcing[a].list[i] : i \in {j \in DOMAIN announcing[a].list : j >= announcing[a].next}}

HubInv == HubTypeOK /\ DueIsAhead

Broadcasts == [at : {"idle", "send"}, list : Seq(Dashboards), next : Nat \ {0},
               due : SUBSET Dashboards]

LEMMA QuietTyped == Quiet \in Broadcasts /\ Quiet.at = "idle"
<1>1. <<>> \in Seq(Dashboards)
  OBVIOUS
<1>2. QED
  BY <1>1 DEF Quiet, Broadcasts

\* What serving a dashboard and losing one make of a broadcast.
LEMMA BroadcastEdits ==
    ASSUME NEW S,
           NEW b \in [at : {"idle", "send"}, list : S, next : Nat \ {0}, due : SUBSET Dashboards],
           NEW d
    PROVE  /\ [b EXCEPT !.due = b.due \ {d}]
                  \in [at : {"idle", "send"}, list : S, next : Nat \ {0}, due : SUBSET Dashboards]
           /\ [b EXCEPT !.next = b.next + 1, !.due = b.due \ {d}]
                  \in [at : {"idle", "send"}, list : S, next : Nat \ {0}, due : SUBSET Dashboards]
<1>1. b.next + 1 \in Nat \ {0} /\ b.due \ {d} \in SUBSET Dashboards
  OBVIOUS
<1>2. QED
  BY <1>1

\* Appending to the list and leaving it.
LEMMA MembersAppend ==
    ASSUME NEW list \in Seq(Dashboards), NEW d \in Dashboards
    PROVE  /\ Append(list, d) \in Seq(Dashboards)
           /\ Members(Append(list, d)) = Members(list) \cup {d}
<1>1. /\ Append(list, d) \in Seq(Dashboards)
      /\ DOMAIN Append(list, d) = DOMAIN list \cup {Len(list) + 1}
      /\ Append(list, d)[Len(list) + 1] = d
      /\ \A i \in DOMAIN list : Append(list, d)[i] = list[i]
  OBVIOUS
<1>2. QED
  BY <1>1 DEF Members

LEMMA MembersWithout ==
    ASSUME NEW list \in Seq(Dashboards), NEW d \in Members(list),
           \A i, j \in DOMAIN list : list[i] = list[j] => i = j
    PROVE  /\ Without(list, d) \in Seq(Dashboards)
           /\ \A i, j \in DOMAIN Without(list, d) : Without(list, d)[i] = Without(list, d)[j] => i = j
           /\ Members(Without(list, d)) = Members(list) \ {d}
<1> DEFINE k == PlaceOf(list, d)
           new == Without(list, d)
<1>1. k \in DOMAIN list /\ list[k] = d
  BY DEF Members, PlaceOf
<1>2. /\ Len(list) \in Nat /\ DOMAIN list = 1 .. Len(list) /\ k \in 1 .. Len(list)
      /\ \A i \in 1 .. Len(list) : list[i] \in Dashboards
  BY <1>1
<1>3. new = [i \in 1 .. Len(list) - 1 |-> IF i < k THEN list[i] ELSE list[i + 1]]
  BY DEF Without
<1> HIDE DEF k, new
<1>4. Len(list) - 1 \in Nat /\ \A i \in 1 .. Len(list) - 1 : new[i] \in Dashboards
  BY <1>2, <1>3
<1>5. new \in Seq(Dashboards) /\ DOMAIN new = 1 .. Len(list) - 1
  BY <1>3, <1>4
<1>6. ASSUME NEW i \in DOMAIN new, NEW j \in DOMAIN new, new[i] = new[j] PROVE i = j
  <2> DEFINE old(n) == IF n < k THEN n ELSE n + 1
  <2>1. /\ i \in Int /\ j \in Int /\ old(i) \in DOMAIN list /\ old(j) \in DOMAIN list
        /\ new[i] = list[old(i)] /\ new[j] = list[old(j)]
    BY <1>2, <1>3, <1>5
  <2>2. old(i) = old(j)
    <3> HIDE DEF old
    <3>1. QED
      BY <1>6, <2>1
  <2>3. QED
    BY <1>2, <2>1, <2>2
<1>7. ASSUME NEW i \in DOMAIN new PROVE \E j \in DOMAIN list : list[j] = new[i] /\ new[i] # d
  <2>1. CASE i < k
    BY <1>1, <1>2, <1>3, <1>5, <2>1
  <2>2. CASE ~(i < k)
    <3>1. i + 1 \in DOMAIN list /\ new[i] = list[i + 1] /\ i + 1 # k
      BY <1>2, <1>3, <1>5, <2>2
    <3>2. QED
      BY <1>1, <3>1
  <2>3. QED
    BY <2>1, <2>2
<1>8. ASSUME NEW j \in DOMAIN list, list[j] # d PROVE \E i \in DOMAIN new : new[i] = list[j]
  <2>1. CASE j < k
    BY <1>2, <1>3, <1>5, <2>1
  <2>2. CASE j > k
    <3>1. j - 1 \in DOMAIN new /\ new[j - 1] = list[j]
      BY <1>2, <1>3, <1>5, <2>2
    <3>2. QED
      BY <3>1
  <2>3. QED
    BY <1>1, <1>2, <1>8, <2>1, <2>2
<1>9. Members(new) = Members(list) \ {d}
  BY <1>7, <1>8 DEF Members
<1>10. QED
  BY <1>5, <1>6, <1>9 DEF new

LEMMA HubInvInit == HubInit => HubInv
<1> SUFFICES ASSUME HubInit PROVE HubInv
  OBVIOUS
<1>1. /\ <<>> \in Seq(Dashboards) /\ Members(<<>>) = {}
      /\ \A i, j \in DOMAIN <<>> : <<>>[i] = <<>>[j] => i = j
  BY DEF Members
<1>2. QED
  BY <1>1, QuietTyped, HubAssumption DEF HubInit, HubInv, HubTypeOK, DueIsAhead, Broadcasts

\* A dashboard comes; the running broadcasts have taken their list.
LEMMA RegisterKeeps == ASSUME HubInv, NEW d \in Dashboards, Register(d) PROVE HubInv'
<1>1. /\ stream[d] = "new" /\ stream' = [stream EXCEPT ![d] = "open"]
      /\ clients' = Append(clients, d) /\ clients \in Seq(Dashboards)
      /\ UNCHANGED <<channel, announcing, announced>>
  BY DEF Register, HubInv, HubTypeOK
<1>2. stream' \in [Dashboards -> {"new", "open", "gone"}]
  BY <1>1 DEF HubInv, HubTypeOK
<1>3. clients' \in Seq(Dashboards) /\ Members(clients') = Members(clients) \cup {d}
  BY <1>1, MembersAppend
<1>4. d \notin Members(clients)
  BY <1>1 DEF HubInv, HubTypeOK
<1>5. \A i, j \in DOMAIN clients' : clients'[i] = clients'[j] => i = j
  <2>1. /\ DOMAIN clients' = DOMAIN clients \cup {Len(clients) + 1}
        /\ clients'[Len(clients) + 1] = d
        /\ \A i \in DOMAIN clients : clients'[i] = clients[i]
    BY <1>1
  <2>2. \A i, j \in DOMAIN clients : clients[i] = clients[j] => i = j
    BY DEF HubInv, HubTypeOK
  <2>3. \A i \in DOMAIN clients : clients[i] # d
    BY <1>4 DEF Members
  <2>4. QED
    BY <2>1, <2>2, <2>3
<1>6. Members(clients') = {e \in Dashboards : stream'[e] = "open"}
  BY <1>1, <1>3 DEF HubInv, HubTypeOK
<1>7. QED
  BY <1>1, <1>2, <1>3, <1>5, <1>6 DEF HubInv, HubTypeOK, DueIsAhead

\* A dashboard goes: nobody owes it an event any more.
LEMMA HangUpKeeps == ASSUME HubInv, NEW d \in Dashboards, HangUp(d) PROVE HubInv'
<1>1. /\ stream[d] = "open" /\ stream' = [stream EXCEPT ![d] = "gone"]
      /\ clients' = Without(clients, d) /\ clients \in Seq(Dashboards)
      /\ announcing' = [a \in Announcers |->
             [announcing[a] EXCEPT !.due = announcing[a].due \ {d}]]
      /\ UNCHANGED <<channel, announced>>
  BY DEF HangUp, Unregister, Leaves, HubInv, HubTypeOK
<1>2. stream' \in [Dashboards -> {"new", "open", "gone"}]
  BY <1>1 DEF HubInv, HubTypeOK
<1>3. d \in Members(clients) /\ \A i, j \in DOMAIN clients : clients[i] = clients[j] => i = j
  BY <1>1 DEF HubInv, HubTypeOK
<1>4. /\ clients' \in Seq(Dashboards) /\ Members(clients') = Members(clients) \ {d}
      /\ \A i, j \in DOMAIN clients' : clients'[i] = clients'[j] => i = j
  BY <1>1, <1>3, MembersWithout
<1>5. Members(clients') = {e \in Dashboards : stream'[e] = "open"}
  BY <1>1, <1>4 DEF HubInv, HubTypeOK
<1>6. announcing' \in [Announcers -> Broadcasts]
  <2>1. ASSUME NEW a \in Announcers
        PROVE  [announcing[a] EXCEPT !.due = announcing[a].due \ {d}] \in Broadcasts
    <3>1. announcing[a] \in Broadcasts
      BY DEF HubInv, HubTypeOK, Broadcasts
    <3>2. QED
      BY <3>1, BroadcastEdits DEF Broadcasts
  <2>2. QED
    BY <1>1, <2>1
<1>7. HubTypeOK'
  BY <1>1, <1>2, <1>4, <1>5, <1>6 DEF HubInv, HubTypeOK, Broadcasts
<1>8. DueIsAhead'
  <2>1. \A a \in Announcers :
            /\ announcing'[a].at = announcing[a].at /\ announcing'[a].list = announcing[a].list
            /\ announcing'[a].next = announcing[a].next
            /\ announcing'[a].due \subseteq announcing[a].due
    BY <1>1 DEF HubInv, HubTypeOK
  <2>2. QED
    BY <2>1 DEF HubInv, DueIsAhead
<1>9. QED
  BY <1>7, <1>8 DEF HubInv

\* A broadcast takes the list as it is: everyone on it is due.
LEMMA TakeListKeeps == ASSUME HubInv, NEW a \in Announcers, TakeList(a) PROVE HubInv'
<1> DEFINE new == [at |-> "send", list |-> clients, next |-> 1, due |-> Members(clients)]
<1>1. /\ announced < MaxAnnounced /\ announced' = announced + 1
      /\ announcing' = [announcing EXCEPT ![a] = new]
      /\ UNCHANGED <<clients, stream, channel>>
  BY DEF TakeList
<1>2. clients \in Seq(Dashboards) /\ Members(clients) \subseteq Dashboards
  BY DEF HubInv, HubTypeOK
<1>3. new \in Broadcasts
  BY <1>2 DEF Broadcasts
<1>4. HubTypeOK'
  BY <1>1, <1>2, <1>3, HubAssumption DEF HubInv, HubTypeOK, Broadcasts
<1>5. \A i \in DOMAIN clients : i >= 1
  BY <1>2
<1>6. new.due \subseteq {new.list[i] : i \in {j \in DOMAIN new.list : j >= new.next}}
  BY <1>5 DEF Members
<1>7. DueIsAhead'
  <2>1. \A b \in Announcers : announcing'[b] = IF b = a THEN new ELSE announcing[b]
    BY <1>1 DEF HubInv, HubTypeOK
  <2> HIDE DEF new
  <2>2. QED
    BY <1>6, <2>1 DEF HubInv, DueIsAhead
<1>8. QED
  BY <1>4, <1>7 DEF HubInv

\* The next dashboard of the list is served or skipped.
LEMMA SendNextKeeps == ASSUME HubInv, NEW a \in Announcers, SendNext(a) PROVE HubInv'
<1> DEFINE old == announcing[a]
           d == old.list[old.next]
           new == [old EXCEPT !.next = old.next + 1, !.due = old.due \ {d}]
<1>0. old \in Broadcasts /\ announcing \in [Announcers -> Broadcasts]
  BY DEF HubInv, HubTypeOK, Broadcasts
<1>1. /\ old.at = "send" /\ old.next <= Len(old.list)
      /\ channel' = channel \/ (channel[d] < Buffer /\ channel' = [channel EXCEPT ![d] = channel[d] + 1])
      /\ announcing' = [announcing EXCEPT ![a] = new]
      /\ UNCHANGED <<clients, stream, announced>>
  BY <1>0 DEF SendNext
<1>2. old.next \in DOMAIN old.list /\ d \in Dashboards
  BY <1>0, <1>1 DEF Broadcasts
<1>3. new \in Broadcasts
  BY <1>0, BroadcastEdits DEF Broadcasts
<1>4. channel' \in [Dashboards -> 0 .. Buffer]
  <2>1. channel \in [Dashboards -> 0 .. Buffer]
    BY DEF HubInv, HubTypeOK
  <2> HIDE DEF d
  <2>2. QED
    BY <1>1, <1>2, <2>1, HubAssumption
<1>5. HubTypeOK'
  <2> HIDE DEF new, d, old
  <2>1. announcing' \in [Announcers -> Broadcasts]
    BY <1>0, <1>1, <1>3
  <2>2. QED
    BY <1>1, <1>4, <2>1 DEF HubInv, HubTypeOK, Broadcasts
<1>6. old.due \subseteq {old.list[i] : i \in {j \in DOMAIN old.list : j >= old.next}}
  BY <1>1 DEF HubInv, DueIsAhead
<1>7. /\ new.at = "send" /\ new.list = old.list /\ new.next = old.next + 1
      /\ new.due = old.due \ {d} /\ old.next \in Nat /\ DOMAIN old.list \subseteq Nat
  BY <1>0, <1>1 DEF Broadcasts
<1>8. new.due \subseteq {new.list[i] : i \in {j \in DOMAIN new.list : j >= new.next}}
  BY <1>6, <1>7
<1>9. DueIsAhead'
  <2>1. \A b \in Announcers : announcing'[b] = IF b = a THEN new ELSE announcing[b]
    BY <1>1 DEF HubInv, HubTypeOK
  <2> HIDE DEF new
  <2>2. QED
    BY <1>8, <2>1 DEF HubInv, DueIsAhead
<1>10. QED
  BY <1>5, <1>9 DEF HubInv

LEMMA HubStep == HubInv /\ [HubNext]_hubVars => HubInv'
<1> SUFFICES ASSUME HubInv, [HubNext]_hubVars PROVE HubInv'
  OBVIOUS
<1>1. ASSUME NEW d \in Dashboards, Forward(d) PROVE HubInv'
  <2>1. /\ channel[d] \in 0 .. Buffer /\ channel[d] > 0
        /\ channel' = [channel EXCEPT ![d] = channel[d] - 1]
        /\ UNCHANGED <<clients, stream, announcing, announced>>
    BY <1>1 DEF Forward, HubInv, HubTypeOK
  <2>2. channel' \in [Dashboards -> 0 .. Buffer]
    BY <2>1, HubAssumption DEF HubInv, HubTypeOK
  <2>3. QED
    BY <2>1, <2>2 DEF HubInv, HubTypeOK, DueIsAhead
<1>2. ASSUME NEW a \in Announcers, EndBroadcast(a) PROVE HubInv'
  <2>1. /\ announcing' = [announcing EXCEPT ![a] = Quiet]
        /\ UNCHANGED <<clients, stream, channel, announced>>
    BY <1>2 DEF EndBroadcast
  <2>2. announcing' \in [Announcers -> Broadcasts]
    BY <2>1, QuietTyped DEF HubInv, HubTypeOK, Broadcasts
  <2>3. \A b \in Announcers : announcing'[b] = IF b = a THEN Quiet ELSE announcing[b]
    BY <2>1 DEF HubInv, HubTypeOK
  <2>4. DueIsAhead'
    BY <2>3, QuietTyped DEF HubInv, DueIsAhead
  <2>5. QED
    BY <2>1, <2>2, <2>4 DEF HubInv, HubTypeOK, Broadcasts
<1>3. CASE UNCHANGED hubVars
  BY <1>3 DEF hubVars, HubInv, HubTypeOK, DueIsAhead
<1>4. QED
  BY <1>1, <1>2, <1>3, RegisterKeeps, HangUpKeeps, TakeListKeeps, SendNextKeeps
     DEF HubNext, Broadcast

\* For any number of dashboards, broadcasts and places in a channel, a broadcast
\* passes over nobody who stays: a list that was taken is never changed (Broadcast,
\* Register and Unregister in hub.go).
THEOREM EveryDashboardServed == HubSpec => []NobodyMissed
<1>1. HubInv => NobodyMissed
  <2> SUFFICES ASSUME HubInv, NEW a \in Announcers, announcing[a].at = "send",
                      announcing[a].next > Len(announcing[a].list)
               PROVE  announcing[a].due = {}
    BY DEF NobodyMissed
  <2>1. announcing[a].list \in Seq(Dashboards) /\ announcing[a].next \in Nat
    BY DEF HubInv, HubTypeOK
  <2>2. {j \in DOMAIN announcing[a].list : j >= announcing[a].next} = {}
    BY <2>1
  <2>3. QED
    BY <2>2 DEF HubInv, DueIsAhead
<1>2. QED
  BY <1>1, HubInvInit, HubStep, PTL DEF HubSpec

\* A check that reads settings still has a key to read.
WatchInv == WatchTypeOK /\ (check.at = "settings" => check.todo # <<>>)

LEMMA KeyOrderType == KeyOrder \in Seq(SettingKeys) /\ KeyOrder # <<>>
  BY DEF KeyOrder, SettingKeys

Places == {"idle", "settings", "list", "ask", "snapshot", "judge", "send", "stuck"}
Checks == [at : Places, todo : Seq(SettingKeys), seen : SUBSET SettingKeys, level : Levels]

LEMMA NoCheckType == NoCheck \in Checks /\ NoCheck.at = "idle"
  BY DEF NoCheck, Checks, Places, Levels

LEMMA HappensTyped ==
    ASSUME WatchTypeOK, Happens \/ UNCHANGED events PROVE events' \in 0 .. MaxEvents
  BY WatchAssumption DEF Happens, WatchTypeOK

LEMMA NoSaveType == NoSave \in [todo : Seq(SettingKeys), wanted : SUBSET SettingKeys]
  BY DEF NoSave

LEMMA NoFlagsType == NoFlags \in [low : BOOLEAN, cooling : SUBSET {"balance", "stuck"}]
  BY DEF NoFlags

LEMMA WatchInvInit == WatchInit => WatchInv
<1> SUFFICES ASSUME WatchInit PROVE WatchInv
  OBVIOUS
<1>1. purse \in Levels /\ row \in Levels /\ {backlog, lost} \subseteq BOOLEAN
  BY DEF WatchInit, Levels
<1>2. settings \subseteq SettingKeys
  BY DEF WatchInit
<1>3. chat \in [heard : Levels \cup {"nothing"}, told : BOOLEAN]
  BY DEF WatchInit
<1>4. writer \in [Writers -> Levels \cup {"idle"}] /\ events \in 0 .. MaxEvents
  BY WatchAssumption DEF WatchInit
<1>5. /\ saving \in [todo : Seq(SettingKeys), wanted : SUBSET SettingKeys]
      /\ flags \in [low : BOOLEAN, cooling : SUBSET {"balance", "stuck"}]
      /\ check \in Checks /\ check.at = "idle"
  BY NoSaveType, NoFlagsType, NoCheckType DEF WatchInit
<1>6. QED
  BY <1>1, <1>2, <1>3, <1>4, <1>5 DEF WatchInv, WatchTypeOK, Checks, Places

\* A check moves on inside its type.
LEMMA CheckTyped ==
    ASSUME WatchInv, AlertCheck
    PROVE  check' \in Checks /\ (check'.at = "settings" => check'.todo # <<>>)
<1>1. check \in Checks /\ (check.at = "settings" => check.todo # <<>>)
  BY DEF WatchInv, WatchTypeOK, Checks, Places
<1>2. CASE OpenCheck
  <2>1. check' = [at |-> "settings", todo |-> KeyOrder, seen |-> {}, level |-> "ok"]
    BY <1>2 DEF OpenCheck, NoCheck
  <2>2. QED
    BY <2>1, KeyOrderType DEF Checks, Places, Levels
<1>3. CASE ReadKey
  <2>1. check.todo \in Seq(SettingKeys) /\ check.todo # <<>> /\ check.seen \in SUBSET SettingKeys
    BY <1>1, <1>3 DEF ReadKey, Checks
  <2>2. Tail(check.todo) \in Seq(SettingKeys)
    BY <2>1, QueueReceive
  <2>3. PICK seen \in SUBSET SettingKeys :
           \/ /\ Tail(check.todo) # <<>>
              /\ check' = [check EXCEPT !.todo = Tail(check.todo), !.seen = seen]
           \/ check' = NoCheck
           \/ \E place \in {"list", "stuck"} : check' = [NoCheck EXCEPT !.at = place]
    <3>1. check.seen \cup ({Head(check.todo)} \cap settings) \in SUBSET SettingKeys
      BY <2>1 DEF WatchInv, WatchTypeOK
    <3>2. QED
      BY <1>3, <3>1 DEF ReadKey, Quits
  <2>4. QED
    <3>1. CASE /\ Tail(check.todo) # <<>>
               /\ check' = [check EXCEPT !.todo = Tail(check.todo), !.seen = seen]
      <4>1. check' \in Checks
        BY <1>1, <2>2, <3>1 DEF Checks
      <4>2. check'.todo = Tail(check.todo)
        BY <1>1, <3>1 DEF Checks
      <4>3. QED
        BY <3>1, <4>1, <4>2
    <3>2. CASE check' = NoCheck
      BY <3>2, NoCheckType
    <3>3. ASSUME NEW place \in {"list", "stuck"}, check' = [NoCheck EXCEPT !.at = place]
          PROVE  check' \in Checks /\ check'.at # "settings"
      BY <3>3, NoCheckType DEF Checks, Places
    <3>4. QED
      BY <2>3, <3>1, <3>2, <3>3
<1>4. ASSUME NEW place \in Places \ {"settings"}, NEW l \in Levels,
             check' = [check EXCEPT !.at = place, !.level = l]
      PROVE  check' \in Checks /\ check'.at # "settings"
  BY <1>1, <1>4 DEF Checks
<1>5. ASSUME NEW place \in Places \ {"settings"}, To(place)
      PROVE  check' \in Checks /\ check'.at # "settings"
  BY <1>1, <1>5 DEF Checks, To
<1>6. CASE ListProviders \/ BalanceAnswers
  <2>1. row \in Levels /\ purse \in Levels
    BY DEF WatchInv, WatchTypeOK
  <2>2. QED
    BY <1>4, <1>5, <1>6, <2>1 DEF ListProviders, BalanceAnswers, Places
<1>7. CASE BalanceFails \/ Snapshot \/ Judge \/ SendMessage \/ MessageFails
  <2>1. \E place \in Places \ {"settings"} : To(place)
    BY <1>7 DEF BalanceFails, Snapshot, Judge, SendMessage, MessageFails, Places
  <2>2. QED
    BY <1>5, <2>1
<1>8. CASE ReportStuck \/ ReportFails
  BY <1>8, NoCheckType DEF ReportStuck, ReportFails, Quits
<1>9. QED
  BY <1>2, <1>3, <1>6, <1>7, <1>8 DEF AlertCheck

LEMMA AlertKeeps == ASSUME WatchInv, AlertCheck PROVE WatchInv'
<1>1. WatchTypeOK
  BY DEF WatchInv
<1>2. check' \in Checks /\ (check'.at = "settings" => check'.todo # <<>>) /\ check \in Checks
  BY <1>1, CheckTyped DEF WatchTypeOK, Checks, Places
<1>3. events' \in 0 .. MaxEvents
  BY <1>1, HappensTyped DEF AlertCheck, OpenCheck, ReadKey, ListProviders, BalanceAnswers,
     BalanceFails, Snapshot, Judge, SendMessage, MessageFails, ReportStuck, ReportFails
<1>4. UNCHANGED <<purse, backlog, settings, saving, writer>>
  BY DEF AlertCheck, OpenCheck, ReadKey, ListProviders, BalanceAnswers,
     BalanceFails, Snapshot, Judge, SendMessage, MessageFails, ReportStuck, ReportFails
<1>5. row' \in Levels
  BY <1>1, <1>2 DEF WatchTypeOK, Checks, AlertCheck, OpenCheck, ReadKey, ListProviders,
     BalanceAnswers, BalanceFails, Snapshot, Judge, SendMessage, MessageFails,
     ReportStuck, ReportFails
<1>6. flags' \in [low : BOOLEAN, cooling : SUBSET {"balance", "stuck"}]
  <2>1. flags \in [low : BOOLEAN, cooling : SUBSET {"balance", "stuck"}]
    BY <1>1 DEF WatchTypeOK
  <2>2. CASE Judge \/ SendMessage \/ ReportStuck
    <3>1. CASE Judge
      <4>1. PICK low \in BOOLEAN : flags' = [flags EXCEPT !.low = low]
        BY <3>1 DEF Judge
      <4>2. QED
        BY <2>1, <4>1
    <3>2. CASE SendMessage
      <4>1. PICK cooling \in SUBSET {"balance", "stuck"} :
               flags' = [flags EXCEPT !.cooling = cooling]
        BY <2>1, <3>2 DEF SendMessage
      <4>2. QED
        BY <2>1, <4>1
    <3>3. CASE ReportStuck
      BY <2>1, <3>3 DEF ReportStuck
    <3>4. QED
      BY <2>2, <3>1, <3>2, <3>3
  <2>3. CASE flags' = flags
    BY <2>1, <2>3
  <2>4. QED
    BY <2>2, <2>3 DEF AlertCheck, OpenCheck, ReadKey, ListProviders, BalanceAnswers,
       BalanceFails, Snapshot, MessageFails, ReportFails
<1>7. chat' \in [heard : Levels \cup {"nothing"}, told : BOOLEAN]
  <2>1. chat \in [heard : Levels \cup {"nothing"}, told : BOOLEAN] /\ check.level \in Levels
    BY <1>1, <1>2 DEF WatchTypeOK, Checks
  <2>2. CASE SendMessage \/ ReportStuck
    BY <2>1, <2>2 DEF SendMessage, ReportStuck
  <2>3. CASE chat' = chat
    BY <2>1, <2>3
  <2>4. QED
    BY <2>2, <2>3 DEF AlertCheck, OpenCheck, ReadKey, ListProviders, BalanceAnswers,
       BalanceFails, Snapshot, Judge, MessageFails, ReportFails
<1>8. lost' \in BOOLEAN
  BY <1>1 DEF WatchTypeOK, AlertCheck, OpenCheck, ReadKey, ListProviders,
     BalanceAnswers, BalanceFails, Snapshot, Judge, SendMessage, MessageFails,
     ReportStuck, ReportFails
<1>9. QED
  BY <1>1, <1>2, <1>3, <1>4, <1>5, <1>6, <1>7, <1>8
     DEF WatchInv, WatchTypeOK, Checks, Places

\* Writers of the row and of the settings, the world, a restart.
LEMMA WritersKeep ==
    ASSUME WatchInv,
           \/ CoolsDown \/ SaveSettings \/ WriteKey \/ WorldMoves \/ RestartWatch
           \/ \E w \in Writers : FetchBalance(w) \/ ReadProvider(w) \/ WriteBalance(w)
    PROVE  WatchInv'
<1>1. WatchTypeOK /\ (check.at = "settings" => check.todo # <<>>)
  BY DEF WatchInv
<1>2. events' \in 0 .. MaxEvents
  BY <1>1, HappensTyped DEF CoolsDown, SaveSettings, WriteKey, WorldMoves, RestartWatch,
     FetchBalance, ReadProvider, WriteBalance
<1>3. CASE CoolsDown
  BY <1>1, <1>3 DEF CoolsDown, WatchInv, WatchTypeOK
<1>4. CASE SaveSettings
  <2>1. PICK wanted \in SUBSET SettingKeys : saving' = [todo |-> KeyOrder, wanted |-> wanted]
    BY <1>4 DEF SaveSettings
  <2>2. saving' \in [todo : Seq(SettingKeys), wanted : SUBSET SettingKeys]
    BY <2>1, KeyOrderType
  <2>3. QED
    BY <1>1, <1>2, <1>4, <2>2 DEF SaveSettings, WatchInv, WatchTypeOK
<1>5. CASE WriteKey
  <2>1. saving.todo \in Seq(SettingKeys) /\ saving.todo # <<>>
    BY <1>1, <1>5 DEF WriteKey, WatchTypeOK
  <2>2. Tail(saving.todo) \in Seq(SettingKeys) /\ Head(saving.todo) \in SettingKeys
    BY <2>1, QueueReceive
  <2>3. saving' \in {NoSave, [saving EXCEPT !.todo = Tail(saving.todo)]}
    BY <1>5 DEF WriteKey
  <2>4. saving' \in [todo : Seq(SettingKeys), wanted : SUBSET SettingKeys]
    <3>1. saving \in [todo : Seq(SettingKeys), wanted : SUBSET SettingKeys]
      BY <1>1 DEF WatchTypeOK
    <3>2. QED
      BY <2>2, <2>3, <3>1, NoSaveType
  <2>5. settings' \subseteq SettingKeys
    BY <1>1, <1>5, <2>2 DEF WriteKey, WatchTypeOK
  <2>6. QED
    BY <1>1, <1>2, <1>5, <2>4, <2>5 DEF WriteKey, WatchInv, WatchTypeOK
<1>6. CASE WorldMoves
  <2>1. purse' \in Levels /\ backlog' \in BOOLEAN
    BY <1>1, <1>6 DEF WorldMoves, WatchTypeOK
  <2>2. chat' \in [heard : Levels \cup {"nothing"}, told : BOOLEAN]
    BY <1>1, <1>6 DEF WorldMoves, WatchTypeOK
  <2>3. QED
    BY <1>1, <1>2, <1>6, <2>1, <2>2 DEF WorldMoves, WatchInv, WatchTypeOK
<1>7. CASE RestartWatch
  <2>1. NoCheck \in Checks /\ NoCheck.at = "idle"
    BY NoCheckType
  <2>2. NoFlags \in [low : BOOLEAN, cooling : SUBSET {"balance", "stuck"}]
    BY DEF NoFlags
  <2>3. NoSave \in [todo : Seq(SettingKeys), wanted : SUBSET SettingKeys]
    BY DEF NoSave
  <2>4. lost' \in BOOLEAN
    BY <1>7 DEF RestartWatch
  <2>5. writer' \in [Writers -> Levels \cup {"idle"}]
    BY <1>7 DEF RestartWatch
  <2>6. QED
    BY <1>1, <1>2, <1>7, <2>1, <2>2, <2>3, <2>4, <2>5
       DEF RestartWatch, WatchInv, WatchTypeOK, Checks, Places
<1>8. ASSUME NEW w \in Writers, FetchBalance(w) \/ ReadProvider(w) \/ WriteBalance(w)
      PROVE  WatchInv'
  <2>1. /\ row' \in Levels /\ writer' \in [Writers -> Levels \cup {"idle"}]
        /\ UNCHANGED <<purse, backlog, settings, saving, check, flags, chat, lost>>
    BY <1>1, <1>8 DEF FetchBalance, ReadProvider, WriteBalance, WatchTypeOK
  <2>2. QED
    BY <1>1, <1>2, <2>1 DEF WatchInv, WatchTypeOK
<1>9. QED
  BY <1>3, <1>4, <1>5, <1>6, <1>7, <1>8

LEMMA WatchStep == WatchInv /\ [WatchNext]_watchVars => WatchInv'
<1>1. WatchInv /\ UNCHANGED watchVars => WatchInv'
  BY DEF watchVars, WatchInv, WatchTypeOK
<1>2. QED
  BY <1>1, AlertKeeps, WritersKeep DEF WatchNext

-------------------------------------------------------------------------------
(* All of them side by side.                                               *)

ServicesInv ==
    /\ PoolInv /\ GuardInv /\ SlotsCounted /\ HitsCounted /\ BatchInv
    /\ AdapterInv /\ HubInv /\ WatchInv /\ RolesInv

LEMMA ServicesInvInit == Init => ServicesInv
  BY PoolInvInit, GuardInvInit, GuardCountInit, BatchInvInit, AdapterInvInit,
     HubInvInit, WatchInvInit, RolesInvInit
     DEF Init, ServicesInv

LEMMA ServicesStep == ServicesInv /\ [Next]_vars => ServicesInv'
<1> SUFFICES ASSUME ServicesInv, [Next]_vars PROVE ServicesInv'
  OBVIOUS
<1>1. /\ [PoolNext]_poolVars /\ [GuardNext]_guardVars /\ [BatchNext]_batchVars
      /\ [AdapterNext]_adapterVars /\ [HubNext]_hubVars /\ [WatchNext]_watchVars
      /\ [RolesNext]_rolesVars
  BY DEF Next, vars
<1>2. QED
  BY <1>1, PoolStep, GuardStep, GuardCountStep, BatchStep, AdapterStepKeeps, HubStep,
     WatchStep, RolesInvStep
     DEF ServicesInv

\* Types hold for every size of every service: places in the semaphore and slots
\* at the shop are counted right whichever way a check or a lookup ends, buffers
\* and channels stay within their capacity, and a dashboard is registered exactly
\* while its stream is open.
THEOREM ServicesTypeCorrect == Spec => []ServicesTypeOK
<1>1. GuardInv /\ SlotsCounted /\ HitsCounted => GuardTypeOK
  BY DEF GuardInv, SlotsCounted, HitsCounted, GuardTypeOK
<1>2. PoolInv => PoolTypeOK
  BY DEF PoolInv
<1>3. AdapterInv => AdapterTypeOK
  BY DEF AdapterInv
<1>4. RolesInv => RolesTypeOK
  BY DEF RolesInv
<1>5. WatchInv => WatchTypeOK
  BY DEF WatchInv
<1>6. HubInv => HubTypeOK
  BY DEF HubInv
<1>7. ServicesInv => ServicesTypeOK
  BY <1>1, <1>2, <1>3, <1>4, <1>5, <1>6, BatchTyped DEF ServicesInv, ServicesTypeOK
<1>8. QED
  BY <1>7, ServicesInvInit, ServicesStep, PTL DEF Spec
===============================================================================
