------------------------------ MODULE DashboardHub ------------------------------
(***************************************************************************)
(* How the admin's dashboard follows the orders: each open page has a      *)
(* request in StreamDashboardTransactions (internal/handler/admin_handler), *)
(* which registers a channel at the hub of internal/pkg/sse/hub.go; the     *)
(* handlers that end an order announce it from broadcastToDashboard, in     *)
(* their own goroutine and before they go on.  What the event says is left  *)
(* out.                                                                    *)
(***************************************************************************)
EXTENDS Naturals, Sequences

CONSTANTS
    Dashboards,  \* requests for the stream, each with a channel of its own
    Announcers,  \* goroutines that announce an order
    Buffer,      \* capacity of a channel
    MaxAnnounced \* bound: events announced

ASSUME HubAssumption == Buffer \in Nat \ {0} /\ MaxAnnounced \in Nat

VARIABLES
    clients,     \* hub.clients["admin_dashboard"]
    stream,      \* where each request is
    channel,     \* how many events wait in its channel
    announcing,  \* the Broadcast each goroutine is in
    announced

hubVars == <<clients, stream, channel, announcing, announced>>

\* due is history: the open dashboards of the list not served yet.
Quiet == [at |-> "idle", list |-> <<>>, next |-> 1, due |-> {}]

Members(list) == {list[i] : i \in DOMAIN list}

HubInit ==
    /\ clients = <<>>
    /\ stream = [d \in Dashboards |-> "new"]
    /\ channel = [d \in Dashboards |-> 0]
    /\ announcing = [a \in Announcers |-> Quiet]
    /\ announced = 0

-------------------------------------------------------------------------------
(* StreamDashboardTransactions.                                            *)

Register(d) ==
    /\ stream[d] = "new"
    /\ stream' = [stream EXCEPT ![d] = "open"]
    /\ clients' = Append(clients, d)
    /\ UNCHANGED <<channel, announcing, announced>>

\* Written to the page, or dropped with the error of the write.
Forward(d) ==
    /\ stream[d] = "open" /\ channel[d] > 0
    /\ channel' = [channel EXCEPT ![d] = @ - 1]
    /\ UNCHANGED <<clients, stream, announcing, announced>>

PlaceOf(list, d) == CHOOSE i \in DOMAIN list : list[i] = d
Without(list, d) ==
    [i \in 1 .. Len(list) - 1 |-> IF i < PlaceOf(list, d) THEN list[i] ELSE list[i + 1]]

Leaves(d) ==
    /\ stream' = [stream EXCEPT ![d] = "gone"]
    /\ clients' = Without(clients, d)

\* The variant moves the channels up in the array that running broadcasts read.
MovedUp(list, d) ==
    IF d \notin Members(list) THEN list ELSE Append(Without(list, d), list[Len(list)])
UnregisterInPlace(d) ==
    /\ Leaves(d)
    /\ announcing' = [a \in Announcers |->
           [announcing[a] EXCEPT !.due = @ \ {d}, !.list = MovedUp(@, d)]]

\* A new list replaces the old one, which running broadcasts go on reading; the
\* channel is not closed, and nobody reads it any more.
Unregister(d) ==
    /\ Leaves(d)
    /\ announcing' = [a \in Announcers |-> [announcing[a] EXCEPT !.due = @ \ {d}]]

\* The browser hung up, or a write failed at the server's WriteTimeout: the
\* context of the request is done, whatever waits in the channel.
HangUp(d) ==
    /\ stream[d] = "open"
    /\ Unregister(d)
    /\ UNCHANGED <<channel, announced>>

-------------------------------------------------------------------------------
(* Broadcast.                                                              *)

\* The list is read under the lock and served after it; nobody is told if it is
\* empty.
TakeList(a) ==
    /\ announcing[a].at = "idle" /\ clients # <<>> /\ announced < MaxAnnounced
    /\ announcing' = [announcing EXCEPT ![a] =
           [at |-> "send", list |-> clients, next |-> 1, due |-> Members(clients)]]
    /\ announced' = announced + 1
    /\ UNCHANGED <<clients, stream, channel>>

\* A channel that stays full for 200 ms is skipped.
SkipsNobody(d) == FALSE
Skips(d) == channel[d] >= Buffer
SendNext(a) ==
    /\ announcing[a].at = "send" /\ announcing[a].next <= Len(announcing[a].list)
    /\ LET d == announcing[a].list[announcing[a].next]
       IN  /\ \/ channel[d] < Buffer /\ channel' = [channel EXCEPT ![d] = @ + 1]
              \/ Skips(d) /\ UNCHANGED channel
           /\ announcing' = [announcing EXCEPT ![a].next = @ + 1, ![a].due = @ \ {d}]
    /\ UNCHANGED <<clients, stream, announced>>

EndBroadcast(a) ==
    /\ announcing[a].at = "send" /\ announcing[a].next > Len(announcing[a].list)
    /\ announcing' = [announcing EXCEPT ![a] = Quiet]
    /\ UNCHANGED <<clients, stream, channel, announced>>

-------------------------------------------------------------------------------
Broadcast(a) == SendNext(a) \/ EndBroadcast(a)

HubNext ==
    \/ \E d \in Dashboards : Register(d) \/ Forward(d) \/ HangUp(d)
    \/ \E a \in Announcers : TakeList(a) \/ Broadcast(a)

HubSpec == HubInit /\ [][HubNext]_hubVars

HubTypeOK ==
    /\ clients \in Seq(Dashboards)
    /\ stream \in [Dashboards -> {"new", "open", "gone"}]
    /\ \A i, j \in DOMAIN clients : clients[i] = clients[j] => i = j
    /\ Members(clients) = {d \in Dashboards : stream[d] = "open"}
    /\ channel \in [Dashboards -> 0 .. Buffer]
    /\ announcing \in [Announcers -> [at : {"idle", "send"}, list : Seq(Dashboards),
                                      next : Nat \ {0}, due : SUBSET Dashboards]]
    /\ announced \in 0 .. MaxAnnounced

\* A broadcast passes over no dashboard that is open from the moment it took the
\* list to its end, however many register and hang up while it sends outside the
\* lock (Broadcast and Unregister in hub.go).
NobodyMissed ==
    \A a \in Announcers :
        announcing[a].at = "send" /\ announcing[a].next > Len(announcing[a].list)
            => announcing[a].due = {}

\* A handler that announces an order always gets on with it, though dashboards
\* stop reading, or hang up with a full channel after the list was taken
\* (Broadcast in hub.go, called before the order is saved in applyResult).
AnnouncerGoesOn ==
    \A a \in Announcers : announcing[a].at = "send" ~> announcing[a].at = "idle"
===============================================================================
