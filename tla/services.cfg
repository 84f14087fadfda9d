\* 2 workers, 3 tasks, room for 1; 3 lookups of 2 keys, one slot; 3 orders at one provider;
\* every adapter with two purchases of its order and one late request;
\* 3 dashboards, 2 announcers, room for 1; a provider's balance with 3 events; 3 saves of 2 permissions.
CONSTANTS
    Workers = {w1, w2}
    Tasks = {t1, t2, t3}
    QueueSize = 1
    NoTask = NoTask
    Callers = {c1, c2, c3}
    Keys = {k1, k2}
    Senders = {s1}
    Slots = 1
    MaxPerChat = 2
    Nobody = Nobody
    r1 = r1
    r2 = r2
    r3 = r3
    Created <- ThreeOrders
    ProviderOf <- OneProvider
    BatchSize = 3
    Concurrency = 2
    Gap = 1
    MaxTouches = 1
    NoOrder = NoOrder
    Adapters = {"ASMARKET", "BOSTGAME", "DIGIFLAZZ", "EXCELLENTSTORE", "EXCELLSTORE", "FFZSTORE", "MUMTAZSHOP", "SIPAS", "VEXAGAME"}
    MaxTries = 2
    MaxLate = 1
    Dashboards = {d1, d2, d3}
    Announcers = {n1, n2}
    Buffer = 1
    MaxAnnounced = 2
    Writers = {b1}
    MaxEvents = 3
    Staff = {"operator"}
    Resources = {"games", "roles"}
    Updaters = {u1, u2}
    MaxUpdates = 3
SPECIFICATION Spec
CHECK_DEADLOCK FALSE
INVARIANTS
    ServicesTypeOK
    CleanStopKeepsQueue
    OneLookupPerKey
    ReconcilerPaced
    NobodyMissed
    FailureIsFinal
    SuccessIsFulfilled
    RolesAtRest
PROPERTIES
    AcceptedRuns
    JoinedIsAnswered
    ClaimedIsChecked
    PolledVerdictArrives
    AnnouncerGoesOn
    ChatLearns
