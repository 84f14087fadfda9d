\* One balance order at Digiflazz or a provider like it, answers lost, callbacks possible but not needed.
CONSTANTS
    o1 = o1
    o2 = o2
    Orders = {o1}
    Users = {u1}
    Jobs = {j1, j2}
    Providers = {"digiflazz", "other"}
    Kiosgamer = {}
    Digiflazz = {"digiflazz"}
    Dedup = {"digiflazz", "other"}
    Owner <- OneOwner
    Method <- AllH2H
    Price <- UnitPrice
    Kinds = {"order", "callback", "reconcile"}
    Outcomes = {"timeout", "balance"}
    Mismatched = {}
    InvoiceLookup = FALSE
    InitBalance = 1
    DBFaults = FALSE
    MaxRefs = 1
    MaxPlaced = 1
    MaxAdmin = 0
    MaxCrashes = 0
SPECIFICATION FairSpec
CHECK_DEADLOCK FALSE
INVARIANTS
    SettledWhenQuiet
PROPERTIES
    DeliveryReachesRow
    FailureReachesBuyer
