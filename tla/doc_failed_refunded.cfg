\* A retried and charged order is marked failed by an admin.
CONSTANTS
    o1 = o1
    o2 = o2
    Orders = {o1}
    Users = {u1}
    Jobs = {j1}
    Providers = {"other"}
    Kiosgamer = {}
    Digiflazz = {}
    Dedup = {"other"}
    Owner <- OneOwner
    Method <- AllSaldo
    Price <- UnitPrice
    Kinds = {"order", "retry", "setFailed"}
    Outcomes = {}
    Mismatched = {}
    InvoiceLookup = FALSE
    InitBalance = 1
    DBFaults = FALSE
    MaxRefs = 1
    MaxPlaced = 1
    MaxAdmin = 2
    MaxCrashes = 0
SPECIFICATION Spec
SYMMETRY JobSymmetry
CHECK_DEADLOCK FALSE
INVARIANTS
    FailedIsRefunded
