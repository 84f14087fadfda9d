\* One balance order, admin actions racing each other, its purchase and callbacks; statements fail.
CONSTANTS
    o1 = o1
    o2 = o2
    Orders = {o1}
    Users = {u1}
    Jobs = {j1, j2}
    Providers = {"digiflazz", "other"}
    Kiosgamer = {}
    Digiflazz = {"digiflazz"}
    Dedup = {"digiflazz", "other"}
    Owner <- OneOwner
    Method <- AllSaldo
    Price <- UnitPrice
    Kinds = {"order", "callback", "retry", "setSuccess", "refund", "setFailed", "switch", "regen", "reroute"}
    Outcomes = {}
    Mismatched = {}
    InvoiceLookup = FALSE
    InitBalance = 2
    DBFaults = TRUE
    MaxRefs = 2
    MaxPlaced = 1
    MaxAdmin = 2
    MaxCrashes = 0
SPECIFICATION Spec
SYMMETRY JobSymmetry
CHECK_DEADLOCK FALSE
INVARIANTS
    TypeOK
    RefundAtMostOnce
    RefundedMeansCredited
PROPERTIES
    ImplementsLedger
