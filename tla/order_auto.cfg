\* One balance order, every automatic handler, every provider trouble, failing statements and a restart.
CONSTANTS
    o1 = o1
    o2 = o2
    Orders = {o1}
    Users = {u1}
    Jobs = {j1, j2}
    Providers = {"digiflazz", "kiosgamer", "other"}
    Kiosgamer = {"kiosgamer"}
    Digiflazz = {"digiflazz"}
    Dedup = {"digiflazz", "other"}
    Owner <- OneOwner
    Method <- AllSaldo
    Price <- UnitPrice
    Kinds = {"order", "callback", "check", "reconcile", "holdRetry"}
    Outcomes = {"timeout", "balance", "session", "config", "route"}
    Mismatched = {}
    InvoiceLookup = FALSE
    InitBalance = 1
    DBFaults = TRUE
    MaxRefs = 1
    MaxPlaced = 2
    MaxAdmin = 0
    MaxCrashes = 1
SPECIFICATION Spec
SYMMETRY JobSymmetry
CHECK_DEADLOCK FALSE
INVARIANTS
    NoGoodsAfterRefund
    SuccessIsDelivered
    NoDoubleDelivery
