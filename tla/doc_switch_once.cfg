\* An order moved to another provider is bought again at the first one by a check.
CONSTANTS
    o1 = o1
    o2 = o2
    Orders = {o1}
    Users = {u1}
    Jobs = {j1}
    Providers = {"digiflazz", "other"}
    Kiosgamer = {}
    Digiflazz = {"digiflazz"}
    Dedup = {"digiflazz", "other"}
    Owner <- OneOwner
    Method <- AllSaldo
    Price <- UnitPrice
    Kinds = {"order", "callback", "check", "retry", "reroute"}
    Outcomes = {}
    Mismatched = {}
    InvoiceLookup = FALSE
    InitBalance = 2
    DBFaults = FALSE
    MaxRefs = 2
    MaxPlaced = 3
    MaxAdmin = 2
    MaxCrashes = 0
SPECIFICATION Spec
SYMMETRY JobSymmetry
CHECK_DEADLOCK FALSE
INVARIANTS
    OneProviderAtATime
