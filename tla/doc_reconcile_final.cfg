\* A callback finishes the order between the second read of reconciliation and its writes.
CONSTANTS
    o1 = o1
    o2 = o2
    Orders = {o1}
    Users = {u1}
    Jobs = {j1, j2}
    Providers = {"other"}
    Kiosgamer = {}
    Digiflazz = {}
    Dedup = {"other"}
    Owner <- OneOwner
    Method <- AllSaldo
    Price <- UnitPrice
    Kinds = {"order", "callback", "reconcile"}
    Outcomes = {}
    Mismatched = {}
    InvoiceLookup = FALSE
    InitBalance = 1
    DBFaults = FALSE
    MaxRefs = 1
    MaxPlaced = 1
    MaxAdmin = 0
    MaxCrashes = 0
SPECIFICATION Spec
SYMMETRY JobSymmetry
CHECK_DEADLOCK FALSE
PROPERTIES
    ReconcileKeepsFinal
