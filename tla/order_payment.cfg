\* Two gateway orders, one paid with another amount, duplicate webhooks, failing statements and a restart.
CONSTANTS
    o1 = o1
    o2 = o2
    Orders = {o1, o2}
    Users = {u1}
    Jobs = {j1, j2}
    Providers = {"other"}
    Kiosgamer = {}
    Digiflazz = {}
    Dedup = {"other"}
    Owner <- OneOwner
    Method <- AllTripay
    Price <- UnitPrice
    Kinds = {"order", "pay", "callback", "reconcile"}
    Outcomes = {"timeout"}
    Mismatched = {o1}
    InvoiceLookup = TRUE
    InitBalance = 1
    DBFaults = TRUE
    MaxRefs = 1
    MaxPlaced = 1
    MaxAdmin = 0
    MaxCrashes = 1
SPECIFICATION Spec
SYMMETRY JobSymmetry
CHECK_DEADLOCK FALSE
INVARIANTS
    PaymentAcceptedOnce
    UnpaidNeverSubmitted
    MismatchNeverFulfilled
