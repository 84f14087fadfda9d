\* A retry tests for a refund before the first attempt fails and refunds.
CONSTANTS
    o1 = o1
    o2 = o2
    Orders = {o1}
    Users = {u1}
    Jobs = {j1, j2}
    Providers = {"kiosgamer"}
    Kiosgamer = {"kiosgamer"}
    Digiflazz = {}
    Dedup = {}
    Owner <- OneOwner
    Method <- AllSaldo
    Price <- UnitPrice
    Kinds = {"order", "retry"}
    Outcomes = {}
    Mismatched = {}
    InvoiceLookup = FALSE
    InitBalance = 1
    DBFaults = FALSE
    MaxRefs = 1
    MaxPlaced = 2
    MaxAdmin = 1
    MaxCrashes = 0
SPECIFICATION Spec
SYMMETRY JobSymmetry
CHECK_DEADLOCK FALSE
INVARIANTS
    SuccessIsPaid
