\* Five refs of a partner, two together; two calls at Kiosgamer and two sales; two writers of a nominal and its two sides.
CONSTANTS
    plain1 = plain1
    plain2 = plain2
    broken = broken
    moved = moved
    rushed = rushed
    g1 = g1
    g2 = g2
    Refs = {plain1, plain2, broken, moved, rushed}
    Uses <- PlainPair
    Requests = {q1, q2}
    Impatient = {rushed}
    Faulty = {broken}
    Outages = {rushed}
    Touched = {moved}
    Deposit = 2
    Tariff = 1
    Attempts = 2
    MaxInvoices = 3
    MaxSends = 2
    MaxTouches = 1
    Callings = {k1, k2}
    Crews <- TwoCrews
    Solo <- ChoresOnly
    Lasting <- Sales
    Goods = {g1, g2}
    Steady = {g1}
    Looked = {g2}
    Tokens = {1, 2, 3, 4, 5, 6}
    MaxItems = 2
    MaxTroubles = 1
    Dealers = {d1, d2}
    Shifts <- Days
    MaxPrice = 2
    MaxMoves = 1
    MaxEdits = 1
    MaxFaults = 1
SPECIFICATION Spec
CHECK_DEADLOCK FALSE
INVARIANTS
    GatewaysTypeOK
    ChargedOncePerRef
    
    
    RouteIsOwn
PROPERTIES
    PartnerLearnsEnd
    GatewayImplementsLedger
    SessionHeals
    PriceReachesShop
