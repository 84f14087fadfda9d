\* An admin approves a deposit while the gateway reports its payment.
CONSTANTS
    u1 = u1
    u2 = u2
    d1 = d1
    Users = {u1}
    Deposits = {d1}
    Depositor <- Owners
    Amount <- TwoUnits
    Jobs = {j1, j2}
    Instant = {d1}
    Reviewed = {d1}
    Overlapping = {}
    Edited = {}
    Postings <- UnitPostings
    InitBalance = 0
    DBFaults = FALSE
    MaxEdits = 0
    MaxPostings = 0
    MaxCrashes = 0
SPECIFICATION Spec
SYMMETRY JobSymmetry
CHECK_DEADLOCK FALSE
INVARIANTS
    ProcessedDepositKept
