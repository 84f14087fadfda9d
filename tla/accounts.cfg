\* A deposit paid by webhook, one approved by an admin, one both at once; u2 is edited by an admin; statements fail.
CONSTANTS
    u1 = u1
    u2 = u2
    d1 = d1
    Users = {u1, u2}
    Deposits = {d1, d2, d3}
    Depositor <- Owners
    Amount <- TwoUnits
    Jobs = {j1, j2}
    Instant = {d1, d3}
    Reviewed = {d2, d3}
    Overlapping = {d3}
    Edited = {u2}
    Postings <- UnitPostings
    InitBalance = 0
    DBFaults = TRUE
    MaxEdits = 1
    MaxPostings = 1
    MaxCrashes = 1
SPECIFICATION Spec
SYMMETRY JobSymmetry
CHECK_DEADLOCK FALSE
INVARIANTS
    AccountsTypeOK
    MutationsExplainBalance
    DepositCreditedOnce
    DepositSettled
