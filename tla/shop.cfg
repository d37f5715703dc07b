SPECIFICATION FairSpec
CONSTANTS
    c1 = c1
    c2 = c2
    c3 = c3
    s1 = s1
    s2 = s2
    Checkouts = {c1, c2, c3}
    Skus = {s1, s2}
    Database = Database
    Free = Free
    Unwritten = Unwritten
    Stocks = {1, 2}
    MaxResets = 1
    Setups <- MCSetups
INVARIANTS TypeOK Conserved OversoldByRace NoEndlessWait
PROPERTIES ServesAsLedger CheckoutEnds
CHECK_DEADLOCK FALSE
