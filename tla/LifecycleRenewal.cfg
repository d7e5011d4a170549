CONSTANTS
    Orders = {o1}
    daily = daily
    monthly = monthly
    Plans <- MCPlans
    Term <- MCTerm
    Thresholds <- MCThresholds
    Grace <- MCGrace
    Suspends <- MCSuspends
    Window = 1
    Price = 1
    Funds = 2
    MaxTime = 8
    MaxFaults = 0
    Prompt = TRUE
SPECIFICATION FairSpec
INVARIANTS
    RenewedInTime
