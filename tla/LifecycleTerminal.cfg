CONSTANTS
    Orders = {o1}
    daily = daily
    monthly = monthly
    Plans <- MCPlans
    Term <- MCTerm
    Thresholds <- MCThresholds
    Grace <- MCGrace
    Suspends <- MCSuspends
    Window = 1
    Price = 1
    Funds = 2
    MaxTime = 6
    MaxFaults = 0
    Prompt = FALSE
SPECIFICATION FairSpec
PROPERTIES
    TerminatedFinal
