CONSTANTS
    Orders = {o1}
    daily = daily
    monthly = monthly
    Plans <- MCPlans
    Term <- MCTerm
    Thresholds <- MCThresholds
    Grace <- MCGrace
    Suspends <- MCSuspends
    Window = 1
    Price = 1
    Funds = 2
    MaxTime = 7
    MaxFaults = 2
    Prompt = FALSE
SPECIFICATION FairSpec
INVARIANTS
    PaymentsExplained
    ServerRuns
PROPERTIES
    NeverEarly
    OnlyRenewalRevives
    ExpiryHandled
