CONSTANTS
    Orders = {o1}
    Attempts = 2
    MaxPolls = 2
    NoTask = NoTask
SPECIFICATION FairSpec
PROPERTIES
    PaidOnlyFromPendingPayment
