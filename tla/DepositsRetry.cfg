CONSTANTS
    DepositIds = {d1}
    Attempts = 2
    NoRow = NoRow
SPECIFICATION FairSpec
INVARIANTS
    FailedIsUnclaimed
