SPECIFICATION FairPool
CONSTANTS
    Accounts = {a1, a2}
    Requests = {p1, p2}
    Managed = {a1}
    Limit <- OneEach
    MaxOutages = 1
    None = None
    Failed = Failed
INVARIANTS
    PoolTypeOK
    RefusalJustified
PROPERTIES
    CountConverges
    HealthRecovers
