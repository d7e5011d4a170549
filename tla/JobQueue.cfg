SPECIFICATION FairSpec
CONSTANTS
    Jobs = {j1, j2}
    MaxAttempts = 2
    MaxRetries = 2
    MaxFaults = 1
    None = None
INVARIANTS
    TypeOK
    NothingLost
    MailedOnce
PROPERTIES
    QueueDrains
