SPECIFICATION FairSpec
CONSTANTS
    Jobs = {j1, j2}
    MaxAttempts = 2
    MaxRetries = 0
    MaxFaults = 1
    None = None
PROPERTIES
    OutageSurvived
