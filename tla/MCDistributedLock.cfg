CONSTANTS
    renewals = renewals
    cleanup = cleanup
    NoRow = NoRow
    i1 = i1
    i2 = i2
    Instances <- MCInstances
    Jobs <- MCJobs
    CleanupJob = cleanup
    TTL <- MCTTL
    Ticks <- MCTicks
    Jitter = 1
    MaxTime = 5
    Overrun = FALSE
SPECIFICATION Spec
INVARIANTS
    MutualExclusion
    RunnerHoldsLease
    SkippedForAReason
PROPERTIES
    LiveLeaseKept
SYMMETRY Symm
