CONSTANTS
    Orders = {o1}
    Attempts = 2
    MaxPolls = 2
    NoTask = NoTask
SPECIFICATION FairSpec
INVARIANTS
    OneDroplet
    ActiveHasServer
    ProvisioningHasTask
PROPERTIES
    ProvisioningEnds
    ActiveStays
