SPECIFICATION Spec
CONSTANTS
    Orders = {o1}
    Initiations = 1
    Attempts = 1
    MaxRetries = 3
INVARIANTS
    NotifiedIsPaid
