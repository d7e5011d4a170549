SPECIFICATION Spec
CONSTANTS
    Orders = {o1}
    Initiations = 2
    Attempts = 2
    MaxRetries = 2
INVARIANTS
    PaidIsPaid
    AnsweredIsFinal
    PaymentTraced
PROPERTIES
    PaidStays
