CONSTANTS
    DepositIds = {d1, d2}
    Attempts = 2
    NoRow = NoRow
SPECIFICATION FairSpec
INVARIANTS
    CreditedOnce
    NothingLostInSilence
    CreditedLooksPaid
PROPERTIES
    ImplementsAtomicDeposit
    PaymentSettled
