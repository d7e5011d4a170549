CONSTANTS
    c1 = c1
    c2 = c2
    c3 = c3
    u1 = u1
    u2 = u2
    NoWallet = NoWallet
    Users <- MCUsers
    Calls <- MCCalls
    Amounts = {0, 1, 2}
    MaxInt = 3
SPECIFICATION Spec
INVARIANTS
    LedgerExplainsBalance
    NoOverdraft
PROPERTIES
    ImplementsAtomicWallet
SYMMETRY Symm
