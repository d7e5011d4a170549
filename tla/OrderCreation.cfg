CONSTANTS
    Orders = {o1, o2}
    Customers = {u1}
    Prices = {0, 2}
    MaxFunds = 3
SPECIFICATION FairCreation
INVARIANTS
    ProcessingIsPaid
    ChargedOrKnown
PROPERTIES
    Decided
