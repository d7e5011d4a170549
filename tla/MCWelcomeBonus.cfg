SPECIFICATION Spec
CONSTANTS
    Claims = {c1, c2, c3}
    Users = {u1, u2}
    limited = limited
    unlimited = unlimited
    Promos = {limited, unlimited}
    MaxUses <- Uses
    MaxChanges = 2
    None = None
INVARIANTS
    TwiceForAReason
    LimitForAReason
    UsesCounted
SYMMETRY Symm
