SPECIFICATION Spec
CONSTANTS
    Client = {c1, c2}
    CartId = {k1, k2}
    ItemId = {i1, i2}
    Malformed = malformed
    Quantity = {0, 1, 2}
    MaxRequests = 4
    MaxFaults = 1
SYMMETRY Symmetry
INVARIANTS
    TypeOK
    ItemsHaveCarts
    StaleOnlyIfMissed
PROPERTIES
    ImplementsCartService
