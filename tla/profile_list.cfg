SPECIFICATION Spec
CONSTANTS
    n1 = n1  n2 = n2  n3 = n3  n4 = n4
    u1 = u1  u2 = u2  u3 = u3  u4 = u4
    Addresses = {n1, n2, n3, n4}
    Users = {u1, u2, u3, u4}
    NULL = NULL
INVARIANTS TypeOK LinksAreLive OneProfilePerUser
PROPERTY ImplementsSet
SYMMETRY AnyUserAnywhere
