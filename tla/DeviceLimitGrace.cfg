SPECIFICATION Spec
CONSTANTS
    c1 = c1
    c2 = c2
    c3 = c3
    c4 = c4
    u1 = u1
    u2 = u2
    a1 = a1
    a2 = a2
    None = None
    Conns <- FourConns
    Users <- OneUser
    Addrs <- TwoAddrs
SYMMETRY Symmetric
PROPERTIES
    PreviouslySeenPasses
