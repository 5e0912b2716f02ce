\* Two users, two upstreams ever created, two requests at a time.
SPECIFICATION Spec
CONSTANTS
    u1 = u1
    u2 = u2
    h1 = h1
    h2 = h2
    Users = {u1, u2}
    System = System
    Handlers = {h1, h2}
    MaxId = 2
SYMMETRY Symmetry
INVARIANTS
    TypeOK
    OwnUpstreamsOnly
