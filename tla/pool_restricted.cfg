\* One user, one upstream, one request at a time.
SPECIFICATION Spec
CONSTANTS
    u1 = u1
    u2 = u2
    h1 = h1
    h2 = h2
    Users = {u1}
    System = System
    Handlers = {h1}
    MaxId = 1
INVARIANTS
    RestrictedUsesSystem
