\* Three requests at a time over four names, one of them never created at the start.
SPECIFICATION Spec
CONSTANTS
    starter = starter
    pro = pro
    custom = custom
    missing = missing
    h1 = h1
    h2 = h2
    h3 = h3
    Names = {starter, pro, custom, missing}
    Seeds = {starter, pro}
    Starter = starter
    NoName = NoName
    Handlers = {h1, h2, h3}
INVARIANTS
    SoleDefault
