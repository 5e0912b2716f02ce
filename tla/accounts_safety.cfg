\* Two accounts ever created, one of which has its settings changed, two requests at a time.
SPECIFICATION Spec
CONSTANTS
    n1 = n1
    n2 = n2
    w1 = w1
    w2 = w2
    basic = basic
    pro = pro
    h1 = h1
    h2 = h2
    Unknown = Unknown
    Names = {n1, n2}
    Passwords = {w1, w2}
    Plans = {basic, pro}
    Handlers = {h1, h2}
    Managed = {1}
    MaxId = 2
    MaxSessions = 1
SYMMETRY Symmetry
CONSTRAINT Apart
INVARIANTS
    TypeOK
    SettingsKept
    RotatesByExcuse
    ActsForOpener
    OnlyFormerPasswords
