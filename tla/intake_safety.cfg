\* Two connections and two messages, each with up to two attempts that go wrong.
SPECIFICATION Spec
CONSTANTS
    u1 = u1
    s1 = s1
    s2 = s2
    m1 = m1
    m2 = m2
    a = a
    b = b
    bad = bad
    Users = {u1}
    NoUser = NoUser
    Sessions = {s1, s2}
    Messages = {m1, m2}
    NoMessage = NoMessage
    Recipients = {a, b, bad}
    Valid = {a, b}
    Envelope <- MCEnvelope
    MaxTroubles = 2
INVARIANTS
    TypeOK
    AcceptedIsQueued
    RepeatsCounted
    OnlyFormerSessions
