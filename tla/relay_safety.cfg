\* Three upstreams, all texts of up to three lines and some others.
SPECIFICATION Spec
CONSTANTS
    p1 = p1
    p2 = p2
    p3 = p3
    Upstreams = {p1, p2, p3}
    Mails <- SomeMails
SYMMETRY Symmetry
INVARIANTS
    TypeOK
    EveryUpstreamOnce
    TurnsTaken
    SenderForced
    RestKept
