\* Two domains, two mails, limits that change while a mail is checked.
SPECIFICATION Spec
CONSTANTS
    d1 = d1
    d2 = d2
    Domains = {d1, d2}
    Spellings = {"lower"}
    Second = 2
    Windows <- MCWindows
    Hour = 1
    RetryDelay = 1
    AccountChoices <- MCAccountChoices
    DomainChoices <- MCDomainChoices
    MaxTime = 4
    MaxMails = 2
    MaxSends = 2
SYMMETRY Symmetry
INVARIANTS
    TypeOK
PROPERTIES
    PassAllowed
    HoldNeeded
\* The bounded instance really may stop: nothing left to submit or to do.
CHECK_DEADLOCK FALSE
