\* A domain limit typed in mixed case, and two mails.
SPECIFICATION Spec
CONSTANTS
    d1 = d1
    d2 = d2
    Domains = {d1}
    Spellings = {"lower", "mixed"}
    Second = 2
    Windows <- MCWindows
    Hour = 1
    RetryDelay = 1
    AccountChoices <- NoLimits
    DomainChoices <- HourlyOnly
    MaxTime = 4
    MaxMails = 2
    MaxSends = 2
PROPERTIES
    DomainLimitsApply
\* The bounded instance really may stop: nothing left to submit or to do.
CHECK_DEADLOCK FALSE
