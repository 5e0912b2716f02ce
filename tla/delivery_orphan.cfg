\* One mail whose account is deleted while a session is still open.
SPECIFICATION FairSpec
CONSTANTS
    u1 = u1
    NoUser = NoUser
    Users = {u1}
    MaxId = 1
    BatchSize = 2
    RetryLimit = 1
    AttemptCap = 3
    MaxAccounts = 1
    MaxFaults = 0
PROPERTIES
    RetriesEnd
\* The bounded instance really may stop: nothing left to submit or to do.
CHECK_DEADLOCK FALSE
