\* One account, two faults: the retry, crash and deletion races of two mails in one batch.
SPECIFICATION Spec
CONSTANTS
    u1 = u1
    NoUser = NoUser
    Users = {u1}
    MaxId = 2
    BatchSize = 2
    RetryLimit = 1
    AttemptCap = 3
    MaxAccounts = 2
    MaxFaults = 2
INVARIANTS
    TypeOK
    SnapshotCurrent
    SentMeansAccepted
    OnceUnlessUnclear
    FailedMeansExhausted
    RetryBudget
    LogAgrees
PROPERTIES
    SettledIsFinal
    ImplementsOutbox
\* An empty queue with no session left and no account to open one really may stop.
CHECK_DEADLOCK FALSE
