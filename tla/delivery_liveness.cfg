\* Two mails, one fault, under the fairness of the worker, of time and of the upstreams.
SPECIFICATION FairSpec
CONSTANTS
    u1 = u1
    NoUser = NoUser
    Users = {u1}
    MaxId = 2
    BatchSize = 2
    RetryLimit = 1
    AttemptCap = 3
    MaxAccounts = 1
    MaxFaults = 1
PROPERTIES
    NothingForgotten
\* The bounded instance really may stop: nothing left to submit or to do.
CHECK_DEADLOCK FALSE
