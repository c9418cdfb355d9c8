SPECIFICATION Spec
CONSTANTS
    NumEvents = 3
    NumEnrollments = 2
    ana = ana
    w1 = w1
    w2 = w2
    None = None
    Users = {ana}
    Owner <- SameOwner
    Workers = {w1, w2}
    Deployments <- SmallDeployments
    Impacts <- FirstThenBoth
    Choices <- AllOrNothing
    Unsendable <- RefusedEmails
    Limit <- Limits
    Lease = 2
    MaxSend = 1
    RetryBase = 1
    RetryExp = 0
    RetryCap = 1
    MaxFaults = 1
INVARIANTS
    FanOutAtomic
    ClaimIsExclusive
    MailedOnceUnlessLost
PROPERTIES
    SettledIsFinal
    RefinesLedger
    BacklogSettles
