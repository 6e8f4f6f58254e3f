SPECIFICATION Spec
CONSTANTS
    Processes = {"p1"}
    Streams = {"stream1"}
    Refreshers = {"refresher1"}
    ProcessOf <- Process
    Tokens <- TokenIds
    Keys <- KeyIds
    ApprovalLockTTL = 2
    PublishDeadline = 1
    MaxFaults = 1
INVARIANTS
    DeadlineInsideLock OneIssuer IssuesOnlyWhenNeeded
PROPERTIES
    NeverRejectedAgain
