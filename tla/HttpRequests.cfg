SPECIFICATION FairSpec
CONSTANTS
    r1 = r1
    r2 = r2
    ada = ada
    proxy = proxy
    peer = peer
    Unknown = Unknown
    Request <- MCRequest
    Caller <- MCCaller
    Limit = 1
CHECK_DEADLOCK FALSE
INVARIANTS
    NoFreeService
    UsageLogHonest
PROPERTY
    Answered
