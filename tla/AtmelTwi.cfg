SPECIFICATION FairSpec
CONSTANTS
    MaxMsgs = 2
    MaxLen = 3
    MaxAcks = 4
INVARIANTS
    TypeOK
    SuccessMeansMoved
    VerdictHonest
    QuietBetweenTransfers
PROPERTIES
    InterruptCauseRemoved
    XferReturns
