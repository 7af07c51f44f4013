SPECIFICATION FairSpec
CONSTANTS
    Objects = {o1, o2}
    NoObject = NoObject
    Writers = {w1, w2}
    Delays = {0, 100, 500}
    MayFail = {"delay_on", "delay_off"}
    HZ = 250
    Loads = {0, 2048, 2749645}
INVARIANTS
    TypeOK
    TimersOwnData
    AttributesOwnData
    PausesFit
    DataFreedOnce
PROPERTIES
    BlinksForEver
    SetReturns
