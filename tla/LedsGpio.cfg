SPECIFICATION Spec
CONSTANTS
    u1 = u1
    N = 3
    ActiveLow = {2}
    CanSleep = {2}
    Brightness = {0, 255}
    Users = {u1}
    Core = Core
    Worker = Worker
    NoSet = NoSet
INVARIANTS
    TypeOK
    ResourcesHeld
    SettledLevel
