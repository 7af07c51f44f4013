SPECIFICATION Spec
CONSTANTS
    Channels = {0, 1, 2}
    Mask = {0, 1}
    Clients = {h1, h2}
    NoClient = NoClient
    Prescales = {8, 9, 10}
    Divs = {255, 256}
INVARIANTS
    TypeOK
    ClockBalance
    ChannelsQuiet
    GrantedClocksKept
