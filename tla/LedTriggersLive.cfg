SPECIFICATION FairSpec
CONSTANTS
    l1 = l1
    l2 = l2
    t1 = t1
    t2 = t2
    p1 = p1
    p2 = p2
    p3 = p3
    Leds = {l1}
    Triggers = {t1}
    Threads = {p1, p2, p3}
    NoTrigger = NoTrigger
    NoThread = NoThread
    DefaultTrigger <- BothDefault
    Requests = {"store", "show", "led_register", "led_unregister", "trig_register", "trig_unregister"}
    CreateMayFail = FALSE
    MaxOps = 4
CHECK_DEADLOCK FALSE
PROPERTIES
    OperationsReturn
