SPECIFICATION QueueSpec
CONSTANTS
    Threads = {t1, t2, t3}
    Items = {a, b}
    MaxSize = 2
INVARIANTS
    QueueTypeOK
    NoSleepers
PROPERTIES
    ImplementsChannel
    CloseEndsPop
CHECK_DEADLOCK FALSE
