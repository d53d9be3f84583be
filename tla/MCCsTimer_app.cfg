SPECIFICATION FairSpec
CONSTANTS
    Block = {b1, b2, b3}
    Client = {alarm, monitor, silence}
    Once = {silence}
    Plain = {silence}
    Keeps = {alarm, monitor}
    User = {app}
    Above = {}
    alarm = alarm
    monitor = monitor
    silence = silence
    b1 = b1
    b2 = b2
    b3 = b3
    app = app
    Timer = Timer
    None = None
INVARIANTS
    PoolCount
    NoFreedTimer
    Accounted
    DeletedIsSilent
PROPERTY PeriodicFires
