SPECIFICATION Spec
CONSTANTS
    Block = {b1, b2, b3}
    Client = {laser, alarm}
    Once = {laser}
    Plain = {laser}
    Keeps = {laser, alarm}
    User = {app}
    Above = {}
    laser = laser
    alarm = alarm
    b1 = b1
    b2 = b2
    b3 = b3
    app = app
    Timer = Timer
    None = None
SYMMETRY Symmetric
INVARIANTS
    Accounted
