SPECIFICATION Spec
CONSTANTS
    app = app
    shell = shell
    Reader = {app, shell}
    Width = 5
    Slacks = {0}
    Clearing = FALSE
    MaxFrames = 12
    MaxLag = 2
INVARIANTS
    NoPhantomFrames
