SPECIFICATION Spec
CONSTANTS
    app = app
    shell = shell
    Reader = {app, shell}
    Width = 8
    Slacks = {0, 3}
    Clearing = TRUE
    MaxFrames = 17
    MaxLag = 2
SYMMETRY Symmetry
INVARIANTS
    ExactAlone
    OffByWraps
    NoPhantomBeforeWrap
