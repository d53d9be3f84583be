SPECIFICATION Spec
CONSTANTS
    Poll = 2
    SymbolsPerPoll = 3
    FramesPerPoll = 2
    WinMin <- MCWinMin
    WinMax <- MCWinMax
    Commands <- MCCommands
    DefWindow <- MCDefWindow
    DefThreshold <- MCDefThreshold
    WordMod = 7
    SeqMod = 3
    MaxFrames = 2
    MaxErrors = 2
    MaxSymbols = 1
INVARIANTS
    TypeOK
    ErrorConservation
    EventNumbers
    TotalsDelivered
    ClosedInTime
