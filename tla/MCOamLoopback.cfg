SPECIFICATION Spec
CONSTANTS
    RevMod = 4
INVARIANTS
    TypeOK
    FlagIsHardware
    RevisionTellsState
PROPERTIES
    OrphanedLoopback
