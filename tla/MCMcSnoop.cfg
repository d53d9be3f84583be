SPECIFICATION Spec
CONSTANTS
    p1 = p1
    p2 = p2
    g1 = g1
    g2 = g2
    g3 = g3
    s1 = s1
    s2 = s2
    s3 = s3
    Ports = {p1, p2}
    Groups = {g1, g2, g3}
    Mac <- MCMac
    DftGroup <- MCDftGroup
    Sources = {s1, s2, s3}
    GMI = 2
    LMQT = 1
    MaxSrc = 2
    GrpCap = 2
    PortGrpCap = 2
    MaxChanges = 1
    Modes = {"SNOOPING", "MANUAL"}
    Reports <- MCReports
INVARIANTS
    FdbFollowsState
    CountsExact
    EntriesWellFormed
    RecordTable
    ForwardedIsServed
    AnswerIsHeard
    AgesOut
