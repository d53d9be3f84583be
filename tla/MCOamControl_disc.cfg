SPECIFICATION Spec
CONSTANTS
  PktCount = 2
  PduTimer = 1
  LinkLost = 2
  Revs = {1, 2}
  NoRev = 65535
  Seqs = {1}
  NoSeq = 65535
  Version = {"v21", "v20", "v30"}
  VerList <- MCVerList
  OltPdus <- DiscPdus
INVARIANTS TypeOK DiscSettled SmRunTerminates RateLimit NothingPending StableFlag
PROPERTIES KeepAlive NewRevisionNeeded
