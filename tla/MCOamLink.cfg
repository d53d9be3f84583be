SPECIFICATION FairLinkSpec
CONSTANTS
  PktCount = 2
  PduTimer = 1
  LinkLost = 1
  Revs = {1, 65535}
  NoRev = 65535
  Seqs = {1}
  NoSeq = 65535
  Version = {"v21", "v20", "v30"}
  VerList <- MCVerList
  OltPdus <- MCOltPdus
  OltVersions <- MCOltVersions
  Cap = 1
  MaxUpsets = 2
INVARIANTS VersionCommon
PROPERTIES ImplementsSession ComesUp CtcSettles ExtAnswered ExtRefusalFinal
