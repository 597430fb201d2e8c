SPECIFICATION FairSpec
CONSTANTS
  Config <- MCConfig
  Models <- MCModels
  Infos <- MCInfos
  Loads <- MCLoads
  Hash <- MCHash
  First = "one"
  Requests <- MCRequests
  Scripts <- MCScripts
  Apart <- MCApart
  ByHand <- MCByHand
  MaxGen <- MCMaxGen
  MaxFaults = 1
CHECK_DEADLOCK FALSE
INVARIANTS
  TypeOK
  AppliedIsSaved
  BackupIsPrevious
  Recoverable
  NoStrangers
  LongestPrefixWins
  WakeNotLost
PROPERTY
  ShutdownEnds
  CatalogHeals
