SPECIFICATION Spec
CONSTANTS
  Attempts = 2
  MaxPieces = 3
  Words <- MCWords
  Personal = {"pii"}
  MessageRequests <- MCMessageRequests
  ChatRequests <- MCChatRequests
CHECK_DEADLOCK FALSE
INVARIANTS
  TypeOK
  ContentKept
  StopAndUsageKept
  
  RequestKept
  NothingUnseen
PROPERTIES
  FollowsProtocol
