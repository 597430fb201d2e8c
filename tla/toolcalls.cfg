SPECIFICATION Spec
CONSTANTS
  Attempts = 1
  MaxPieces = 3
  Words <- MCWords
  Personal = {"pii"}
  MessageRequests <- MCMessageRequests
  ChatRequests <- MCChatRequests
CHECK_DEADLOCK FALSE
INVARIANTS
  ChatCallsDistinct
