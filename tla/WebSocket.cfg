SPECIFICATION WsFairSpec
CONSTANTS
  MaxMessages <- MCMaxMessages
  MaxMessageParts = 2
  MaxInvalid = 1
INVARIANTS
  CloseIsFinal
PROPERTIES
  ImplementsStreams
  GonePeerIsNoticed
CHECK_DEADLOCK FALSE
