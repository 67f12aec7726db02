CONSTANT
  MaxMessages <- MCMaxMessages
SPECIFICATION Spec
CHECK_DEADLOCK FALSE
INVARIANTS
  SentInOrder
PROPERTY
  MainReturns
