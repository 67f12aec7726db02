CONSTANT
  MaxMessages <- MCMaxMessages
SPECIFICATION Spec
CHECK_DEADLOCK FALSE
PROPERTY
  CameraStopFrees
