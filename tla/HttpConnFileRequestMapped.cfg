SPECIFICATION Spec
CONSTANTS
  BodyLength = 2
  Streams <- OneAndTwoRequests
  READ_BUFFER_SIZE = 12
  HeaderUnits = 3
  FileUnits = 1
  Resources = {"file", "unopenable"}
  MaxShorts = 2
INVARIANT
  FileRequestIsMapped
CHECK_DEADLOCK FALSE
