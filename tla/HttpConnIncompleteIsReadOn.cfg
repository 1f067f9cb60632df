SPECIFICATION Spec
CONSTANTS
  BodyLength = 2
  Streams <- OneAndTwoRequests
  READ_BUFFER_SIZE = 12
  HeaderUnits = 3
  FileUnits = 1
  Resources = {"missing", "unreadable", "directory", "empty", "file", "unopenable"}
  MaxShorts = 2
INVARIANT
  IncompleteIsReadOn
CHECK_DEADLOCK FALSE
