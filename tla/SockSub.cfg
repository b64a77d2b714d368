CONSTANTS
  BufferLimit = 3
  MaxArrivals = 5
  MaxErrors = 2
SPECIFICATION Spec
INVARIANTS
  DeafOnlyAfterFault
PROPERTIES
  EverythingRead
