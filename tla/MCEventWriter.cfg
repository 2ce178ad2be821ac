CONSTANTS
  MaxEvents = 5
  IOErrors = TRUE
SPECIFICATION Spec
INVARIANTS NothingDisappears StopWritesEverything
PROPERTIES ImplementsEventLog EventuallyWritten
