CONSTANTS
  Records = {"funds"}
  Sheets = TRUE
  IOErrors = TRUE
  MaxEvents = 2
  Handlers <- SomeHandlers
  Events = {1, 2}
SPECIFICATION OneThreadSpec
INVARIANTS RecordsCurrent ShutdownLeavesNothing
CHECK_DEADLOCK FALSE
PROPERTIES RecordsEventuallyWritten
