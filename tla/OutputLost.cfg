SPECIFICATION OutputSpec
CONSTANTS
  Streams = {"stdout", "stderr"}
  Lines <- MCLines
  PipeSize = 2
  LongLines <- MCLongLines
  Texts <- MCTexts
  EventTexts <- MCEventTexts
  Levels = {0, 4, 8}
  Logs = "logs"
  Events = "events"
  Targets = {"logs", "events"}
  Capacity = 2
  MaxEvents = 1
CHECK_DEADLOCK FALSE
INVARIANT OutputForwarded
