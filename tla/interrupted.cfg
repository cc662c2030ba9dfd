\* The terminal after Ctrl-C.
SPECIFICATION CliSpec
CONSTANTS
  Messages = 1
  MaxCalls = 1
  None = None
  Emptied = Emptied
INVARIANT CursorSurvivesInterrupts
CHECK_DEADLOCK FALSE
