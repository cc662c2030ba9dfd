\* The program called on one output path until two conversions were begun, each
\* with any command line, killed anywhere; bags of two messages.
SPECIFICATION CliSpec
CONSTANTS
  Messages = 2
  MaxCalls = 2
  None = None
  Emptied = Emptied
INVARIANTS
  TypeOK
  PublishedIsWhole
  ReturnsItsOwnBag
  RetryIsNotBlocked
  TemporariesAreRemoved
  StatusIsTrue
  CursorIsRestored
PROPERTY NeverOverwrites
\* The last conversion ends and no other follows.
CHECK_DEADLOCK FALSE
