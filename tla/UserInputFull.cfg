CONSTANTS
  Size = 7
  MaxFill = 7
  Wrap = 16
  Letters = {1}
  NL = 10
SPECIFICATION InputSpec
INVARIANT ExitOnlyIfTooLong
CHECK_DEADLOCK FALSE
