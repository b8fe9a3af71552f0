CONSTANTS
  Size = 11
  MaxFill = 6
  Wrap = 32
  Letters = {1, 2}
  NL = 10
SPECIFICATION InputSpec
INVARIANTS
  InputTypeOK
  LineAsTyped
