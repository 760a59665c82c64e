\* An older entry's deadline against a newer entry.
CONSTANTS
  Digits = {"1"}
  Entries = {e1, e2}
  Menus <- SharedMenus
  Lengths = {2, NoLength}
  NoLength = NoLength
  Debounce = 0
  MaxPresses = 3
  MaxTime = 0
  Nil = Nil
SPECIFICATION KeypadSpec
INVARIANT NewerCaptureKept
CHECK_DEADLOCK FALSE
