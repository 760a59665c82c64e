\* Overlapping entries and the menu on the same keys: three presses against
\* the debounce window, the action in flight and the deadlines.
CONSTANTS
  Digits = {"1"}
  Entries = {e1, e2}
  Menus <- SharedMenus
  Lengths = {2, NoLength}
  NoLength = NoLength
  Debounce = 1
  MaxPresses = 3
  MaxTime = 1
  Nil = Nil
SPECIFICATION KeypadSpec
INVARIANTS AnswerAsTyped HolderPending OneAction Debounced
CHECK_DEADLOCK FALSE
