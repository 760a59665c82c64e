\* Three tool calls of two phone calls, two times with no more
\* than the buffer between them and one of the staff that overlaps both.
\* People with one name, and with numbers that end alike.
CONSTANTS
  r1 = r1
  r2 = r2
  r3 = r3
  c1 = c1
  c2 = c2
  Requests = {r1, r2, r3}
  Calls = {c1, c2}
  CallOf <- TwoCalls
  p1 = p1
  p2 = p2
  p3 = p3
  name1 = name1
  name2 = name2
  tail = tail
  Callers = {p1, p2, p3}
  NameOf <- Names
  TailOf <- Tails
  Slots = {0, 2}
  Duration = 2
  BufferBefore = 0
  BufferAfter = 1
  MaxBatches = 2
  MaxOffered = 2
  StaffTimes = {1}
  None = None
SPECIFICATION BookingSpec
SYMMETRY BookingSymmetry
INVARIANTS NoDoubleBookingInTurn OneContactInTurn
PROPERTIES OnlyOwnChanged MovedWhilePlanned
CHECK_DEADLOCK FALSE
