\* Three launchers; two callers in one process and one in another, of which
\* one may crash.
CONSTANTS
  Launchers = {l1, l2, l3}
  NoToken = NoToken
  c1 = c1
  c2 = c2
  c3 = c3
  p1 = p1
  p2 = p2
  Callers = {c1, c2, c3}
  Processes = {p1, p2}
  ProcessOf <- Shared
  MaxCrashes = 1
  MaxIssued = 2
  None = None
SPECIFICATION ProcessSpec
INVARIANTS NewestServes HoldersSpendOnce FileUsable
PROPERTY StaleWorkersGo
CHECK_DEADLOCK FALSE
