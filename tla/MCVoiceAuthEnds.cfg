\* Two callers in one process and one in another, of which one may crash and
\* any may leave a lock it cannot write or remove.
CONSTANTS
  c1 = c1
  c2 = c2
  c3 = c3
  p1 = p1
  p2 = p2
  p3 = p3
  Callers = {c1, c2, c3}
  Processes = {p1, p2}
  ProcessOf <- Together
  MaxCrashes = 1
  MaxIssued = 1
  None = None
SPECIFICATION FairVoiceSpec
PROPERTY CallersAnswered
CHECK_DEADLOCK FALSE
