\* Two callers that find the lock stale that a third one could not remove: no
\* process crashes.
CONSTANTS
  c1 = c1
  c2 = c2
  c3 = c3
  p1 = p1
  p2 = p2
  p3 = p3
  Callers = {c1, c2, c3}
  Processes = {p1, p2, p3}
  ProcessOf <- Apart
  MaxCrashes = 0
  MaxIssued = 2
  None = None
SPECIFICATION VoiceSpec
INVARIANT SpentOnce
CHECK_DEADLOCK FALSE
