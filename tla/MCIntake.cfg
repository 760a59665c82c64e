\* Three answers of two case types, two finalizations.
CONSTANTS
  Answers = {a1, a2, a3}
  Finals = {f1, f2}
  Cases = {k1, k2}
  Questions = {q1, q2}
  None = None
SPECIFICATION IntakeSpec
SYMMETRY IntakeSymmetry
INVARIANTS NoMixedCases FinalOnDisk IntakeOnDisk AnswersInTurnOnDisk FinalReported
CHECK_DEADLOCK FALSE
