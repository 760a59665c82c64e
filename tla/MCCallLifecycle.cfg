\* Two racing calls of on_call_ended over every way of sending emails, two
\* messages, two reasons, two channels.
CONSTANTS
  Messages = {m1, m2}
  Submissions = {final}
  FinalSubmissions = {final}
  PlainOutcomes = {"transferred"}
  Reasons = {goodbye, silence}
  Finalizers = {f1, f2}
  MaxChannels = 2
  None = None
  Configs <- FanOutConfig
SPECIFICATION Spec
SYMMETRY DataSymmetry
INVARIANTS ArtifactsBeforeMail NoDuplicateMail OneReportPerChannel EarlyDataReported
PROPERTY ReportedOnce
