\* Each way of ending a call against the end_call tool, a message in
\* flight, the caller and the close event.
CONSTANTS
  Messages = {m1}
  Submissions = {}
  FinalSubmissions = {}
  PlainOutcomes = {}
  Reasons = {"caller_goodbye", "silence_timeout", "unproductive_turns_exhausted", "max_duration_reached"}
  EndCalls = {"end_call"}
  EndCallReasons = {"caller_goodbye", "other"}
  Finalizers = {"end_call", "silence", "duration", "unproductive", "end_key", "close"}
  MaxChannels = 1
  None = None
  Configs <- OneReport
  IdleConfigs <- Single
SPECIFICATION SessionSpec
INVARIANTS CallerReleasedBeforeMail AgentEndNotHungUp
PROPERTY NoTimerAfterClose
CHECK_DEADLOCK FALSE
