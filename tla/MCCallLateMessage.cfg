\* A take_message still dispatching when the call is finalized.
CONSTANTS
  Messages = {m1}
  Submissions = {}
  FinalSubmissions = {}
  PlainOutcomes = {}
  Reasons = {"caller_goodbye", "silence_timeout", "unproductive_turns_exhausted", "max_duration_reached"}
  EndCalls = {"end_call"}
  EndCallReasons = {"caller_goodbye", "other"}
  Finalizers = {"end_call", "silence", "duration", "unproductive", "end_key", "close"}
  MaxChannels = 1
  None = None
  Configs <- LiveReport
  IdleConfigs <- Single
SPECIFICATION SessionSpec
INVARIANT EnqueuedMessagesFired
CHECK_DEADLOCK FALSE
