\* Liveness: every ended call is reported, a silent caller is released; the
\* entries and the actions of the keypad end.
CONSTANTS
  Messages = {}
  Submissions = {}
  FinalSubmissions = {}
  PlainOutcomes = {}
  Reasons = {"caller_goodbye", "silence_timeout", "unproductive_turns_exhausted", "max_duration_reached"}
  EndCalls = {}
  EndCallReasons = {"caller_goodbye", "other"}
  Finalizers = {"silence", "duration", "unproductive", "end_key", "close"}
  MaxChannels = 1
  None = None
  Configs <- LiveReport
  IdleConfigs <- Single
  Digits = {"1"}
  Entries = {e1, e2}
  Menus <- OneKeyMenus
  Lengths = {2}
  NoLength = NoLength
  Debounce = 0
  MaxPresses = 2
  MaxTime = 0
  Nil = Nil
SPECIFICATION EndsSpec
PROPERTIES EndedCallIsReported SilentCallerReleased FanOutCompletes EntryReturns ActionsEnd
CHECK_DEADLOCK FALSE
