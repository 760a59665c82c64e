\* Two messages over each layout of channels, four calls for two addresses,
\* four turns, four errors, two sweeps over a transcript and a failure record for
\* two days, three runs of the provisioning with any of five plans.
CONSTANTS
  Messages = {m1, m2}
  Layouts <- TestLayouts
  MaxAttempts = 3
  Addresses = {e1, e2}
  MaxCalls = 4
  NoAddress = NoAddress
  Threshold = 2
  MaxTurns = 4
  Unscored = Unscored
  MaxRecoveries = 2
  MaxErrors = 4
  Files = {transcript, failure}
  Failures = {failure}
  Sweeps = {s1, s2}
  RetentionDays = {0, 1}
  MaxDay = 2
  Unset = Unset
  Runs = {r1, r2, r3}
  Plans <- TestPlans
  NoUser = NoUser
SPECIFICATION PartSpec
SYMMETRY PartSymmetry
INVARIANTS SavedHasCopy RecordSaysReplay PostedAgainAfterTransient SendsReadBack CountIsStreak RejectedReplyRetried OnlyExpiredRemoved CleanSweepClears ProvisionedOnce
CHECK_DEADLOCK FALSE
