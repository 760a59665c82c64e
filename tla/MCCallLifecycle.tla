--------------------------- MODULE MCCallLifecycle ---------------------------
(***************************************************************************)
(* Instances of CallLifecycle for TLC.                                     *)
(***************************************************************************)
EXTENDS CallLifecycle, TLC

\* The combinations of switches the configuration validator accepts.
ValidConfig ==
  {c \in ConfigType :
     /\ ~c.email => /\ c.channels = 0 /\ ~c.onMessage /\ ~c.onCallEnd
                    /\ ~c.onBooking /\ ~c.summary
     /\ c.onCallEnd => c.onMessage /\ c.onBooking
     /\ ~c.onCallEnd => ~c.summary}

\* Every way of sending emails, with both artifacts or none, on as many
\* channels as there are or on none.
FanOutConfig ==
  {c \in ValidConfig : c.channels \in {0, MaxChannels}
                       /\ (c.transcripts <=> c.recording)}

\* Messages, reasons and the tasks of on_call_ended are interchangeable.
DataSymmetry ==
  Permutations(Messages) \cup Permutations(Finalizers) \cup Permutations(Reasons)
=============================================================================
