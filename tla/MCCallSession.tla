---------------------------- MODULE MCCallSession ----------------------------
(***************************************************************************)
(* Instances of CallSession for TLC.                                       *)
(***************************************************************************)
EXTENDS CallSession

\* One consolidated report on one channel, with and without a recording.
OneReport ==
  {c \in ConfigType :
     /\ c.email /\ c.onCallEnd /\ c.channels = 1 /\ c.transcripts
     /\ c.onMessage /\ ~c.onBooking /\ ~c.summary}

LiveReport == {c \in OneReport : ~c.recording}

Ways(i) == {w \in {"silence", "maximum", "unproductive", "endKey"} : i[w]}

\* One watcher or the end key on: with end_call and the close event, three
\* tasks race to finalize the call.  The absolute timer comes with the
\* silence watcher: a caller without a final transcript does without it.
Single ==
  {i \in IdleConfig : (i.absolute <=> i.silence) /\ Cardinality(Ways(i)) = 1}
=============================================================================
