-------------------------- MODULE CallSessionProofs --------------------------
(***************************************************************************)
(* Theorems about CallSession for every value of its constants: a session  *)
(* takes only steps of the lifecycle, so what CallLifecycle promises holds *)
(* in a call; no goodbye task mails before it has released the caller; a   *)
(* call the agent ended is not reported as hung up; and no idle timer      *)
(* outlives the close event.                                               *)
(***************************************************************************)
EXTENDS CallSession, CallRefinementProofs

(***************************************************************************)
(* The agent-end reasons a session passes on are in the vocabulary.        *)
(***************************************************************************)
LEMMA SafeReasonTyped == \A r : SafeReason(r) \in Reasons
  BY SessionAssumption DEF SafeReason, AgentEndReasons

\* Every end path, and the close handler, is a caller of on_call_ended.
LEMMA PathsFinalize == Paths \subseteq Finalizers /\ "close" \in Finalizers
  BY SessionAssumption

(***************************************************************************)
(* A path that ends the call records it, or (the end key, and a silence    *)
(* timer that has fired before) leaves the lifecycle alone.                *)
(***************************************************************************)
LEMMA EndedByAgentStep ==
  ASSUME NEW p, NEW r \in Reasons, EndedByAgent(p, r) PROVE Next
  BY DEF EndedByAgent, Next, Tools

\* The silence watchers record the end, or leave the lifecycle alone.
LEMMA ScheduleSilenceStep ==
  ASSUME ScheduleSilence PROVE Next \/ UNCHANGED vars
  <1>1. "silence_timeout" \in Reasons
    BY SessionAssumption DEF AgentEndReasons
  <1> QED
    BY <1>1, EndedByAgentStep DEF ScheduleSilence

(***************************************************************************)
(* Every step of a session is a step of its lifecycle object, or leaves it *)
(* alone.                                                                  *)
(***************************************************************************)
LEMMA SessionStepIsLifecycleStep ==
  ASSUME [SessionNext]_allVars PROVE [Next]_vars
  <1>1. CASE SetupStep
    BY <1>1 DEF SetupStep, BeginSetup, RecordingIsAnswered, SessionStarts,
                Next, Setup
  <1>2. CASE TimerStep
    <2>1. "max_duration_reached" \in Reasons
      BY SessionAssumption DEF AgentEndReasons
    <2> QED
      BY <1>2, <2>1, ScheduleSilenceStep, EndedByAgentStep
      DEF TimerStep, GraceExpires, AbsoluteExpires, MaximumExpires
  <1>3. ASSUME NEW p \in EndCalls, EndCall(p) PROVE Next
    BY <1>3, SafeReasonTyped, EndedByAgentStep DEF EndCall
  <1>4. CASE UnproductiveTurns
    <2>1. "unproductive_turns_exhausted" \in Reasons
      BY SessionAssumption DEF AgentEndReasons
    <2> QED
      BY <1>4, <2>1, EndedByAgentStep DEF UnproductiveTurns
  <1>5. CASE EndKey \/ UserGoesAway \/ UserComesBack \/ FinalTranscript
    BY <1>5 DEF EndKey, UserGoesAway, UserComesBack, FinalTranscript
  <1>6. ASSUME NEW p \in Paths, GoodbyeStep(p) PROVE [Next]_vars
    BY <1>6, PathsFinalize
    DEF GoodbyeStep, Speak, PlayoutEnds, RemoveAnswered, DeleteAnswered,
        GoodbyeFinalizes, Next
  <1>7. CASE CallerHangsUp \/ HandleClose
    BY <1>7 DEF CallerHangsUp, HandleClose
  <1>8. CASE CloseFinalizes
    BY <1>8, PathsFinalize DEF CloseFinalizes, Next
  <1>9. ASSUME NEW m \in Messages, TakeMessage(m) \/ MessageDispatched(m)
        PROVE  [Next]_vars
    BY <1>9 DEF TakeMessage, MessageDispatched, Next, Tools
  <1>10. ASSUME NEW f \in Finalizers, FanOut(f) PROVE Next
    BY <1>10 DEF FanOut, Next
  <1>11. CASE UNCHANGED allVars
    BY <1>11 DEF allVars
  <1> QED
    BY <1>1, <1>2, <1>3, <1>4, <1>5, <1>6, <1>7, <1>8, <1>9, <1>10, <1>11
    DEF SessionNext

(***************************************************************************)
(* A session implements the lifecycle specification, with the timers, the  *)
(* goodbye tasks and the close handler as its callers of on_call_ended.    *)
(***************************************************************************)
THEOREM SessionImplementsLifecycle == SessionSpec => Spec
  <1>1. SessionInit => Init
    BY DEF SessionInit
  <1>2. [SessionNext]_allVars => [Next]_vars
    BY SessionStepIsLifecycleStep
  <1> QED
    BY <1>1, <1>2, PTL DEF SessionSpec, Spec

(***************************************************************************)
(* So in every call, however it ends, no email is attempted twice and the  *)
(* call is reported as CallReport promises.                                *)
(***************************************************************************)
THEOREM SessionMailedOnce == SessionSpec => []NoDuplicateMail /\ ReportedOnce
  BY SessionImplementsLifecycle, MailedOnce, ImplementsCallReport, PTL

(***************************************************************************)
(* In a consolidated call each channel is sent one email, and in every     *)
(* call what was pending when it was finalized reaches every channel,      *)
(* whichever goodbye task or the close handler finalizes it and whatever   *)
(* message dispatch outlives the call.                                     *)
(***************************************************************************)
THEOREM SessionReported ==
  SessionSpec => []OneReportPerChannel /\ []EarlyDataReported
  BY SessionImplementsLifecycle, ReportedOncePerChannel, EarlyDataKept, PTL

-----------------------------------------------------------------------------
(***************************************************************************)
(* The invariant behind CallerReleasedBeforeMail: on_call_ended is called  *)
(* by a goodbye task that is past _terminate_room, or after the close      *)
(* event, which LiveKit sends when the caller or the room is gone; and a   *)
(* caller who is gone does not come back.                                  *)
(***************************************************************************)
Released == caller # "connected" \/ hangupFailed

CloseFansOut == brokeOff /\ pc["close"] \notin {"idle", "skipped"}

LineInv ==
  /\ goodbye \in [Paths -> GoodbyeLabels]
  /\ brokeOff \in BOOLEAN
  /\ room = "deleted" => caller # "connected"
  /\ closed => caller # "connected" \/ brokeOff
  /\ brokeOff => closed
  /\ \A p \in Paths : goodbye[p] = "finalize" => Released

ReleaseInv ==
  /\ LineInv
  /\ finalized => Released \/ CloseFansOut

lineVars == <<goodbye, caller, room, closed, hangupFailed, brokeOff>>

\* What no step of a tool, a timer or the fan-out touches.
LEMMA LineUntouched ==
  ASSUME LineInv, UNCHANGED lineVars PROVE LineInv'
  BY DEF LineInv, lineVars, Released

\* A step that only moves a goodbye task to a label short of "finalize".
LEMMA EarlierLabel ==
  ASSUME LineInv, NEW p \in Paths,
         NEW label \in GoodbyeLabels \ {"finalize"},
         GoodbyeGoto(p, label),
         UNCHANGED <<caller, room, closed, hangupFailed, brokeOff>>
  PROVE  LineInv'
  BY DEF LineInv, GoodbyeGoto, Released

\* Scheduling a goodbye releases nobody.
LEMMA SpawnKeepsRelease ==
  ASSUME LineInv, NEW p \in Paths, Spawn(p),
         UNCHANGED <<caller, room, closed, hangupFailed, brokeOff>>
  PROVE  LineInv'
  BY DEF LineInv, Spawn, GoodbyeLabels, Released

\* The steps of a goodbye task: it reaches "finalize" with the caller gone
\* or the hangup given up.
LEMMA GoodbyeKeepsRelease ==
  ASSUME LineInv, NEW p \in Paths, GoodbyeStep(p) PROVE LineInv'
  <1>1. CASE Speak(p) \/ PlayoutEnds(p)
    <2>1. \E label \in {"playout", "remove", "delete"} : GoodbyeGoto(p, label)
      BY <1>1 DEF Speak, PlayoutEnds, Terminate
    <2> QED
      BY <1>1, <2>1, EarlierLabel DEF Speak, PlayoutEnds, GoodbyeLabels
  <1>2. CASE RemoveAnswered(p)
    <2>1. CASE GoodbyeGoto(p, "delete") /\ UNCHANGED caller
      BY <1>2, <2>1, EarlierLabel DEF RemoveAnswered, GoodbyeLabels
    <2>2. CASE caller' = "dropped" /\ GoodbyeGoto(p, "finalize")
      BY <1>2, <2>2
      DEF RemoveAnswered, GoodbyeGoto, GoodbyeLabels, LineInv, Released
    <2> QED
      BY <1>2, <2>1, <2>2 DEF RemoveAnswered, FallBack
  <1>3. CASE DeleteAnswered(p)
    <2>1. /\ room' = "deleted" => caller' # "connected"
          /\ caller # "connected" => caller' # "connected"
          /\ Released' /\ UNCHANGED <<closed, brokeOff>>
      BY <1>3 DEF DeleteAnswered, LineInv, Released
    <2>2. goodbye' \in [Paths -> GoodbyeLabels]
      BY <1>3 DEF DeleteAnswered, GoodbyeGoto, GoodbyeLabels, LineInv
    <2> QED
      BY <2>1, <2>2 DEF LineInv
  <1>4. CASE GoodbyeFinalizes(p)
    BY <1>4, EarlierLabel DEF GoodbyeFinalizes, GoodbyeLabels
  <1> QED
    BY <1>1, <1>2, <1>3, <1>4 DEF GoodbyeStep

\* Every step of the session keeps what LineInv says of the line.
LEMMA LineStep ==
  ASSUME LineInv, [SessionNext]_allVars PROVE LineInv'
  <1>1. CASE SetupStep
    BY <1>1, LineUntouched
    DEF SetupStep, BeginSetup, RecordingIsAnswered, SessionStarts, lineVars
  <1>2. ASSUME NEW p \in Paths, NEW r, EndedByAgent(p, r),
               UNCHANGED <<caller, room, closed, hangupFailed, brokeOff>>
        PROVE  LineInv'
    BY <1>2, SpawnKeepsRelease DEF EndedByAgent
  <1>3. ASSUME ScheduleSilence PROVE LineInv'
    BY <1>2, <1>3, LineUntouched
    DEF ScheduleSilence, Paths, Watchers, lineVars
  <1>4. CASE TimerStep
    BY <1>2, <1>3, <1>4, LineUntouched
    DEF TimerStep, GraceExpires, AbsoluteExpires, MaximumExpires, Paths,
        Watchers, lineVars
  <1>5. ASSUME NEW p \in EndCalls, EndCall(p) PROVE LineInv'
    BY <1>2, <1>5 DEF EndCall, Paths
  <1>6. CASE UnproductiveTurns
    BY <1>2, <1>6 DEF UnproductiveTurns, Paths, Watchers
  <1>7. CASE EndKey
    BY <1>7, SpawnKeepsRelease DEF EndKey, Paths
  <1>8. CASE UserGoesAway \/ UserComesBack \/ FinalTranscript
    BY <1>8, LineUntouched
    DEF UserGoesAway, UserComesBack, FinalTranscript, lineVars
  <1>9. ASSUME NEW p \in Paths, GoodbyeStep(p) PROVE LineInv'
    BY <1>9, GoodbyeKeepsRelease
  <1>10. CASE CallerHangsUp
    BY <1>10 DEF CallerHangsUp, LineInv, Released
  <1>11. CASE HandleClose
    BY <1>11 DEF HandleClose, LineInv, Released
  <1>12. CASE CloseFinalizes
    BY <1>12, LineUntouched DEF CloseFinalizes, sessionVars, lineVars
  <1>13. ASSUME NEW m \in Messages, TakeMessage(m) \/ MessageDispatched(m)
         PROVE  LineInv'
    BY <1>13, LineUntouched DEF TakeMessage, MessageDispatched, lineVars
  <1>14. ASSUME NEW f \in Finalizers, FanOut(f) PROVE LineInv'
    BY <1>14, LineUntouched DEF FanOut, sessionVars, lineVars
  <1>15. CASE UNCHANGED allVars
    BY <1>15, LineUntouched DEF allVars, sessionVars, lineVars
  <1> QED
    BY <1>1, <1>4, <1>5, <1>6, <1>7, <1>8, <1>9, <1>10, <1>11, <1>12, <1>13,
       <1>14, <1>15
    DEF SessionNext

\* A caller who is gone does not come back, and a hangup that failed and a
\* session that broke off stay on record.
LEMMA ReleaseStays ==
  ASSUME LineInv, [SessionNext]_allVars
  PROVE  (Released => Released') /\ (brokeOff => brokeOff')
  <1>1. CASE TimerStep
    BY <1>1 DEF TimerStep, GraceExpires, AbsoluteExpires, MaximumExpires,
       ScheduleSilence, Released
  <1>2. ASSUME NEW p \in Paths, GoodbyeStep(p)
        PROVE  (Released => Released') /\ (brokeOff => brokeOff')
    BY <1>2 DEF GoodbyeStep, Speak, PlayoutEnds, RemoveAnswered,
       DeleteAnswered, GoodbyeFinalizes, Released
  <1>3. CASE SetupStep
    BY <1>3 DEF SetupStep, BeginSetup, RecordingIsAnswered, SessionStarts,
       Released
  <1>4. CASE CallerHangsUp \/ HandleClose
    BY <1>4 DEF CallerHangsUp, HandleClose, LineInv, Released
  <1>5. CASE UNCHANGED <<caller, hangupFailed, brokeOff>>
    BY <1>5 DEF Released
  <1> QED
    BY <1>1, <1>2, <1>3, <1>4, <1>5
    DEF SessionNext, EndCall, UnproductiveTurns, EndKey, UserGoesAway,
        UserComesBack, FinalTranscript, CloseFinalizes, TakeMessage,
        MessageDispatched, FanOut, sessionVars, allVars

\* A call of on_call_ended that has passed the guard stays past it.
LEMMA FanOutStays ==
  ASSUME TypeOK, [Next]_vars, NEW f \in Finalizers,
         pc[f] \notin {"idle", "skipped"}
  PROVE  pc'[f] \notin {"idle", "skipped"}
  <1>0. pc \in [Finalizers -> Labels]
    BY DEF TypeOK
  <1>1. CASE Tools \/ Setup
    BY <1>1 DEF Tools, Setup, RecordOutcome, RecordAppointmentBooked,
       RecordAgentEnded, EnqueueMessage, EnqueueIntake, RequestRecording,
       RecordingAnswered
  <1>2. ASSUME NEW g \in Finalizers, OnCallEnded(g) \/ AlreadyFinalized(g)
        PROVE  pc'[f] \notin {"idle", "skipped"}
    BY <1>0, <1>2 DEF OnCallEnded, AlreadyFinalized, Goto
  <1>3. ASSUME NEW g \in Finalizers, FanOutStep(g)
        PROVE  pc'[f] \notin {"idle", "skipped"}
    BY <1>0, <1>3, FanOutStepMoves DEF Goto
  <1> QED
    BY <1>1, <1>2, <1>3 DEF Next, vars

\* The call is finalized by a goodbye task that got there, or after the
\* close event by its handler's task.
LEMMA WhoFinalizes ==
  ASSUME TypeOK, [SessionNext]_allVars, ~finalized, finalized'
  PROVE  \/ \E p \in Paths : goodbye[p] = "finalize"
         \/ closed /\ OnCallEnded("close")
  <1>1. ASSUME NEW p, NEW r, EndedByAgent(p, r) PROVE UNCHANGED finalized
    BY <1>1 DEF EndedByAgent, RecordAgentEnded
  <1>2. CASE TimerStep
    BY <1>1, <1>2 DEF TimerStep, GraceExpires, AbsoluteExpires,
       MaximumExpires, ScheduleSilence, vars
  <1>3. CASE SetupStep
    BY <1>3 DEF SetupStep, BeginSetup, RecordingIsAnswered, SessionStarts,
       RequestRecording, RecordingAnswered, vars
  <1>4. ASSUME NEW p \in Paths, GoodbyeStep(p)
        PROVE  goodbye[p] = "finalize"
    BY <1>4 DEF GoodbyeStep, Speak, PlayoutEnds, RemoveAnswered,
       DeleteAnswered, GoodbyeFinalizes, vars
  <1>5. ASSUME NEW p \in EndCalls, EndCall(p) PROVE UNCHANGED finalized
    BY <1>1, <1>5 DEF EndCall
  <1>6. CASE UnproductiveTurns
    BY <1>1, <1>6 DEF UnproductiveTurns
  <1>7. CASE CloseFinalizes
    BY <1>7 DEF CloseFinalizes, CloseTaskRuns, AlreadyFinalized
  <1>8. ASSUME NEW f \in Finalizers, FanOut(f) PROVE UNCHANGED finalized
    BY <1>8, FanOutStepMoves DEF FanOut
  <1> QED
    BY <1>2, <1>3, <1>4, <1>5, <1>6, <1>7, <1>8
    DEF SessionNext, EndKey, UserGoesAway, UserComesBack, FinalTranscript,
        CallerHangsUp, HandleClose, TakeMessage, MessageDispatched,
        EnqueueMessage, vars, allVars

\* Every step of the session keeps the invariant behind the release.
LEMMA ReleaseStep ==
  ASSUME TypeOK, ReleaseInv, [SessionNext]_allVars PROVE ReleaseInv'
  <1>1. LineInv /\ LineInv'
    BY LineStep DEF ReleaseInv
  <1>2. CASE finalized
    <2>1. CloseFansOut => CloseFansOut'
      BY <1>1, ReleaseStays, FanOutStays, SessionStepIsLifecycleStep,
         PathsFinalize DEF CloseFansOut
    <2> QED
      BY <1>1, <1>2, <2>1, ReleaseStays DEF ReleaseInv
  <1>3. CASE ~finalized /\ finalized'
    <2>1. CASE \E p \in Paths : goodbye[p] = "finalize"
      BY <1>1, <2>1, ReleaseStays DEF ReleaseInv, LineInv
    <2>2. CASE closed /\ OnCallEnded("close")
      <3>1. Released \/ brokeOff
        BY <1>1, <2>2 DEF LineInv, Released
      <3>2. pc'["close"] \in {"stop", "transcript"}
        BY <2>2, PathsFinalize DEF OnCallEnded, Goto, TypeOK
      <3> QED
        BY <1>1, <3>1, <3>2, ReleaseStays DEF ReleaseInv, CloseFansOut
    <2> QED
      BY <1>3, <2>1, <2>2, WhoFinalizes
  <1> QED
    BY <1>1, <1>2, <1>3 DEF ReleaseInv

\* So it holds in every session.
LEMMA ReleaseKept == SessionSpec => []ReleaseInv
  <1>1. SessionInit => ReleaseInv
    BY DEF SessionInit, Init, ReleaseInv, LineInv, GoodbyeLabels
  <1>2. TypeOK /\ ReleaseInv /\ [SessionNext]_allVars => ReleaseInv'
    BY ReleaseStep
  <1> QED
    BY <1>1, <1>2, SessionImplementsLifecycle, TypeCorrect, PTL
    DEF SessionSpec

(***************************************************************************)
(* No goodbye task sends an email while the caller is kept on the line:    *)
(* with the caller connected and no hangup given up, whatever mail there   *)
(* is comes from the close handler's task of a session that broke off.     *)
(***************************************************************************)
THEOREM ReleasedBeforeMail == SessionSpec => []CallerReleasedBeforeMail
  <1>1. MailInv /\ ReleaseInv => CallerReleasedBeforeMail
    BY DEF MailInv, ReleaseInv, Released, CloseFansOut,
       CallerReleasedBeforeMail
  <1>2. Spec => []MailInv
    BY MailInit, MailStep, PTL DEF Spec
  <1> QED
    BY <1>1, <1>2, ReleaseKept, SessionImplementsLifecycle, PTL

(***************************************************************************)
(* The session's own variables keep their types; the lifecycle's do by     *)
(* TypeCorrect and the goodbye tasks' by ReleaseInv.                       *)
(***************************************************************************)
LEMMA SessionTypeStep ==
  ASSUME SessionTypeOK, TypeOK', ReleaseInv', [SessionNext]_allVars
  PROVE  SessionTypeOK'
  <1>0. goodbye' \in [Paths -> GoodbyeLabels] /\ brokeOff' \in BOOLEAN
    BY DEF ReleaseInv, LineInv
  <1>1. ASSUME UNCHANGED <<idle, setup, timers, scheduled, dispatching, endedBy>>,
               UNCHANGED <<userState, caller, room, closed, hangupFailed>>
        PROVE  SessionTypeOK'
    BY <1>0, <1>1 DEF SessionTypeOK
  <1>2. ASSUME NEW p \in Paths, NEW r, EndedByAgent(p, r)
        PROVE  endedBy' \subseteq Paths
    BY <1>2 DEF EndedByAgent, Spawn, SessionTypeOK
  <1>3. {"grace", "absolute", "maximum"} \subseteq Timers
          /\ {"silence", "duration", "unproductive"} \subseteq Watchers
          /\ Watchers \cup {"end_key"} \subseteq Paths
    BY DEF Timers, Watchers, Paths
  <1>4. CASE SetupStep
    BY <1>0, <1>3, <1>4
       DEF SetupStep, BeginSetup, RecordingIsAnswered, SessionStarts,
           SessionTypeOK
  <1>5. CASE TimerStep
    <2>1. /\ UNCHANGED <<idle, setup, userState, caller, room, closed,
                         dispatching, hangupFailed>>
          /\ timers' \subseteq timers
      BY <1>5 DEF TimerStep, GraceExpires, AbsoluteExpires, MaximumExpires,
         ScheduleSilence
    <2>2. scheduled' \subseteq Watchers /\ endedBy' \subseteq Paths
      BY <1>2, <1>3, <1>5 DEF TimerStep, GraceExpires, AbsoluteExpires,
         MaximumExpires, ScheduleSilence, SessionTypeOK
    <2> QED BY <1>0, <2>1, <2>2 DEF SessionTypeOK
  <1>6. ASSUME NEW p \in EndCalls, EndCall(p) PROVE SessionTypeOK'
    <2>1. endedBy' \subseteq Paths BY <1>2, <1>6 DEF EndCall, Paths
    <2> QED BY <1>0, <1>6, <2>1 DEF EndCall, SessionTypeOK
  <1>7. CASE UnproductiveTurns
    <2>1. endedBy' \subseteq Paths
      BY <1>2, <1>3, <1>7 DEF UnproductiveTurns
    <2> QED BY <1>0, <1>3, <1>7, <2>1 DEF UnproductiveTurns, SessionTypeOK
  <1>8. CASE EndKey
    BY <1>0, <1>3, <1>8 DEF EndKey, Spawn, SessionTypeOK
  <1>9. CASE UserGoesAway \/ UserComesBack \/ FinalTranscript
    BY <1>0, <1>3, <1>9 DEF UserGoesAway, UserComesBack, FinalTranscript,
       SessionTypeOK
  <1>10. ASSUME NEW p \in Paths, GoodbyeStep(p) PROVE SessionTypeOK'
    BY <1>0, <1>10 DEF GoodbyeStep, Speak, PlayoutEnds, RemoveAnswered,
       DeleteAnswered, GoodbyeFinalizes, SessionTypeOK
  <1>11. CASE CallerHangsUp \/ HandleClose
    BY <1>0, <1>11 DEF CallerHangsUp, HandleClose, CancelTimers, SessionTypeOK
  <1>12. CASE CloseFinalizes
    BY <1>1, <1>12 DEF CloseFinalizes, sessionVars
  <1>13. ASSUME NEW m \in Messages, TakeMessage(m) \/ MessageDispatched(m)
         PROVE  SessionTypeOK'
    BY <1>0, <1>13 DEF TakeMessage, MessageDispatched, SessionTypeOK
  <1>14. ASSUME NEW f \in Finalizers, FanOut(f) PROVE SessionTypeOK'
    BY <1>1, <1>14 DEF FanOut, sessionVars
  <1>15. CASE UNCHANGED allVars BY <1>1, <1>15 DEF allVars, sessionVars
  <1> QED BY <1>4, <1>5, <1>6, <1>7, <1>8, <1>9, <1>10, <1>11, <1>12, <1>13,
          <1>14, <1>15 DEF SessionNext

\* The types of a whole session, whatever tools, timers and idle settings.
THEOREM SessionTypeCorrect == SessionSpec => []SessionTypeOK
  <1>1. TypeOK /\ SessionInit => SessionTypeOK
    BY DEF SessionInit, SessionTypeOK, Timers, Watchers, GoodbyeLabels
  <1>2. SessionTypeOK /\ TypeOK' /\ ReleaseInv' /\ [SessionNext]_allVars
          => SessionTypeOK'
    BY SessionTypeStep
  <1> QED
    BY <1>1, <1>2, ReleaseKept, SessionImplementsLifecycle, TypeCorrect, PTL
    DEF SessionSpec

-----------------------------------------------------------------------------
(***************************************************************************)
(* The invariant behind AgentEndNotHungUp: a path that ended the call      *)
(* before it was finalized had recorded agent_ended by then (the end key   *)
(* excepted), and mark_finalized files hung_up only when there is nothing  *)
(* else.                                                                   *)
(***************************************************************************)
AgentEndInv ==
  /\ ~finalized => "hung_up" \notin outcomes
  /\ endedBy \subseteq {"end_key"} \/ "agent_ended" \in outcomes
  /\ AgentEndNotHungUp

(***************************************************************************)
(* Outcomes are never withdrawn, and hung_up is added only to a call with  *)
(* no outcome, by the step that finalizes it.                              *)
(***************************************************************************)
LEMMA OutcomesGrow ==
  ASSUME TypeOK, [Next]_vars
  PROVE  /\ outcomes \subseteq outcomes'
         /\ finalized => finalized'
         /\ "hung_up" \in outcomes' \ outcomes =>
              outcomes = {} /\ finalized'
  <1>1. CASE Tools
    <2>1. ASSUME NEW r \in Reasons, RecordAgentEnded(r)
          PROVE  outcomes' = outcomes \cup {"agent_ended"}
      BY <2>1 DEF RecordAgentEnded, EndOutcome
    <2>2. ASSUME RecordOutcome
          PROVE  /\ outcomes \subseteq outcomes'
                 /\ "hung_up" \in outcomes' => "hung_up" \in outcomes
      <3>1. PICK o \in PlainOutcomes : outcomes' = outcomes \cup {o}
        BY <2>2 DEF RecordOutcome
      <3>2. o \in {"transferred", "appointment_rescheduled",
                   "appointment_cancelled"}
        BY DataAssumption
      <3>3. o # "hung_up"
        BY <3>2
      <3> QED
        BY <3>1, <3>3
    <2>3. ASSUME NEW m \in Messages, EnqueueMessage(m)
          PROVE  outcomes' = outcomes \cup {"message_taken"}
      BY <2>3 DEF EnqueueMessage
    <2>4. ASSUME NEW i \in Submissions, EnqueueIntake(i)
          PROVE  /\ outcomes \subseteq outcomes'
                 /\ outcomes' \subseteq outcomes \cup {"intake_submitted"}
      BY <2>4 DEF EnqueueIntake
    <2>5. /\ outcomes \subseteq outcomes'
          /\ "hung_up" \in outcomes' => "hung_up" \in outcomes
      <3>1. CASE RecordAppointmentBooked
        BY <3>1 DEF RecordAppointmentBooked
      <3> QED
        BY <1>1, <2>1, <2>2, <2>3, <2>4, <3>1 DEF Tools
    <2>6. finalized' = finalized
      BY <1>1, ToolsLeaveFanOut
    <2> QED
      BY <2>5, <2>6
  <1>2. CASE Setup
    BY <1>2 DEF Setup, RequestRecording, RecordingAnswered
  <1>3. ASSUME NEW f \in Finalizers, OnCallEnded(f) \/ AlreadyFinalized(f)
        PROVE  /\ outcomes \subseteq outcomes' /\ finalized'
               /\ outcomes # {} => outcomes' = outcomes
    BY <1>3 DEF OnCallEnded, AlreadyFinalized, Finalized
  <1>4. ASSUME NEW f \in Finalizers, FanOutStep(f)
        PROVE  outcomes' = outcomes /\ finalized' = finalized
    BY <1>4, FanOutStepMoves
    DEF FanOutStep, RecordingStopped, WriteTranscript, TranscriptWritten,
        BeginEmail, DeliverMessage, MessageDelivered, MessagesDelivered,
        ClearPending, SummaryGenerated, FireCallEnd, FireBooking,
        FireIntake, DeliverReport, ReportDelivered, ReportsDelivered, Finish
  <1>5. CASE UNCHANGED vars
    BY <1>5 DEF vars
  <1> QED
    BY <1>1, <1>2, <1>3, <1>4, <1>5 DEF Next

\* The paths are noted by Spawn only.
LEMMA SpawnOrNot ==
  ASSUME [SessionNext]_allVars
  PROVE  \/ endedBy' = endedBy
         \/ /\ finalized => endedBy' = endedBy
            /\ finalized' = finalized
            /\ \/ "agent_ended" \in outcomes'
               \/ endedBy' \subseteq endedBy \cup {"end_key"}
  <1>1. ASSUME NEW p, NEW r, EndedByAgent(p, r)
        PROVE  /\ finalized => endedBy' = endedBy
               /\ finalized' = finalized
               /\ "agent_ended" \in outcomes'
    BY <1>1 DEF EndedByAgent, Spawn, RecordAgentEnded, EndOutcome
  <1>2. CASE TimerStep
    BY <1>1, <1>2
    DEF TimerStep, GraceExpires, AbsoluteExpires, MaximumExpires,
        ScheduleSilence
  <1>3. ASSUME NEW p \in EndCalls, EndCall(p) PROVE \E r : EndedByAgent(p, r)
    BY <1>3 DEF EndCall
  <1>4. CASE UnproductiveTurns
    BY <1>1, <1>4 DEF UnproductiveTurns
  <1>5. CASE EndKey
    BY <1>5 DEF EndKey, Spawn, vars
  <1>6. ASSUME NEW p \in Paths, GoodbyeStep(p) PROVE endedBy' = endedBy
    BY <1>6
    DEF GoodbyeStep, Speak, PlayoutEnds, RemoveAnswered, DeleteAnswered,
        GoodbyeFinalizes
  <1>7. CASE UNCHANGED endedBy
    BY <1>7
  <1> QED
    BY <1>1, <1>2, <1>3, <1>4, <1>5, <1>6, <1>7
    DEF SessionNext, SetupStep, BeginSetup, RecordingIsAnswered,
        SessionStarts, UserGoesAway, UserComesBack, FinalTranscript,
        CallerHangsUp, HandleClose, CloseFinalizes, TakeMessage,
        MessageDispatched, FanOut, sessionVars, allVars

\* Every step keeps the outcome the end paths recorded.
LEMMA AgentEndStep ==
  ASSUME TypeOK, AgentEndInv, [SessionNext]_allVars PROVE AgentEndInv'
  <1>1. /\ outcomes \subseteq outcomes'
        /\ finalized => finalized'
        /\ "hung_up" \in outcomes' \ outcomes => outcomes = {} /\ finalized'
    BY SessionStepIsLifecycleStep, OutcomesGrow
  <1>2. CASE endedBy' = endedBy
    BY <1>1, <1>2 DEF AgentEndInv, AgentEndNotHungUp
  <1>3. CASE /\ finalized => endedBy' = endedBy
             /\ finalized' = finalized
             /\ \/ "agent_ended" \in outcomes'
                \/ endedBy' \subseteq endedBy \cup {"end_key"}
    BY <1>1, <1>3 DEF AgentEndInv, AgentEndNotHungUp
  <1> QED
    BY <1>2, <1>3, SpawnOrNot

(***************************************************************************)
(* A call that an agent path other than the end key had begun to end is    *)
(* never reported as the caller hanging up, even when the close event      *)
(* overtakes the goodbye task and finalizes first.                         *)
(***************************************************************************)
THEOREM AgentEndKept == SessionSpec => []AgentEndNotHungUp
  <1>1. SessionInit => AgentEndInv
    BY DEF SessionInit, Init, AgentEndInv, AgentEndNotHungUp
  <1>2. TypeOK /\ AgentEndInv /\ [SessionNext]_allVars => AgentEndInv'
    BY AgentEndStep
  <1>3. AgentEndInv => AgentEndNotHungUp
    BY DEF AgentEndInv
  <1> QED
    BY <1>1, <1>2, <1>3, SessionImplementsLifecycle, TypeCorrect, PTL
    DEF SessionSpec

-----------------------------------------------------------------------------
(***************************************************************************)
(* The close event: it comes once the handlers are in place, cancels every *)
(* timer, and no handler arms one after it.                                *)
(***************************************************************************)
TimersCancelled == closed => setup # "begin" /\ timers = {}

\* The idle timers start their goodbye before the close event only.
LEMMA TimerStepBeforeClose ==
  ASSUME TimersCancelled, TimerStep
  PROVE  ~closed /\ closed' = closed
  BY DEF TimersCancelled, TimerStep, GraceExpires, AbsoluteExpires,
     MaximumExpires, ScheduleSilence

\* Only HandleClose sets the flag, and only a talking session arms a timer.
LEMMA TimersCancelledStep ==
  ASSUME TimersCancelled, [SessionNext]_allVars
  PROVE  TimersCancelled'
  <1>1. CASE TimerStep
    BY <1>1, TimerStepBeforeClose DEF TimersCancelled
  <1>2. CASE SetupStep
    BY <1>2 DEF SetupStep, BeginSetup, RecordingIsAnswered, SessionStarts,
       TimersCancelled
  <1>3. CASE UserGoesAway \/ UserComesBack \/ FinalTranscript
    BY <1>3 DEF UserGoesAway, UserComesBack, FinalTranscript, Talking,
       TimersCancelled
  <1>4. CASE HandleClose
    BY <1>4 DEF HandleClose, CancelTimers, TimersCancelled
  <1>5. CASE UNCHANGED <<closed, setup, timers>>
    BY <1>5 DEF TimersCancelled
  <1>6. ASSUME NEW p \in Paths, GoodbyeStep(p)
        PROVE  UNCHANGED <<closed, setup, timers>>
    BY <1>6 DEF GoodbyeStep, Speak, PlayoutEnds, RemoveAnswered,
       DeleteAnswered, GoodbyeFinalizes
  <1>7. ASSUME \/ \E p \in EndCalls : EndCall(p)
               \/ UnproductiveTurns \/ EndKey \/ CallerHangsUp
               \/ CloseFinalizes \/ UNCHANGED allVars
               \/ \E m \in Messages : TakeMessage(m) \/ MessageDispatched(m)
               \/ \E f \in Finalizers : FanOut(f)
        PROVE  UNCHANGED <<closed, setup, timers>>
    BY <1>7 DEF EndCall, UnproductiveTurns, EndKey, CallerHangsUp,
       CloseFinalizes, TakeMessage, MessageDispatched, FanOut, sessionVars,
       allVars
  <1> QED BY <1>1, <1>2, <1>3, <1>4, <1>5, <1>6, <1>7 DEF SessionNext

\* The goodbyes of the idle timers are spawned by their timers alone.
LEMMA NoIdleGoodbyeAfterClose ==
  ASSUME TimersCancelled, goodbye \in [Paths -> GoodbyeLabels], closed,
         [SessionNext]_allVars, NEW p \in {"silence", "duration"},
         goodbye[p] = "none"
  PROVE  goodbye'[p] = "none"
  <1>1. /\ p \in Paths /\ p \notin EndCalls /\ p # "unproductive"
        /\ p # "end_key" /\ "unproductive" \in Paths /\ "end_key" \in Paths
        /\ EndCalls \subseteq Paths
    BY SessionAssumption DEF Paths, Watchers
  <1>2. ~TimerStep BY TimerStepBeforeClose
  <1>3. ASSUME NEW q \in Paths, GoodbyeStep(q) PROVE goodbye'[p] = "none"
    <2>1. goodbye[q] # "none" /\ \E label : GoodbyeGoto(q, label)
      BY <1>3 DEF GoodbyeStep, Speak, PlayoutEnds, RemoveAnswered,
         DeleteAnswered, GoodbyeFinalizes, Terminate
    <2> QED BY <1>1, <2>1 DEF GoodbyeGoto
  <1>4. ASSUME \/ SetupStep
               \/ \E q \in EndCalls : EndCall(q)
               \/ UnproductiveTurns \/ EndKey
               \/ UserGoesAway \/ UserComesBack \/ FinalTranscript
               \/ CallerHangsUp \/ HandleClose
               \/ CloseFinalizes \/ UNCHANGED allVars
               \/ \E m \in Messages : TakeMessage(m) \/ MessageDispatched(m)
               \/ \E f \in Finalizers : FanOut(f)
        PROVE  UNCHANGED goodbye
    BY <1>4 DEF SetupStep, BeginSetup, RecordingIsAnswered, SessionStarts,
       EndCall, UnproductiveTurns, EndKey, Talking, UserGoesAway,
       UserComesBack, FinalTranscript, CallerHangsUp, HandleClose,
       CloseFinalizes, TakeMessage, MessageDispatched, FanOut, sessionVars,
       allVars
  <1> QED BY <1>2, <1>3, <1>4 DEF SessionNext

(***************************************************************************)
(* After the close event no silence or duration timer starts a goodbye,    *)
(* in whatever order the timers, the close event and the other ways to end *)
(* the call come.                                                          *)
(***************************************************************************)
THEOREM TimersEndWithClose == SessionSpec => NoTimerAfterClose
  <1>1. SessionInit => TimersCancelled
    BY DEF SessionInit, TimersCancelled
  <1>2. TimersCancelled /\ [SessionNext]_allVars => TimersCancelled'
    BY TimersCancelledStep
  <1>3. TimersCancelled /\ ReleaseInv /\ [SessionNext]_allVars
          => [closed => \A p \in {"silence", "duration"} :
                goodbye[p] = "none" => goodbye'[p] = "none"]_allVars
    BY NoIdleGoodbyeAfterClose DEF ReleaseInv, LineInv
  <1> QED BY <1>1, <1>2, <1>3, ReleaseKept, PTL
          DEF SessionSpec, NoTimerAfterClose
=============================================================================
