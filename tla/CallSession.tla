----------------------------- MODULE CallSession -----------------------------
(***************************************************************************)
(* One phone call of receptionist/agent.py around its lifecycle object:    *)
(* handle_call's setup, the idle watchers, the ways the agent may end the  *)
(* call, the goodbye task each of them spawns                              *)
(* (_speak_goodbye_and_terminate, _terminate_room), and the close handler. *)
(* Each goodbye task, and the close handler's task, ends in a call of      *)
(* CallLifecycle's on_call_ended.                                          *)
(*                                                                         *)
(* LiveKit (rooms, sessions, participants) is external: the caller may     *)
(* hang up at any time, an API call or the start of the session may fail,  *)
(* and the session closes once the caller or the room is gone, or earlier, *)
(* for a reason of its own.                                                *)
(***************************************************************************)
EXTENDS CallLifecycle

CONSTANTS
  EndCalls,     \* the invocations of the end_call tool
  EndCallReasons,  \* the reasons the model passes to them
  IdleConfigs   \* the voice.idle blocks considered

Watchers == {"silence", "duration", "unproductive"}
Paths    == EndCalls \cup Watchers \cup {"end_key"}
Timers   == {"grace", "absolute", "maximum"}

\* _AGENT_END_REASONS: the closed vocabulary end_call falls back into.
AgentEndReasons == {"caller_goodbye", "silence_timeout",
                    "unproductive_turns_exhausted", "max_duration_reached"}

IdleConfig == [silence : BOOLEAN, absolute : BOOLEAN, maximum : BOOLEAN,
               unproductive : BOOLEAN, endKey : BOOLEAN]

ASSUME SessionAssumption ==
  /\ IdleConfigs \subseteq IdleConfig
  /\ Finalizers = Paths \cup {"close"}
  /\ "close" \notin EndCalls /\ EndCalls \cap (Watchers \cup {"end_key"}) = {}
  /\ Reasons = AgentEndReasons

VARIABLES
  idle,        \* config.voice.idle, and whether the keypad menu can end the call
  setup,       \* how far handle_call has come
  userState,   \* session.user_state
  timers,      \* the timer handles that are armed
  scheduled,   \* the one-shot flags that are set
  goodbye,     \* where each goodbye task is
  caller,      \* the SIP caller
  room,        \* the LiveKit room
  closed,      \* the session's close event has been handled
  dispatching, \* the take_message calls whose dispatch is awaited
  hangupFailed,\* a _terminate_room came to its end without dropping anyone
  brokeOff,    \* history: the session closed with the caller on the line
  endedBy      \* history: the paths taken before the call was finalized

sessionVars == <<idle, setup, userState, timers, scheduled, goodbye, caller,
                 room, closed, dispatching, hangupFailed, brokeOff, endedBy>>
allVars == <<vars, sessionVars>>

GoodbyeLabels == {"none", "queued", "playout", "remove", "delete",
                  "finalize", "ended"}

\* handle_call's first stretch, and a goodbye task about to call
\* on_call_ended, run without an await: nothing else is enabled meanwhile.
SessionFree ==
  /\ setup # "begin"
  /\ \A p \in Paths : goodbye[p] # "finalize"

SessionInit ==
  /\ Init
  /\ idle \in IdleConfigs
  /\ setup = "begin"
  /\ userState = "present"
  /\ timers = {}
  /\ scheduled = {}
  /\ goodbye = [p \in Paths |-> "none"]
  /\ caller = "connected"
  /\ room = "open"
  /\ closed = FALSE
  /\ dispatching = {}
  /\ hangupFailed = FALSE
  /\ brokeOff = FALSE
  /\ endedBy = {}

(***************************************************************************)
(* handle_call: the maximum-duration timer and every handler are in place  *)
(* before the recording is requested and the session started.              *)
(***************************************************************************)
BeginSetup ==
  /\ setup = "begin"
  /\ timers' = IF idle.maximum THEN {"maximum"} ELSE {}
  /\ \/ config.recording /\ RequestRecording /\ setup' = "recording"
     \/ ~config.recording /\ setup' = "starting" /\ UNCHANGED vars
  /\ UNCHANGED <<idle, userState, scheduled, goodbye, caller, room, closed,
                 dispatching, hangupFailed, brokeOff, endedBy>>

RecordingIsAnswered ==
  /\ SessionFree
  /\ setup = "recording"
  /\ RecordingAnswered
  /\ setup' = "starting"
  /\ UNCHANGED <<idle, userState, timers, scheduled, goodbye, caller, room,
                 closed, dispatching, hangupFailed, brokeOff, endedBy>>

\* session.start returns, or raises out of handle_call and leaves the
\* handlers and the timers as they are.
SessionStarts ==
  /\ SessionFree /\ LoopFree
  /\ setup = "starting"
  /\ setup' \in {"running", "failed"}
  /\ UNCHANGED <<vars, idle, userState, timers, scheduled, goodbye, caller,
                 room, closed, dispatching, hangupFailed, brokeOff, endedBy>>

Talking == SessionFree /\ LoopFree /\ setup = "running" /\ ~closed

(***************************************************************************)
(* The ways the agent ends a call.  Each but the keypad's end key records  *)
(* agent_ended before it spawns its goodbye task.                          *)
(***************************************************************************)
Spawn(p) ==
  /\ goodbye' = [goodbye EXCEPT ![p] = "queued"]
  /\ endedBy' = IF finalized THEN endedBy ELSE endedBy \cup {p}

\* Mutant: the end is not recorded before the task is spawned.
EndUnrecorded(p, r) == LoopFree /\ UNCHANGED vars /\ Spawn(p)

EndedByAgent(p, r) == RecordAgentEnded(r) /\ Spawn(p)

SafeReason(r) == IF r \in AgentEndReasons THEN r ELSE "caller_goodbye"

EndCall(p) ==
  /\ Talking
  /\ goodbye[p] = "none"
  /\ \E r \in EndCallReasons : EndedByAgent(p, SafeReason(r))
  /\ UNCHANGED <<idle, setup, userState, timers, scheduled, caller, room,
                 closed, dispatching, hangupFailed, brokeOff>>

\* _on_conversation_item_added, when a reply makes the threshold.
UnproductiveTurns ==
  /\ Talking
  /\ idle.unproductive
  /\ "unproductive" \notin scheduled
  /\ scheduled' = scheduled \cup {"unproductive"}
  /\ EndedByAgent("unproductive", "unproductive_turns_exhausted")
  /\ UNCHANGED <<idle, setup, userState, timers, caller, room, closed,
                 dispatching, hangupFailed, brokeOff>>

\* The keypad menu's end_call action: speak_goodbye without a record.  The
\* goodbye is awaited with action_in_flight set, which keeps a second press
\* from starting another (Keypad).
EndKey ==
  /\ Talking
  /\ idle.endKey
  /\ caller = "connected"
  /\ goodbye["end_key"] = "none"
  /\ Spawn("end_key")
  /\ UNCHANGED <<vars, idle, setup, userState, timers, scheduled, caller,
                 room, closed, dispatching, hangupFailed, brokeOff>>

\* _schedule_silence_timeout.
ScheduleSilence ==
  /\ IF "silence" \in scheduled
     THEN UNCHANGED <<vars, scheduled, goodbye, endedBy>>
     ELSE /\ scheduled' = scheduled \cup {"silence"}
          /\ EndedByAgent("silence", "silence_timeout")
  /\ UNCHANGED <<idle, setup, userState, caller, room, closed, dispatching,
                 hangupFailed, brokeOff>>

\* _on_silence_grace_expired looks at user_state again.
GraceExpires ==
  /\ SessionFree /\ LoopFree
  /\ "grace" \in timers
  /\ IF userState = "away"
     THEN /\ ScheduleSilence
          /\ timers' = IF "silence" \in scheduled
                       THEN timers \ {"grace"}
                       ELSE timers \ {"grace", "absolute"}
     ELSE /\ timers' = timers \ {"grace"}
          /\ UNCHANGED <<vars, idle, setup, userState, scheduled, goodbye,
                         caller, room, closed, dispatching, hangupFailed,
                         brokeOff, endedBy>>

AbsoluteExpires ==
  /\ SessionFree /\ LoopFree
  /\ "absolute" \in timers
  /\ ScheduleSilence
  /\ timers' = IF "silence" \in scheduled
               THEN timers \ {"absolute"}
               ELSE timers \ {"grace", "absolute"}

\* _on_max_duration_reached.
MaximumExpires ==
  /\ SessionFree /\ LoopFree
  /\ "maximum" \in timers
  /\ timers' = timers \ {"maximum"}
  /\ "duration" \notin scheduled
  /\ scheduled' = scheduled \cup {"duration"}
  /\ EndedByAgent("duration", "max_duration_reached")
  /\ UNCHANGED <<idle, setup, userState, caller, room, closed, dispatching,
                 hangupFailed, brokeOff>>

\* LiveKit's user_state machine and _on_user_state_changed.
UserGoesAway ==
  /\ Talking
  /\ userState = "present"
  /\ userState' = "away"
  /\ timers' = IF idle.silence THEN timers \cup {"grace"} ELSE timers
  /\ UNCHANGED <<vars, idle, setup, scheduled, goodbye, caller, room, closed,
                 dispatching, hangupFailed, brokeOff, endedBy>>

UserComesBack ==
  /\ Talking
  /\ userState = "away" /\ caller = "connected"
  /\ userState' = "present"
  /\ timers' = IF idle.silence THEN timers \ {"grace"} ELSE timers
  /\ UNCHANGED <<vars, idle, setup, scheduled, goodbye, caller, room, closed,
                 dispatching, hangupFailed, brokeOff, endedBy>>

\* _on_absolute_silence_user_input: a final transcript (re)arms the timer,
\* which a set has in the same place.
FinalTranscript ==
  /\ Talking
  /\ caller = "connected"
  /\ timers' = IF idle.silence /\ idle.absolute /\ "silence" \notin scheduled
               THEN timers \cup {"absolute"} ELSE timers
  /\ UNCHANGED <<vars, idle, setup, userState, scheduled, goodbye, caller,
                 room, closed, dispatching, hangupFailed, brokeOff, endedBy>>

(***************************************************************************)
(* _speak_goodbye_and_terminate: speak, drop the caller, then finalize.    *)
(***************************************************************************)
GoodbyeGoto(p, label) == goodbye' = [goodbye EXCEPT ![p] = label]

\* Mutant: the lifecycle is finalized with the caller still on the line.
FinalizeFirst(p) == GoodbyeGoto(p, "finalize")

\* _terminate_room asks for the caller to be removed when it can name one:
\* the room is joined while the session starts.
Terminate(p) ==
  \/ /\ caller = "connected" /\ setup \in {"starting", "running", "failed"}
     /\ GoodbyeGoto(p, "remove")
  \/ /\ caller # "connected" \/ setup # "running"
     /\ GoodbyeGoto(p, "delete")

\* generate_reply may raise (the session is not running, or is closing).
Speak(p) ==
  /\ SessionFree /\ LoopFree
  /\ goodbye[p] = "queued"
  /\ \/ setup = "running" /\ ~closed /\ GoodbyeGoto(p, "playout")
     \/ Terminate(p)
  /\ UNCHANGED <<vars, idle, setup, userState, timers, scheduled, caller,
                 room, closed, dispatching, hangupFailed, brokeOff, endedBy>>

\* The playout ends, fails, or is given up after ten seconds.
PlayoutEnds(p) ==
  /\ SessionFree /\ LoopFree
  /\ goodbye[p] = "playout"
  /\ Terminate(p)
  /\ UNCHANGED <<vars, idle, setup, userState, timers, scheduled, caller,
                 room, closed, dispatching, hangupFailed, brokeOff, endedBy>>

\* Mutant: no fallback when the caller cannot be removed.
GiveUp == "finalize"

FallBack == "delete"

RemoveAnswered(p) ==
  /\ SessionFree /\ LoopFree
  /\ goodbye[p] = "remove"
  /\ \/ caller = "connected" /\ caller' = "dropped" /\ GoodbyeGoto(p, "finalize")
     \/ GoodbyeGoto(p, FallBack) /\ UNCHANGED caller
  /\ UNCHANGED <<vars, idle, setup, userState, timers, scheduled, room,
                 closed, dispatching, hangupFailed, brokeOff, endedBy>>

\* A delete_room that fails as well is logged: the line stays up until the
\* caller hangs up.
DeleteAnswered(p) ==
  /\ SessionFree /\ LoopFree
  /\ goodbye[p] = "delete"
  /\ \/ /\ room' = "deleted"
        /\ caller' = IF caller = "connected" THEN "dropped" ELSE caller
        /\ UNCHANGED hangupFailed
     \/ hangupFailed' = TRUE /\ UNCHANGED <<room, caller>>
  /\ GoodbyeGoto(p, "finalize")
  /\ UNCHANGED <<vars, idle, setup, userState, timers, scheduled, closed,
                 dispatching, brokeOff, endedBy>>

GoodbyeFinalizes(p) ==
  /\ goodbye[p] = "finalize"
  /\ OnCallEnded(p) \/ AlreadyFinalized(p)
  /\ GoodbyeGoto(p, "ended")
  /\ UNCHANGED <<idle, setup, userState, timers, scheduled, caller, room,
                 closed, dispatching, hangupFailed, brokeOff, endedBy>>

GoodbyeStep(p) ==
  \/ Speak(p)
  \/ PlayoutEnds(p)
  \/ RemoveAnswered(p)
  \/ DeleteAnswered(p)
  \/ GoodbyeFinalizes(p)

(***************************************************************************)
(* The caller hangs up; the session closes, for that or for any other      *)
(* reason; _handle_close cancels the timers and schedules on_call_ended.   *)
(***************************************************************************)
CallerHangsUp ==
  /\ SessionFree /\ LoopFree
  /\ caller = "connected"
  /\ caller' = "left"
  /\ UNCHANGED <<vars, idle, setup, userState, timers, scheduled, goodbye,
                 room, closed, dispatching, hangupFailed, brokeOff, endedBy>>

\* Mutant: the close handler forgets the maximum-duration timer.
SilenceTimersOnly == timers \ {"grace", "absolute"}

CancelTimers == {}

HandleClose ==
  /\ SessionFree /\ LoopFree
  /\ setup \in {"starting", "running", "failed"} /\ ~closed
  /\ closed' = TRUE
  /\ brokeOff' = (caller = "connected")
  /\ timers' = CancelTimers
  /\ UNCHANGED <<vars, idle, setup, userState, scheduled, goodbye, caller,
                 room, dispatching, hangupFailed, endedBy>>

\* Mutant: the close handler leaves the fan-out to the agent's own ending.
CloseAfterAgentEnd == closed /\ endedBy # {}

CloseTaskRuns == closed

CloseFinalizes ==
  /\ SessionFree
  /\ CloseTaskRuns
  /\ OnCallEnded("close") \/ AlreadyFinalized("close")
  /\ UNCHANGED sessionVars

(***************************************************************************)
(* take_message: the dispatch is awaited, and may outlive the call.        *)
(***************************************************************************)
TakeMessage(m) ==
  /\ Talking
  /\ m \notin dispatching \cup taken
  /\ dispatching' = dispatching \cup {m}
  /\ UNCHANGED <<vars, idle, setup, userState, timers, scheduled, goodbye,
                 caller, room, closed, hangupFailed, brokeOff, endedBy>>

MessageDispatched(m) ==
  /\ SessionFree
  /\ m \in dispatching
  /\ dispatching' = dispatching \ {m}
  /\ EnqueueMessage(m)
  /\ UNCHANGED <<idle, setup, userState, timers, scheduled, goodbye, caller,
                 room, closed, hangupFailed, brokeOff, endedBy>>

FanOut(f) ==
  /\ SessionFree
  /\ FanOutStep(f)
  /\ UNCHANGED sessionVars

-----------------------------------------------------------------------------
SetupStep == BeginSetup \/ RecordingIsAnswered \/ SessionStarts

TimerStep == GraceExpires \/ AbsoluteExpires \/ MaximumExpires

SessionNext ==
  \/ SetupStep
  \/ TimerStep
  \/ \E p \in EndCalls : EndCall(p)
  \/ UnproductiveTurns
  \/ EndKey
  \/ UserGoesAway \/ UserComesBack \/ FinalTranscript
  \/ \E p \in Paths : GoodbyeStep(p)
  \/ CallerHangsUp
  \/ HandleClose
  \/ CloseFinalizes
  \/ \E m \in Messages : TakeMessage(m) \/ MessageDispatched(m)
  \/ \E f \in Finalizers : FanOut(f)

SessionSpec == SessionInit /\ [][SessionNext]_allVars

(***************************************************************************)
(* Fairness: the event loop runs every task and every timer; each awaited  *)
(* call is answered or times out; LiveKit closes a running session whose    *)
(* caller has gone.  Nothing is assumed of the caller, of the model's tool *)
(* calls, of LiveKit's user_state or of a session that breaks off.         *)
(***************************************************************************)
SessionFairness ==
  /\ WF_allVars(SetupStep)
  /\ WF_allVars(GraceExpires)
  /\ WF_allVars(AbsoluteExpires)
  /\ WF_allVars(MaximumExpires)
  /\ \A p \in Paths : WF_allVars(GoodbyeStep(p))
  /\ WF_allVars(setup = "running" /\ caller # "connected" /\ HandleClose)
  /\ WF_allVars(CloseFinalizes)
  /\ \A m \in Messages : WF_allVars(MessageDispatched(m))
  /\ \A f \in Finalizers : WF_allVars(FanOut(f))

FairSessionSpec == SessionSpec /\ SessionFairness

-----------------------------------------------------------------------------
SessionTypeOK ==
  /\ TypeOK
  /\ idle \in IdleConfigs
  /\ setup \in {"begin", "recording", "starting", "running", "failed"}
  /\ userState \in {"present", "away"}
  /\ timers \subseteq Timers
  /\ scheduled \subseteq Watchers
  /\ goodbye \in [Paths -> GoodbyeLabels]
  /\ caller \in {"connected", "dropped", "left"}
  /\ room \in {"open", "deleted"}
  /\ closed \in BOOLEAN
  /\ dispatching \subseteq Messages
  /\ hangupFailed \in BOOLEAN
  /\ brokeOff \in BOOLEAN
  /\ endedBy \subseteq Paths

(***************************************************************************)
(* A goodbye task mails only after it has released the caller, or          *)
(* _terminate_room has given up (the comment "Releasing the caller BEFORE  *)
(* the email work").  The one task that may mail with the caller on the    *)
(* line is the close handler's, of a session that broke off.               *)
(***************************************************************************)
CallerReleasedBeforeMail ==
  mail # <<>> /\ caller = "connected" /\ ~hangupFailed =>
    brokeOff /\ pc["close"] \notin {"idle", "skipped"}

(***************************************************************************)
(* A call an agent path had begun to end before it was finalized is not    *)
(* reported as the caller hanging up, even when the close event overtakes  *)
(* the goodbye task.  The keypad's end key is the exception: it ends the   *)
(* call without a record.                                                  *)
(***************************************************************************)
AgentEndNotHungUp ==
  "hung_up" \in outcomes => endedBy \subseteq {"end_key"}

(***************************************************************************)
(* After the close event no idle timer starts a goodbye ("so a normal      *)
(* hangup doesn't accidentally fire goodbye-after-disconnect later").      *)
(***************************************************************************)
NoTimerAfterClose ==
  [][closed => \A p \in {"silence", "duration"} :
                 goodbye[p] = "none" => goodbye'[p] = "none"]_allVars

(***************************************************************************)
(* Whoever ends the call, its report is completed: a goodbye scheduled, a  *)
(* close event for whatever reason, or a caller gone, leads to a completed *)
(* fan-out.  Only when session.start has raised may a caller leave         *)
(* unnoticed.                                                              *)
(***************************************************************************)
EndedCallIsReported ==
  /\ \A p \in Paths : goodbye[p] = "queued" ~> Sealed # {}
  /\ closed ~> Sealed # {}
  /\ caller # "connected" ~> Sealed # {} \/ setup = "failed"

(***************************************************************************)
(* With silence hangup on, a caller who stays away is released: the call   *)
(* does not stay open for ever on a silent line, unless the hangup fails   *)
(* or the session breaks off first, which cancels the timers.              *)
(***************************************************************************)
SilentCallerReleased ==
  idle.silence /\ userState = "away" ~>
    userState = "present" \/ caller # "connected" \/ hangupFailed \/ brokeOff
=============================================================================
