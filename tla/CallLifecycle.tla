---------------------------- MODULE CallLifecycle ----------------------------
(***************************************************************************)
(* The per-call lifecycle object of receptionist/lifecycle.py: the data    *)
(* the tools record during a call, and on_call_ended(), the end-of-call    *)
(* fan-out that several tasks may call (the close handler and every        *)
(* goodbye task of agent.py).                                              *)
(*                                                                         *)
(* The program runs on one asyncio event loop: a task runs alone from one  *)
(* await to the next.  A program counter in Running names code between two *)
(* awaits, a counter in Waiting names an await.  While a task is at a      *)
(* Running point no other action is enabled (LoopFree).                    *)
(***************************************************************************)
EXTENDS Integers, Sequences, FiniteSets

CONSTANTS
  Messages,     \* the Message objects the take_message calls create
  Submissions,  \* the intake submissions, partial and final, of the call
  FinalSubmissions,  \* those finalize_intake creates
  PlainOutcomes,    \* the outcomes recorded with no other effect here
  Reasons,      \* the agent-end reasons the callers may pass
  Finalizers,   \* the tasks that call on_call_ended
  Configs,      \* the business configurations considered
  MaxChannels,  \* the most email channels any of them has
  None

ConfigType ==
  [email : BOOLEAN, onMessage : BOOLEAN, onCallEnd : BOOLEAN,
   onBooking : BOOLEAN, summary : BOOLEAN, channels : 0..MaxChannels,
   transcripts : BOOLEAN, recording : BOOLEAN]

\* Without an email section no EmailChannel is built (_build_email_channels).
ASSUME ConfigAssumption ==
  /\ MaxChannels \in Nat
  /\ Configs \subseteq ConfigType
  /\ \A c \in Configs : ~c.email => c.channels = 0

Outcomes == {"hung_up", "message_taken", "transferred", "appointment_booked",
             "agent_ended", "appointment_rescheduled",
             "appointment_cancelled", "intake_submitted"}

ASSUME DataAssumption ==
  /\ PlainOutcomes \subseteq {"transferred", "appointment_rescheduled",
                             "appointment_cancelled"}
  /\ FinalSubmissions \subseteq Submissions
  /\ None \notin Submissions \cup Reasons \cup Messages

VARIABLES
  config,         \* the configuration of this call, fixed at its start
  finalized,      \* _finalized
  outcomes,       \* metadata.outcomes
  endReason,      \* metadata.agent_end_reason
  booked,         \* metadata.appointment_booked
  pendingMsgs,    \* _pending_message_emails
  pendingIntake,  \* _pending_intake_submission
  recording,      \* the recording handle and what became of it
  transcript,     \* the transcript files
  pc,             \* where each call of on_call_ended is
  run,            \* the local variables of each call of on_call_ended
  mail,           \* every email delivery attempted, in order
  taken,          \* history: the messages enqueued so far
  atEnd           \* history: what was pending when the fan-out began

vars == <<config, finalized, outcomes, endReason, booked, pendingMsgs,
          pendingIntake, recording, transcript, pc, run, mail, taken, atEnd>>

recorded == <<endReason, booked, taken>>
artifacts == <<recording, transcript>>

Running == {"transcript", "email", "messages", "clear", "report", "booking",
            "intake", "fire", "finish"}
Waiting == {"stop", "write", "message", "summary", "deliver"}
Labels  == Running \cup Waiting \cup {"idle", "done", "skipped"}

Triggers == {"message", "call_end", "booking", "intake"}

Mail == [trigger : Triggers, channel : Nat \ {0}, msgs : Seq(Messages),
         intake : Submissions \cup {None}]

Locals == [trigger : Triggers, msg : Nat \ {0}, channel : Nat \ {0},
           captured : Seq(Messages), intake : Submissions \cup {None}]

InitialLocals == [trigger |-> "message", msg |-> 1, channel |-> 1,
                  captured |-> <<>>, intake |-> None]

Elements(s) == {s[i] : i \in DOMAIN s}

LoopFree == \A f \in Finalizers : pc[f] \notin Running

(***************************************************************************)
(* What the tools record.  None of the recorders looks at _finalized: a    *)
(* tool that was waiting when the call ended still records its result.     *)
(***************************************************************************)
RecordOutcome ==
  /\ LoopFree
  /\ \E o \in PlainOutcomes : outcomes' = outcomes \cup {o}
  /\ UNCHANGED <<config, finalized, recorded, pendingMsgs, pendingIntake,
                 artifacts, pc, run, mail, atEnd>>

RecordAppointmentBooked ==
  /\ LoopFree
  /\ booked' = TRUE
  /\ outcomes' = outcomes \cup {"appointment_booked"}
  /\ UNCHANGED <<config, finalized, endReason, taken, pendingMsgs,
                 pendingIntake, artifacts, pc, run, mail, atEnd>>

\* Mutant: the last reason wins.
LastReason(r) == r
\* The first reason wins.
FirstReason(r) == IF endReason = None THEN r ELSE endReason
EndOutcome(r) == {"agent_ended"}

RecordAgentEnded(r) ==
  /\ LoopFree
  /\ endReason' = FirstReason(r)
  /\ outcomes' = outcomes \cup EndOutcome(r)
  /\ UNCHANGED <<config, finalized, booked, taken, pendingMsgs,
                 pendingIntake, artifacts, pc, run, mail, atEnd>>

\* The end of take_message: its dispatch succeeded.  Every call of the tool
\* makes a Message of its own.
EnqueueMessage(m) ==
  /\ LoopFree
  /\ m \notin taken
  /\ taken' = taken \cup {m}
  /\ pendingMsgs' = Append(pendingMsgs, m)
  /\ outcomes' = outcomes \cup {"message_taken"}
  /\ UNCHANGED <<config, finalized, endReason, booked, pendingIntake,
                 artifacts, pc, run, mail, atEnd>>

\* The end of record_intake_answer, or of finalize_intake for a final one.
EnqueueIntake(s) ==
  /\ LoopFree
  /\ pendingIntake' = s
  /\ outcomes' = outcomes \cup
       (IF s \in FinalSubmissions THEN {"intake_submitted"} ELSE {})
  /\ UNCHANGED <<config, finalized, recorded, pendingMsgs, artifacts, pc,
                 run, mail, atEnd>>

(***************************************************************************)
(* start_recording_if_enabled, called by handle_call.  The handle is set   *)
(* only when the start request has been answered.                          *)
(***************************************************************************)
RequestRecording ==
  /\ LoopFree
  /\ config.recording
  /\ recording = "off"
  /\ recording' = "requested"
  /\ UNCHANGED <<config, finalized, outcomes, recorded, pendingMsgs,
                 pendingIntake, transcript, pc, run, mail, atEnd>>

RecordingAnswered ==
  /\ LoopFree
  /\ recording = "requested"
  /\ recording' \in {"live", "failed"}
  /\ UNCHANGED <<config, finalized, outcomes, recorded, pendingMsgs,
                 pendingIntake, transcript, pc, run, mail, atEnd>>

(***************************************************************************)
(* on_call_ended.                                                          *)
(***************************************************************************)
Goto(f, label) == pc' = [pc EXCEPT ![f] = label]

\* Mutant: the guard against a second fan-out is missing.
UnguardedFanOut == TRUE

MayFinalize == ~finalized

\* mark_finalized.
Finalized(recordedOutcomes) ==
  IF recordedOutcomes = {} THEN {"hung_up"} ELSE recordedOutcomes

\* The _finalized guard, mark_finalized, and the call of stop_recording.
OnCallEnded(f) ==
  /\ LoopFree
  /\ pc[f] = "idle"
  /\ MayFinalize
  /\ finalized' = TRUE
  /\ outcomes' = Finalized(outcomes)
  /\ atEnd' = [msgs |-> Elements(pendingMsgs),
               intake |-> pendingIntake # None, booked |-> booked]
  /\ Goto(f, IF recording = "live" THEN "stop" ELSE "transcript")
  /\ UNCHANGED <<config, recorded, pendingMsgs, pendingIntake, artifacts,
                 run, mail>>

AlreadyFinalized(f) ==
  /\ LoopFree
  /\ pc[f] = "idle"
  /\ finalized
  /\ Goto(f, "skipped")
  /\ UNCHANGED <<config, finalized, outcomes, recorded, pendingMsgs,
                 pendingIntake, artifacts, run, mail, atEnd>>

\* A failed stop request is logged; the artifact URL is used all the same.
RecordingStopped(f) ==
  /\ LoopFree
  /\ pc[f] = "stop"
  /\ recording' = "stopped"
  /\ Goto(f, "transcript")
  /\ UNCHANGED <<config, finalized, outcomes, recorded, pendingMsgs,
                 pendingIntake, transcript, run, mail, atEnd>>

\* Mutant: the emails do not wait for the transcript files.
MailFirst == "email"

AfterRecording == IF config.transcripts THEN "write" ELSE "email"

WriteTranscript(f) ==
  /\ pc[f] = "transcript"
  /\ Goto(f, AfterRecording)
  /\ UNCHANGED <<config, finalized, outcomes, recorded, pendingMsgs,
                 pendingIntake, artifacts, run, mail, atEnd>>

TranscriptWritten(f) ==
  /\ LoopFree
  /\ pc[f] = "write"
  /\ transcript' \in {"written", "failed"}
  /\ Goto(f, "email")
  /\ UNCHANGED <<config, finalized, outcomes, recorded, pendingMsgs,
                 pendingIntake, recording, run, mail, atEnd>>

\* Mutant: the separate emails are not suppressed in consolidated mode.
EveryTriggerFires == IF config.onMessage THEN "messages" ELSE "clear"

\* Where the fan-out of a call with an email section begins.
EmailMode ==
  IF ~config.onCallEnd /\ config.onMessage THEN "messages" ELSE "clear"

\* captured_messages = list(pending); then the legacy loop, if it applies.
BeginEmail(f) ==
  /\ pc[f] = "email"
  /\ run' = [run EXCEPT ![f].captured = pendingMsgs]
  /\ Goto(f, IF config.email THEN EmailMode ELSE "finish")
  /\ UNCHANGED <<config, finalized, outcomes, recorded, pendingMsgs,
                 pendingIntake, artifacts, mail, atEnd>>

\* One delivery of the legacy loop.  It iterates over the live list, so a
\* message appended while a delivery is awaited is still delivered.
DeliverMessage(f) ==
  /\ pc[f] = "messages"
  /\ run[f].msg <= Len(pendingMsgs) /\ config.channels > 0
  /\ mail' = Append(mail, [trigger |-> "message", channel |-> run[f].channel,
                           msgs |-> <<pendingMsgs[run[f].msg]>>,
                           intake |-> None])
  /\ Goto(f, "message")
  /\ UNCHANGED <<config, finalized, outcomes, recorded, pendingMsgs,
                 pendingIntake, artifacts, run, atEnd>>

\* Mutant: off by one, the last channel is left out.
SkipLastChannel(l) ==
  IF l.channel + 1 < config.channels
  THEN [l EXCEPT !.channel = @ + 1]
  ELSE [l EXCEPT !.channel = 1, !.msg = @ + 1]

\* The next step of the nested loop over messages and channels.
NextDelivery(l) ==
  IF l.channel < config.channels
  THEN [l EXCEPT !.channel = @ + 1]
  ELSE [l EXCEPT !.channel = 1, !.msg = @ + 1]

\* The delivery returned or raised; a failure is logged and the loop goes on.
MessageDelivered(f) ==
  /\ LoopFree
  /\ pc[f] = "message"
  /\ run' = [run EXCEPT ![f] = NextDelivery(@)]
  /\ Goto(f, "messages")
  /\ UNCHANGED <<config, finalized, outcomes, recorded, pendingMsgs,
                 pendingIntake, artifacts, mail, atEnd>>

MessagesDelivered(f) ==
  /\ pc[f] = "messages"
  /\ run[f].msg > Len(pendingMsgs) \/ config.channels = 0
  /\ Goto(f, "clear")
  /\ UNCHANGED <<config, finalized, outcomes, recorded, pendingMsgs,
                 pendingIntake, artifacts, run, mail, atEnd>>

\* The queue is cleared in both modes.  The summary is asked for when there
\* is something to summarise; transcript segments, which this module leaves
\* out, may be there in any call, the rest is has_content.
HasContent(f) ==
  run[f].captured # <<>> \/ pendingIntake # None \/ booked

ClearPending(f) ==
  /\ pc[f] = "clear"
  /\ pendingMsgs' = <<>>
  /\ \/ ~config.onCallEnd /\ Goto(f, "booking")
     \/ /\ config.onCallEnd /\ config.channels > 0 /\ config.summary
        /\ Goto(f, "summary")
     \/ /\ config.onCallEnd
        /\ ~(config.channels > 0 /\ config.summary /\ HasContent(f))
        /\ Goto(f, "report")
  /\ UNCHANGED <<config, finalized, outcomes, recorded, pendingIntake,
                 artifacts, run, mail, atEnd>>

\* generate_call_summary never raises and is capped in time.
SummaryGenerated(f) ==
  /\ LoopFree
  /\ pc[f] = "summary"
  /\ Goto(f, "report")
  /\ UNCHANGED <<config, finalized, outcomes, recorded, pendingMsgs,
                 pendingIntake, artifacts, run, mail, atEnd>>

\* _fire_email_trigger(trigger) is entered with the intake read just before.
Fire(f, trigger, intake) ==
  /\ run' = [run EXCEPT ![f].trigger = trigger, ![f].channel = 1,
                        ![f].intake = intake]
  /\ Goto(f, "fire")

FireCallEnd(f) ==
  /\ pc[f] = "report"
  /\ Fire(f, "call_end", pendingIntake)
  /\ UNCHANGED <<config, finalized, outcomes, recorded, pendingMsgs,
                 pendingIntake, artifacts, mail, atEnd>>

FireBooking(f) ==
  /\ pc[f] = "booking"
  /\ IF config.onBooking /\ booked
     THEN Fire(f, "booking", None)
     ELSE Goto(f, "intake") /\ UNCHANGED run
  /\ UNCHANGED <<config, finalized, outcomes, recorded, pendingMsgs,
                 pendingIntake, artifacts, mail, atEnd>>

FireIntake(f) ==
  /\ pc[f] = "intake"
  /\ IF pendingIntake # None
     THEN Fire(f, "intake", pendingIntake)
     ELSE Goto(f, "finish") /\ UNCHANGED run
  /\ UNCHANGED <<config, finalized, outcomes, recorded, pendingMsgs,
                 pendingIntake, artifacts, mail, atEnd>>

Report(f) ==
  [trigger |-> run[f].trigger, channel |-> run[f].channel,
   msgs |-> IF run[f].trigger = "call_end" THEN run[f].captured ELSE <<>>,
   intake |-> run[f].intake]

DeliverReport(f) ==
  /\ pc[f] = "fire"
  /\ run[f].channel <= config.channels
  /\ mail' = Append(mail, Report(f))
  /\ Goto(f, "deliver")
  /\ UNCHANGED <<config, finalized, outcomes, recorded, pendingMsgs,
                 pendingIntake, artifacts, run, atEnd>>

\* Mutant: a failed delivery is not caught and ends the task.
FailureEndsTask == {"fire", "skipped"}

AfterDelivery == {"fire"}

\* As for messages, a delivery that raises is logged and the loop goes on.
ReportDelivered(f) ==
  /\ LoopFree
  /\ pc[f] = "deliver"
  /\ run' = [run EXCEPT ![f].channel = @ + 1]
  /\ \E label \in AfterDelivery : Goto(f, label)
  /\ UNCHANGED <<config, finalized, outcomes, recorded, pendingMsgs,
                 pendingIntake, artifacts, mail, atEnd>>

ReportsDelivered(f) ==
  /\ pc[f] = "fire"
  /\ run[f].channel > config.channels
  /\ Goto(f, IF run[f].trigger = "booking" THEN "intake" ELSE "finish")
  /\ UNCHANGED <<config, finalized, outcomes, recorded, pendingMsgs,
                 pendingIntake, artifacts, run, mail, atEnd>>

Finish(f) ==
  /\ pc[f] = "finish"
  /\ pendingIntake' = None
  /\ run' = [run EXCEPT ![f] = InitialLocals]
  /\ Goto(f, "done")
  /\ UNCHANGED <<config, finalized, outcomes, recorded, pendingMsgs,
                 artifacts, mail, atEnd>>

-----------------------------------------------------------------------------
Init ==
  /\ config \in Configs
  /\ finalized = FALSE
  /\ outcomes = {}
  /\ endReason = None
  /\ booked = FALSE
  /\ pendingMsgs = <<>>
  /\ pendingIntake = None
  /\ recording = "off"
  /\ transcript = "none"
  /\ pc = [f \in Finalizers |-> "idle"]
  /\ run = [f \in Finalizers |-> InitialLocals]
  /\ mail = <<>>
  /\ taken = {}
  /\ atEnd = [msgs |-> {}, intake |-> FALSE, booked |-> FALSE]

Tools ==
  \/ RecordOutcome
  \/ RecordAppointmentBooked
  \/ \E r \in Reasons : RecordAgentEnded(r)
  \/ \E m \in Messages : EnqueueMessage(m)
  \/ \E s \in Submissions : EnqueueIntake(s)

Setup == RequestRecording \/ RecordingAnswered

\* The steps of a call of on_call_ended that has passed the guard.
FanOutStep(f) ==
  \/ RecordingStopped(f)
  \/ WriteTranscript(f)
  \/ TranscriptWritten(f)
  \/ BeginEmail(f)
  \/ DeliverMessage(f)
  \/ MessageDelivered(f)
  \/ MessagesDelivered(f)
  \/ ClearPending(f)
  \/ SummaryGenerated(f)
  \/ FireCallEnd(f)
  \/ FireBooking(f)
  \/ FireIntake(f)
  \/ DeliverReport(f)
  \/ ReportDelivered(f)
  \/ ReportsDelivered(f)
  \/ Finish(f)

Next ==
  \/ Tools
  \/ Setup
  \/ \E f \in Finalizers :
       OnCallEnded(f) \/ AlreadyFinalized(f) \/ FanOutStep(f)

Spec == Init /\ [][Next]_vars

\* Every await of the fan-out is bounded: the stop request, the file write
\* and the deliveries return or raise, the summary has a deadline.
Fairness == \A f \in Finalizers : WF_vars(FanOutStep(f))

FairSpec == Spec /\ Fairness

-----------------------------------------------------------------------------
Sealed == {f \in Finalizers : pc[f] = "done"}

TypeOK ==
  /\ config \in Configs
  /\ finalized \in BOOLEAN
  /\ outcomes \subseteq Outcomes
  /\ endReason \in Reasons \cup {None}
  /\ booked \in BOOLEAN
  /\ pendingMsgs \in Seq(Messages)
  /\ pendingIntake \in Submissions \cup {None}
  /\ recording \in {"off", "requested", "live", "failed", "stopped"}
  /\ transcript \in {"none", "written", "failed"}
  /\ pc \in [Finalizers -> Labels]
  /\ run \in [Finalizers -> Locals]
  /\ mail \in Seq(Mail)
  /\ taken \subseteq Messages
  /\ atEnd \in [msgs : SUBSET Messages, intake : BOOLEAN, booked : BOOLEAN]

\* What makes two attempts attempts at the same email: the trigger, the
\* channel, and for a message email the message.
Identity(e) ==
  <<e.trigger, e.channel, IF e.trigger = "message" THEN e.msgs[1] ELSE None>>

Identities == Triggers \X (1..MaxChannels) \X (Messages \cup {None})

(***************************************************************************)
(* However many tasks call on_call_ended and however they interleave with  *)
(* late tools, no email is attempted twice ("operators receive duplicate   *)
(* emails", the comment on _finalized).                                    *)
(***************************************************************************)
NoDuplicateMail ==
  \A i, j \in DOMAIN mail : Identity(mail[i]) = Identity(mail[j]) => i = j

(***************************************************************************)
(* Consolidated mode: one email per channel and call, of whatever kind     *)
(* (the comment "exactly ONE email per call" in on_call_ended).            *)
(***************************************************************************)
OneReportPerChannel ==
  config.onCallEnd =>
    \A i, j \in DOMAIN mail : mail[i].channel = mail[j].channel => i = j

(***************************************************************************)
(* What was pending when the call ended reaches every channel by the time  *)
(* the fan-out is over, in whichever mode: the messages, the intake and    *)
(* the booking, even when tools keep recording during the fan-out.         *)
(***************************************************************************)
Sent(c, P(_)) == \E i \in DOMAIN mail : mail[i].channel = c /\ P(mail[i])

ReportedConsolidated(c) ==
  Sent(c, LAMBDA e : /\ e.trigger = "call_end"
                     /\ atEnd.msgs \subseteq Elements(e.msgs)
                     /\ atEnd.intake => e.intake # None)

ReportedSeparately(c) ==
  /\ config.onMessage =>
       \A m \in atEnd.msgs :
         Sent(c, LAMBDA e : e.trigger = "message" /\ e.msgs = <<m>>)
  /\ config.onBooking /\ atEnd.booked =>
       Sent(c, LAMBDA e : e.trigger = "booking")
  /\ atEnd.intake =>
       Sent(c, LAMBDA e : e.trigger = "intake" /\ e.intake # None)

EarlyDataReported ==
  Sealed # {} =>
    \A c \in 1..config.channels :
      IF config.onCallEnd THEN ReportedConsolidated(c)
                          ELSE ReportedSeparately(c)

(***************************************************************************)
(* Emails attach the transcript file, so none is attempted before the      *)
(* write has been answered, nor while the recording the fan-out found live *)
(* has not been stopped (its URL is part of the email).                    *)
(***************************************************************************)
ArtifactsBeforeMail ==
  mail # <<>> => /\ config.transcripts => transcript # "none"
                 /\ \A f \in Finalizers : pc[f] # "stop"

(***************************************************************************)
(* A message enqueued is fired on every email channel once the call is     *)
(* finalized (the comment on _pending_message_emails).                     *)
(***************************************************************************)
EnqueuedMessagesFired ==
  Sealed # {} =>
    \A m \in taken, c \in 1..config.channels :
      Sent(c, LAMBDA e : m \in Elements(e.msgs))

(***************************************************************************)
(* A call of on_call_ended that has been made runs to its end, and the end *)
(* of call is reached by exactly one of them.                              *)
(***************************************************************************)
FanOutCompletes == finalized ~> Sealed # {}

(***************************************************************************)
(* The lifecycle implements CallReport: the call is reported from the      *)
(* moment _finalized is set until the call that set it returns.            *)
(***************************************************************************)
Abstract == INSTANCE CallReport WITH
  Emails <- Identities,
  phase  <- IF ~finalized THEN "live"
            ELSE IF Sealed = {} THEN "reporting" ELSE "complete",
  reason <- endReason,
  sent   <- [i \in DOMAIN mail |-> Identity(mail[i])]

ReportedOnce == Abstract!Spec
=============================================================================
