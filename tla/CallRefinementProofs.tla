------------------------- MODULE CallRefinementProofs -------------------------
(***************************************************************************)
(* Two more theorems about CallLifecycle for every value of its constants: *)
(* no email is attempted before the artifacts it refers to, and the        *)
(* lifecycle implements the abstract report of CallReport.                 *)
(***************************************************************************)
EXTENDS CallLifecycleProofs, SequenceTheorems

(***************************************************************************)
(* The invariant behind ArtifactsBeforeMail: a call of on_call_ended past  *)
(* the transcript's place in the fan-out has seen the write answered.      *)
(***************************************************************************)
Late == Labels \ {"idle", "skipped", "stop", "transcript", "write"}

WrittenByThen ==
  \A f \in Finalizers :
    pc[f] \in Late /\ config.transcripts => transcript # "none"

\* Every step keeps it: the files are answered before the emails begin.
LEMMA WrittenStep ==
  ASSUME TypeOK, WrittenByThen, [Next]_vars PROVE WrittenByThen'
  <1>0. pc \in [Finalizers -> Labels]
    BY DEF TypeOK
  <1>1. CASE UNCHANGED <<config, transcript, pc>>
    BY <1>1 DEF WrittenByThen
  <1>2. CASE Tools \/ Setup
    BY <1>1, <1>2, ToolsLeaveFanOut
  <1>3. ASSUME NEW f \in Finalizers,
               \/ pc'[f] \notin Late
               \/ pc[f] \in Late
               \/ ~config.transcripts,
               \E label \in Labels : Goto(f, label),
               UNCHANGED <<config, transcript>>
        PROVE  WrittenByThen'
    <2>1. \A g \in Finalizers : g # f => pc'[g] = pc[g]
      BY <1>0, <1>3 DEF Goto
    <2> QED
      BY <1>3, <2>1 DEF WrittenByThen
  <1>4. ASSUME NEW f \in Finalizers, OnCallEnded(f) \/ AlreadyFinalized(f)
        PROVE  WrittenByThen'
    <2>1. \E label \in {"stop", "transcript", "skipped"} : Goto(f, label)
      BY <1>4 DEF OnCallEnded, AlreadyFinalized
    <2>2. pc'[f] \notin Late /\ \E label \in Labels : Goto(f, label)
      BY <1>0, <2>1 DEF Goto, Late, Labels, Running, Waiting
    <2> QED
      BY <1>3, <1>4, <2>2 DEF OnCallEnded, AlreadyFinalized, artifacts
  <1>5. ASSUME NEW f \in Finalizers, TranscriptWritten(f)
        PROVE  WrittenByThen'
    BY <1>5 DEF TranscriptWritten, WrittenByThen
  <1>6. ASSUME NEW f \in Finalizers, WriteTranscript(f)
        PROVE  WrittenByThen'
    <2>1. \/ pc'[f] = "write"
          \/ ~config.transcripts
      BY <1>0, <1>6 DEF WriteTranscript, AfterRecording, Goto
    <2>2. \E label \in Labels : Goto(f, label)
      BY <1>6 DEF WriteTranscript, AfterRecording, Labels, Running, Waiting
    <2> QED
      BY <1>3, <1>6, <2>1, <2>2 DEF WriteTranscript, artifacts, Late
  <1>7. ASSUME NEW f \in Finalizers, RecordingStopped(f)
        PROVE  WrittenByThen'
    <2>1. pc'[f] = "transcript" /\ \E label \in Labels : Goto(f, label)
      BY <1>0, <1>7 DEF RecordingStopped, Goto, Labels, Running
    <2> QED
      BY <1>3, <1>7, <2>1 DEF RecordingStopped, Late
  <1>8. ASSUME NEW f \in Finalizers, FanOutStep(f), ~TranscriptWritten(f),
               ~WriteTranscript(f), ~RecordingStopped(f)
        PROVE  WrittenByThen'
    <2>1. pc[f] \in Late
      BY <1>0, <1>8
      DEF FanOutStep, BeginEmail, DeliverMessage, MessageDelivered,
          MessagesDelivered, ClearPending, SummaryGenerated, FireCallEnd,
          FireBooking, FireIntake, DeliverReport, ReportDelivered,
          ReportsDelivered, Finish, Late
    <2>2. transcript' = transcript
      BY <1>8
      DEF FanOutStep, BeginEmail, DeliverMessage, MessageDelivered,
          MessagesDelivered, ClearPending, SummaryGenerated, FireCallEnd,
          FireBooking, FireIntake, DeliverReport, ReportDelivered,
          ReportsDelivered, Finish, artifacts
    <2> QED
      BY <1>3, <1>8, <2>1, <2>2, FanOutStepMoves
  <1>9. CASE UNCHANGED vars
    BY <1>1, <1>9 DEF vars, artifacts
  <1> QED
    BY <1>2, <1>4, <1>5, <1>6, <1>7, <1>8, <1>9 DEF Next

(***************************************************************************)
(* No email is attempted before the transcript write has been answered or  *)
(* while the recording is still to be stopped, whichever task fans out.    *)
(***************************************************************************)
THEOREM MailedWithArtifacts == Spec => []ArtifactsBeforeMail
  <1>1. Init => WrittenByThen
    BY DEF Init, WrittenByThen, Late
  <1>2. TypeOK /\ WrittenByThen /\ [Next]_vars => WrittenByThen'
    BY WrittenStep
  <1>3. MailInv /\ WrittenByThen => ArtifactsBeforeMail
    <2> SUFFICES ASSUME MailInv, WrittenByThen, mail # <<>>
                 PROVE  /\ config.transcripts => transcript # "none"
                        /\ \A f \in Finalizers : pc[f] # "stop"
      BY DEF ArtifactsBeforeMail
    <2>1. \A f \in Finalizers : pc[f] \notin Early
      BY DEF MailInv, MailOrdered
    <2>2. PICK f \in Finalizers : Active(f)
      BY DEF MailInv, OneFanOut
    <2>3. pc[f] \in Late
      BY <2>1, <2>2 DEF MailInv, TypeOK, Active, Early, Late
    <2> QED
      BY <2>1, <2>3 DEF Early, WrittenByThen
  <1> QED
    BY <1>1, <1>2, <1>3, MailInit, MailStep, TypeCorrect, PTL DEF Spec

-----------------------------------------------------------------------------
(***************************************************************************)
(* The position of a call in the message loop names a channel that exists. *)
(***************************************************************************)
AtChannel(f) ==
  /\ pc[f] \in {"idle", "stop", "transcript", "write", "email"} =>
       run[f].channel = 1
  /\ pc[f] \in {"messages", "message"} =>
       run[f].channel = 1 \/ run[f].channel <= config.channels

ChannelsKnown == \A f \in Finalizers : AtChannel(f)

\* Every step keeps the delivery loops within the channels of the config.
LEMMA ChannelsStep ==
  ASSUME TypeOK, ChannelsKnown, [Next]_vars PROVE ChannelsKnown'
  <1>0. pc \in [Finalizers -> Labels] /\ run \in [Finalizers -> Locals]
    BY DEF TypeOK
  <1>1. CASE UNCHANGED <<config, pc, run>>
    BY <1>1 DEF ChannelsKnown, AtChannel
  <1>2. CASE Tools \/ Setup
    BY <1>1, <1>2, ToolsLeaveFanOut
  <1>3. ASSUME NEW f \in Finalizers, AtChannel(f)', config' = config,
               \A g \in Finalizers : g # f => pc'[g] = pc[g] /\ run'[g] = run[g]
        PROVE  ChannelsKnown'
    BY <1>3 DEF ChannelsKnown, AtChannel
  <1>4. ASSUME NEW f \in Finalizers, OnCallEnded(f) \/ AlreadyFinalized(f)
        PROVE  ChannelsKnown'
    <2>1. /\ run[f].channel = 1 /\ UNCHANGED <<run, config>>
          /\ pc'[f] \notin {"messages", "message"}
          /\ \A g \in Finalizers : g # f => pc'[g] = pc[g]
      BY <1>0, <1>4
      DEF OnCallEnded, AlreadyFinalized, Goto, ChannelsKnown, AtChannel
    <2> QED
      BY <1>3, <2>1 DEF AtChannel
  <1>5. ASSUME NEW f \in Finalizers, FanOutStep(f) PROVE ChannelsKnown'
    <2>1. /\ config' = config
          /\ \A g \in Finalizers : g # f => pc'[g] = pc[g]
      BY <1>0, <1>5, FanOutStepMoves DEF Goto
    <2>2. \A g \in Finalizers : g # f => run'[g] = run[g]
      BY <1>0, <1>5
      DEF FanOutStep, RecordingStopped, WriteTranscript, TranscriptWritten,
          BeginEmail, DeliverMessage, MessageDelivered, MessagesDelivered,
          ClearPending, SummaryGenerated, FireCallEnd, FireBooking,
          FireIntake, Fire, DeliverReport, ReportDelivered,
          ReportsDelivered, Finish
    <2>3. CASE RecordingStopped(f) \/ WriteTranscript(f) \/ TranscriptWritten(f)
      <3>1. run[f].channel = 1 /\ run' = run
            /\ pc'[f] \in {"transcript", "write", "email"}
        BY <1>0, <2>3
        DEF RecordingStopped, WriteTranscript, AfterRecording,
            TranscriptWritten, Goto, ChannelsKnown, AtChannel
      <3>2. AtChannel(f)'
        BY <3>1 DEF AtChannel
      <3> QED
        BY <1>3, <2>1, <2>2, <3>2
    <2>4. CASE BeginEmail(f)
      <3>1. run'[f] = [run[f] EXCEPT !.captured = pendingMsgs]
            /\ run[f].channel = 1
            /\ pc'[f] \in {"messages", "clear", "finish"}
        BY <1>0, <2>4 DEF BeginEmail, EmailMode, Goto, ChannelsKnown, AtChannel
      <3>2. AtChannel(f)'
        BY <3>1 DEF AtChannel
      <3> QED
        BY <1>3, <2>1, <2>2, <3>2
    <2>5. CASE DeliverMessage(f)
      <3>1. run' = run /\ pc[f] = "messages" /\ pc'[f] = "message"
        BY <1>0, <2>5 DEF DeliverMessage, Goto
      <3>2. AtChannel(f)'
        BY <2>1, <3>1 DEF AtChannel, ChannelsKnown
      <3> QED
        BY <1>3, <2>1, <2>2, <3>2
    <2>6. CASE MessageDelivered(f)
      <3> DEFINE l == run[f]
      <3>1. run'[f] = NextDelivery(l) /\ pc'[f] = "messages"
        BY <1>0, <2>6 DEF MessageDelivered, Goto
      <3>2. l.channel \in Nat
        BY <1>0 DEF Locals
      <3>3. [l EXCEPT !.channel = l.channel + 1].channel = l.channel + 1
        BY <1>0 DEF Locals
      <3>4. [l EXCEPT !.channel = 1].channel = 1
        BY <1>0 DEF Locals
      <3>5. [l EXCEPT !.channel = 1, !.msg = l.msg + 1].channel = 1
        BY <3>4
      <3>6. CASE l.channel < config.channels
        <4>1. run'[f].channel = l.channel + 1
          BY <3>1, <3>3, <3>6 DEF NextDelivery
        <4>2. config.channels \in Nat
          BY ConfigAssumption DEF TypeOK, ConfigType
        <4> QED
          BY <1>3, <2>1, <2>2, <3>1, <3>2, <3>6, <4>1, <4>2 DEF AtChannel
      <3>7. CASE ~(l.channel < config.channels)
        <4>1. run'[f].channel = 1
          BY <3>1, <3>5, <3>7 DEF NextDelivery
        <4> QED
          BY <1>3, <2>1, <2>2, <3>1, <4>1 DEF AtChannel
      <3> QED
        BY <3>6, <3>7
    <2>7. ASSUME ~RecordingStopped(f), ~WriteTranscript(f),
                 ~TranscriptWritten(f), ~BeginEmail(f), ~DeliverMessage(f),
                 ~MessageDelivered(f)
          PROVE  ChannelsKnown'
      <3>1. pc'[f] \notin {"idle", "stop", "transcript", "write", "email",
                           "messages", "message"}
        BY <1>0, <1>5, <2>7
        DEF FanOutStep, MessagesDelivered, ClearPending, SummaryGenerated,
            FireCallEnd, FireBooking, FireIntake, Fire, DeliverReport,
            ReportDelivered, AfterDelivery, ReportsDelivered, Finish, Goto
      <3>2. AtChannel(f)'
        BY <3>1 DEF AtChannel
      <3> QED
        BY <1>3, <2>1, <2>2, <3>2
    <2> QED
      BY <2>3, <2>4, <2>5, <2>6, <2>7
  <1>6. CASE UNCHANGED vars
    BY <1>1, <1>6 DEF vars
  <1> QED
    BY <1>2, <1>4, <1>5, <1>6 DEF Next

-----------------------------------------------------------------------------
(***************************************************************************)
(* The step simulation.  What the abstract specification sees of a state:  *)
(* the phase, the reason, and the identities of the emails attempted.      *)
(***************************************************************************)
RefinementInv == MailInv /\ ChannelsKnown

Phase == IF ~finalized THEN "live"
         ELSE IF Sealed = {} THEN "reporting" ELSE "complete"

SentSoFar == [i \in DOMAIN mail |-> Identity(mail[i])]

(***************************************************************************)
(* While a call is at work the abstract phase is "reporting".              *)
(***************************************************************************)
LEMMA AtWork ==
  ASSUME OneFanOut, NEW f \in Finalizers, Active(f), pc[f] # "done"
  PROVE  Phase = "reporting"
  BY DEF OneFanOut, Active, Sealed, Phase

(***************************************************************************)
(* Appending an email whose identity is new is an abstract Send.           *)
(***************************************************************************)
LEMMA AppendIsSend ==
  ASSUME mail \in Seq(Mail), NEW e \in Mail, mail' = Append(mail, e),
         Identity(e) \in Identities, NoDuplicateMail',
         Phase = "reporting", Phase' = "reporting", endReason' = endReason
  PROVE  Abstract!Send
  <1> DEFINE n == Len(mail) + 1
  <1>1. /\ DOMAIN mail = 1..Len(mail) /\ Len(mail) \in Nat
        /\ DOMAIN mail' = 1..n
        /\ \A k \in DOMAIN mail : mail'[k] = mail[k]
        /\ mail'[n] = e
    OBVIOUS
  <1>2. \A k \in DOMAIN mail : Identity(mail[k]) # Identity(e)
    <2> SUFFICES ASSUME NEW k \in DOMAIN mail, Identity(mail[k]) = Identity(e)
                 PROVE  FALSE
      OBVIOUS
    <2>1. k \in DOMAIN mail' /\ n \in DOMAIN mail' /\ k # n
      BY <1>1
    <2>2. Identity(mail'[k]) = Identity(mail'[n])
      BY <1>1
    <2> QED
      BY <2>1, <2>2 DEF NoDuplicateMail, Identity
  <1> DEFINE S == {Identity(mail[k]) : k \in DOMAIN mail} \cup {Identity(e)}
             t == Append(SentSoFar, Identity(e))
  <1>3. SentSoFar \in Seq(S) /\ Len(SentSoFar) = Len(mail)
    BY <1>1 DEF SentSoFar
  <1>4. /\ t \in Seq(S) /\ Len(t) = n /\ t[n] = Identity(e)
        /\ \A k \in DOMAIN mail : t[k] = Identity(mail[k])
    <2>1. Identity(e) \in S
      OBVIOUS
    <2>2. \A k \in DOMAIN mail : SentSoFar[k] = Identity(mail[k])
      BY DEF SentSoFar
    <2> HIDE DEF S
    <2> QED
      BY <1>1, <1>3, <2>1, <2>2, AppendProperties
  <1>5. /\ SentSoFar' \in Seq(S) /\ Len(SentSoFar') = n
        /\ \A k \in 1..n : SentSoFar'[k] = Identity(mail'[k])
    <2>1. SentSoFar' = [k \in 1..n |-> Identity(mail'[k])]
      BY <1>1 DEF SentSoFar, Identity
    <2>2. ASSUME NEW k \in 1..n PROVE Identity(mail'[k]) \in S
      <3>1. CASE k = n
        BY <1>1, <3>1
      <3>2. CASE k # n
        <4>1. k \in DOMAIN mail /\ mail'[k] = mail[k]
          BY <1>1, <3>2
        <4> QED
          BY <4>1
      <3> QED
        BY <3>1, <3>2
    <2> HIDE DEF S
    <2> QED
      BY <1>1, <2>1, <2>2
  <1>6. SentSoFar' = t
    <2>1. \A k \in 1..n : SentSoFar'[k] = t[k]
      <3> SUFFICES ASSUME NEW k \in 1..n PROVE SentSoFar'[k] = t[k]
        OBVIOUS
      <3>1. CASE k = n
        BY <1>1, <1>4, <1>5, <3>1
      <3>2. CASE k # n
        <4>1. k \in DOMAIN mail /\ mail'[k] = mail[k]
          BY <1>1, <3>2
        <4> QED
          BY <1>4, <1>5, <4>1
      <3> QED
        BY <3>1, <3>2
    <2> HIDE DEF S, t
    <2> QED
      BY <1>4, <1>5, <2>1, SeqEqual
  <1>7. \A k \in DOMAIN SentSoFar : SentSoFar[k] # Identity(e)
    BY <1>2 DEF SentSoFar
  <1> QED
    BY <1>6, <1>7 DEF Abstract!Send, Phase, SentSoFar

(***************************************************************************)
(* A step that changes neither the emails, nor the reason, nor the phase   *)
(* is a stutter of the abstract specification.                             *)
(***************************************************************************)
LEMMA Stutter ==
  ASSUME mail' = mail, endReason' = endReason, Phase' = Phase
  PROVE  UNCHANGED Abstract!callVars
  BY DEF Abstract!callVars, Phase, Identity

\* The phase depends on finalized and pc alone.
LEMMA PhaseKept ==
  ASSUME UNCHANGED <<finalized, pc>> PROVE Phase' = Phase
  BY DEF Phase, Sealed

(***************************************************************************)
(* A step of the fan-out keeps the reason and is taken while reporting;    *)
(* only Finish seals the call.                                             *)
(***************************************************************************)
LEMMA FanOutStepPhase ==
  ASSUME RefinementInv, OneFanOut', NEW f \in Finalizers, FanOutStep(f)
  PROVE  /\ Phase = "reporting"
         /\ endReason' = endReason
         /\ ~Finish(f) => Phase' = "reporting"
         /\ ~DeliverMessage(f) /\ ~DeliverReport(f) => mail' = mail
  <1>0. TypeOK /\ OneFanOut /\ pc \in [Finalizers -> Labels]
    BY DEF RefinementInv, MailInv, TypeOK
  <1>1. pc[f] # "done"
    BY DEF FanOutStep, RecordingStopped, WriteTranscript, TranscriptWritten,
           BeginEmail, DeliverMessage, MessageDelivered, MessagesDelivered,
           ClearPending, SummaryGenerated, FireCallEnd, FireBooking,
           FireIntake, DeliverReport, ReportDelivered, ReportsDelivered,
           Finish
  <1>2. Phase = "reporting"
    BY <1>0, <1>1, FanOutStepMoves, AtWork
  <1>3. endReason' = endReason
    BY DEF FanOutStep, RecordingStopped, WriteTranscript, TranscriptWritten,
           BeginEmail, DeliverMessage, MessageDelivered, MessagesDelivered,
           ClearPending, SummaryGenerated, FireCallEnd, FireBooking,
           FireIntake, DeliverReport, ReportDelivered, ReportsDelivered,
           Finish, recorded
  <1>4. ASSUME ~Finish(f) PROVE Phase' = "reporting"
    <2>1. PICK label \in Labels \ {"idle", "skipped"} : Goto(f, label)
      BY <1>0, FanOutStepMoves
    <2>2. pc'[f] # "done"
      BY <1>0, <1>4
      DEF FanOutStep, RecordingStopped, WriteTranscript, AfterRecording,
          TranscriptWritten, BeginEmail, EmailMode, DeliverMessage,
          MessageDelivered, MessagesDelivered, ClearPending,
          SummaryGenerated, FireCallEnd, FireBooking, FireIntake, Fire,
          DeliverReport, ReportDelivered, AfterDelivery, ReportsDelivered,
          Goto
    <2>3. pc'[f] \notin {"idle", "skipped", "done"}
      BY <1>0, <2>1, <2>2 DEF Goto
    <2>4. finalized' /\ \A g \in Finalizers : pc'[g] # "done"
      BY <2>3 DEF OneFanOut, Active
    <2> QED
      BY <2>4 DEF Phase, Sealed
  <1>5. ~DeliverMessage(f) /\ ~DeliverReport(f) => mail' = mail
    BY QuietStepsOrdered DEF RefinementInv
  <1> QED
    BY <1>2, <1>3, <1>4, <1>5

(***************************************************************************)
(* The identity of an email the fan-out attempts is one the abstract       *)
(* specification knows: its channel exists.                                *)
(***************************************************************************)
LEMMA DeliveryIsSend ==
  ASSUME RefinementInv, RefinementInv', NEW f \in Finalizers,
         DeliverMessage(f) \/ DeliverReport(f)
  PROVE  Abstract!Send
  <1> DEFINE l == run[f]
  <1>1. /\ l \in Locals /\ mail \in Seq(Mail) /\ config.channels \in 0..MaxChannels
        /\ pendingMsgs \in Seq(Messages)
    BY ConfigAssumption DEF RefinementInv, MailInv, TypeOK, ConfigType
  <1>2. MaxChannels \in Nat
    BY ConfigAssumption
  <1>3. /\ Phase = "reporting" /\ Phase' = "reporting" /\ endReason' = endReason
    <2>1. ~Finish(f)
      BY DEF Finish, DeliverMessage, DeliverReport
    <2> QED
      BY <2>1, FanOutStepPhase DEF FanOutStep, RefinementInv, MailInv
  <1>4. NoDuplicateMail'
    BY DEF RefinementInv, MailInv
  <1>5. CASE DeliverMessage(f)
    <2> DEFINE e == [trigger |-> "message", channel |-> l.channel,
                     msgs |-> <<pendingMsgs[l.msg]>>, intake |-> None]
    <2>1. /\ mail' = Append(mail, e) /\ pc[f] = "messages"
          /\ l.msg <= Len(pendingMsgs) /\ config.channels > 0
      BY <1>5 DEF DeliverMessage
    <2>2. l.channel \in 1..MaxChannels
      <3>1. l.channel = 1 \/ l.channel <= config.channels
        BY <2>1 DEF RefinementInv, ChannelsKnown, AtChannel
      <3> QED
        BY <1>1, <1>2, <2>1, <3>1 DEF Locals
    <2>3. pendingMsgs[l.msg] \in Messages
      BY <1>1, <2>1 DEF Locals
    <2>4. e \in Mail
      BY <1>1, <2>3 DEF Mail, Locals, Triggers
    <2>5. Identity(e) \in Identities
      BY <2>2, <2>3 DEF Identity, Identities, Triggers
    <2> QED
      BY <1>1, <1>3, <1>4, <2>1, <2>4, <2>5, AppendIsSend
  <1>6. CASE DeliverReport(f)
    <2> DEFINE e == Report(f)
    <2>1. /\ mail' = Append(mail, e) /\ pc[f] = "fire"
          /\ l.channel <= config.channels
      BY <1>6 DEF DeliverReport
    <2>2. e \in Mail /\ e.trigger = l.trigger /\ e.channel = l.channel
      BY <1>1 DEF Report, Mail, Locals
    <2>3. l.channel \in 1..MaxChannels
      BY <1>1, <1>2, <2>1 DEF Locals
    <2>4. l.trigger # "message" /\ l.trigger \in Triggers
      BY <1>1, <2>1 DEF RefinementInv, MailInv, MailOrdered, Locals
    <2>5. Identity(e) \in Identities
      BY <2>2, <2>3, <2>4 DEF Identity, Identities
    <2> QED
      BY <1>1, <1>3, <1>4, <2>1, <2>2, <2>5, AppendIsSend
  <1> QED
    BY <1>5, <1>6

(***************************************************************************)
(* Every step of the lifecycle is a step of the abstract specification, or *)
(* a stutter.                                                              *)
(***************************************************************************)
LEMMA Simulation ==
  RefinementInv /\ RefinementInv' /\ [Next]_vars =>
    [Abstract!Next]_Abstract!callVars
  <1> SUFFICES ASSUME RefinementInv, RefinementInv', [Next]_vars
               PROVE  Abstract!Next \/ UNCHANGED Abstract!callVars
    OBVIOUS
  <1>0. TypeOK /\ OneFanOut /\ OneFanOut' /\ pc \in [Finalizers -> Labels]
    BY DEF RefinementInv, MailInv, TypeOK
  <1>1. CASE Tools
    <2>1. mail' = mail /\ Phase' = Phase
      BY <1>1, ToolsLeaveFanOut, PhaseKept
    <2>2. ASSUME NEW r \in Reasons, RecordAgentEnded(r)
          PROVE  Abstract!Next \/ UNCHANGED Abstract!callVars
      <3>1. CASE endReason = None
        <4>1. Abstract!NoteReason
          BY <2>1, <2>2, <3>1
          DEF RecordAgentEnded, FirstReason, Abstract!NoteReason, Phase,
              Identity
        <4> QED
          BY <4>1 DEF Abstract!Next
      <3>2. CASE endReason # None
        BY <2>1, <2>2, <3>2, Stutter DEF RecordAgentEnded, FirstReason
      <3> QED
        BY <3>1, <3>2
    <2>3. CASE endReason' = endReason
      BY <2>1, <2>3, Stutter
    <2> QED
      BY <1>1, <2>2, <2>3
      DEF Tools, RecordOutcome, RecordAppointmentBooked, EnqueueMessage,
          EnqueueIntake, recorded
  <1>2. CASE Setup
    <2>1. mail' = mail /\ Phase' = Phase
      BY <1>2, ToolsLeaveFanOut, PhaseKept
    <2> QED
      BY <1>2, <2>1, Stutter
      DEF Setup, RequestRecording, RecordingAnswered, recorded
  <1>3. ASSUME NEW f \in Finalizers, OnCallEnded(f) PROVE Abstract!Next
    <2>1. ~finalized /\ finalized' /\ UNCHANGED <<endReason, mail>>
      BY <1>3 DEF OnCallEnded, MayFinalize, recorded
    <2>2. \A g \in Finalizers : ~Active(g)
      BY <1>0, <2>1 DEF OneFanOut
    <2>3. \A g \in Finalizers : pc'[g] # "done"
      BY <1>0, <1>3, <2>2 DEF OnCallEnded, Goto, Active
    <2>4. Phase = "live" /\ Phase' = "reporting"
      BY <2>1, <2>3 DEF Phase, Sealed
    <2>5. Abstract!BeginReport
      BY <2>1, <2>4 DEF Abstract!BeginReport, Phase, Identity
    <2> QED
      BY <2>5 DEF Abstract!Next
  <1>4. ASSUME NEW f \in Finalizers, AlreadyFinalized(f)
        PROVE  UNCHANGED Abstract!callVars
    <2>1. UNCHANGED <<finalized, endReason, mail>>
      BY <1>4 DEF AlreadyFinalized, recorded
    <2>2. \A g \in Finalizers : pc'[g] = "done" <=> pc[g] = "done"
      BY <1>0, <1>4 DEF AlreadyFinalized, Goto
    <2>3. Phase' = Phase
      BY <2>1, <2>2 DEF Phase, Sealed
    <2> QED
      BY <2>1, <2>3, Stutter
  <1>5. ASSUME NEW f \in Finalizers, FanOutStep(f)
        PROVE  Abstract!Next \/ UNCHANGED Abstract!callVars
    <2>1. CASE DeliverMessage(f) \/ DeliverReport(f)
      BY <2>1, DeliveryIsSend DEF Abstract!Next
    <2>2. CASE Finish(f)
      <3>1. ~DeliverMessage(f) /\ ~DeliverReport(f)
        BY <2>2 DEF Finish, DeliverMessage, DeliverReport
      <3>2. Phase = "reporting" /\ UNCHANGED <<endReason, mail>>
        BY <1>0, <1>5, <3>1, FanOutStepPhase
      <3>3. pc'[f] = "done" /\ finalized'
        BY <1>0, <2>2 DEF Finish, Goto, OneFanOut, Active
      <3>4. Phase' = "complete"
        BY <3>3 DEF Phase, Sealed
      <3>5. Abstract!Complete
        BY <3>2, <3>4 DEF Abstract!Complete, Phase, Identity
      <3> QED
        BY <3>5 DEF Abstract!Next
    <2>3. CASE ~DeliverMessage(f) /\ ~DeliverReport(f) /\ ~Finish(f)
      BY <1>0, <1>5, <2>3, FanOutStepPhase, Stutter
    <2> QED
      BY <2>1, <2>2, <2>3
  <1>6. CASE UNCHANGED vars
    BY <1>6, PhaseKept, Stutter DEF vars
  <1> QED
    BY <1>1, <1>2, <1>3, <1>4, <1>5, <1>6 DEF Next

(***************************************************************************)
(* The lifecycle implements CallReport: for any tools, tasks and           *)
(* configurations a call is reported once, every email in it is attempted  *)
(* once, and the first reason noted for its end is the one that stays.     *)
(***************************************************************************)
THEOREM ImplementsCallReport == Spec => ReportedOnce
  <1>1. Init => Abstract!Init
    BY DEF Init, Abstract!Init
  <1>2. Init => ChannelsKnown
    BY DEF Init, ChannelsKnown, AtChannel, InitialLocals
  <1>3. TypeOK /\ ChannelsKnown /\ [Next]_vars => ChannelsKnown'
    BY ChannelsStep
  <1>4. MailInv /\ ChannelsKnown <=> RefinementInv
    BY DEF RefinementInv
  <1> QED
    BY <1>1, <1>2, <1>3, <1>4, MailInit, MailStep, TypeCorrect, Simulation, PTL
    DEF Spec, ReportedOnce, Abstract!Spec
=============================================================================
