------------------------- MODULE CallLifecycleProofs -------------------------
(***************************************************************************)
(* Theorems about CallLifecycle for any number of tasks calling            *)
(* on_call_ended, of channels, messages and submissions: the types, that   *)
(* at most one of them runs the fan-out, that no email is attempted twice, *)
(* that a consolidated call attempts one per channel, and that what was    *)
(* pending when the call ended reaches every channel.                      *)
(***************************************************************************)
EXTENDS CallLifecycle, TLAPS

(***************************************************************************)
(* The locals a call of on_call_ended starts from, and resets to, have     *)
(* their type.                                                             *)
(***************************************************************************)
LEMMA LocalsTyped == InitialLocals \in Locals
  BY DEF InitialLocals, Locals, Triggers

\* CallLifecycle.__init__ leaves every variable with its type.
LEMMA InitTyped == Init => TypeOK
  <1> SUFFICES ASSUME Init PROVE TypeOK
    OBVIOUS
  <1>1. pc \in [Finalizers -> Labels]
    BY DEF Init, Labels
  <1>2. run \in [Finalizers -> Locals]
    BY LocalsTyped DEF Init
  <1>3. pendingMsgs \in Seq(Messages) /\ mail \in Seq(Mail)
    BY DEF Init
  <1>4. atEnd \in [msgs : SUBSET Messages, intake : BOOLEAN, booked : BOOLEAN]
    BY DEF Init
  <1> QED
    BY <1>1, <1>2, <1>3, <1>4 DEF Init, TypeOK

\* What the tools record keeps every type, before and after the call ended.
LEMMA ToolsTyped == TypeOK /\ Tools => TypeOK'
  <1> SUFFICES ASSUME TypeOK, Tools PROVE TypeOK'
    OBVIOUS
  <1>1. CASE RecordOutcome
    BY <1>1, DataAssumption
    DEF RecordOutcome, TypeOK, recorded, artifacts, Outcomes
  <1>2. CASE RecordAppointmentBooked
    BY <1>2 DEF RecordAppointmentBooked, TypeOK, artifacts, Outcomes
  <1>3. ASSUME NEW r \in Reasons, RecordAgentEnded(r) PROVE TypeOK'
    BY <1>3 DEF RecordAgentEnded, FirstReason, EndOutcome, TypeOK, artifacts,
                Outcomes
  <1>4. ASSUME NEW m \in Messages, EnqueueMessage(m) PROVE TypeOK'
    BY <1>4 DEF EnqueueMessage, TypeOK, artifacts, Outcomes
  <1>5. ASSUME NEW s \in Submissions, EnqueueIntake(s) PROVE TypeOK'
    BY <1>5 DEF EnqueueIntake, TypeOK, recorded, artifacts, Outcomes
  <1>6. QED
    BY <1>1, <1>2, <1>3, <1>4, <1>5 DEF Tools

\* Requesting the recording and its answer keep every type.
LEMMA SetupTyped == TypeOK /\ Setup => TypeOK'
  BY DEF Setup, RequestRecording, RecordingAnswered, TypeOK, recorded

(***************************************************************************)
(* The elements of a sequence of messages are messages.                    *)
(***************************************************************************)
LEMMA ElementsTyped ==
  ASSUME NEW s \in Seq(Messages) PROVE Elements(s) \subseteq Messages
  BY DEF Elements

(***************************************************************************)
(* Entering on_call_ended keeps the types, whether its guard lets the call *)
(* through or not.                                                         *)
(***************************************************************************)
LEMMA EntryTyped ==
  ASSUME TypeOK, NEW f \in Finalizers, OnCallEnded(f) \/ AlreadyFinalized(f)
  PROVE  TypeOK'
  <1>1. CASE OnCallEnded(f)
    <2>1. Elements(pendingMsgs) \subseteq Messages
      BY ElementsTyped DEF TypeOK
    <2>2. atEnd' \in [msgs : SUBSET Messages, intake : BOOLEAN,
                      booked : BOOLEAN]
      BY <1>1, <2>1 DEF OnCallEnded, TypeOK
    <2>3. pc' \in [Finalizers -> Labels]
      BY <1>1 DEF OnCallEnded, Goto, TypeOK, Labels, Running, Waiting
    <2>4. outcomes' \subseteq Outcomes
      BY <1>1 DEF OnCallEnded, Finalized, TypeOK, Outcomes
    <2> QED
      BY <1>1, <2>2, <2>3, <2>4
      DEF OnCallEnded, TypeOK, recorded, artifacts
  <1>2. CASE AlreadyFinalized(f)
    <2>1. pc' \in [Finalizers -> Labels]
      BY <1>2 DEF AlreadyFinalized, Goto, TypeOK, Labels
    <2> QED
      BY <1>2, <2>1 DEF AlreadyFinalized, TypeOK, recorded, artifacts
  <1> QED
    BY <1>1, <1>2

(***************************************************************************)
(* The fan-out's steps that change no local variable of the call.          *)
(***************************************************************************)
LEMMA MovesTyped ==
  ASSUME TypeOK, NEW f \in Finalizers,
         \/ RecordingStopped(f) \/ WriteTranscript(f) \/ TranscriptWritten(f)
         \/ MessagesDelivered(f) \/ ClearPending(f) \/ SummaryGenerated(f)
         \/ ReportsDelivered(f)
  PROVE  TypeOK'
  <1>1. CASE RecordingStopped(f)
    <2>1. pc' \in [Finalizers -> Labels]
      BY <1>1 DEF RecordingStopped, Goto, TypeOK, Labels, Running
    <2> QED
      BY <1>1, <2>1 DEF RecordingStopped, TypeOK, recorded
  <1>2. CASE WriteTranscript(f)
    <2>1. pc' \in [Finalizers -> Labels]
      BY <1>2
      DEF WriteTranscript, AfterRecording, Goto, TypeOK, Labels, Running,
          Waiting
    <2> QED
      BY <1>2, <2>1 DEF WriteTranscript, TypeOK, recorded, artifacts
  <1>3. CASE TranscriptWritten(f)
    <2>1. pc' \in [Finalizers -> Labels]
      BY <1>3 DEF TranscriptWritten, Goto, TypeOK, Labels, Running
    <2> QED
      BY <1>3, <2>1 DEF TranscriptWritten, TypeOK, recorded
  <1>4. CASE MessagesDelivered(f)
    <2>1. pc' \in [Finalizers -> Labels]
      BY <1>4 DEF MessagesDelivered, Goto, TypeOK, Labels, Running
    <2> QED
      BY <1>4, <2>1 DEF MessagesDelivered, TypeOK, recorded, artifacts
  <1>5. CASE ClearPending(f)
    <2>1. pc' \in [Finalizers -> Labels]
      BY <1>5 DEF ClearPending, Goto, TypeOK, Labels, Running, Waiting
    <2>2. pendingMsgs' \in Seq(Messages)
      BY <1>5 DEF ClearPending
    <2> QED
      BY <1>5, <2>1, <2>2 DEF ClearPending, TypeOK, recorded, artifacts
  <1>6. CASE SummaryGenerated(f)
    <2>1. pc' \in [Finalizers -> Labels]
      BY <1>6 DEF SummaryGenerated, Goto, TypeOK, Labels, Running
    <2> QED
      BY <1>6, <2>1 DEF SummaryGenerated, TypeOK, recorded, artifacts
  <1>7. CASE ReportsDelivered(f)
    <2>1. pc' \in [Finalizers -> Labels]
      BY <1>7 DEF ReportsDelivered, Goto, TypeOK, Labels, Running
    <2> QED
      BY <1>7, <2>1 DEF ReportsDelivered, TypeOK, recorded, artifacts
  <1> QED
    BY <1>1, <1>2, <1>3, <1>4, <1>5, <1>6, <1>7

(***************************************************************************)
(* The fan-out's steps that set local variables of the call.               *)
(***************************************************************************)
LEMMA LocalStepsTyped ==
  ASSUME TypeOK, NEW f \in Finalizers,
         \/ BeginEmail(f) \/ MessageDelivered(f) \/ FireCallEnd(f)
         \/ FireBooking(f) \/ FireIntake(f) \/ ReportDelivered(f) \/ Finish(f)
  PROVE  TypeOK'
  <1> DEFINE l == run[f]
  <1>0. run \in [Finalizers -> Locals] /\ l \in Locals
    BY DEF TypeOK
  <1>one. 1 \in Nat \ {0}
    OBVIOUS
  <1>1. CASE BeginEmail(f)
    <2>1. pc' \in [Finalizers -> Labels]
      BY <1>1 DEF BeginEmail, EmailMode, Goto, TypeOK, Labels, Running
    <2>2. [l EXCEPT !.captured = pendingMsgs] \in Locals
      BY <1>0 DEF Locals, TypeOK
    <2>3. run' \in [Finalizers -> Locals]
      BY <1>0, <1>1, <2>2 DEF BeginEmail
    <2> QED
      BY <1>1, <2>1, <2>3 DEF BeginEmail, TypeOK, recorded, artifacts
  <1>2. CASE MessageDelivered(f)
    <2>1. pc' \in [Finalizers -> Labels]
      BY <1>2 DEF MessageDelivered, Goto, TypeOK, Labels, Running
    <2>2. NextDelivery(l) \in Locals
      <3>1. l.channel + 1 \in Nat \ {0} /\ l.msg + 1 \in Nat \ {0}
        BY <1>0 DEF Locals
      <3>2. [l EXCEPT !.channel = l.channel + 1] \in Locals
        BY <1>0, <3>1 DEF Locals
      <3>3. [l EXCEPT !.channel = 1] \in Locals
        BY <1>0, <1>one DEF Locals
      <3>4. [l EXCEPT !.channel = 1, !.msg = l.msg + 1] \in Locals
        BY <3>1, <3>3 DEF Locals
      <3> QED
        BY <3>2, <3>4 DEF NextDelivery
    <2>3. run' \in [Finalizers -> Locals]
      BY <1>0, <1>2, <2>2 DEF MessageDelivered
    <2> QED
      BY <1>2, <2>1, <2>3 DEF MessageDelivered, TypeOK, recorded, artifacts
  <1>3. ASSUME NEW trigger \in Triggers, NEW intake \in Submissions \cup {None},
               Fire(f, trigger, intake)
        PROVE  run' \in [Finalizers -> Locals] /\ pc' \in [Finalizers -> Labels]
    <2>1. [l EXCEPT !.trigger = trigger] \in Locals
      BY <1>0 DEF Locals
    <2>2. [l EXCEPT !.trigger = trigger, !.channel = 1] \in Locals
      BY <2>1, <1>one DEF Locals
    <2>3. [l EXCEPT !.trigger = trigger, !.channel = 1, !.intake = intake]
            \in Locals
      BY <2>2 DEF Locals
    <2>4. run' \in [Finalizers -> Locals]
      BY <1>0, <1>3, <2>3 DEF Fire
    <2> QED
      BY <1>3, <2>4 DEF Fire, Goto, TypeOK, Labels, Running
  <1>4. CASE FireCallEnd(f)
    BY <1>3, <1>4 DEF FireCallEnd, TypeOK, Triggers, recorded, artifacts
  <1>5. CASE FireBooking(f)
    <2>1. run' \in [Finalizers -> Locals] /\ pc' \in [Finalizers -> Labels]
      <3>1. CASE config.onBooking /\ booked
        BY <1>3, <1>5, <3>1 DEF FireBooking, Triggers
      <3>2. CASE ~(config.onBooking /\ booked)
        BY <1>0, <1>5, <3>2 DEF FireBooking, Goto, TypeOK, Labels, Running
      <3> QED
        BY <3>1, <3>2
    <2> QED
      BY <1>5, <2>1 DEF FireBooking, TypeOK, recorded, artifacts
  <1>6. CASE FireIntake(f)
    <2>1. run' \in [Finalizers -> Locals] /\ pc' \in [Finalizers -> Labels]
      <3>1. CASE pendingIntake # None
        BY <1>3, <1>6, <3>1 DEF FireIntake, Triggers, TypeOK
      <3>2. CASE pendingIntake = None
        BY <1>0, <1>6, <3>2 DEF FireIntake, Goto, TypeOK, Labels, Running
      <3> QED
        BY <3>1, <3>2
    <2> QED
      BY <1>6, <2>1 DEF FireIntake, TypeOK, recorded, artifacts
  <1>7. CASE ReportDelivered(f)
    <2>1. pc' \in [Finalizers -> Labels]
      BY <1>7
      DEF ReportDelivered, AfterDelivery, Goto, TypeOK, Labels, Running
    <2>2. [l EXCEPT !.channel = l.channel + 1] \in Locals
      <3>1. l.channel + 1 \in Nat \ {0}
        BY <1>0 DEF Locals
      <3> QED
        BY <1>0, <3>1 DEF Locals
    <2>3. run' \in [Finalizers -> Locals]
      BY <1>0, <1>7, <2>2 DEF ReportDelivered
    <2> QED
      BY <1>7, <2>1, <2>3 DEF ReportDelivered, TypeOK, recorded, artifacts
  <1>8. CASE Finish(f)
    <2>1. pc' \in [Finalizers -> Labels]
      BY <1>8 DEF Finish, Goto, TypeOK, Labels
    <2>2. run' \in [Finalizers -> Locals]
      BY <1>0, <1>8, LocalsTyped DEF Finish
    <2> QED
      BY <1>8, <2>1, <2>2 DEF Finish, TypeOK, recorded, artifacts
  <1> QED
    BY <1>1, <1>2, <1>4, <1>5, <1>6, <1>7, <1>8

(***************************************************************************)
(* The two steps that attempt a delivery append a mail of the right type.  *)
(***************************************************************************)
LEMMA DeliveriesTyped ==
  ASSUME TypeOK, NEW f \in Finalizers, DeliverMessage(f) \/ DeliverReport(f)
  PROVE  TypeOK'
  <1>0. run[f] \in Locals
    BY DEF TypeOK
  <1>1. CASE DeliverMessage(f)
    <2> DEFINE e == [trigger |-> "message", channel |-> run[f].channel,
                     msgs |-> <<pendingMsgs[run[f].msg]>>, intake |-> None]
    <2>1. pc' \in [Finalizers -> Labels]
      BY <1>1 DEF DeliverMessage, Goto, TypeOK, Labels, Waiting
    <2>2. e \in Mail
      <3>1. pc[f] = "messages" /\ run[f].msg <= Len(pendingMsgs)
        BY <1>1 DEF DeliverMessage
      <3> QED
        BY <1>0, <3>1 DEF Mail, Locals, Triggers, TypeOK
    <2>3. mail' \in Seq(Mail)
      BY <1>1, <2>2 DEF DeliverMessage, TypeOK
    <2> QED
      BY <1>1, <2>1, <2>3 DEF DeliverMessage, TypeOK, recorded, artifacts
  <1>2. CASE DeliverReport(f)
    <2>1. pc' \in [Finalizers -> Labels]
      BY <1>2 DEF DeliverReport, Goto, TypeOK, Labels, Waiting
    <2>2. Report(f) \in Mail
      BY <1>0 DEF Report, Mail, Locals
    <2>3. mail' \in Seq(Mail)
      BY <1>2, <2>2 DEF DeliverReport, TypeOK
    <2> QED
      BY <1>2, <2>1, <2>3 DEF DeliverReport, TypeOK, recorded, artifacts
  <1> QED
    BY <1>1, <1>2

(***************************************************************************)
(* Every step of the lifecycle keeps the types of its variables.           *)
(***************************************************************************)
LEMMA StepTyped == TypeOK /\ [Next]_vars => TypeOK'
  <1> SUFFICES ASSUME TypeOK, [Next]_vars PROVE TypeOK'
    OBVIOUS
  <1>1. CASE Tools
    BY <1>1, ToolsTyped
  <1>2. CASE Setup
    BY <1>2, SetupTyped
  <1>3. ASSUME NEW f \in Finalizers, OnCallEnded(f) \/ AlreadyFinalized(f)
        PROVE  TypeOK'
    BY <1>3, EntryTyped
  <1>4. ASSUME NEW f \in Finalizers, FanOutStep(f) PROVE TypeOK'
    BY <1>4, MovesTyped, LocalStepsTyped, DeliveriesTyped DEF FanOutStep
  <1>5. CASE UNCHANGED vars
    BY <1>5 DEF vars, TypeOK
  <1> QED
    BY <1>1, <1>2, <1>3, <1>4, <1>5 DEF Next

(***************************************************************************)
(* Type correctness: whatever the tools record and however many tasks call *)
(* on_call_ended, every variable of the lifecycle keeps its type.          *)
(***************************************************************************)
THEOREM TypeCorrect == Spec => []TypeOK
  BY InitTyped, StepTyped, PTL DEF Spec

-----------------------------------------------------------------------------
(***************************************************************************)
(* One fan-out, each email once.                                           *)
(***************************************************************************)
\* A call of on_call_ended that has passed the guard.
Active(f) == pc[f] \notin {"idle", "skipped"}

OneFanOut ==
  /\ \A f, g \in Finalizers : Active(f) /\ Active(g) => f = g
  /\ finalized <=> \E f \in Finalizers : Active(f)

(***************************************************************************)
(* The tools and the setup leave the fan-out alone: they only record, and  *)
(* append to the message queue.                                            *)
(***************************************************************************)
LEMMA ToolsLeaveFanOut ==
  ASSUME Tools \/ Setup
  PROVE  UNCHANGED <<config, finalized, transcript, pc, run, mail>>
  BY DEF Tools, Setup, RecordOutcome, RecordAppointmentBooked,
         RecordAgentEnded, EnqueueMessage, EnqueueIntake, RequestRecording,
         RecordingAnswered, artifacts

(***************************************************************************)
(* A step of the fan-out belongs to an active call, which stays active;    *)
(* the other calls, the configuration and _finalized are left alone.       *)
(***************************************************************************)
LEMMA FanOutStepMoves ==
  ASSUME TypeOK, NEW f \in Finalizers, FanOutStep(f)
  PROVE  /\ Active(f)
         /\ \E label \in Labels \ {"idle", "skipped"} : Goto(f, label)
         /\ UNCHANGED <<config, finalized>>
  <1>1. CASE RecordingStopped(f)
    BY <1>1 DEF RecordingStopped, Active, Labels, Running
  <1>2. CASE WriteTranscript(f)
    BY <1>2 DEF WriteTranscript, AfterRecording, Active, Labels, Running,
                Waiting
  <1>3. CASE TranscriptWritten(f)
    BY <1>3 DEF TranscriptWritten, Active, Labels, Running
  <1>4. CASE BeginEmail(f)
    BY <1>4 DEF BeginEmail, EmailMode, Active, Labels, Running
  <1>5. CASE DeliverMessage(f)
    BY <1>5 DEF DeliverMessage, Active, Labels, Waiting
  <1>6. CASE MessageDelivered(f)
    BY <1>6 DEF MessageDelivered, Active, Labels, Running
  <1>7. CASE MessagesDelivered(f)
    BY <1>7 DEF MessagesDelivered, Active, Labels, Running
  <1>8. CASE ClearPending(f)
    BY <1>8 DEF ClearPending, Active, Labels, Running, Waiting
  <1>9. CASE SummaryGenerated(f)
    BY <1>9 DEF SummaryGenerated, Active, Labels, Running
  <1>10. CASE FireCallEnd(f)
    BY <1>10 DEF FireCallEnd, Fire, Active, Labels, Running
  <1>11. CASE FireBooking(f)
    BY <1>11 DEF FireBooking, Fire, Active, Labels, Running
  <1>12. CASE FireIntake(f)
    BY <1>12 DEF FireIntake, Fire, Active, Labels, Running
  <1>13. CASE DeliverReport(f)
    BY <1>13 DEF DeliverReport, Active, Labels, Waiting
  <1>14. CASE ReportDelivered(f)
    BY <1>14 DEF ReportDelivered, AfterDelivery, Active, Labels, Running
  <1>15. CASE ReportsDelivered(f)
    BY <1>15 DEF ReportsDelivered, Active, Labels, Running
  <1>16. CASE Finish(f)
    BY <1>16 DEF Finish, Active, Labels
  <1> QED
    BY <1>1, <1>2, <1>3, <1>4, <1>5, <1>6, <1>7, <1>8, <1>9, <1>10, <1>11,
       <1>12, <1>13, <1>14, <1>15, <1>16 DEF FanOutStep

(***************************************************************************)
(* Every step keeps the fan-out to one call: the guard of on_call_ended    *)
(* and mark_finalized run without an await between them.                   *)
(***************************************************************************)
LEMMA OneFanOutStep == TypeOK /\ OneFanOut /\ [Next]_vars => OneFanOut'
  <1> SUFFICES ASSUME TypeOK, OneFanOut, [Next]_vars PROVE OneFanOut'
    OBVIOUS
  <1>0. pc \in [Finalizers -> Labels]
    BY DEF TypeOK
  <1>1. CASE Tools \/ Setup
    BY <1>1, ToolsLeaveFanOut DEF OneFanOut, Active
  <1>2. ASSUME NEW f \in Finalizers, OnCallEnded(f) PROVE OneFanOut'
    <2>1. ~finalized /\ finalized'
      BY <1>2 DEF OnCallEnded, MayFinalize
    <2>2. \A g \in Finalizers : ~Active(g)
      BY <2>1 DEF OneFanOut
    <2>3. \A g \in Finalizers : g # f => pc'[g] = pc[g]
      BY <1>0, <1>2 DEF OnCallEnded, Goto
    <2>4. pc'[f] \in {"stop", "transcript"}
      BY <1>0, <1>2 DEF OnCallEnded, Goto
    <2> QED
      BY <2>1, <2>2, <2>3, <2>4 DEF OneFanOut, Active
  <1>3. ASSUME NEW f \in Finalizers, AlreadyFinalized(f) PROVE OneFanOut'
    <2>1. \A g \in Finalizers : Active(g)' <=> Active(g)
      BY <1>0, <1>3 DEF AlreadyFinalized, Goto, Active
    <2> QED
      BY <1>3, <2>1 DEF AlreadyFinalized, OneFanOut
  <1>4. ASSUME NEW f \in Finalizers, FanOutStep(f) PROVE OneFanOut'
    <2>1. PICK label \in Labels \ {"idle", "skipped"} : Goto(f, label)
      BY <1>4, FanOutStepMoves
    <2>2. \A g \in Finalizers : Active(g)' <=> Active(g)
      BY <1>0, <1>4, <2>1, FanOutStepMoves DEF Goto, Active
    <2> QED
      BY <1>4, <2>2, FanOutStepMoves DEF OneFanOut
  <1>5. CASE UNCHANGED vars
    BY <1>5 DEF vars, OneFanOut, Active
  <1> QED
    BY <1>1, <1>2, <1>3, <1>4, <1>5 DEF Next

-----------------------------------------------------------------------------
(***************************************************************************)
(* The invariant behind NoDuplicateMail: the emails attempted so far come  *)
(* before the position of the active call in the fan-out's fixed order     *)
(* (message by message and channel by channel, then call_end, booking and  *)
(* intake, each channel by channel).                                       *)
(***************************************************************************)
Early == {"stop", "transcript", "write", "email"}

\* The channel being delivered to counts as reached.
Reached(c, f) ==
  IF pc[f] \in {"messages", "fire"} THEN c < run[f].channel
                                    ELSE c <= run[f].channel

MessageBefore(e, f) ==
  /\ e.trigger = "message"
  /\ \E i \in DOMAIN pendingMsgs :
       /\ e.msgs = <<pendingMsgs[i]>>
       /\ \/ i < run[f].msg
          \/ i = run[f].msg /\ Reached(e.channel, f)

MailOrdered(f) ==
  /\ pc[f] \in Early => mail = <<>>
  /\ pc[f] \in {"messages", "message"} =>
       \A k \in DOMAIN mail : MessageBefore(mail[k], f)
  /\ pc[f] \in {"clear", "summary", "report", "booking"} =>
       \A k \in DOMAIN mail : mail[k].trigger = "message"
  /\ pc[f] = "intake" => \A k \in DOMAIN mail : mail[k].trigger # "intake"
  /\ pc[f] \in {"fire", "deliver"} =>
       /\ run[f].trigger # "message"
       /\ \A k \in DOMAIN mail :
            mail[k].trigger = run[f].trigger => Reached(mail[k].channel, f)
       /\ run[f].trigger = "booking" =>
            \A k \in DOMAIN mail : mail[k].trigger # "intake"

QueueDistinct ==
  /\ \A i, j \in DOMAIN pendingMsgs : pendingMsgs[i] = pendingMsgs[j] => i = j
  /\ \A i \in DOMAIN pendingMsgs : pendingMsgs[i] \in taken

MailInv ==
  /\ TypeOK
  /\ OneFanOut
  /\ QueueDistinct
  /\ ~finalized => mail = <<>>
  /\ \A f \in Finalizers : MailOrdered(f)
  /\ NoDuplicateMail

(***************************************************************************)
(* An email attempted is typed, and an element of a sequence appended to   *)
(* is an element of the sequence or the element appended.                  *)
(***************************************************************************)
LEMMA MailElement ==
  ASSUME mail \in Seq(Mail), NEW k \in DOMAIN mail
  PROVE  mail[k] \in Mail /\ mail[k].channel \in Nat
  <1>1. mail[k] \in Mail
    OBVIOUS
  <1> QED
    BY <1>1 DEF Mail

\* An index of an appended sequence is an old one, or the new last one.
LEMMA AppendElement ==
  ASSUME NEW S, NEW s \in Seq(S), NEW x \in S, NEW k \in DOMAIN Append(s, x)
  PROVE  \/ k \in DOMAIN s /\ Append(s, x)[k] = s[k]
         \/ Append(s, x)[k] = x
  OBVIOUS

(***************************************************************************)
(* Appending an email whose identity is new keeps the emails distinct.     *)
(***************************************************************************)
LEMMA AppendDistinct ==
  ASSUME mail \in Seq(Mail), NoDuplicateMail, NEW e \in Mail,
         mail' = Append(mail, e),
         \A k \in DOMAIN mail : Identity(mail[k]) # Identity(e)
  PROVE  NoDuplicateMail'
  <1> DEFINE n == Len(mail) + 1
  <1>1. /\ DOMAIN mail = 1..Len(mail) /\ Len(mail) \in Nat
        /\ DOMAIN mail' = 1..n
        /\ \A k \in DOMAIN mail : mail'[k] = mail[k]
        /\ mail'[n] = e
    OBVIOUS
  <1>2. SUFFICES ASSUME NEW i \in DOMAIN mail', NEW j \in DOMAIN mail',
                        Identity(mail'[i]) = Identity(mail'[j])
                 PROVE  i = j
    BY DEF NoDuplicateMail, Identity
  <1>3. CASE i = n /\ j = n
    BY <1>3
  <1>4. CASE i = n /\ j # n
    <2>1. j \in DOMAIN mail /\ mail'[j] = mail[j]
      BY <1>1, <1>4
    <2> QED
      BY <1>1, <1>2, <1>4, <2>1
  <1>5. CASE i # n /\ j = n
    <2>1. i \in DOMAIN mail /\ mail'[i] = mail[i]
      BY <1>1, <1>5
    <2> QED
      BY <1>1, <1>2, <1>5, <2>1
  <1>6. CASE i # n /\ j # n
    <2>1. /\ i \in DOMAIN mail /\ mail'[i] = mail[i]
          /\ j \in DOMAIN mail /\ mail'[j] = mail[j]
      BY <1>1, <1>6
    <2> QED
      BY <1>2, <2>1 DEF NoDuplicateMail
  <1> QED
    BY <1>3, <1>4, <1>5, <1>6

(***************************************************************************)
(* The queue holds each message once: a message is appended only when it   *)
(* is taken, and every other step leaves the queue or clears it.           *)
(***************************************************************************)
LEMMA QueueStep == TypeOK /\ QueueDistinct /\ [Next]_vars => QueueDistinct'
  <1> SUFFICES ASSUME TypeOK, QueueDistinct, [Next]_vars PROVE QueueDistinct'
    OBVIOUS
  <1>1. CASE UNCHANGED <<pendingMsgs, taken>>
    BY <1>1 DEF QueueDistinct
  <1>2. ASSUME NEW m \in Messages, EnqueueMessage(m) PROVE QueueDistinct'
    <2> DEFINE n == Len(pendingMsgs) + 1
    <2>1. /\ m \notin taken
          /\ taken' = taken \cup {m}
          /\ pendingMsgs' = Append(pendingMsgs, m)
      BY <1>2 DEF EnqueueMessage
    <2>2. pendingMsgs \in Seq(Messages)
      BY DEF TypeOK
    <2>3. /\ DOMAIN pendingMsgs = 1..Len(pendingMsgs)
          /\ Len(pendingMsgs) \in Nat
          /\ DOMAIN pendingMsgs' = 1..n
          /\ \A i \in DOMAIN pendingMsgs : pendingMsgs'[i] = pendingMsgs[i]
          /\ pendingMsgs'[n] = m
      BY <2>1, <2>2
    <2>4. \A i \in DOMAIN pendingMsgs : pendingMsgs[i] # m
      BY <2>1 DEF QueueDistinct
    <2>5. \A i \in DOMAIN pendingMsgs' :
            i # n => i \in DOMAIN pendingMsgs
      BY <2>3
    <2>6. \A i \in DOMAIN pendingMsgs' : pendingMsgs'[i] \in taken'
      BY <2>1, <2>3, <2>5 DEF QueueDistinct
    <2>7. \A i, j \in DOMAIN pendingMsgs' :
            pendingMsgs'[i] = pendingMsgs'[j] => i = j
      BY <2>3, <2>4, <2>5 DEF QueueDistinct
    <2> QED
      BY <2>6, <2>7 DEF QueueDistinct
  <1>3. ASSUME NEW f \in Finalizers, ClearPending(f) PROVE QueueDistinct'
    BY <1>3 DEF ClearPending, QueueDistinct
  <1>4. CASE Tools
    BY <1>1, <1>2, <1>4
    DEF Tools, RecordOutcome, RecordAppointmentBooked, RecordAgentEnded,
        EnqueueIntake, recorded
  <1>5. CASE Setup
    BY <1>1, <1>5 DEF Setup, RequestRecording, RecordingAnswered, recorded
  <1>6. ASSUME NEW f \in Finalizers, OnCallEnded(f) \/ AlreadyFinalized(f)
        PROVE  QueueDistinct'
    BY <1>1, <1>6 DEF OnCallEnded, AlreadyFinalized, recorded
  <1>7. ASSUME NEW f \in Finalizers, FanOutStep(f) PROVE QueueDistinct'
    BY <1>1, <1>3, <1>7
    DEF FanOutStep, RecordingStopped, WriteTranscript, TranscriptWritten,
        BeginEmail, DeliverMessage, MessageDelivered, MessagesDelivered,
        SummaryGenerated, FireCallEnd, FireBooking, FireIntake,
        DeliverReport, ReportDelivered, ReportsDelivered, Finish, recorded
  <1>8. CASE UNCHANGED vars
    BY <1>1, <1>8 DEF vars
  <1> QED
    BY <1>4, <1>5, <1>6, <1>7, <1>8 DEF Next

(***************************************************************************)
(* A delivery of the message loop attempts an email that comes after every *)
(* one before it: the message is later, or the channel is.                 *)
(***************************************************************************)
LEMMA DeliverMessageOrdered ==
  ASSUME MailInv, NEW f \in Finalizers, DeliverMessage(f)
  PROVE  MailOrdered(f)' /\ NoDuplicateMail'
  <1> DEFINE l == run[f]
             e == [trigger |-> "message", channel |-> l.channel,
                   msgs |-> <<pendingMsgs[l.msg]>>, intake |-> None]
  <1>1. /\ pc \in [Finalizers -> Labels] /\ run \in [Finalizers -> Locals]
        /\ pendingMsgs \in Seq(Messages) /\ mail \in Seq(Mail)
    BY DEF MailInv, TypeOK
  <1>2. /\ pc[f] = "messages" /\ l.msg <= Len(pendingMsgs)
        /\ mail' = Append(mail, e)
        /\ pc' = [pc EXCEPT ![f] = "message"]
        /\ UNCHANGED <<pendingMsgs, run>>
    BY DEF DeliverMessage, Goto
  <1>3. l.msg \in DOMAIN pendingMsgs /\ l.channel \in Nat \ {0}
    BY <1>1, <1>2 DEF Locals
  <1>4. e \in Mail
    BY <1>1, <1>3 DEF Mail, Triggers
  <1>5. \A k \in DOMAIN mail : MessageBefore(mail[k], f)
    BY <1>2 DEF MailInv, MailOrdered
  <1>6. ASSUME NEW k \in DOMAIN mail PROVE Identity(mail[k]) # Identity(e)
    <2>1. PICK i \in DOMAIN pendingMsgs :
            /\ mail[k].msgs = <<pendingMsgs[i]>>
            /\ \/ i < l.msg
               \/ i = l.msg /\ mail[k].channel < l.channel
      BY <1>2, <1>5, <1>6 DEF MessageBefore, Reached
    <2>2. mail[k].trigger = "message" /\ mail[k].channel \in Nat
      BY <1>1, <1>5, <1>6, MailElement DEF MessageBefore
    <2>3. Identity(mail[k]) = <<"message", mail[k].channel, pendingMsgs[i]>>
      BY <2>1, <2>2 DEF Identity
    <2>4. Identity(e) = <<"message", l.channel, pendingMsgs[l.msg]>>
      BY DEF Identity
    <2>5. CASE i < l.msg
      <3>1. pendingMsgs[i] # pendingMsgs[l.msg]
        BY <1>1, <1>3, <2>5 DEF MailInv, QueueDistinct, Locals
      <3> QED
        BY <2>3, <2>4, <3>1
    <2>6. CASE mail[k].channel < l.channel
      BY <1>3, <2>2, <2>3, <2>4, <2>6
    <2> QED
      BY <2>1, <2>5, <2>6
  <1>7. NoDuplicateMail'
    BY <1>1, <1>2, <1>4, <1>6, AppendDistinct DEF MailInv
  <1>8. ASSUME NEW k \in DOMAIN mail' PROVE MessageBefore(mail[k], f)'
    <2>1. pc'[f] = "message"
      BY <1>1, <1>2
    <2>2. CASE k \in DOMAIN mail /\ mail'[k] = mail[k]
      <3>1. mail[k].channel \in Nat
        BY <1>1, <2>2, MailElement
      <3>2. PICK i \in DOMAIN pendingMsgs :
              /\ mail[k].msgs = <<pendingMsgs[i]>>
              /\ \/ i < l.msg
                 \/ i = l.msg /\ mail[k].channel < l.channel
        BY <1>2, <1>5, <2>2 DEF MessageBefore, Reached
      <3>3. mail[k].trigger = "message"
        BY <1>5, <2>2 DEF MessageBefore
      <3>4. \/ i < run'[f].msg
            \/ i = run'[f].msg /\ Reached(mail[k].channel, f)'
        <4>1. run'[f].msg = l.msg /\ run'[f].channel = l.channel
          BY <1>2
        <4>2. Reached(mail[k].channel, f)' <=> mail'[k].channel <= run'[f].channel
          BY <2>1 DEF Reached
        <4>3. mail[k].channel < l.channel => mail[k].channel <= l.channel
          BY <1>3, <3>1
        <4> QED
          BY <2>2, <3>2, <4>1, <4>2, <4>3
      <3> QED
        BY <1>2, <2>2, <3>2, <3>3, <3>4 DEF MessageBefore
    <2>3. CASE mail'[k] = e
      <3>1. /\ mail'[k].trigger = "message" /\ mail'[k].channel = l.channel
            /\ mail'[k].msgs = <<pendingMsgs[l.msg]>>
        BY <2>3
      <3>2. run'[f].msg = l.msg /\ run'[f].channel = l.channel
        BY <1>2
      <3>3. Reached(mail[k].channel, f)'
        BY <1>3, <2>1, <3>1, <3>2 DEF Reached
      <3> QED
        BY <1>2, <1>3, <3>1, <3>2, <3>3 DEF MessageBefore
    <2> QED
      BY <1>1, <1>2, <1>4, <1>8, <2>2, <2>3, AppendElement
  <1>9. MailOrdered(f)'
    BY <1>1, <1>2, <1>8 DEF MailOrdered, Early
  <1> QED
    BY <1>7, <1>9

(***************************************************************************)
(* So does a delivery of _fire_email_trigger: no email of this trigger has *)
(* reached the channel, and none of the triggers that follow was attempted.*)
(***************************************************************************)
LEMMA DeliverReportOrdered ==
  ASSUME MailInv, NEW f \in Finalizers, DeliverReport(f)
  PROVE  MailOrdered(f)' /\ NoDuplicateMail'
  <1> DEFINE l == run[f]
             e == Report(f)
  <1>1. /\ pc \in [Finalizers -> Labels] /\ run \in [Finalizers -> Locals]
        /\ mail \in Seq(Mail)
    BY DEF MailInv, TypeOK
  <1>2. /\ pc[f] = "fire"
        /\ mail' = Append(mail, e)
        /\ pc' = [pc EXCEPT ![f] = "deliver"]
        /\ run' = run
    BY DEF DeliverReport, Goto
  <1>3. e \in Mail /\ e.trigger = l.trigger /\ e.channel = l.channel
    BY <1>1 DEF Report, Mail, Locals
  <1>4. /\ l.trigger # "message"
        /\ \A k \in DOMAIN mail : /\ mail[k].trigger = l.trigger =>
                                      mail[k].channel < l.channel
                                  /\ l.trigger = "booking" =>
                                       mail[k].trigger # "intake"
    BY <1>2 DEF MailInv, MailOrdered, Reached
  <1>5. ASSUME NEW k \in DOMAIN mail PROVE Identity(mail[k]) # Identity(e)
    <2>1. mail[k].channel \in Nat /\ l.channel \in Nat
      BY <1>1, <1>5, MailElement DEF Locals
    <2>2. mail[k].trigger # e.trigger \/ mail[k].channel # e.channel
      BY <1>3, <1>4, <1>5, <2>1
    <2> QED
      BY <2>2 DEF Identity
  <1>6. NoDuplicateMail'
    BY <1>1, <1>2, <1>3, <1>5, AppendDistinct DEF MailInv
  <1>7. ASSUME NEW k \in DOMAIN mail'
        PROVE  /\ mail'[k].trigger = l.trigger => Reached(mail[k].channel, f)'
               /\ l.trigger = "booking" => mail'[k].trigger # "intake"
    <2>1. pc'[f] = "deliver"
      BY <1>1, <1>2
    <2>2. l.channel \in Nat
      BY <1>1 DEF Locals
    <2>3. CASE k \in DOMAIN mail /\ mail'[k] = mail[k]
      <3>1. mail[k].channel \in Nat
        BY <1>1, <2>3, MailElement
      <3> QED
        BY <1>2, <1>4, <2>1, <2>2, <2>3, <3>1 DEF Reached
    <2>4. CASE mail'[k] = e
      BY <1>2, <1>3, <1>4, <2>1, <2>2, <2>4 DEF Reached
    <2> QED
      BY <1>1, <1>2, <1>3, <1>7, <2>3, <2>4, AppendElement
  <1>8. MailOrdered(f)'
    BY <1>1, <1>2, <1>4, <1>7 DEF MailOrdered, Early, Reached
  <1> QED
    BY <1>6, <1>8

(***************************************************************************)
(* The steps of the fan-out that attempt no email move it forward in the   *)
(* order: what has been attempted still comes before.                      *)
(***************************************************************************)
LEMMA QuietStepsOrdered ==
  ASSUME MailInv, NEW f \in Finalizers, FanOutStep(f),
         ~DeliverMessage(f), ~DeliverReport(f)
  PROVE  MailOrdered(f)' /\ mail' = mail
  <1>0. /\ pc \in [Finalizers -> Labels] /\ run \in [Finalizers -> Locals]
        /\ mail \in Seq(Mail) /\ MailOrdered(f) /\ pendingMsgs \in Seq(Messages)
    BY DEF MailInv, TypeOK
  <1>1. CASE RecordingStopped(f) \/ WriteTranscript(f) \/ TranscriptWritten(f)
    <2>1. pc[f] \in Early /\ pc'[f] \in Early /\ mail' = mail
      BY <1>0, <1>1
      DEF RecordingStopped, WriteTranscript, AfterRecording,
          TranscriptWritten, Goto, Early
    <2> QED
      BY <1>0, <2>1 DEF MailOrdered, Early
  <1>2. CASE BeginEmail(f)
    <2>1. mail = <<>> /\ mail' = <<>>
      BY <1>0, <1>2 DEF BeginEmail, MailOrdered, Early
    <2>2. pc'[f] \in {"messages", "clear", "finish"}
      BY <1>0, <1>2 DEF BeginEmail, EmailMode, Goto
    <2> QED
      BY <2>1, <2>2 DEF MailOrdered, Early
  <1>3. CASE MessageDelivered(f)
    <2> DEFINE l == run[f]
    <2>1. /\ pc[f] = "message" /\ pc'[f] = "messages" /\ mail' = mail
          /\ run'[f] = NextDelivery(l) /\ pendingMsgs' = pendingMsgs
      BY <1>0, <1>3 DEF MessageDelivered, Goto
    <2>2. l.msg \in Nat /\ l.channel \in Nat
      BY <1>0 DEF Locals
    <2>3. \/ run'[f].msg = l.msg /\ run'[f].channel = l.channel + 1
          \/ run'[f].msg = l.msg + 1
      <3>1. l \in Locals
        BY <1>0
      <3>2. [l EXCEPT !.channel = l.channel + 1].msg = l.msg
        BY <3>1 DEF Locals
      <3>3. [l EXCEPT !.channel = l.channel + 1].channel = l.channel + 1
        BY <3>1 DEF Locals
      <3>4. [l EXCEPT !.channel = 1, !.msg = l.msg + 1].msg = l.msg + 1
        BY <3>1 DEF Locals
      <3> QED
        BY <2>1, <3>2, <3>3, <3>4 DEF NextDelivery
    <2>4. ASSUME NEW k \in DOMAIN mail PROVE MessageBefore(mail[k], f)'
      <3>1. mail[k].channel \in Nat
        BY <1>0, MailElement
      <3>2. MessageBefore(mail[k], f)
        BY <1>0, <2>1 DEF MailOrdered
      <3>3. PICK i \in DOMAIN pendingMsgs :
              /\ mail[k].msgs = <<pendingMsgs[i]>>
              /\ \/ i < l.msg
                 \/ i = l.msg /\ mail[k].channel <= l.channel
        BY <2>1, <3>2 DEF MessageBefore, Reached
      <3>4. i \in Nat
        BY <1>0
      <3>5. \/ i < run'[f].msg
            \/ i = run'[f].msg /\ mail[k].channel < run'[f].channel
        BY <2>2, <2>3, <3>1, <3>3, <3>4
      <3> QED
        BY <2>1, <3>2, <3>3, <3>5 DEF MessageBefore, Reached
    <2> QED
      BY <2>1, <2>4 DEF MailOrdered, Early
  <1>4. CASE MessagesDelivered(f)
    <2>1. pc[f] = "messages" /\ pc'[f] = "clear" /\ mail' = mail
      BY <1>0, <1>4 DEF MessagesDelivered, Goto
    <2> QED
      BY <1>0, <2>1 DEF MailOrdered, MessageBefore, Early
  <1>5. CASE ClearPending(f) \/ SummaryGenerated(f)
    <2>1. /\ pc[f] \in {"clear", "summary"}
          /\ pc'[f] \in {"summary", "report", "booking"} /\ mail' = mail
      BY <1>0, <1>5 DEF ClearPending, SummaryGenerated, Goto
    <2> QED
      BY <1>0, <2>1 DEF MailOrdered, Early
  <1>6. ASSUME NEW trigger \in Triggers, NEW intake, Fire(f, trigger, intake)
        PROVE  pc'[f] = "fire" /\ run'[f].trigger = trigger
    <2> DEFINE l == run[f]
               m == [l EXCEPT !.trigger = trigger]
    <2>1. m.trigger = trigger
      BY <1>0 DEF Locals
    <2>2. [m EXCEPT !.channel = 1].trigger = m.trigger
      OBVIOUS
    <2>3. [m EXCEPT !.channel = 1, !.intake = intake].trigger = m.trigger
      BY <2>2
    <2>4. run'[f] = [l EXCEPT !.trigger = trigger, !.channel = 1,
                              !.intake = intake]
      BY <1>0, <1>6 DEF Fire
    <2>5. pc'[f] = "fire"
      BY <1>0, <1>6 DEF Fire, Goto
    <2> QED
      BY <2>1, <2>3, <2>4, <2>5
  <1>7. CASE FireCallEnd(f)
    <2>1. pc[f] = "report" /\ mail' = mail
      BY <1>7 DEF FireCallEnd
    <2>2. pc'[f] = "fire" /\ run'[f].trigger = "call_end"
      BY <1>6, <1>7 DEF FireCallEnd, Triggers
    <2> QED
      BY <1>0, <2>1, <2>2 DEF MailOrdered, Early
  <1>8. CASE FireBooking(f)
    <2>1. pc[f] = "booking" /\ mail' = mail
      BY <1>8 DEF FireBooking
    <2>2. \/ pc'[f] = "fire" /\ run'[f].trigger = "booking"
          \/ pc'[f] = "intake"
      BY <1>0, <1>6, <1>8 DEF FireBooking, Triggers, Goto
    <2> QED
      BY <1>0, <2>1, <2>2 DEF MailOrdered, Early
  <1>9. CASE FireIntake(f)
    <2>1. pc[f] = "intake" /\ mail' = mail
      BY <1>9 DEF FireIntake
    <2>2. \/ pc'[f] = "fire" /\ run'[f].trigger = "intake"
          \/ pc'[f] = "finish"
      BY <1>0, <1>6, <1>9 DEF FireIntake, Triggers, Goto
    <2> QED
      BY <1>0, <2>1, <2>2 DEF MailOrdered, Early
  <1>10. CASE ReportDelivered(f)
    <2> DEFINE l == run[f]
    <2>1. pc[f] = "deliver" /\ pc'[f] = "fire" /\ mail' = mail
      BY <1>0, <1>10 DEF ReportDelivered, AfterDelivery, Goto
    <2>2. /\ run'[f].trigger = l.trigger /\ run'[f].channel = l.channel + 1
          /\ l.channel \in Nat
      BY <1>0, <1>10 DEF ReportDelivered, Locals
    <2>3. ASSUME NEW k \in DOMAIN mail
          PROVE  mail[k].trigger = l.trigger => Reached(mail[k].channel, f)'
      <3>1. mail[k].channel \in Nat
        BY <1>0, MailElement
      <3>2. mail[k].trigger = l.trigger => mail[k].channel <= l.channel
        BY <1>0, <2>1 DEF MailOrdered, Reached
      <3> QED
        BY <2>1, <2>2, <3>1, <3>2 DEF Reached
    <2> QED
      BY <1>0, <2>1, <2>2, <2>3 DEF MailOrdered, Early
  <1>11. CASE ReportsDelivered(f)
    <2>1. /\ pc[f] = "fire" /\ mail' = mail
          /\ \/ pc'[f] = "intake" /\ run[f].trigger = "booking"
             \/ pc'[f] = "finish"
      BY <1>0, <1>11 DEF ReportsDelivered, Goto
    <2> QED
      BY <1>0, <2>1 DEF MailOrdered, Early
  <1>12. CASE Finish(f)
    <2>1. pc'[f] = "done" /\ mail' = mail
      BY <1>0, <1>12 DEF Finish, Goto
    <2> QED
      BY <2>1 DEF MailOrdered, Early
  <1> QED
    BY <1>1, <1>2, <1>3, <1>4, <1>5, <1>7, <1>8, <1>9, <1>10, <1>11, <1>12
    DEF FanOutStep

(***************************************************************************)
(* Appending to the queue keeps the order of what has been attempted.      *)
(***************************************************************************)
LEMMA EnqueueOrdered ==
  ASSUME MailInv, NEW m \in Messages, EnqueueMessage(m), NEW f \in Finalizers
  PROVE  MailOrdered(f)'
  <1>1. /\ pendingMsgs' = Append(pendingMsgs, m) /\ pendingMsgs \in Seq(Messages)
        /\ UNCHANGED <<pc, run, mail>>
    BY DEF EnqueueMessage, MailInv, TypeOK
  <1>2. \A i \in DOMAIN pendingMsgs : /\ i \in DOMAIN pendingMsgs'
                                      /\ pendingMsgs'[i] = pendingMsgs[i]
    BY <1>1
  <1>3. ASSUME NEW k \in DOMAIN mail, MessageBefore(mail[k], f)
        PROVE  MessageBefore(mail[k], f)'
    BY <1>1, <1>2, <1>3 DEF MessageBefore, Reached
  <1> QED
    BY <1>1, <1>3 DEF MailInv, MailOrdered, Reached

(***************************************************************************)
(* MailInv is inductive.                                                   *)
(***************************************************************************)
LEMMA MailInit == Init => MailInv
  <1> SUFFICES ASSUME Init PROVE MailInv
    OBVIOUS
  <1>1. OneFanOut
    BY DEF Init, OneFanOut, Active
  <1>2. QueueDistinct
    BY DEF Init, QueueDistinct
  <1>3. NoDuplicateMail
    BY DEF Init, NoDuplicateMail
  <1>4. \A f \in Finalizers : MailOrdered(f)
    BY DEF Init, MailOrdered, Early
  <1> QED
    BY <1>1, <1>2, <1>3, <1>4, InitTyped DEF Init, MailInv

\* Every step of the lifecycle keeps the mail in the order of the fan-out.
LEMMA MailStep == MailInv /\ [Next]_vars => MailInv'
  <1> SUFFICES ASSUME MailInv, [Next]_vars PROVE MailInv'
    OBVIOUS
  <1>0. TypeOK' /\ OneFanOut' /\ QueueDistinct' /\ pc \in [Finalizers -> Labels]
    BY StepTyped, OneFanOutStep, QueueStep DEF MailInv, TypeOK
  <1>1. ASSUME UNCHANGED <<finalized, pc, run, mail, pendingMsgs>>
        PROVE  MailInv'
    BY <1>0, <1>1
    DEF MailInv, MailOrdered, MessageBefore, Reached, NoDuplicateMail,
        Identity
  <1>2. CASE Tools
    <2>1. ASSUME NEW m \in Messages, EnqueueMessage(m) PROVE MailInv'
      <3>1. UNCHANGED <<finalized, mail>>
        BY <2>1 DEF EnqueueMessage
      <3> QED
        BY <1>0, <2>1, <3>1, EnqueueOrdered
        DEF MailInv, NoDuplicateMail, Identity
    <2> QED
      BY <1>1, <1>2, <2>1
      DEF Tools, RecordOutcome, RecordAppointmentBooked, RecordAgentEnded,
          EnqueueIntake
  <1>3. CASE Setup
    BY <1>1, <1>3 DEF Setup, RequestRecording, RecordingAnswered
  <1>4. ASSUME NEW f \in Finalizers, OnCallEnded(f) PROVE MailInv'
    <2>1. mail = <<>> /\ mail' = <<>> /\ finalized'
      BY <1>4 DEF OnCallEnded, MayFinalize, MailInv
    <2>2. pc'[f] \in Early /\ \A g \in Finalizers : g # f => pc'[g] = pc[g]
      BY <1>0, <1>4 DEF OnCallEnded, Goto, Early
    <2>3. ASSUME NEW g \in Finalizers PROVE MailOrdered(g)'
      <3>1. pc'[g] \in Early \cup {"idle", "skipped"}
        BY <1>4, <2>2 DEF MailInv, OneFanOut, Active, OnCallEnded, MayFinalize
      <3> QED
        BY <2>1, <3>1 DEF MailOrdered, Early
    <2> QED
      BY <1>0, <2>1, <2>3 DEF MailInv, NoDuplicateMail
  <1>5. ASSUME NEW f \in Finalizers, AlreadyFinalized(f) PROVE MailInv'
    <2>1. UNCHANGED <<finalized, run, mail, pendingMsgs>>
      BY <1>5 DEF AlreadyFinalized
    <2>2. pc'[f] = "skipped" /\ \A g \in Finalizers : g # f => pc'[g] = pc[g]
      BY <1>0, <1>5 DEF AlreadyFinalized, Goto
    <2>3. ASSUME NEW g \in Finalizers PROVE MailOrdered(g)'
      <3>1. CASE g = f
        BY <2>2, <3>1 DEF MailOrdered, Early
      <3>2. CASE g # f
        BY <2>1, <2>2, <3>2 DEF MailInv, MailOrdered, MessageBefore, Reached
      <3> QED
        BY <3>1, <3>2
    <2> QED
      BY <1>0, <2>1, <2>3 DEF MailInv, NoDuplicateMail, Identity
  <1>6. ASSUME NEW f \in Finalizers, FanOutStep(f) PROVE MailInv'
    <2>1. MailOrdered(f)' /\ NoDuplicateMail'
      <3>1. CASE DeliverMessage(f)
        BY <3>1, DeliverMessageOrdered
      <3>2. CASE DeliverReport(f)
        BY <3>2, DeliverReportOrdered
      <3>3. CASE ~DeliverMessage(f) /\ ~DeliverReport(f)
        BY <1>6, <3>3, QuietStepsOrdered
        DEF MailInv, NoDuplicateMail, Identity
      <3> QED
        BY <3>1, <3>2, <3>3
    <2>2. Active(f) /\ finalized' = finalized /\ finalized
      BY <1>6, FanOutStepMoves DEF MailInv, OneFanOut
    <2>3. PICK label \in Labels : Goto(f, label)
      BY <1>6, FanOutStepMoves DEF MailInv
    <2>4. ASSUME NEW g \in Finalizers, g # f PROVE MailOrdered(g)'
      <3>1. pc'[g] \in {"idle", "skipped"}
        BY <1>0, <2>2, <2>3, <2>4 DEF Goto, MailInv, OneFanOut, Active
      <3> QED
        BY <3>1 DEF MailOrdered, Early
    <2> QED
      BY <1>0, <2>1, <2>2, <2>4 DEF MailInv
  <1>7. CASE UNCHANGED vars
    BY <1>1, <1>7 DEF vars
  <1> QED
    BY <1>2, <1>3, <1>4, <1>5, <1>6, <1>7 DEF Next

(***************************************************************************)
(* However many tasks call on_call_ended, however they interleave with the *)
(* tools and whatever the configuration, no email is attempted twice.      *)
(***************************************************************************)
THEOREM MailedOnce == Spec => []NoDuplicateMail
  <1>1. MailInv => NoDuplicateMail
    BY DEF MailInv
  <1> QED
    BY <1>1, MailInit, MailStep, PTL DEF Spec

-----------------------------------------------------------------------------
(***************************************************************************)
(* The two modes.  A consolidated call never enters the message loop nor   *)
(* the booking and intake triggers, one with separate emails never the     *)
(* call_end trigger.                                                       *)
(***************************************************************************)
Firing(f) == pc[f] \in {"fire", "deliver"}

ModeOf(f) ==
  IF config.onCallEnd
  THEN /\ pc[f] \notin {"messages", "message", "booking", "intake"}
       /\ Firing(f) => run[f].trigger = "call_end"
  ELSE /\ pc[f] \notin {"summary", "report"}
       /\ Firing(f) => run[f].trigger \in {"booking", "intake"}

ModeInv ==
  /\ \A f \in Finalizers : ModeOf(f)
  /\ config.onCallEnd => \A k \in DOMAIN mail : mail[k].trigger = "call_end"

\* What a step of the fan-out leaves alone.
LEMMA FanOutStepFrame ==
  ASSUME TypeOK, NEW f \in Finalizers, FanOutStep(f)
  PROVE  /\ UNCHANGED <<config, booked, taken, atEnd>>
         /\ \A g \in Finalizers : g # f => pc'[g] = pc[g] /\ run'[g] = run[g]
  <1>1. PICK label \in Labels : Goto(f, label)
    BY FanOutStepMoves
  <1>2. \A g \in Finalizers : g # f => pc'[g] = pc[g]
    BY <1>1 DEF Goto, TypeOK
  <1>3. run' = run \/ \E l : run' = [run EXCEPT ![f] = l]
    BY DEF FanOutStep, RecordingStopped, WriteTranscript, TranscriptWritten,
       BeginEmail, DeliverMessage, MessageDelivered, MessagesDelivered,
       ClearPending, SummaryGenerated, FireCallEnd, FireBooking, FireIntake,
       Fire, DeliverReport, ReportDelivered, ReportsDelivered, Finish
  <1>4. \A g \in Finalizers : g # f => run'[g] = run[g]
    BY <1>3 DEF TypeOK
  <1>5. UNCHANGED <<config, booked, taken, atEnd>>
    BY DEF FanOutStep, RecordingStopped, WriteTranscript, TranscriptWritten,
       BeginEmail, DeliverMessage, MessageDelivered, MessagesDelivered,
       ClearPending, SummaryGenerated, FireCallEnd, FireBooking, FireIntake,
       DeliverReport, ReportDelivered, ReportsDelivered, Finish, recorded
  <1> QED BY <1>2, <1>4, <1>5

\* The locals _fire_email_trigger is entered with.
LEMMA FireSets ==
  ASSUME TypeOK, NEW f \in Finalizers, NEW trigger \in Triggers, NEW intake,
         Fire(f, trigger, intake)
  PROVE  /\ pc'[f] = "fire"
         /\ run'[f].trigger = trigger /\ run'[f].channel = 1
         /\ run'[f].intake = intake /\ run'[f].captured = run[f].captured
  <1> DEFINE l == run[f]
             named == [l EXCEPT !.trigger = trigger]
             first == [named EXCEPT !.channel = 1]
             given == [first EXCEPT !.intake = intake]
  <1>1. pc'[f] = "fire" BY DEF Fire, Goto, TypeOK
  <1>2. run'[f] = given BY DEF Fire, TypeOK
  <1>3. l \in Locals BY DEF TypeOK
  <1>4. named \in Locals /\ named.trigger = trigger
          /\ named.captured = l.captured
    BY <1>3 DEF Locals
  <1>5. first \in Locals /\ first.trigger = named.trigger /\ first.channel = 1
          /\ first.captured = named.captured
    <2>1. 1 \in Nat \ {0} OBVIOUS
    <2> HIDE DEF named
    <2> QED BY <1>4, <2>1 DEF Locals
  <1>6. given.trigger = first.trigger /\ given.channel = first.channel
          /\ given.captured = first.captured /\ given.intake = intake
    <2> HIDE DEF first
    <2> QED BY <1>5 DEF Locals
  <1> HIDE DEF given, first, named
  <1> QED BY <1>1, <1>2, <1>4, <1>5, <1>6

\* A delivery of a report carries the trigger, channel and locals it is for.
LEMMA ReportFields ==
  ASSUME TypeOK, NEW f \in Finalizers
  PROVE  /\ Report(f) \in Mail
         /\ Report(f).trigger = run[f].trigger
         /\ Report(f).channel = run[f].channel
         /\ Report(f).intake = run[f].intake
         /\ run[f].trigger = "call_end" => Report(f).msgs = run[f].captured
  <1>1. run[f] \in Locals BY DEF TypeOK
  <1>2. Report(f) \in Mail BY <1>1 DEF Report, Mail, Locals
  <1> QED BY <1>2 DEF Report

\* Every step of the fan-out keeps the mode of its call.
LEMMA FanOutStepKeepsMode ==
  ASSUME TypeOK, NEW f \in Finalizers, ModeOf(f), FanOutStep(f)
  PROVE  ModeOf(f)'
  <1>1. config' = config BY FanOutStepFrame
  <1>2. pc \in [Finalizers -> Labels] /\ run \in [Finalizers -> Locals]
    BY DEF TypeOK
  <1>3. CASE \/ RecordingStopped(f) \/ WriteTranscript(f)
             \/ TranscriptWritten(f) \/ MessagesDelivered(f)
             \/ ReportsDelivered(f) \/ Finish(f)
    <2>1. \/ pc'[f] \in {"transcript", "write", "email", "clear", "finish",
                         "done"}
          \/ pc'[f] = "intake" /\ pc[f] = "fire" /\ run[f].trigger = "booking"
      BY <1>2, <1>3 DEF RecordingStopped, WriteTranscript, AfterRecording,
         TranscriptWritten, MessagesDelivered, ReportsDelivered, Finish, Goto
    <2> QED BY <1>1, <2>1 DEF ModeOf, Firing
  <1>4. CASE BeginEmail(f)
    <2>1. pc'[f] \in {"messages", "clear", "finish"}
            /\ (pc'[f] = "messages" => ~config.onCallEnd)
      BY <1>2, <1>4 DEF BeginEmail, EmailMode, Goto
    <2> QED BY <1>1, <2>1 DEF ModeOf, Firing
  <1>5. CASE DeliverMessage(f) \/ MessageDelivered(f)
    <2>1. /\ pc[f] \in {"messages", "message"}
          /\ pc'[f] \in {"messages", "message"}
      BY <1>2, <1>5 DEF DeliverMessage, MessageDelivered, Goto
    <2> QED BY <1>1, <2>1 DEF ModeOf, Firing
  <1>6. CASE ClearPending(f) \/ SummaryGenerated(f)
    <2>1. \/ config.onCallEnd /\ pc'[f] \in {"summary", "report"}
          \/ ~config.onCallEnd /\ pc'[f] = "booking"
          \/ pc[f] = "summary" /\ pc'[f] = "report"
      BY <1>2, <1>6 DEF ClearPending, SummaryGenerated, Goto
    <2> QED BY <1>1, <2>1 DEF ModeOf, Firing
  <1>7. CASE FireCallEnd(f)
    <2>1. pc[f] = "report" /\ pc'[f] = "fire" /\ run'[f].trigger = "call_end"
      BY <1>7, FireSets DEF FireCallEnd, Triggers
    <2> QED BY <1>1, <2>1 DEF ModeOf, Firing
  <1>8. CASE FireBooking(f) \/ FireIntake(f)
    <2>1. /\ pc[f] \in {"booking", "intake"}
          /\ \/ pc'[f] \in {"intake", "finish"}
             \/ pc'[f] = "fire" /\ run'[f].trigger \in {"booking", "intake"}
      BY <1>2, <1>8, FireSets DEF FireBooking, FireIntake, Triggers, Goto
    <2> QED BY <1>1, <2>1 DEF ModeOf, Firing
  <1>9. CASE DeliverReport(f) \/ ReportDelivered(f)
    <2>1. Firing(f) /\ pc'[f] \in {"fire", "deliver"}
      BY <1>2, <1>9 DEF DeliverReport, ReportDelivered, AfterDelivery, Goto,
         Firing
    <2>2. run'[f].trigger = run[f].trigger
      BY <1>2, <1>9 DEF DeliverReport, ReportDelivered, Locals
    <2> QED BY <1>1, <2>1, <2>2 DEF ModeOf, Firing
  <1> QED BY <1>3, <1>4, <1>5, <1>6, <1>7, <1>8, <1>9 DEF FanOutStep

\* In a consolidated call only the call_end trigger attempts a delivery.
LEMMA DeliveriesKeepMode ==
  ASSUME TypeOK, ModeInv, NEW f \in Finalizers, FanOutStep(f),
         config.onCallEnd, NEW k \in DOMAIN mail'
  PROVE  mail'[k].trigger = "call_end"
  <1>1. mail \in Seq(Mail) BY DEF TypeOK
  <1>2. CASE mail' = mail BY <1>2 DEF ModeInv
  <1>3. CASE DeliverMessage(f)
    BY <1>3 DEF DeliverMessage, ModeInv, ModeOf
  <1>4. CASE DeliverReport(f)
    <2>1. Firing(f) /\ mail' = Append(mail, Report(f))
      BY <1>4 DEF DeliverReport, Firing
    <2>2. Report(f) \in Mail /\ Report(f).trigger = "call_end"
      BY <2>1, ReportFields DEF ModeInv, ModeOf
    <2>3. \/ k \in DOMAIN mail /\ mail'[k] = mail[k]
          \/ mail'[k] = Report(f)
      BY <1>1, <2>1, <2>2, AppendElement
    <2> QED BY <2>2, <2>3 DEF ModeInv
  <1> QED
    BY <1>2, <1>3, <1>4
    DEF FanOutStep, RecordingStopped, WriteTranscript, TranscriptWritten,
        BeginEmail, MessageDelivered, MessagesDelivered, ClearPending,
        SummaryGenerated, FireCallEnd, FireBooking, FireIntake,
        ReportDelivered, ReportsDelivered, Finish

\* Every step of the lifecycle keeps the modes apart.
LEMMA ModeStep == TypeOK /\ ModeInv /\ [Next]_vars => ModeInv'
  <1> SUFFICES ASSUME TypeOK, ModeInv, [Next]_vars PROVE ModeInv'
    OBVIOUS
  <1>0. pc \in [Finalizers -> Labels] BY DEF TypeOK
  <1>1. CASE UNCHANGED <<config, pc, run, mail>>
    BY <1>1 DEF ModeInv, ModeOf, Firing
  <1>2. CASE Tools \/ Setup BY <1>1, <1>2, ToolsLeaveFanOut
  <1>3. ASSUME NEW f \in Finalizers, OnCallEnded(f) \/ AlreadyFinalized(f)
        PROVE  ModeInv'
    <2>1. UNCHANGED <<config, run, mail>>
      BY <1>3 DEF OnCallEnded, AlreadyFinalized
    <2>2. /\ pc'[f] \in {"stop", "transcript", "skipped"}
          /\ \A g \in Finalizers : g # f => pc'[g] = pc[g]
      BY <1>0, <1>3 DEF OnCallEnded, AlreadyFinalized, Goto
    <2> QED BY <2>1, <2>2 DEF ModeInv, ModeOf, Firing
  <1>4. ASSUME NEW f \in Finalizers, FanOutStep(f) PROVE ModeInv'
    <2>1. /\ config' = config
          /\ \A g \in Finalizers : g # f => pc'[g] = pc[g] /\ run'[g] = run[g]
      BY <1>4, FanOutStepFrame
    <2>2. ModeOf(f)' BY <1>4, FanOutStepKeepsMode DEF ModeInv
    <2>3. \A g \in Finalizers : ModeOf(g)'
      BY <2>1, <2>2 DEF ModeInv, ModeOf, Firing
    <2> QED BY <1>4, <2>1, <2>3, DeliveriesKeepMode DEF ModeInv
  <1> QED BY <1>1, <1>2, <1>3, <1>4 DEF Next, vars

\* So it holds in every run.
LEMMA ModeKept == Spec => []ModeInv
  <1>1. Init => ModeInv BY DEF Init, ModeInv, ModeOf, Firing
  <1> QED BY <1>1, ModeStep, TypeCorrect, PTL DEF Spec

(***************************************************************************)
(* Consolidated mode: one email per channel and call, for any number of    *)
(* tasks calling on_call_ended, of channels and of things recorded.        *)
(***************************************************************************)
THEOREM ReportedOncePerChannel == Spec => []OneReportPerChannel
  <1>1. ModeInv /\ NoDuplicateMail => OneReportPerChannel
    BY DEF ModeInv, NoDuplicateMail, Identity, OneReportPerChannel
  <1> QED BY <1>1, ModeKept, MailedOnce, PTL

-----------------------------------------------------------------------------
(***************************************************************************)
(* What was pending at the end of the call, on its way through the         *)
(* fan-out: the queue holds it until the copy is made, the intake stays    *)
(* set until the fan-out is over, and appointment_booked is never reset.   *)
(***************************************************************************)
EarlyHeld(f) ==
  /\ pc[f] \in Early \cup {"idle"} => run[f].msg = 1 /\ run[f].channel = 1
  /\ Active(f) /\ atEnd.booked => booked
  /\ Active(f) /\ pc[f] # "done" /\ atEnd.intake => pendingIntake # None
  /\ pc[f] \in Early \cup {"messages", "message"} =>
       atEnd.msgs \subseteq Elements(pendingMsgs)
  /\ pc[f] = "message" => run[f].msg <= Len(pendingMsgs)
  /\ pc[f] \in {"clear", "summary", "report", "fire", "deliver"}
       /\ config.onCallEnd => atEnd.msgs \subseteq Elements(run[f].captured)
  /\ Firing(f) /\ run[f].trigger = "call_end" /\ atEnd.intake =>
       run[f].intake # None
  /\ Firing(f) /\ run[f].trigger = "intake" => run[f].intake # None

\* An email of each kind that carries what was pending.
ReportSent(c) ==
  \E i \in DOMAIN mail :
    /\ mail[i].channel = c /\ mail[i].trigger = "call_end"
    /\ atEnd.msgs \subseteq Elements(mail[i].msgs)
    /\ atEnd.intake => mail[i].intake # None

MessageSent(c, m) ==
  \E i \in DOMAIN mail :
    mail[i].channel = c /\ mail[i].trigger = "message" /\ mail[i].msgs = <<m>>

BookingSent(c) ==
  \E i \in DOMAIN mail : mail[i].channel = c /\ mail[i].trigger = "booking"

IntakeSent(c) ==
  \E i \in DOMAIN mail :
    /\ mail[i].channel = c /\ mail[i].trigger = "intake"
    /\ mail[i].intake # None

\* The trigger's loop over the channels has passed this one, or is over.
Past(c, f, trigger, later) ==
  \/ Firing(f) /\ run[f].trigger = trigger /\ Reached(c, f)
  \/ pc[f] \in later

(***************************************************************************)
(* Every email that comes before the position of the fan-out was sent.     *)
(***************************************************************************)
ConsolidatedSent(c, f) ==
  Past(c, f, "call_end", {"finish", "done"}) => ReportSent(c)

MessagesSent(c, f) ==
  /\ pc[f] \in {"messages", "message"} =>
       \A i \in DOMAIN pendingMsgs :
         i < run[f].msg \/ (i = run[f].msg /\ Reached(c, f)) =>
           MessageSent(c, pendingMsgs[i])
  /\ Firing(f) \/ pc[f] \in {"clear", "booking", "intake", "finish", "done"} =>
       \A m \in atEnd.msgs : MessageSent(c, m)

SeparateSent(c, f) ==
  /\ config.onMessage => MessagesSent(c, f)
  /\ config.onBooking /\ atEnd.booked =>
       /\ Past(c, f, "booking", {"intake", "finish", "done"}) => BookingSent(c)
       /\ Firing(f) /\ run[f].trigger = "intake" => BookingSent(c)
  /\ atEnd.intake =>
       (Past(c, f, "intake", {"finish", "done"}) => IntakeSent(c))

EarlySent(f) ==
  \A c \in 1..config.channels :
    IF config.onCallEnd THEN ConsolidatedSent(c, f) ELSE SeparateSent(c, f)

EarlyInv == \A f \in Finalizers : EarlyHeld(f) /\ EarlySent(f)

\* An email sent stays sent, as emails are only ever added.
LEMMA SentStays ==
  ASSUME \A i \in DOMAIN mail : i \in DOMAIN mail' /\ mail'[i] = mail[i],
         atEnd' = atEnd, NEW c
  PROVE  /\ ReportSent(c) => ReportSent(c)'
         /\ \A m : MessageSent(c, m) => MessageSent(c, m)'
         /\ BookingSent(c) => BookingSent(c)'
         /\ IntakeSent(c) => IntakeSent(c)'
  BY DEF ReportSent, MessageSent, BookingSent, IntakeSent

\* What an appended email adds.
LEMMA MailAppended ==
  ASSUME TypeOK, NEW e \in Mail, mail' = Append(mail, e)
  PROVE  /\ \A i \in DOMAIN mail : i \in DOMAIN mail' /\ mail'[i] = mail[i]
         /\ \E i \in DOMAIN mail' : mail'[i] = e
  <1>1. mail \in Seq(Mail) /\ Len(mail) \in Nat BY DEF TypeOK
  <1>2. /\ DOMAIN mail = 1..Len(mail) /\ DOMAIN mail' = 1..(Len(mail) + 1)
        /\ \A i \in DOMAIN mail : mail'[i] = mail[i]
        /\ mail'[Len(mail) + 1] = e
    BY <1>1
  <1> QED BY <1>1, <1>2

\* A call of on_call_ended that waits to begin, or that was turned away.
LEMMA OutsideKeepsEarly ==
  ASSUME NEW g \in Finalizers, EarlyHeld(g), pc'[g] \in {"idle", "skipped"},
         pc[g] = "idle" \/ pc'[g] = "skipped", run'[g] = run[g]
  PROVE  EarlyHeld(g)' /\ EarlySent(g)'
  <1>1. ~Firing(g)' /\ ~Active(g)' BY DEF Firing, Active
  <1>2. EarlyHeld(g)' BY <1>1 DEF EarlyHeld, Early
  <1>3. EarlySent(g)'
    BY <1>1 DEF EarlySent, ConsolidatedSent, SeparateSent, MessagesSent, Past
  <1> QED BY <1>2, <1>3

\* A call that stands still while nothing is sent.
LEMMA StillKeepsSent ==
  ASSUME NEW g \in Finalizers, EarlySent(g), pc'[g] = pc[g],
         UNCHANGED <<config, run, mail, atEnd, pendingMsgs>>
  PROVE  EarlySent(g)'
  <1>1. Firing(g)' <=> Firing(g) BY DEF Firing
  <1>2. ASSUME NEW c \in 1..config.channels
        PROVE  /\ ConsolidatedSent(c, g) => ConsolidatedSent(c, g)'
               /\ SeparateSent(c, g) => SeparateSent(c, g)'
    <2>1. Reached(c, g)' <=> Reached(c, g) BY DEF Reached
    <2>2. ReportSent(c)' <=> ReportSent(c) BY DEF ReportSent
    <2>3. \A m : MessageSent(c, m)' <=> MessageSent(c, m) BY DEF MessageSent
    <2>4. BookingSent(c)' <=> BookingSent(c) BY DEF BookingSent
    <2>5. IntakeSent(c)' <=> IntakeSent(c) BY DEF IntakeSent
    <2>6. MessagesSent(c, g) => MessagesSent(c, g)'
      BY <1>1, <2>1, <2>3 DEF MessagesSent
    <2>7. SeparateSent(c, g) => SeparateSent(c, g)'
      BY <1>1, <2>1, <2>4, <2>5, <2>6 DEF SeparateSent, Past
    <2> QED BY <1>1, <2>1, <2>2, <2>7 DEF ConsolidatedSent, Past
  <1> QED BY <1>2 DEF EarlySent

(***************************************************************************)
(* The tools only add: a message to the queue, an intake in the place of   *)
(* an earlier one, a booking.                                              *)
(***************************************************************************)
LEMMA ToolsKeepEarly ==
  ASSUME TypeOK, EarlyInv, Tools \/ Setup
  PROVE  EarlyInv'
  <1>1. UNCHANGED <<config, finalized, pc, run, mail, atEnd>> /\ LoopFree
    BY ToolsLeaveFanOut
       DEF Tools, Setup, RecordOutcome, RecordAppointmentBooked,
           RecordAgentEnded, EnqueueMessage, EnqueueIntake, RequestRecording,
           RecordingAnswered
  <1>2. /\ booked => booked'
        /\ pendingIntake # None => pendingIntake' # None
        /\ \/ pendingMsgs' = pendingMsgs
           \/ \E m \in Messages : pendingMsgs' = Append(pendingMsgs, m)
    BY DataAssumption
       DEF Tools, Setup, RecordOutcome, RecordAppointmentBooked,
           RecordAgentEnded, EnqueueMessage, EnqueueIntake, RequestRecording,
           RecordingAnswered, recorded
  <1>3. /\ pendingMsgs \in Seq(Messages) /\ Len(pendingMsgs) \in Nat
        /\ DOMAIN pendingMsgs = 1..Len(pendingMsgs)
    BY DEF TypeOK
  <1>4. /\ Len(pendingMsgs') \in Nat /\ Len(pendingMsgs) <= Len(pendingMsgs')
        /\ DOMAIN pendingMsgs' = 1..Len(pendingMsgs')
        /\ \A i \in DOMAIN pendingMsgs :
             i \in DOMAIN pendingMsgs' /\ pendingMsgs'[i] = pendingMsgs[i]
    <2>1. CASE pendingMsgs' = pendingMsgs BY <1>3, <2>1
    <2>2. ASSUME NEW m \in Messages, pendingMsgs' = Append(pendingMsgs, m)
          PROVE  <1>4!:
      BY <1>3, <2>2
    <2> QED BY <1>2, <2>1, <2>2
  <1>5. Elements(pendingMsgs) \subseteq Elements(pendingMsgs')
    BY <1>4 DEF Elements
  <1>6. ASSUME NEW f \in Finalizers PROVE EarlyHeld(f)' /\ EarlySent(f)'
    <2>1. EarlyHeld(f) /\ EarlySent(f) BY DEF EarlyInv
    <2>2. pc[f] \notin Running BY <1>1 DEF LoopFree
    <2>3. run[f].msg \in Nat BY DEF TypeOK, Locals
    <2>4. EarlyHeld(f)'
      <3>1. /\ Active(f)' <=> Active(f)
            /\ Firing(f)' <=> Firing(f)
        BY <1>1 DEF Active, Firing
      <3>2. atEnd.msgs \subseteq Elements(pendingMsgs) =>
              atEnd'.msgs \subseteq Elements(pendingMsgs)'
        BY <1>1, <1>5
      <3>3. run[f].msg <= Len(pendingMsgs) => run'[f].msg <= Len(pendingMsgs')
        BY <1>1, <1>3, <1>4, <2>3
      <3> QED BY <1>1, <1>2, <2>1, <3>1, <3>2, <3>3 DEF EarlyHeld
    <2>5. ASSUME NEW c \in 1..config.channels, MessagesSent(c, f)
          PROVE  MessagesSent(c, f)'
      <3>1. \A m : MessageSent(c, m)' <=> MessageSent(c, m)
        BY <1>1 DEF MessageSent
      <3>2. ASSUME pc[f] = "message",
                   NEW i \in DOMAIN pendingMsgs', i <= run[f].msg
            PROVE  i \in DOMAIN pendingMsgs
        BY <1>3, <1>4, <2>1, <2>3, <3>2 DEF EarlyHeld
      <3>3. pc[f] # "messages" BY <2>2 DEF Running
      <3>4. Reached(c, f)' <=> Reached(c, f) BY <1>1 DEF Reached
      <3>5. \A i \in DOMAIN pendingMsgs' :
              i < run[f].msg \/ i = run[f].msg => i <= run[f].msg
        BY <1>4, <2>3
      <3> QED BY <1>1, <1>4, <2>5, <3>1, <3>2, <3>3, <3>4, <3>5
              DEF MessagesSent, Firing
    <2>6. EarlySent(f)'
      BY <1>1, <2>1, <2>5 DEF EarlySent, ConsolidatedSent, SeparateSent, Past,
         Firing, Reached, ReportSent, BookingSent, IntakeSent
    <2> QED BY <2>4, <2>6
  <1> QED BY <1>6 DEF EarlyInv

\* As the call ends, what is pending is what the fan-out starts with.
LEMMA EntryKeepsEarly ==
  ASSUME TypeOK, OneFanOut, EarlyInv, NEW f \in Finalizers,
         OnCallEnded(f) \/ AlreadyFinalized(f)
  PROVE  EarlyInv'
  <1>1. /\ pc[f] = "idle" /\ UNCHANGED <<run, mail>>
        /\ \A g \in Finalizers : g # f => pc'[g] = pc[g]
    BY DEF OnCallEnded, AlreadyFinalized, Goto, TypeOK
  <1>2. CASE OnCallEnded(f)
    <2>1. pc'[f] \in {"stop", "transcript"}
      BY <1>2 DEF OnCallEnded, Goto, TypeOK
    <2>2. \A g \in Finalizers : pc[g] \in {"idle", "skipped"}
      BY <1>2 DEF OnCallEnded, MayFinalize, OneFanOut, Active
    <2>3. /\ atEnd'.msgs = Elements(pendingMsgs)
          /\ atEnd'.intake <=> pendingIntake # None
          /\ atEnd'.booked <=> booked
          /\ UNCHANGED <<booked, pendingIntake, pendingMsgs>>
      BY <1>2 DEF OnCallEnded, recorded
    <2>4. EarlyHeld(f) BY DEF EarlyInv
    <2>5. EarlyHeld(f)'
      BY <1>1, <2>1, <2>3, <2>4 DEF EarlyHeld, Early, Firing
    <2>6. EarlySent(f)'
      BY <2>1 DEF EarlySent, ConsolidatedSent, SeparateSent, MessagesSent,
         Past, Firing
    <2>7. ASSUME NEW g \in Finalizers, g # f
          PROVE  EarlyHeld(g)' /\ EarlySent(g)'
      BY <1>1, <2>2, <2>7, OutsideKeepsEarly DEF EarlyInv
    <2> QED BY <2>5, <2>6, <2>7 DEF EarlyInv
  <1>3. CASE AlreadyFinalized(f)
    <2>1. pc'[f] = "skipped" BY <1>3 DEF AlreadyFinalized, Goto, TypeOK
    <2>2. EarlyHeld(f)' /\ EarlySent(f)'
      BY <1>1, <2>1, OutsideKeepsEarly DEF EarlyInv
    <2>3. UNCHANGED <<config, booked, pendingIntake, pendingMsgs, atEnd>>
      BY <1>3 DEF AlreadyFinalized, recorded
    <2>4. ASSUME NEW g \in Finalizers, g # f
          PROVE  EarlyHeld(g)' /\ EarlySent(g)'
      <3>1. EarlyHeld(g) /\ EarlySent(g) /\ pc'[g] = pc[g]
        BY <1>1, <2>4 DEF EarlyInv
      <3>2. EarlyHeld(g)'
        BY <1>1, <2>3, <3>1 DEF EarlyHeld, Active, Firing
      <3>3. mail' = mail /\ atEnd' = atEnd /\ run' = run /\ config' = config
              /\ pendingMsgs' = pendingMsgs
        BY <1>1, <2>3
      <3>4. EarlySent(g)' BY <3>1, <3>3, StillKeepsSent
      <3> QED BY <3>2, <3>4
    <2> QED BY <2>2, <2>4 DEF EarlyInv
  <1> QED BY <1>2, <1>3

(***************************************************************************)
(* A step of the fan-out holds on to what was pending until it is sent.    *)
(***************************************************************************)
LEMMA FanOutStepHolds ==
  ASSUME TypeOK, NEW f \in Finalizers, ModeOf(f), EarlyHeld(f), FanOutStep(f)
  PROVE  EarlyHeld(f)'
  <1>0. /\ pc \in [Finalizers -> Labels] /\ run \in [Finalizers -> Locals]
        /\ run[f] \in Locals /\ UNCHANGED <<config, booked, atEnd>>
        /\ Active(f) /\ Active(f)'
    <2>1. PICK label \in Labels \ {"idle", "skipped"} : Goto(f, label)
      BY FanOutStepMoves
    <2>2. pc'[f] = label BY <2>1 DEF Goto, TypeOK
    <2> QED BY <2>2, FanOutStepFrame, FanOutStepMoves DEF TypeOK, Active
  <1>1. CASE RecordingStopped(f) \/ WriteTranscript(f) \/ TranscriptWritten(f)
    <2>1. /\ pc[f] \in Early /\ pc'[f] \in Early
          /\ UNCHANGED <<run, pendingMsgs, pendingIntake>>
      BY <1>0, <1>1 DEF RecordingStopped, WriteTranscript, AfterRecording,
         TranscriptWritten, Goto, Early
    <2> QED BY <1>0, <2>1 DEF EarlyHeld, Early, Firing
  <1>2. CASE BeginEmail(f)
    <2>1. /\ pc[f] \in Early /\ pc'[f] \in {"messages", "clear", "finish"}
          /\ UNCHANGED <<pendingMsgs, pendingIntake>>
          /\ run'[f].captured = pendingMsgs
      BY <1>0, <1>2 DEF BeginEmail, EmailMode, Goto, Early, Locals
    <2> QED BY <1>0, <2>1 DEF EarlyHeld, Early, Firing
  <1>3. CASE DeliverMessage(f) \/ MessageDelivered(f)
    <2>1. /\ pc[f] \in {"messages", "message"}
          /\ pc'[f] \in {"messages", "message"}
          /\ pc'[f] = "message" => run'[f].msg <= Len(pendingMsgs)
          /\ UNCHANGED <<pendingMsgs, pendingIntake>>
      BY <1>0, <1>3 DEF DeliverMessage, MessageDelivered, Goto
    <2> QED BY <1>0, <2>1 DEF EarlyHeld, Early, Firing
  <1>4. CASE MessagesDelivered(f)
    <2>1. /\ pc[f] = "messages" /\ pc'[f] = "clear"
          /\ UNCHANGED <<pendingMsgs, pendingIntake>>
      BY <1>0, <1>4 DEF MessagesDelivered, Goto
    <2> QED BY <1>0, <2>1 DEF EarlyHeld, Early, Firing, ModeOf
  <1>5. CASE ClearPending(f) \/ SummaryGenerated(f)
    <2>1. /\ pc[f] \in {"clear", "summary"}
          /\ pc'[f] \in {"booking", "summary", "report"}
          /\ UNCHANGED <<run, pendingIntake>>
      BY <1>0, <1>5 DEF ClearPending, SummaryGenerated, Goto
    <2> QED BY <1>0, <2>1 DEF EarlyHeld, Early, Firing
  <1>6. CASE FireCallEnd(f)
    <2>1. /\ pc[f] = "report" /\ pc'[f] = "fire"
          /\ run'[f].trigger = "call_end" /\ run'[f].intake = pendingIntake
          /\ run'[f].captured = run[f].captured
          /\ pendingIntake' = pendingIntake
      BY <1>6, FireSets DEF FireCallEnd, Triggers
    <2> QED BY <1>0, <2>1 DEF EarlyHeld, Early, Firing
  <1>7. CASE FireBooking(f)
    <2>1. /\ pc[f] = "booking" /\ pendingIntake' = pendingIntake
          /\ \/ pc'[f] = "intake"
             \/ pc'[f] = "fire" /\ run'[f].trigger = "booking"
      BY <1>0, <1>7, FireSets DEF FireBooking, Triggers, Goto
    <2> QED BY <1>0, <2>1 DEF EarlyHeld, Early, Firing, ModeOf
  <1>8. CASE FireIntake(f)
    <2>1. /\ pc[f] = "intake" /\ pendingIntake' = pendingIntake
          /\ \/ pc'[f] = "finish"
             \/ /\ pc'[f] = "fire" /\ run'[f].trigger = "intake"
                /\ run'[f].intake # None
      BY <1>0, <1>8, FireSets DEF FireIntake, Triggers, Goto
    <2> QED BY <1>0, <2>1 DEF EarlyHeld, Early, Firing, ModeOf
  <1>9. CASE DeliverReport(f) \/ ReportDelivered(f)
    <2>1. /\ pc[f] \in {"fire", "deliver"} /\ pc'[f] \in {"fire", "deliver"}
          /\ pendingIntake' = pendingIntake
      BY <1>0, <1>9 DEF DeliverReport, ReportDelivered, AfterDelivery, Goto
    <2>2. /\ run'[f].trigger = run[f].trigger
          /\ run'[f].intake = run[f].intake
          /\ run'[f].captured = run[f].captured
      BY <1>0, <1>9 DEF DeliverReport, ReportDelivered, Locals
    <2> QED BY <1>0, <2>1, <2>2 DEF EarlyHeld, Early, Firing
  <1>10. CASE ReportsDelivered(f)
    <2>1. /\ pc[f] = "fire" /\ pc'[f] \in {"intake", "finish"}
          /\ pendingIntake' = pendingIntake
      BY <1>0, <1>10 DEF ReportsDelivered, Goto
    <2> QED BY <1>0, <2>1 DEF EarlyHeld, Early, Firing
  <1>11. CASE Finish(f)
    <2>1. pc'[f] = "done" BY <1>0, <1>11 DEF Finish, Goto
    <2> QED BY <1>0, <2>1 DEF EarlyHeld, Early, Firing
  <1> QED BY <1>1, <1>2, <1>3, <1>4, <1>5, <1>6, <1>7, <1>8, <1>9, <1>10,
          <1>11 DEF FanOutStep

(***************************************************************************)
(* The fan-out up to the message loop, and the steps between its loops.    *)
(***************************************************************************)
LEMMA QuietStepsSend ==
  ASSUME TypeOK, NEW f \in Finalizers, ModeOf(f), EarlyHeld(f), EarlySent(f),
         \/ RecordingStopped(f) \/ WriteTranscript(f) \/ TranscriptWritten(f)
         \/ BeginEmail(f) \/ ClearPending(f) \/ SummaryGenerated(f)
         \/ FireCallEnd(f) \/ FireBooking(f) \/ FireIntake(f) \/ Finish(f)
  PROVE  EarlySent(f)'
  <1>0. /\ pc \in [Finalizers -> Labels] /\ run \in [Finalizers -> Locals]
        /\ run[f] \in Locals /\ UNCHANGED <<config, booked, atEnd, mail>>
        /\ \A i \in DOMAIN mail : i \in DOMAIN mail' /\ mail'[i] = mail[i]
    BY FanOutStepFrame
       DEF TypeOK, FanOutStep, RecordingStopped, WriteTranscript,
           TranscriptWritten, BeginEmail, ClearPending, SummaryGenerated,
           FireCallEnd, FireBooking, FireIntake, Finish
  <1> SUFFICES ASSUME NEW c \in 1..config.channels
               PROVE  /\ config.onCallEnd => ConsolidatedSent(c, f)'
                      /\ ~config.onCallEnd => SeparateSent(c, f)'
    BY <1>0 DEF EarlySent
  <1>c. /\ config.onCallEnd => ConsolidatedSent(c, f)
        /\ ~config.onCallEnd => SeparateSent(c, f)
        /\ c \in Nat /\ c >= 1 /\ config.channels > 0
    <2>1. config.channels \in Nat
      BY ConfigAssumption DEF TypeOK, ConfigType
    <2> QED BY <2>1 DEF EarlySent
  <1>s. /\ ReportSent(c) => ReportSent(c)'
        /\ \A m : MessageSent(c, m) => MessageSent(c, m)'
        /\ BookingSent(c) => BookingSent(c)'
        /\ IntakeSent(c) => IntakeSent(c)'
    BY <1>0, SentStays
  <1>1. CASE RecordingStopped(f) \/ WriteTranscript(f) \/ TranscriptWritten(f)
    <2>1. pc'[f] \in Early
      BY <1>0, <1>1 DEF RecordingStopped, WriteTranscript, AfterRecording,
         TranscriptWritten, Goto, Early
    <2> QED BY <2>1 DEF ConsolidatedSent, SeparateSent, MessagesSent, Past,
            Firing, Early
  <1>2. CASE BeginEmail(f)
    <2>1. /\ pc[f] \in Early /\ pc'[f] \in {"messages", "clear"}
          /\ pc'[f] = "clear" => config.onCallEnd \/ ~config.onMessage
          /\ UNCHANGED pendingMsgs
      <3>1. config.email
        BY <1>c, ConfigAssumption DEF TypeOK
      <3> QED BY <1>0, <1>2, <3>1 DEF BeginEmail, EmailMode, Goto, Early
    <2>2. run'[f].msg = 1 /\ run'[f].channel = 1
      <3>1. run[f].msg = 1 /\ run[f].channel = 1
        BY <2>1 DEF EarlyHeld
      <3>2. run'[f] = [run[f] EXCEPT !.captured = pendingMsgs]
        BY <1>0, <1>2 DEF BeginEmail
      <3> QED BY <1>0, <3>1, <3>2 DEF Locals
    <2>3. pc'[f] = "messages" =>
            \A i \in DOMAIN pendingMsgs' :
              ~(i < run'[f].msg \/ (i = run'[f].msg /\ Reached(c, f)'))
      BY <1>c, <2>1, <2>2 DEF Reached, TypeOK
    <2>4. config.onMessage /\ ~config.onCallEnd => MessagesSent(c, f)'
      BY <2>1, <2>3 DEF MessagesSent, Firing
    <2> QED BY <1>0, <2>1, <2>4 DEF ConsolidatedSent, SeparateSent, Past,
            Firing
  <1>3. CASE ClearPending(f) \/ SummaryGenerated(f)
    <2>1. \/ config.onCallEnd /\ pc'[f] \in {"summary", "report"}
          \/ ~config.onCallEnd /\ pc[f] = "clear" /\ pc'[f] = "booking"
          \/ pc[f] = "summary" /\ pc'[f] = "report"
      BY <1>0, <1>3 DEF ClearPending, SummaryGenerated, Goto
    <2> QED BY <1>0, <1>c, <1>s, <2>1 DEF ConsolidatedSent, SeparateSent,
            MessagesSent, Past, Firing, ModeOf
  <1>4. CASE FireCallEnd(f)
    <2>1. /\ pc[f] = "report" /\ pc'[f] = "fire" /\ run'[f].channel = 1
          /\ run'[f].trigger = "call_end"
      BY <1>4, FireSets DEF FireCallEnd, Triggers
    <2>2. ~Reached(c, f)' BY <1>c, <2>1 DEF Reached
    <2> QED BY <2>1, <2>2 DEF ConsolidatedSent, Past, Firing, ModeOf
  <1>5. CASE FireBooking(f)
    <2>1. /\ pc[f] = "booking"
          /\ \/ pc'[f] = "intake" /\ ~(config.onBooking /\ booked)
             \/ /\ pc'[f] = "fire" /\ run'[f].channel = 1
                /\ run'[f].trigger = "booking"
      BY <1>0, <1>5, FireSets DEF FireBooking, Triggers, Goto
    <2>2. pc'[f] = "fire" => ~Reached(c, f)' BY <1>c, <2>1 DEF Reached
    <2>3. pc'[f] = "intake" => ~(config.onBooking /\ atEnd.booked)
      BY <2>1 DEF EarlyHeld, Active
    <2>4. ~config.onCallEnd BY <2>1 DEF ModeOf
    <2>5. config.onMessage => MessagesSent(c, f)'
      BY <1>0, <1>c, <1>s, <2>1, <2>4 DEF SeparateSent, MessagesSent, Firing
    <2> QED BY <1>0, <2>1, <2>2, <2>3, <2>4, <2>5 DEF SeparateSent, Past,
            Firing
  <1>6. CASE FireIntake(f)
    <2>1. /\ pc[f] = "intake"
          /\ \/ pc'[f] = "finish" /\ pendingIntake = None
             \/ /\ pc'[f] = "fire" /\ run'[f].channel = 1
                /\ run'[f].trigger = "intake"
      BY <1>0, <1>6, FireSets DEF FireIntake, Triggers, Goto
    <2>2. pc'[f] = "fire" => ~Reached(c, f)' BY <1>c, <2>1 DEF Reached
    <2>3. pc'[f] = "finish" => ~atEnd.intake
      BY <2>1 DEF EarlyHeld, Active
    <2>4. ~config.onCallEnd BY <2>1 DEF ModeOf
    <2>5. config.onMessage => MessagesSent(c, f)'
      BY <1>0, <1>c, <1>s, <2>1, <2>4 DEF SeparateSent, MessagesSent, Firing
    <2>6. config.onBooking /\ atEnd.booked => BookingSent(c)'
      BY <1>c, <1>s, <2>1, <2>4 DEF SeparateSent, Past
    <2> QED BY <1>0, <2>1, <2>2, <2>3, <2>4, <2>5, <2>6 DEF SeparateSent,
            Past, Firing
  <1>7. CASE Finish(f)
    <2>1. pc[f] = "finish" /\ pc'[f] = "done"
      BY <1>0, <1>7 DEF Finish, Goto
    <2> QED BY <1>0, <1>c, <1>s, <2>1 DEF ConsolidatedSent, SeparateSent,
            MessagesSent, Past, Firing
  <1> QED BY <1>1, <1>2, <1>3, <1>4, <1>5, <1>6, <1>7

(***************************************************************************)
(* The loop over messages and channels passes a message only when every    *)
(* channel has been sent it.                                               *)
(***************************************************************************)
LEMMA MessageStepsSend ==
  ASSUME TypeOK, NEW f \in Finalizers, ModeOf(f), EarlyHeld(f), EarlySent(f),
         DeliverMessage(f) \/ MessageDelivered(f) \/ MessagesDelivered(f)
  PROVE  EarlySent(f)'
  <1> DEFINE l == run[f]
  <1>0. /\ pc \in [Finalizers -> Labels] /\ run \in [Finalizers -> Locals]
        /\ l \in Locals /\ l.msg \in Nat /\ l.channel \in Nat
        /\ pendingMsgs \in Seq(Messages) /\ config.channels \in Nat
    BY ConfigAssumption DEF TypeOK, ConfigType, Locals
  <1>1. /\ UNCHANGED <<config, atEnd, pendingMsgs>> /\ ~config.onCallEnd
        /\ pc'[f] \in {"messages", "message", "clear"}
    BY <1>0 DEF DeliverMessage, MessageDelivered, MessagesDelivered, Goto,
       recorded, ModeOf
  <1> SUFFICES ASSUME NEW c \in 1..config.channels, config.onMessage
               PROVE  MessagesSent(c, f)'
    BY <1>1 DEF EarlySent, SeparateSent, Past, Firing
  <1>2. /\ MessagesSent(c, f) /\ c \in Nat /\ c >= 1 /\ c <= config.channels
    BY <1>0, <1>1 DEF EarlySent, SeparateSent
  <1>3. CASE DeliverMessage(f)
    <2> DEFINE e == [trigger |-> "message", channel |-> l.channel,
                     msgs |-> <<pendingMsgs[l.msg]>>, intake |-> None]
    <2>1. /\ pc[f] = "messages" /\ pc'[f] = "message" /\ run' = run
          /\ l.msg \in DOMAIN pendingMsgs /\ mail' = Append(mail, e)
      BY <1>0, <1>3 DEF DeliverMessage, Goto, Locals
    <2>2. e \in Mail BY <1>0, <2>1 DEF Mail, Triggers, Locals
    <2>3. /\ \A i \in DOMAIN mail : i \in DOMAIN mail' /\ mail'[i] = mail[i]
          /\ \E i \in DOMAIN mail' : mail'[i] = e
      <3> HIDE DEF e
      <3> QED BY <2>1, <2>2, MailAppended
    <2>4. ASSUME NEW i \in DOMAIN pendingMsgs,
                 i < l.msg \/ (i = l.msg /\ c <= l.channel)
          PROVE  MessageSent(c, pendingMsgs[i])'
      <3>1. PICK m : m = pendingMsgs[i] OBVIOUS
      <3>2. MessageSent(c, m)'
        <4>1. CASE i < l.msg \/ (i = l.msg /\ c < l.channel)
          <5>1. MessageSent(c, m)
            BY <1>2, <2>1, <3>1, <4>1 DEF MessagesSent, Reached
          <5> QED BY <1>1, <2>3, <5>1, SentStays
        <4>2. CASE i = l.msg /\ c = l.channel
          <5>1. e.trigger = "message" /\ e.channel = c /\ e.msgs = <<m>>
            BY <3>1, <4>2
          <5> HIDE DEF e
          <5> QED BY <2>3, <5>1 DEF MessageSent
        <4> QED BY <1>0, <1>2, <2>4, <4>1, <4>2
      <3> QED BY <1>1, <3>1, <3>2 DEF MessageSent
    <2> QED BY <1>1, <2>1, <2>4 DEF MessagesSent, Reached, Firing
  <1>4. CASE MessageDelivered(f)
    <2>1. /\ pc[f] = "message" /\ pc'[f] = "messages" /\ mail' = mail
          /\ run'[f] = NextDelivery(l)
      BY <1>0, <1>4 DEF MessageDelivered, Goto
    <2>2. \/ run'[f].msg = l.msg /\ run'[f].channel = l.channel + 1
          \/ /\ run'[f].msg = l.msg + 1 /\ run'[f].channel = 1
             /\ config.channels <= l.channel
      <3>1. /\ [l EXCEPT !.channel = l.channel + 1].msg = l.msg
            /\ [l EXCEPT !.channel = l.channel + 1].channel = l.channel + 1
        BY <1>0 DEF Locals
      <3>2. /\ [l EXCEPT !.channel = 1, !.msg = l.msg + 1].msg = l.msg + 1
            /\ [l EXCEPT !.channel = 1, !.msg = l.msg + 1].channel = 1
        BY <1>0 DEF Locals
      <3>3. l.channel < config.channels \/ config.channels <= l.channel
        BY <1>0
      <3> QED BY <2>1, <3>1, <3>2, <3>3 DEF NextDelivery
    <2>3. ASSUME NEW i \in DOMAIN pendingMsgs,
                 \/ i < run'[f].msg
                 \/ i = run'[f].msg /\ c < run'[f].channel
          PROVE  MessageSent(c, pendingMsgs[i])
      <3>1. i \in Nat BY <1>0
      <3>2. i < l.msg \/ (i = l.msg /\ c <= l.channel)
        BY <1>0, <1>2, <2>2, <2>3, <3>1
      <3> QED BY <1>2, <2>1, <3>2 DEF MessagesSent, Reached
    <2>4. ASSUME NEW i \in DOMAIN pendingMsgs,
                 MessageSent(c, pendingMsgs[i])
          PROVE  MessageSent(c, pendingMsgs[i])'
      BY <1>1, <2>1, <2>4 DEF MessageSent
    <2> QED BY <1>1, <2>1, <2>3, <2>4 DEF MessagesSent, Reached, Firing
  <1>5. CASE MessagesDelivered(f)
    <2>1. /\ pc[f] = "messages" /\ pc'[f] = "clear" /\ mail' = mail
          /\ l.msg > Len(pendingMsgs)
      BY <1>0, <1>2, <1>5 DEF MessagesDelivered, Goto
    <2>2. \A i \in DOMAIN pendingMsgs : MessageSent(c, pendingMsgs[i])
      <3>1. \A i \in DOMAIN pendingMsgs : i < l.msg BY <1>0, <2>1
      <3> QED BY <1>2, <2>1, <3>1 DEF MessagesSent
    <2>3. atEnd.msgs \subseteq Elements(pendingMsgs)
      BY <2>1 DEF EarlyHeld
    <2>4. ASSUME NEW m \in atEnd.msgs PROVE MessageSent(c, m)'
      <3>1. MessageSent(c, m) BY <2>2, <2>3 DEF Elements
      <3> QED BY <2>1, <3>1 DEF MessageSent
    <2> QED BY <1>1, <2>1, <2>4 DEF MessagesSent, Firing
  <1> QED BY <1>3, <1>4, <1>5

(***************************************************************************)
(* So does _fire_email_trigger pass a channel only when it has been sent   *)
(* the email of the trigger.                                               *)
(***************************************************************************)
LEMMA ReportStepsSend ==
  ASSUME TypeOK, NEW f \in Finalizers, ModeOf(f), EarlyHeld(f), EarlySent(f),
         DeliverReport(f) \/ ReportDelivered(f) \/ ReportsDelivered(f)
  PROVE  EarlySent(f)'
  <1> DEFINE l == run[f]
             e == Report(f)
  <1>0. /\ pc \in [Finalizers -> Labels] /\ run \in [Finalizers -> Locals]
        /\ l \in Locals /\ l.channel \in Nat /\ config.channels \in Nat
    BY ConfigAssumption DEF TypeOK, ConfigType, Locals
  <1>1. UNCHANGED <<config, atEnd>> /\ Firing(f)
    BY DEF DeliverReport, ReportDelivered, ReportsDelivered, Firing
  <1>2. /\ \A i \in DOMAIN mail : i \in DOMAIN mail' /\ mail'[i] = mail[i]
        /\ DeliverReport(f) => \E i \in DOMAIN mail' : mail'[i] = e
    <2>1. e \in Mail BY ReportFields
    <2>2. DeliverReport(f) => mail' = Append(mail, e) BY DEF DeliverReport
    <2>3. ~DeliverReport(f) => mail' = mail
      BY DEF ReportDelivered, ReportsDelivered
    <2> HIDE DEF e
    <2> QED BY <2>1, <2>2, <2>3, MailAppended
  <1>3. /\ e.trigger = l.trigger /\ e.channel = l.channel
        /\ e.intake = l.intake
        /\ l.trigger = "call_end" => e.msgs = l.captured
    BY ReportFields
  <1> HIDE DEF e
  <1> SUFFICES ASSUME NEW c \in 1..config.channels
               PROVE  /\ config.onCallEnd => ConsolidatedSent(c, f)'
                      /\ ~config.onCallEnd => SeparateSent(c, f)'
    BY <1>1 DEF EarlySent
  <1>4. /\ config.onCallEnd => ConsolidatedSent(c, f)
        /\ ~config.onCallEnd => SeparateSent(c, f)
        /\ c \in Nat /\ c <= config.channels
    BY <1>0 DEF EarlySent
  <1>5. /\ ReportSent(c) => ReportSent(c)'
        /\ \A m : MessageSent(c, m) => MessageSent(c, m)'
        /\ BookingSent(c) => BookingSent(c)'
        /\ IntakeSent(c) => IntakeSent(c)'
    BY <1>1, <1>2, SentStays
  \* Where the loop stands, and what it just sent.
  <1>6. \/ /\ pc'[f] \in {"fire", "deliver"} /\ l.trigger = run'[f].trigger
           /\ Reached(c, f)' =>
                \/ Reached(c, f)
                \/ c = l.channel /\ \E i \in DOMAIN mail' : mail'[i] = e
        \/ /\ pc'[f] = "intake" /\ l.trigger = "booking" /\ Reached(c, f)
        \/ /\ pc'[f] = "finish" /\ l.trigger # "booking" /\ Reached(c, f)
    <2>1. CASE DeliverReport(f)
      <3>1. pc[f] = "fire" /\ pc'[f] = "deliver" /\ run' = run
        BY <1>0, <2>1 DEF DeliverReport, Goto
      <3> QED BY <1>0, <1>2, <1>4, <2>1, <3>1 DEF Reached
    <2>2. CASE ReportDelivered(f)
      <3>1. /\ pc[f] = "deliver" /\ pc'[f] = "fire"
            /\ run'[f].trigger = l.trigger /\ run'[f].channel = l.channel + 1
        BY <1>0, <2>2 DEF ReportDelivered, AfterDelivery, Goto, Locals
      <3> QED BY <1>0, <1>4, <3>1 DEF Reached
    <2>3. CASE ReportsDelivered(f)
      <3>1. /\ pc[f] = "fire" /\ l.channel > config.channels
            /\ pc'[f] = IF l.trigger = "booking" THEN "intake" ELSE "finish"
        BY <1>0, <2>3 DEF ReportsDelivered, Goto
      <3> QED BY <1>0, <1>4, <3>1 DEF Reached
    <2> QED BY <2>1, <2>2, <2>3
  <1>7. ASSUME config.onCallEnd PROVE ConsolidatedSent(c, f)'
    <2>1. l.trigger = "call_end" BY <1>1, <1>7 DEF ModeOf
    <2>2. /\ atEnd.msgs \subseteq Elements(l.captured)
          /\ atEnd.intake => l.intake # None
      BY <1>1, <1>7, <2>1 DEF EarlyHeld, Firing
    <2>3. ASSUME c = l.channel, NEW i \in DOMAIN mail', mail'[i] = e
          PROVE  ReportSent(c)'
      BY <1>1, <1>3, <2>1, <2>2, <2>3 DEF ReportSent
    <2>4. Reached(c, f) => ReportSent(c)'
      BY <1>1, <1>4, <1>5, <1>7, <2>1 DEF ConsolidatedSent, Past
    <2> QED BY <1>6, <2>1, <2>3, <2>4 DEF ConsolidatedSent, Past, Firing
  <1>8. ASSUME ~config.onCallEnd PROVE SeparateSent(c, f)'
    <2>1. l.trigger \in {"booking", "intake"} BY <1>1, <1>8 DEF ModeOf
    <2>2. config.onMessage => MessagesSent(c, f)'
      BY <1>1, <1>4, <1>5, <1>6, <1>8 DEF SeparateSent, MessagesSent, Firing
    <2>3. ASSUME config.onBooking, atEnd.booked
          PROVE  /\ Past(c, f, "booking", {"intake", "finish", "done"})' =>
                      BookingSent(c)'
                 /\ Firing(f)' /\ run'[f].trigger = "intake" => BookingSent(c)'
      <3>1. /\ l.trigger = "booking" /\ Reached(c, f) => BookingSent(c)'
            /\ l.trigger = "intake" => BookingSent(c)'
        BY <1>1, <1>4, <1>5, <1>8, <2>3 DEF SeparateSent, Past
      <3>2. ASSUME l.trigger = "booking", c = l.channel,
                   NEW i \in DOMAIN mail', mail'[i] = e
            PROVE  BookingSent(c)'
        BY <1>3, <3>2 DEF BookingSent
      <3> QED BY <1>6, <2>1, <3>1, <3>2 DEF Past, Firing
    <2>4. ASSUME atEnd.intake, Past(c, f, "intake", {"finish", "done"})'
          PROVE  IntakeSent(c)'
      <3>1. l.trigger = "intake" /\ Reached(c, f) => IntakeSent(c)'
        BY <1>1, <1>4, <1>5, <1>8, <2>4 DEF SeparateSent, Past
      <3>2. ASSUME l.trigger = "intake", c = l.channel,
                   NEW i \in DOMAIN mail', mail'[i] = e
            PROVE  IntakeSent(c)'
        <4>1. l.intake # None BY <1>1, <3>2 DEF EarlyHeld
        <4> QED BY <1>3, <3>2, <4>1 DEF IntakeSent
      <3> QED BY <1>6, <2>1, <2>4, <3>1, <3>2 DEF Past, Firing
    <2> QED BY <1>1, <2>2, <2>3, <2>4 DEF SeparateSent
  <1> QED BY <1>7, <1>8

\* Every step of the fan-out, with the calls it leaves alone.
LEMMA FanOutKeepsEarly ==
  ASSUME TypeOK, OneFanOut, ModeInv, EarlyInv, NEW f \in Finalizers,
         FanOutStep(f)
  PROVE  EarlyInv'
  <1>1. ModeOf(f) /\ EarlyHeld(f) /\ EarlySent(f) BY DEF ModeInv, EarlyInv
  <1>2. EarlyHeld(f)' BY <1>1, FanOutStepHolds
  <1>3. EarlySent(f)'
    BY <1>1, QuietStepsSend, MessageStepsSend, ReportStepsSend DEF FanOutStep
  <1>4. ASSUME NEW g \in Finalizers, g # f
        PROVE  EarlyHeld(g)' /\ EarlySent(g)'
    <2>1. pc[g] \in {"idle", "skipped"}
      BY <1>4, FanOutStepMoves DEF OneFanOut, Active
    <2>2. pc'[g] = pc[g] /\ run'[g] = run[g] BY <1>4, FanOutStepFrame
    <2>3. EarlyHeld(g) BY DEF EarlyInv
    <2> QED BY <2>1, <2>2, <2>3, OutsideKeepsEarly
  <1> QED BY <1>2, <1>3, <1>4 DEF EarlyInv

LEMMA EarlyInit == TypeOK /\ Init => EarlyInv
  BY DEF Init, EarlyInv, EarlyHeld, EarlySent, ConsolidatedSent, SeparateSent,
     MessagesSent, Past, Firing, Active, Early, InitialLocals

LEMMA EarlyStep ==
  TypeOK /\ OneFanOut /\ ModeInv /\ EarlyInv /\ [Next]_vars => EarlyInv'
  <1> SUFFICES ASSUME TypeOK, OneFanOut, ModeInv, EarlyInv, [Next]_vars
               PROVE  EarlyInv'
    OBVIOUS
  <1>1. CASE Tools \/ Setup BY <1>1, ToolsKeepEarly
  <1>2. ASSUME NEW f \in Finalizers, OnCallEnded(f) \/ AlreadyFinalized(f)
        PROVE  EarlyInv'
    BY <1>2, EntryKeepsEarly
  <1>3. ASSUME NEW f \in Finalizers, FanOutStep(f) PROVE EarlyInv'
    BY <1>3, FanOutKeepsEarly
  <1>4. CASE UNCHANGED vars
    <2>1. UNCHANGED <<config, booked, pendingIntake, pendingMsgs, pc, run,
                      mail, atEnd>>
      BY <1>4 DEF vars, recorded
    <2>2. ASSUME NEW g \in Finalizers PROVE EarlyHeld(g)' /\ EarlySent(g)'
      <3>1. EarlyHeld(g) /\ EarlySent(g) BY DEF EarlyInv
      <3>2. EarlyHeld(g)' BY <2>1, <3>1 DEF EarlyHeld, Active, Firing
      <3>3. EarlySent(g)' BY <2>1, <3>1, StillKeepsSent
      <3> QED BY <3>2, <3>3
    <2> QED BY <2>2 DEF EarlyInv
  <1> QED BY <1>1, <1>2, <1>3, <1>4 DEF Next

(***************************************************************************)
(* Whatever was pending when the call ended reaches every channel by the   *)
(* time the fan-out is over, in either mode, whatever the tools record in  *)
(* the meantime and however many tasks call on_call_ended.                 *)
(***************************************************************************)
THEOREM EarlyDataKept == Spec => []EarlyDataReported
  <1>1. EarlyInv => EarlyDataReported
    <2> SUFFICES ASSUME EarlyInv, NEW f \in Sealed,
                        NEW c \in 1..config.channels
                 PROVE  IF config.onCallEnd THEN ReportedConsolidated(c)
                                            ELSE ReportedSeparately(c)
      BY DEF EarlyDataReported
    <2>1. pc[f] = "done" /\ EarlySent(f) BY DEF Sealed, EarlyInv
    <2>2. CASE config.onCallEnd
      <3>1. ReportSent(c)
        BY <2>1, <2>2 DEF EarlySent, ConsolidatedSent, Past
      <3> QED BY <2>2, <3>1 DEF ReportSent, ReportedConsolidated, Sent
    <2>3. CASE ~config.onCallEnd
      <3>1. /\ config.onMessage => \A m \in atEnd.msgs : MessageSent(c, m)
            /\ config.onBooking /\ atEnd.booked => BookingSent(c)
            /\ atEnd.intake => IntakeSent(c)
        BY <2>1, <2>3 DEF EarlySent, SeparateSent, MessagesSent, Past
      <3> QED BY <2>3, <3>1 DEF ReportedSeparately, Sent, MessageSent,
              BookingSent, IntakeSent
    <2> QED BY <2>2, <2>3
  <1>2. MailInv => TypeOK /\ OneFanOut BY DEF MailInv
  <1>3. Init => EarlyInv /\ MailInv
    BY <1>2, EarlyInit, MailInit
  <1>4. MailInv /\ ModeInv /\ EarlyInv /\ [Next]_vars => EarlyInv'
    BY <1>2, EarlyStep
  <1> QED BY <1>1, <1>3, <1>4, MailStep, ModeKept, PTL DEF Spec

=============================================================================
