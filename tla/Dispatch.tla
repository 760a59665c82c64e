------------------------------- MODULE Dispatch -------------------------------
(***************************************************************************)
(* The take_message tool and the Dispatcher behind it (receptionist/       *)
(* messaging): one channel is awaited before the caller is told "saved",   *)
(* the others run as background tasks with retries and a failure record,   *)
(* and email is left to the end of the call.                               *)
(*                                                                         *)
(* A webhook and a disk are external: an attempt is answered or not.  The  *)
(* worker's event loop may be shut down at any moment, which cancels the   *)
(* tasks but not the threads that write files.                             *)
(***************************************************************************)
EXTENDS Naturals, Sequences, FiniteSets

CONSTANTS
  Messages,      \* the calls of take_message
  Layouts,       \* the values of messages.channels considered
  MaxAttempts    \* RetryPolicy.max_attempts

Kinds == {"file", "webhook", "email"}

\* The configuration needs a channel, a retry policy an attempt.
ASSUME DispatchAssumption ==
  /\ \A l \in Layouts : l \in Seq(Kinds) /\ l # <<>>
  /\ MaxAttempts \in Nat \ {0}

VARIABLES
  layout,      \* messages.channels: the kind of each channel
  told,        \* what take_message has told the caller
  delivery,    \* delivery[m][c]: where channel c is with message m
  attempts,    \* attempts[m][c]: how its attempts ended, the current one excepted
  records,     \* the failure records in .failures/
  diskErrors,  \* history: the failure records that could not be written
  mailQueue,   \* the messages enqueued with the lifecycle for the call's end
  outcome,     \* record_message_taken has been called
  up           \* the event loop runs

dispatchVars == <<layout, told, delivery, attempts, records, diskErrors,
                  mailQueue, outcome, up>>

Channels == DOMAIN layout

(***************************************************************************)
(* An attempt is accepted; it arrives but its answer is lost or an error   *)
(* that counts as transient; it fails transiently (408, 425, 429, 5xx, a   *)
(* timeout, a refused connection); it is refused for good (another 4xx, an *)
(* error of the disk).                                                     *)
(***************************************************************************)
Endings == {"accepted", "lost", "transient", "permanent"}

Arrived(s) == {i \in DOMAIN s : s[i] \in {"accepted", "lost"}}

PossibleAnswers(c) ==
  IF layout[c] = "file" THEN {"accepted", "permanent"} ELSE Endings

\* Where a delivery is: not begun, in an attempt, between two attempts,
\* writing its failure record, delivered, failed, or cancelled.
Places == {"none", "sending", "backoff", "recording", "delivered", "failed",
           "cancelled"}
Live == {"sending", "backoff", "recording"}

DispatchInit ==
  /\ layout \in Layouts
  /\ told = [m \in Messages |-> "nothing"]
  /\ delivery = [m \in Messages |-> [c \in Channels |-> "none"]]
  /\ attempts = [m \in Messages |-> [c \in Channels |-> <<>>]]
  /\ records = {}
  /\ diskErrors = {}
  /\ mailQueue = {}
  /\ outcome = FALSE
  /\ up = TRUE

(***************************************************************************)
(* The channels of one dispatch, and the one awaited among them.           *)
(***************************************************************************)
\* skip_email_channel=True.
Active == {c \in Channels : layout[c] # "email"}

\* Mutant: the channel listed first is awaited, whatever its kind.
FirstListed(c) == c \in Active /\ \A d \in Active : d >= c

\* _SYNC_PREFERENCE: the first file channel, or else the first webhook.
IsSync(c) ==
  /\ c \in Active
  /\ \A d \in Active : \/ layout[d] = layout[c] /\ c <= d
                       \/ layout[c] = "file" /\ layout[d] = "webhook"

TakeMessage(m) ==
  /\ up
  /\ told[m] = "nothing"
  /\ Active # {}
  /\ told' = [told EXCEPT ![m] = "dispatching"]
  /\ delivery' = [delivery EXCEPT ![m] = [c \in Channels |->
                    IF IsSync(c) THEN "sending" ELSE "none"]]
  /\ UNCHANGED <<layout, attempts, records, diskErrors, mailQueue, outcome, up>>

\* enqueue_message_email and record_message_taken follow the dispatch in one go.
Saved(m) ==
  /\ told' = [told EXCEPT ![m] = "saved"]
  /\ mailQueue' = mailQueue \cup {m}
  /\ outcome' = TRUE

\* With email channels only there is nothing to dispatch.
TakeMessageForMail(m) ==
  /\ up
  /\ told[m] = "nothing"
  /\ Active = {}
  /\ Saved(m)
  /\ UNCHANGED <<layout, delivery, attempts, records, diskErrors, up>>

(***************************************************************************)
(* deliver, retry_with_backoff and what follows them.                      *)
(***************************************************************************)
Heard(m, c, a) == attempts' = [attempts EXCEPT ![m][c] = Append(@, a)]

At(m, c, place) == delivery' = [delivery EXCEPT ![m][c] = place]

\* Mutant: every error is worth another attempt.
AnyError(c, a) == a # "accepted"

IsTransient(c, a) == layout[c] = "webhook" /\ a \in {"lost", "transient"}

Retried(m, c, a) ==
  IsTransient(c, a) /\ Len(attempts[m][c]) + 1 < MaxAttempts

\* The background tasks are created when the awaited channel has delivered.
Delivered(m, c) ==
  IF IsSync(c)
    THEN /\ delivery' = [delivery EXCEPT ![m] = [d \in Channels |->
                           CASE d = c -> "delivered"
                             [] d \in Active \ {c} -> "sending"
                             [] OTHER -> "none"]]
         /\ Saved(m)
    ELSE At(m, c, "delivered") /\ UNCHANGED <<told, mailQueue, outcome>>

\* Mutant: a background failure is only logged.
LoggedOnly == "failed"

AfterBackgroundError == "recording"

\* An error of the awaited channel reaches take_message.
Raised(m, c) ==
  /\ UNCHANGED <<mailQueue, outcome>>
  /\ IF IsSync(c)
       THEN At(m, c, "failed") /\ told' = [told EXCEPT ![m] = "trouble"]
       ELSE At(m, c, AfterBackgroundError) /\ UNCHANGED told

AttemptEnds(m, c) ==
  /\ up
  /\ delivery[m][c] = "sending"
  /\ \E a \in PossibleAnswers(c) :
       /\ Heard(m, c, a)
       /\ \/ a = "accepted" /\ Delivered(m, c)
          \/ /\ a # "accepted" /\ Retried(m, c, a)
             /\ At(m, c, "backoff")
             /\ UNCHANGED <<told, mailQueue, outcome>>
          \/ a # "accepted" /\ ~Retried(m, c, a) /\ Raised(m, c)
  /\ UNCHANGED <<layout, records, diskErrors, up>>

\* The sleep, of the server's Retry-After or the growing delay, is over.
NextAttempt(m, c) ==
  /\ up
  /\ delivery[m][c] = "backoff"
  /\ At(m, c, "sending")
  /\ UNCHANGED <<layout, told, attempts, records, diskErrors, mailQueue, outcome,
                 up>>

\* _write_record in its thread; its error ends the task.
RecordFailure(m, c) ==
  /\ up
  /\ delivery[m][c] = "recording"
  /\ At(m, c, "failed")
  /\ \/ records' = records \cup {<<m, c>>} /\ UNCHANGED diskErrors
     \/ diskErrors' = diskErrors \cup {<<m, c>>} /\ UNCHANGED records
  /\ UNCHANGED <<layout, told, attempts, mailQueue, outcome, up>>

\* A delivery of message m may be cut in the middle.
Unfinished == {d \in Messages \X Channels : delivery[d[1]][d[2]] \in Live}

\* CancelledError is not a channel failure: only a record already being
\* written in its thread may still land.
RecordsAfterCut(written) ==
  {d \in written : delivery[d[1]][d[2]] = "recording"}

(***************************************************************************)
(* The loop is shut down: every task is cancelled where it is.  A request  *)
(* in flight may have arrived, and a thread finishes its write or is       *)
(* killed with the process.                                                *)
(***************************************************************************)
Shutdown ==
  /\ up
  /\ up' = FALSE
  /\ \E arrived, written \in SUBSET Unfinished :
       /\ \A d \in arrived : delivery[d[1]][d[2]] = "sending"
       /\ attempts' = [m \in Messages |-> [c \in Channels |->
                        IF <<m, c>> \in arrived
                          THEN Append(attempts[m][c], "lost")
                          ELSE attempts[m][c]]]
       /\ records' = records \cup RecordsAfterCut(written)
  /\ delivery' = [m \in Messages |-> [c \in Channels |->
                    IF delivery[m][c] \in Live THEN "cancelled"
                                               ELSE delivery[m][c]]]
  /\ told' = [m \in Messages |-> IF told[m] = "dispatching" THEN "cut"
                                                            ELSE told[m]]
  /\ UNCHANGED <<layout, diskErrors, mailQueue, outcome>>

-----------------------------------------------------------------------------
DispatchNext ==
  \/ \E m \in Messages : TakeMessage(m) \/ TakeMessageForMail(m)
  \/ \E m \in Messages, c \in Channels :
        AttemptEnds(m, c) \/ NextAttempt(m, c) \/ RecordFailure(m, c)
  \/ Shutdown

DispatchSpec == DispatchInit /\ [][DispatchNext]_dispatchVars

-----------------------------------------------------------------------------
DispatchTypeOK ==
  /\ layout \in Layouts
  /\ told \in [Messages -> {"nothing", "dispatching", "saved", "trouble", "cut"}]
  /\ delivery \in [Messages -> [Channels -> Places]]
  /\ attempts \in [Messages -> [Channels -> Seq(Endings)]]
  /\ records \subseteq Messages \X Channels
  /\ diskErrors \subseteq Messages \X Channels
  /\ mailQueue \subseteq Messages
  /\ outcome \in BOOLEAN
  /\ up \in BOOLEAN

(***************************************************************************)
(* A caller is told "saved" only when a copy of the message exists in the  *)
(* most durable place the configuration has, a file where there is a file  *)
(* channel, and when its email is queued; and the call counts as one with  *)
(* a message from then on.  What the caller is not told saved is in no     *)
(* queue.                                                                  *)
(***************************************************************************)
HasCopy(m, kind) ==
  \E c \in Channels : layout[c] = kind /\ Arrived(attempts[m][c]) # {}

SavedHasCopy ==
  \A m \in Messages :
    /\ told[m] = "saved" <=> m \in mailQueue
    /\ told[m] = "saved" =>
         /\ outcome
         /\ (\E c \in Channels : layout[c] = "file") => HasCopy(m, "file")
         /\ Active # {} => HasCopy(m, "file") \/ HasCopy(m, "webhook")

(***************************************************************************)
(* A failure record says what has to be replayed: every background channel *)
(* that gave up on a message has one unless the disk refused it, and a     *)
(* channel that delivered, or a caller who was told that the message was   *)
(* not saved, has none, so that a replay doubles nothing that was heard to *)
(* arrive.  A delivery cut short by the shutdown leaves none.              *)
(***************************************************************************)
RecordSaysReplay ==
  \A m \in Messages, c \in Channels :
    /\ delivery[m][c] = "failed" /\ told[m] = "saved" =>
         <<m, c>> \in records \cup diskErrors
    /\ <<m, c>> \in records =>
         /\ told[m] = "saved" /\ ~IsSync(c)
         /\ \/ ~IsTransient(c, attempts[m][c][Len(attempts[m][c])])
            \/ Len(attempts[m][c]) = MaxAttempts
         /\ \A i \in DOMAIN attempts[m][c] : attempts[m][c][i] # "accepted"

(***************************************************************************)
(* A message is posted again only after an attempt that ended in a         *)
(* transient error, so it is doubled at a receiver only where an answer    *)
(* was lost; one refused for good is not posted again.                     *)
(***************************************************************************)
PostedAgainAfterTransient ==
  \A m \in Messages, c \in Channels :
    \A i \in 1..(Len(attempts[m][c]) - 1) :
      layout[c] = "webhook" /\ attempts[m][c][i] \in {"lost", "transient"}
=============================================================================
