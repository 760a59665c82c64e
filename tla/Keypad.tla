-------------------------------- MODULE Keypad --------------------------------
(***************************************************************************)
(* The keypad of a call, shared by two users: the auto-attendant menu      *)
(* (_dispatch_dtmf_event of receptionist/agent.py), where a key starts an  *)
(* action, and the await_keypad_entry tool, which takes the keys over to   *)
(* collect the digits of an intake answer (DigitCaptureBuffer).            *)
(*                                                                         *)
(* Every press is handled by a task of its own.  The tasks start in the    *)
(* order of the presses (queue), a task runs alone up to its next await,   *)
(* and calls of the tool may overlap: the model may call it again while an *)
(* earlier call is waiting.  Presses of other participants than the caller *)
(* change nothing and are left out.                                        *)
(***************************************************************************)
EXTENDS Integers, Sequences, FiniteSets

CONSTANTS
  Digits,        \* the digit keys the caller uses
  Entries,       \* the calls of await_keypad_entry
  Menus,         \* the menus considered: functions from keys to actions
  Lengths,       \* the values of dtmf_length considered, NoLength among them
  NoLength,
  Debounce,      \* _DTMF_DEBOUNCE_SECONDS, in ticks of the clock
  MaxPresses,    \* bound: the keys the caller presses in a call
  MaxTime,       \* bound: the ticks of the clock
  Nil

Pound == "#"
Star  == "*"
Keys  == Digits \cup {Pound, Star}

Actions  == {"transfer", "take_message", "end_call", "repeat_menu"}
Statuses == {"pending", "executed", "failed", "refused_intake_only",
             "unmapped", "duplicate_ignored", "suppressed_in_flight",
             "intake_capture", "intake_capture_cleared",
             "intake_capture_timeout"}

\* A menu that is not enabled has no keys.
ASSUME KeypadAssumption ==
  /\ Pound \notin Digits /\ Star \notin Digits
  /\ \A m \in Menus : /\ DOMAIN m \subseteq Keys
                      /\ \A k \in DOMAIN m : m[k] \in Actions
  /\ Lengths \subseteq (Nat \ {0}) \cup {NoLength}
  /\ Debounce \in Nat /\ MaxTime \in Nat /\ MaxPresses \in Nat
  /\ Nil \notin Entries \cup Nat \cup Keys /\ NoLength \notin Nat

VARIABLES
  menuOf,     \* the menu of this call's configuration
  lengthOf,   \* the dtmf_length of the question each entry is for
  pressed,    \* the presses so far
  queue,      \* the presses whose task has not started
  now,        \* time.monotonic
  lastPress,  \* last_press_ts
  inFlight,   \* action_in_flight
  acting,     \* the press tasks awaiting something: their event and where
  events,     \* metadata.dtmf_events, each with the time of its press
  capture,    \* the entry whose buffer is armed
  entry,      \* where each call of await_keypad_entry is
  buffer,     \* the digits collected for each entry
  typed       \* history: the keys fed to each entry

keyVars == <<menuOf, lengthOf, pressed, queue, now, lastPress, inFlight,
             acting, events, capture, entry, buffer, typed>>
fixed == <<menuOf, lengthOf>>
entryVars == <<capture, entry, buffer, typed>>
menuVars == <<lastPress, inFlight, acting>>

(***************************************************************************)
(* The future of an entry and its task: waiting; the future resolved       *)
(* ("completed") or cancelled by a newer entry ("superseded") or by the    *)
(* deadline ("expired"), with the task still to resume; then returned.     *)
(***************************************************************************)
Pending  == {"waiting", "completed", "superseded", "expired"}
Returned == {"typed", "fallback"}

KeypadInit ==
  /\ menuOf \in Menus
  /\ lengthOf \in [Entries -> Lengths]
  /\ pressed = 0
  /\ queue = <<>>
  /\ now = 0
  /\ lastPress = [k \in Keys |-> Nil]
  /\ inFlight = FALSE
  /\ acting = {}
  /\ events = <<>>
  /\ capture = Nil
  /\ entry = [e \in Entries |-> "idle"]
  /\ buffer = [e \in Entries |-> <<>>]
  /\ typed = [e \in Entries |-> <<>>]

\* record_dtmf_event.
Record(k, status) ==
  events' = Append(events, [key |-> k, status |-> status, at |-> now])

(***************************************************************************)
(* _on_sip_dtmf_received creates a task for the press.                     *)
(***************************************************************************)
Press(k) ==
  /\ pressed < MaxPresses
  /\ pressed' = pressed + 1
  /\ queue' = Append(queue, k)
  /\ UNCHANGED <<fixed, now, menuVars, events, entryVars>>

Tick ==
  /\ now < MaxTime
  /\ now' = now + 1
  /\ UNCHANGED <<fixed, pressed, queue, menuVars, events, entryVars>>

\* The task of the next press starts, and this is its key.
Starts(k) ==
  /\ queue # <<>>
  /\ k = Head(queue)
  /\ queue' = Tail(queue)

(***************************************************************************)
(* _feed_capture_digit and DigitCaptureBuffer.add_key.                     *)
(***************************************************************************)

Extended(e, k) == IF k \in Digits THEN Append(buffer[e], k) ELSE buffer[e]

Completes(e, k) ==
  \/ k = Pound
  \/ /\ k \in Digits /\ lengthOf[e] # NoLength
     /\ Len(buffer[e]) + 1 >= lengthOf[e]

\* Mutant: the clear key leaves the digits typed so far.
KeepDigits(e) == buffer[e]

AfterClear(e) == <<>>

\* Mutant: completion leaves the buffer armed.
StayArmed == capture

AfterCompletion == Nil

FeedCompleting(e, k) ==
  /\ Completes(e, k)
  /\ buffer' = [buffer EXCEPT ![e] = Extended(e, k)]
  /\ Record(k, "intake_capture")
  /\ capture' = AfterCompletion
  /\ entry' = [entry EXCEPT ![e] = IF @ = "waiting" THEN "completed" ELSE @]

FeedClearing(e, k) ==
  /\ k = Star
  /\ buffer' = [buffer EXCEPT ![e] = AfterClear(e)]
  /\ Record(k, "intake_capture_cleared")
  /\ UNCHANGED <<capture, entry>>

FeedCollecting(e, k) ==
  /\ ~Completes(e, k) /\ k # Star
  /\ buffer' = [buffer EXCEPT ![e] = Extended(e, k)]
  /\ UNCHANGED <<events, capture, entry>>

FeedCapture(k) ==
  /\ Starts(k)
  /\ capture # Nil
  /\ \/ FeedCompleting(capture, k)
     \/ FeedClearing(capture, k)
     \/ FeedCollecting(capture, k)
  /\ typed' = [typed EXCEPT ![capture] = Append(@, k)]
  /\ UNCHANGED <<fixed, pressed, now, menuVars>>

(***************************************************************************)
(* A press that is the menu's.                                             *)
(***************************************************************************)
ForMenu(k) == Starts(k) /\ capture = Nil

\* Without a menu the handler returns at once; an unmapped key is recorded.
PressUnmapped(k) ==
  /\ ForMenu(k)
  /\ k \notin DOMAIN menuOf
  /\ IF DOMAIN menuOf = {} THEN UNCHANGED events ELSE Record(k, "unmapped")
  /\ UNCHANGED <<fixed, pressed, now, menuVars, entryVars>>

Recent(k) == lastPress[k] # Nil /\ now - lastPress[k] < Debounce

PressDebounced(k) ==
  /\ ForMenu(k)
  /\ k \in DOMAIN menuOf
  /\ Recent(k)
  /\ Record(k, "duplicate_ignored")
  /\ UNCHANGED <<fixed, pressed, now, menuVars, entryVars>>

\* Mutant: a press that is suppressed is not remembered.
StartedPress(k) ==
  IF inFlight THEN lastPress ELSE [lastPress EXCEPT ![k] = now]

Remembered(k) == [lastPress EXCEPT ![k] = now]

PressSuppressed(k) ==
  /\ ForMenu(k)
  /\ k \in DOMAIN menuOf
  /\ ~Recent(k)
  /\ inFlight
  /\ lastPress' = Remembered(k)
  /\ Record(k, "suppressed_in_flight")
  /\ UNCHANGED <<fixed, pressed, now, inFlight, acting, entryVars>>

\* Mutant: the flag is not set.
FlagForgotten == FALSE

FlagAtStart == TRUE

PressAccepted(k) ==
  /\ ForMenu(k)
  /\ k \in DOMAIN menuOf
  /\ ~Recent(k)
  /\ ~inFlight
  /\ lastPress' = Remembered(k)
  /\ Record(k, "pending")
  /\ inFlight' = FlagAtStart
  /\ acting' = acting \cup {[event |-> Len(events) + 1, at |-> "acknowledge"]}
  /\ UNCHANGED <<fixed, pressed, now, entryVars>>

Dispatch(k) ==
  \/ FeedCapture(k)
  \/ PressUnmapped(k) \/ PressDebounced(k)
  \/ PressSuppressed(k) \/ PressAccepted(k)

(***************************************************************************)
(* The task of an accepted press, after each await.                        *)
(***************************************************************************)
Task(i, label) == [event |-> i, at |-> label]

Advance(i, from, to) == acting' = (acting \ {Task(i, from)}) \cup {Task(i, to)}

\* Mutant: only an action that succeeds gives the flag back.
FlagKept == inFlight

FlagReleased == FALSE

\* The finally clause; raised says that the task ends by an exception.
Ends(i, from, raised) ==
  /\ acting' = acting \ {Task(i, from)}
  /\ inFlight' = IF raised THEN FlagReleased ELSE FALSE

\* update_dtmf_event_status.
Settle(i, status) == events' = [events EXCEPT ![i].status = status]

\* The acknowledgment, spoken or not: an exception is swallowed.
Acknowledged(i) ==
  /\ Task(i, "acknowledge") \in acting
  /\ Advance(i, "acknowledge", "act")
  /\ UNCHANGED <<fixed, pressed, queue, now, lastPress, inFlight, events,
                 entryVars>>

\* _execute_transfer returns a status and never raises.
TransferAnswered(i) ==
  /\ Task(i, "act") \in acting
  /\ menuOf[events[i].key] = "transfer"
  /\ \/ Settle(i, "executed") /\ Ends(i, "act", FALSE)
     \/ /\ \E s \in {"refused_intake_only", "failed"} : Settle(i, s)
        /\ Advance(i, "act", "pivot")
        /\ UNCHANGED inFlight
  /\ UNCHANGED <<fixed, pressed, queue, now, lastPress, entryVars>>

\* The pivot to take_message is spoken, or generate_reply raises.
PivotAnswered(i) ==
  /\ Task(i, "pivot") \in acting
  /\ \E raised \in BOOLEAN : Ends(i, "pivot", raised)
  /\ UNCHANGED <<fixed, pressed, queue, now, lastPress, events, entryVars>>

\* take_message and repeat_menu speak; a generate_reply that raises leaves
\* the handler.
ReplyAnswered(i) ==
  /\ Task(i, "act") \in acting
  /\ menuOf[events[i].key] \in {"take_message", "repeat_menu"}
  /\ \/ Settle(i, "executed") /\ Ends(i, "act", FALSE)
     \/ Ends(i, "act", TRUE) /\ UNCHANGED events
  /\ UNCHANGED <<fixed, pressed, queue, now, lastPress, entryVars>>

\* speak_goodbye (CallSession's goodbye task) catches what it calls.
GoodbyeReturned(i) ==
  /\ Task(i, "act") \in acting
  /\ menuOf[events[i].key] = "end_call"
  /\ Settle(i, "executed")
  /\ Ends(i, "act", FALSE)
  /\ UNCHANGED <<fixed, pressed, queue, now, lastPress, entryVars>>

ActionStep ==
  \E i \in DOMAIN events :
    \/ Acknowledged(i)
    \/ TransferAnswered(i) \/ PivotAnswered(i)
    \/ ReplyAnswered(i) \/ GoodbyeReturned(i)

(***************************************************************************)
(* await_keypad_entry.                                                     *)
(***************************************************************************)
\* The future of an entry still waiting is cancelled by the newer one.
Superseding(e) ==
  [d \in Entries |->
     CASE d = e -> "waiting"
       [] d # e /\ d = capture /\ entry[d] = "waiting" -> "superseded"
       [] OTHER -> entry[d]]

Arm(e) ==
  /\ entry[e] = "idle"
  /\ entry' = Superseding(e)
  /\ capture' = e
  /\ UNCHANGED <<fixed, pressed, queue, now, menuVars, events, buffer, typed>>

\* Mutant: the deadline belongs to the armed buffer, not to the call.
DeadlineOfCapture(e) == entry[e] \in Pending \ {"expired"} /\ capture = e

DeadlineRuns(e) == entry[e] \in Pending \ {"expired"}

\* wait_for's deadline passes before the task has resumed.
DeadlinePasses(e) ==
  /\ DeadlineRuns(e)
  /\ entry' = [entry EXCEPT ![e] = "expired"]
  /\ UNCHANGED <<fixed, pressed, queue, now, menuVars, events, capture,
                 buffer, typed>>

ReturnsDigits(e) ==
  /\ entry[e] = "completed"
  /\ entry' = [entry EXCEPT ![e] = "typed"]
  /\ UNCHANGED <<fixed, pressed, queue, now, menuVars, events, capture,
                 buffer, typed>>

\* CancelledError: the capture is the newer entry's, and is left alone.
ReturnsSuperseded(e) ==
  /\ entry[e] = "superseded"
  /\ entry' = [entry EXCEPT ![e] = "fallback"]
  /\ UNCHANGED <<fixed, pressed, queue, now, menuVars, events, capture,
                 buffer, typed>>

AfterDeadline == Nil

\* TimeoutError.
ReturnsTimeout(e) ==
  /\ entry[e] = "expired"
  /\ entry' = [entry EXCEPT ![e] = "fallback"]
  /\ capture' = AfterDeadline
  /\ Record(Nil, "intake_capture_timeout")
  /\ UNCHANGED <<fixed, pressed, queue, now, menuVars, buffer, typed>>

Returns(e) == ReturnsDigits(e) \/ ReturnsSuperseded(e) \/ ReturnsTimeout(e)

-----------------------------------------------------------------------------
KeypadNext ==
  \/ Tick
  \/ \E k \in Keys : Press(k) \/ Dispatch(k)
  \/ ActionStep
  \/ \E e \in Entries : Arm(e) \/ DeadlinePasses(e) \/ Returns(e)

KeypadSpec == KeypadInit /\ [][KeypadNext]_keyVars

\* The event loop runs the tasks that can run, speech and transfers end or
\* fail, and a deadline passes in the end.
KeypadFairness ==
  /\ \A k \in Keys : WF_keyVars(Dispatch(k))
  /\ WF_keyVars(ActionStep)
  /\ \A e \in Entries : WF_keyVars(DeadlinePasses(e)) /\ WF_keyVars(Returns(e))

FairKeypadSpec == KeypadSpec /\ KeypadFairness

-----------------------------------------------------------------------------
EventRecord == [key : Keys \cup {Nil}, status : Statuses, at : Nat]

KeypadTypeOK ==
  /\ menuOf \in Menus
  /\ lengthOf \in [Entries -> Lengths]
  /\ pressed \in Nat
  /\ queue \in Seq(Keys)
  /\ now \in Nat
  /\ lastPress \in [Keys -> Nat \cup {Nil}]
  /\ inFlight \in BOOLEAN
  /\ \A t \in acting : /\ t.event \in DOMAIN events
                       /\ t.at \in {"acknowledge", "act", "pivot"}
                       /\ t = Task(t.event, t.at)
  /\ events \in Seq(EventRecord)
  /\ capture \in Entries \cup {Nil}
  /\ entry \in [Entries -> Pending \cup Returned \cup {"idle"}]
  /\ buffer \in [Entries -> Seq(Digits)]
  /\ typed \in [Entries -> Seq(Keys)]

(***************************************************************************)
(* At most one keypad action runs at a time, and action_in_flight says so  *)
(* exactly while it does, whatever the presses, failures and entries in    *)
(* between.                                                                *)
(***************************************************************************)
OneAction ==
  /\ \A s, t \in acting : s = t
  /\ inFlight <=> acting # {}

(***************************************************************************)
(* Two presses of one key that were not taken for repeats are at least the *)
(* debounce window apart, the suppressed ones included.                    *)
(***************************************************************************)
Accepted(i) == events[i].status \in {"pending", "executed", "failed",
                                     "refused_intake_only",
                                     "suppressed_in_flight"}

Debounced ==
  \A i, j \in DOMAIN events :
    i < j /\ Accepted(i) /\ Accepted(j) /\ events[i].key = events[j].key =>
      events[j].at - events[i].at >= Debounce

(***************************************************************************)
(* The digits an entry returns are those the caller typed for it: what was *)
(* fed after the last clear key, without the terminator, and at most the   *)
(* length asked for.                                                       *)
(***************************************************************************)
IsLastClear(n, s) ==
  /\ n = 0 \/ s[n] = Star
  /\ \A m \in (n + 1)..Len(s) : s[m] # Star

LastClear(s) == CHOOSE n \in 0..Len(s) : IsLastClear(n, s)

LastDigit(s) ==
  IF s # <<>> /\ s[Len(s)] = Pound THEN Len(s) - 1 ELSE Len(s)

Answer(s) == SubSeq(s, LastClear(s) + 1, LastDigit(s))

AnswerAsTyped ==
  \A e \in Entries : entry[e] \in {"completed", "typed"} =>
    /\ buffer[e] = Answer(typed[e])
    /\ lengthOf[e] # NoLength => Len(buffer[e]) <= lengthOf[e]

(***************************************************************************)
(* The keypad is never held by an entry whose tool call has returned or    *)
(* will return digits: its holder is still to run into its deadline.       *)
(***************************************************************************)
HolderPending ==
  capture # Nil => entry[capture] \in {"waiting", "expired"}

(***************************************************************************)
(* An older entry does not touch the capture of a newer one: an entry that *)
(* still waits is the one the keys go to (the comment in the               *)
(* CancelledError branch of await_keypad_entry).                           *)
(***************************************************************************)
NewerCaptureKept == \A e \in Entries : entry[e] = "waiting" => capture = e

(***************************************************************************)
(* Every call of the tool returns, with its digits, at its deadline or     *)
(* because a newer one took the keypad over.                               *)
(***************************************************************************)
EntryReturns ==
  \A e \in Entries : entry[e] = "waiting" ~> entry[e] \in Returned

(***************************************************************************)
(* An action that runs, whether it succeeds or raises, gives the flag back *)
(* and the keypad works on.                                                *)
(***************************************************************************)
ActionsEnd == inFlight ~> ~inFlight
=============================================================================
