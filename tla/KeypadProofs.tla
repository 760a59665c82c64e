----------------------------- MODULE KeypadProofs -----------------------------
(***************************************************************************)
(* Theorems about Keypad for any keys, menus and number of overlapping     *)
(* entries: type correctness, at most one keypad action at a time, the     *)
(* keypad never held by an entry that is over, the debounce window kept,   *)
(* and the digits returned those that were typed.                          *)
(***************************************************************************)
EXTENDS Keypad, SequenceTheorems, TLAPS

(***************************************************************************)
(* A new record of dtmf_events is one, and so is an event whose status has *)
(* been updated in place.                                                  *)
(***************************************************************************)
LEMMA RecordTyped ==
  ASSUME KeypadTypeOK, NEW k \in Keys \cup {Nil}, NEW s \in Statuses,
         Record(k, s)
  PROVE  events' \in Seq(EventRecord) /\ DOMAIN events \subseteq DOMAIN events'
  <1>1. [key |-> k, status |-> s, at |-> now] \in EventRecord
    BY DEF EventRecord, KeypadTypeOK
  <1> QED BY <1>1 DEF Record, KeypadTypeOK

\* An event settled in place keeps the type of the list and its length.
LEMMA SettleTyped ==
  ASSUME KeypadTypeOK, NEW i \in DOMAIN events, NEW s \in Statuses,
         Settle(i, s)
  PROVE  events' \in Seq(EventRecord) /\ DOMAIN events' = DOMAIN events
  <1>1. events \in Seq(EventRecord) BY DEF KeypadTypeOK
  <1>2. events[i] \in EventRecord BY <1>1
  <1>3. [events[i] EXCEPT !.status = s] \in EventRecord
    BY <1>2 DEF EventRecord
  <1>4. events' = [events EXCEPT ![i] = [events[i] EXCEPT !.status = s]]
    BY DEF Settle
  <1> QED BY <1>1, <1>3, <1>4

\* The tasks under way, after a step that ends or advances one of them.
TasksTyped(tasks, evts) ==
  \A t \in tasks : /\ t.event \in DOMAIN evts
                   /\ t.at \in {"acknowledge", "act", "pivot"}
                   /\ t = Task(t.event, t.at)

\* __init__ of the handler state leaves everything typed and idle.
LEMMA KeypadInitTyped ==
  KeypadInit => KeypadTypeOK /\ OneAction /\ HolderPending
  <1> SUFFICES ASSUME KeypadInit
               PROVE  KeypadTypeOK /\ OneAction /\ HolderPending
    OBVIOUS
  <1>1. /\ queue \in Seq(Keys) /\ events \in Seq(EventRecord)
        /\ <<>> \in Seq(Digits) /\ <<>> \in Seq(Keys)
    BY DEF KeypadInit
  <1>2. KeypadTypeOK
    BY <1>1 DEF KeypadInit, KeypadTypeOK
  <1> QED BY <1>2 DEF KeypadInit, OneAction, HolderPending

\* A press or a tick of the clock keeps every type.
LEMMA ArrivalTyped ==
  ASSUME KeypadTypeOK, Tick \/ \E k \in Keys : Press(k)
  PROVE  KeypadTypeOK'
  <1>1. CASE Tick
    BY <1>1 DEF Tick, KeypadTypeOK, fixed, menuVars, entryVars
  <1>2. ASSUME NEW k \in Keys, Press(k) PROVE KeypadTypeOK'
    BY <1>2 DEF Press, KeypadTypeOK, fixed, menuVars, entryVars
  <1> QED BY <1>1, <1>2

\* Feeding a key to the armed buffer keeps every type.
LEMMA FeedTyped ==
  ASSUME KeypadTypeOK, NEW k \in Keys, FeedCapture(k)
  PROVE  KeypadTypeOK'
  <1>1. capture \in Entries /\ queue' \in Seq(Keys)
    BY DEF FeedCapture, Starts, KeypadTypeOK
  <1>2. Extended(capture, k) \in Seq(Digits) /\ <<>> \in Seq(Digits)
    BY <1>1 DEF Extended, KeypadTypeOK
  <1>3. typed' \in [Entries -> Seq(Keys)]
    BY <1>1 DEF FeedCapture, KeypadTypeOK
  <1>4. /\ buffer' \in [Entries -> Seq(Digits)]
        /\ capture' \in Entries \cup {Nil}
        /\ entry' \in [Entries -> Pending \cup Returned \cup {"idle"}]
    BY <1>1, <1>2 DEF FeedCapture, FeedCompleting, FeedClearing,
       FeedCollecting, AfterClear, AfterCompletion, KeypadTypeOK, Pending
  <1>5. events' \in Seq(EventRecord) /\ DOMAIN events \subseteq DOMAIN events'
    <2>1. CASE UNCHANGED events BY <2>1 DEF KeypadTypeOK
    <2>2. CASE Record(k, "intake_capture")
      BY <2>2, RecordTyped DEF Statuses
    <2>3. CASE Record(k, "intake_capture_cleared")
      BY <2>3, RecordTyped DEF Statuses
    <2> QED BY <2>1, <2>2, <2>3 DEF FeedCapture, FeedCompleting,
            FeedClearing, FeedCollecting
  <1> QED BY <1>1, <1>3, <1>4, <1>5 DEF FeedCapture, KeypadTypeOK, fixed,
          menuVars

\* So does a press of the menu, whether taken or not.
LEMMA MenuTyped ==
  ASSUME KeypadTypeOK, NEW k \in Keys,
         PressUnmapped(k) \/ PressDebounced(k) \/ PressSuppressed(k)
           \/ PressAccepted(k)
  PROVE  KeypadTypeOK'
  <1>a. Starts(k)
    BY
       DEF PressUnmapped, PressDebounced, PressSuppressed, PressAccepted,
           ForMenu
  <1>1. queue' \in Seq(Keys)
    BY <1>a DEF Starts, KeypadTypeOK
  <1>2. [lastPress EXCEPT ![k] = now] \in [Keys -> Nat \cup {Nil}]
    BY DEF KeypadTypeOK
  <1>3. CASE PressUnmapped(k)
    <2>1. events' \in Seq(EventRecord) /\ DOMAIN events \subseteq DOMAIN events'
      <3>1. CASE UNCHANGED events BY <3>1 DEF KeypadTypeOK
      <3>2. CASE Record(k, "unmapped") BY <3>2, RecordTyped DEF Statuses
      <3> QED BY <1>3, <3>1, <3>2 DEF PressUnmapped
    <2> QED BY <1>1, <1>3, <2>1 DEF PressUnmapped, KeypadTypeOK, fixed,
            menuVars, entryVars
  <1>4. CASE PressDebounced(k)
    <2>1. events' \in Seq(EventRecord) /\ DOMAIN events \subseteq DOMAIN events'
      BY <1>4, RecordTyped DEF PressDebounced, Statuses
    <2> QED BY <1>1, <1>4, <2>1 DEF PressDebounced, KeypadTypeOK, fixed,
            menuVars, entryVars
  <1>5. CASE PressSuppressed(k)
    <2>1. events' \in Seq(EventRecord) /\ DOMAIN events \subseteq DOMAIN events'
      BY <1>5, RecordTyped DEF PressSuppressed, Statuses
    <2> QED BY <1>1, <1>2, <1>5, <2>1 DEF PressSuppressed, Remembered,
            KeypadTypeOK, fixed, entryVars
  <1>6. CASE PressAccepted(k)
    <2>1. events' \in Seq(EventRecord) /\ DOMAIN events \subseteq DOMAIN events'
      BY <1>6, RecordTyped DEF PressAccepted, Statuses
    <2>2. Len(events) + 1 \in DOMAIN events'
      BY <1>6 DEF PressAccepted, Record, KeypadTypeOK
    <2>3. TasksTyped(acting', events')
      BY <1>6, <2>1, <2>2 DEF PressAccepted, TasksTyped, Task, KeypadTypeOK
    <2> QED BY <1>1, <1>2, <1>6, <2>1, <2>3 DEF PressAccepted, Remembered,
            TasksTyped, FlagAtStart, KeypadTypeOK, fixed, entryVars
  <1> QED BY <1>3, <1>4, <1>5, <1>6

\* Every step of the task of an accepted press keeps every type.
LEMMA ActionTyped ==
  ASSUME KeypadTypeOK, ActionStep
  PROVE  KeypadTypeOK'
  <1> PICK i \in DOMAIN events :
        \/ Acknowledged(i)
        \/ TransferAnswered(i) \/ PivotAnswered(i)
        \/ ReplyAnswered(i) \/ GoodbyeReturned(i)
    BY DEF ActionStep
  <1>1. TasksTyped(acting, events) BY DEF TasksTyped, KeypadTypeOK
  <1>2. CASE Acknowledged(i)
    <2>1. TasksTyped(acting', events)
      BY <1>1, <1>2 DEF Acknowledged, Advance, TasksTyped, Task
    <2> QED BY <1>2, <2>1 DEF Acknowledged, TasksTyped, KeypadTypeOK, fixed,
            entryVars
  <1>3. CASE TransferAnswered(i)
    <2>1. events' \in Seq(EventRecord) /\ DOMAIN events' = DOMAIN events
      BY <1>3, SettleTyped DEF TransferAnswered, Statuses
    <2>2. CASE Ends(i, "act", FALSE)
      BY <1>1, <1>3, <2>1, <2>2 DEF TransferAnswered, Ends, TasksTyped,
         KeypadTypeOK, fixed, entryVars
    <2>3. CASE Advance(i, "act", "pivot") /\ UNCHANGED inFlight
      <3>1. TasksTyped(acting', events)
        BY <1>1, <2>3 DEF Advance, TasksTyped, Task
      <3> QED BY <1>3, <2>1, <2>3, <3>1 DEF TransferAnswered, TasksTyped,
              KeypadTypeOK, fixed, entryVars
    <2> QED BY <1>3, <2>2, <2>3 DEF TransferAnswered
  <1>4. CASE PivotAnswered(i)
    <2>1. TasksTyped(acting', events) /\ inFlight' \in BOOLEAN
      BY <1>1, <1>4 DEF PivotAnswered, Ends, FlagReleased, TasksTyped
    <2> QED BY <1>4, <2>1 DEF PivotAnswered, TasksTyped, KeypadTypeOK, fixed,
            entryVars
  <1>5. CASE ReplyAnswered(i)
    <2>1. events' \in Seq(EventRecord) /\ DOMAIN events' = DOMAIN events
      BY <1>5, SettleTyped DEF ReplyAnswered, Statuses, KeypadTypeOK
    <2>2. TasksTyped(acting', events) /\ inFlight' \in BOOLEAN
      BY <1>1, <1>5 DEF ReplyAnswered, Ends, FlagReleased, TasksTyped
    <2> QED BY <1>5, <2>1, <2>2 DEF ReplyAnswered, TasksTyped, KeypadTypeOK,
            fixed, entryVars
  <1>6. CASE GoodbyeReturned(i)
    <2>1. events' \in Seq(EventRecord) /\ DOMAIN events' = DOMAIN events
      BY <1>6, SettleTyped DEF GoodbyeReturned, Statuses
    <2>2. TasksTyped(acting', events) /\ inFlight' \in BOOLEAN
      BY <1>1, <1>6 DEF GoodbyeReturned, Ends, TasksTyped
    <2> QED BY <1>6, <2>1, <2>2 DEF GoodbyeReturned, TasksTyped,
            KeypadTypeOK, fixed, entryVars
  <1> QED BY <1>2, <1>3, <1>4, <1>5, <1>6

\* Arming, a deadline and the return of an entry keep every type.
LEMMA EntryStepTyped ==
  ASSUME KeypadTypeOK, NEW e \in Entries,
         Arm(e) \/ DeadlinePasses(e) \/ Returns(e)
  PROVE  KeypadTypeOK'
  <1>1. entry' \in [Entries -> Pending \cup Returned \cup {"idle"}]
    BY DEF Arm, Superseding, DeadlinePasses, Returns, ReturnsDigits,
       ReturnsSuperseded, ReturnsTimeout, KeypadTypeOK, Pending, Returned
  <1>2. events' \in Seq(EventRecord) /\ DOMAIN events \subseteq DOMAIN events'
    <2>1. CASE UNCHANGED events BY <2>1 DEF KeypadTypeOK
    <2>2. CASE Record(Nil, "intake_capture_timeout")
      BY <2>2, RecordTyped DEF Statuses
    <2> QED BY <2>1, <2>2 DEF Arm, DeadlinePasses, Returns, ReturnsDigits,
            ReturnsSuperseded, ReturnsTimeout
  <1>3. capture' \in Entries \cup {Nil}
    BY DEF Arm, DeadlinePasses, Returns, ReturnsDigits, ReturnsSuperseded,
       ReturnsTimeout, AfterDeadline, KeypadTypeOK
  <1>4. UNCHANGED <<fixed, pressed, queue, now, menuVars, buffer, typed>>
    BY DEF Arm, DeadlinePasses, Returns, ReturnsDigits, ReturnsSuperseded,
       ReturnsTimeout
  <1> QED BY <1>1, <1>2, <1>3, <1>4 DEF KeypadTypeOK, fixed, menuVars

\* Every step of the keypad keeps every type.
LEMMA KeypadStepTyped ==
  KeypadTypeOK /\ [KeypadNext]_keyVars => KeypadTypeOK'
  <1> SUFFICES ASSUME KeypadTypeOK, [KeypadNext]_keyVars
               PROVE  KeypadTypeOK'
    OBVIOUS
  <1>1. CASE UNCHANGED keyVars
    BY <1>1 DEF keyVars, fixed, KeypadTypeOK
  <1>2. CASE Tick \/ \E k \in Keys : Press(k)
    BY <1>2, ArrivalTyped
  <1>3. ASSUME NEW k \in Keys, Dispatch(k) PROVE KeypadTypeOK'
    BY <1>3, FeedTyped, MenuTyped DEF Dispatch
  <1>4. CASE ActionStep BY <1>4, ActionTyped
  <1>5. ASSUME NEW e \in Entries, Arm(e) \/ DeadlinePasses(e) \/ Returns(e)
        PROVE  KeypadTypeOK'
    BY <1>5, EntryStepTyped
  <1> QED BY <1>1, <1>2, <1>3, <1>4, <1>5 DEF KeypadNext

(***************************************************************************)
(* The keypad keeps its types whatever the caller presses and however the  *)
(* calls of the tool overlap.                                              *)
(***************************************************************************)
THEOREM KeypadTypeCorrect == KeypadSpec => []KeypadTypeOK
  <1>1. KeypadInit => KeypadTypeOK BY KeypadInitTyped
  <1> QED BY <1>1, KeypadStepTyped, PTL DEF KeypadSpec

-----------------------------------------------------------------------------
(***************************************************************************)
(* One action at a time: only an accepted press raises the flag, only when *)
(* it is down, and the task that raised it takes it down as it ends.       *)
(***************************************************************************)
LEMMA OneActionStep ==
  KeypadTypeOK /\ OneAction /\ [KeypadNext]_keyVars => OneAction'
  <1> SUFFICES ASSUME KeypadTypeOK, OneAction, [KeypadNext]_keyVars
               PROVE  OneAction'
    OBVIOUS
  <1>1. CASE UNCHANGED <<inFlight, acting>>
    BY <1>1 DEF OneAction
  <1>2. ASSUME NEW k \in Keys, PressAccepted(k) PROVE OneAction'
    BY <1>2 DEF PressAccepted, FlagAtStart, OneAction
  <1>3. ASSUME NEW i \in DOMAIN events, Acknowledged(i) PROVE OneAction'
    BY <1>3 DEF Acknowledged, Advance, OneAction
  <1>4. ASSUME NEW i \in DOMAIN events, TransferAnswered(i) PROVE OneAction'
    <2>1. CASE Ends(i, "act", FALSE)
      BY <1>4, <2>1 DEF TransferAnswered, Ends, OneAction
    <2>2. CASE Advance(i, "act", "pivot") /\ UNCHANGED inFlight
      BY <1>4, <2>2 DEF TransferAnswered, Advance, OneAction
    <2> QED BY <1>4, <2>1, <2>2 DEF TransferAnswered
  <1>5. ASSUME NEW i \in DOMAIN events, PivotAnswered(i) PROVE OneAction'
    BY <1>5 DEF PivotAnswered, Ends, FlagReleased, OneAction
  <1>6. ASSUME NEW i \in DOMAIN events, ReplyAnswered(i) PROVE OneAction'
    BY <1>6 DEF ReplyAnswered, Ends, FlagReleased, OneAction
  <1>7. ASSUME NEW i \in DOMAIN events, GoodbyeReturned(i) PROVE OneAction'
    BY <1>7 DEF GoodbyeReturned, Ends, OneAction
  <1>8. ASSUME NEW k \in Keys,
               FeedCapture(k) \/ PressUnmapped(k) \/ PressDebounced(k)
                 \/ PressSuppressed(k) \/ Press(k)
        PROVE  UNCHANGED <<inFlight, acting>>
    BY <1>8 DEF FeedCapture, PressUnmapped, PressDebounced, PressSuppressed,
       Press, menuVars
  <1>9. ASSUME NEW e \in Entries, Arm(e) \/ DeadlinePasses(e) \/ Returns(e)
        PROVE  UNCHANGED <<inFlight, acting>>
    BY <1>9 DEF Arm, DeadlinePasses, Returns, ReturnsDigits,
       ReturnsSuperseded, ReturnsTimeout, menuVars
  <1>10. Tick \/ UNCHANGED keyVars => UNCHANGED <<inFlight, acting>>
    BY DEF Tick, keyVars, menuVars
  <1> QED BY <1>1, <1>2, <1>3, <1>4, <1>5, <1>6, <1>7, <1>8, <1>9, <1>10
          DEF KeypadNext, Dispatch, ActionStep

(***************************************************************************)
(* At most one keypad action runs at a time and action_in_flight says so,  *)
(* for any menu and any number of presses.                                 *)
(***************************************************************************)
THEOREM OneActionAtATime == KeypadSpec => []OneAction
  <1>1. KeypadInit => OneAction BY KeypadInitTyped
  <1> QED BY <1>1, KeypadTypeCorrect, OneActionStep, PTL DEF KeypadSpec

(***************************************************************************)
(* The holder of the keypad: it is armed as it begins to wait, disarmed as *)
(* it completes or times out, and superseded only together with its        *)
(* capture.                                                                *)
(***************************************************************************)
LEMMA HolderStep ==
  KeypadTypeOK /\ HolderPending /\ [KeypadNext]_keyVars => HolderPending'
  <1> SUFFICES ASSUME KeypadTypeOK, HolderPending, [KeypadNext]_keyVars
               PROVE  HolderPending'
    OBVIOUS
  <1>1. CASE UNCHANGED <<capture, entry>>
    BY <1>1 DEF HolderPending
  <1>2. ASSUME NEW k \in Keys, FeedCapture(k) PROVE HolderPending'
    BY <1>2 DEF FeedCapture, FeedCompleting, FeedClearing, FeedCollecting,
       AfterCompletion, HolderPending, KeypadTypeOK
  <1>3. ASSUME NEW e \in Entries, Arm(e) PROVE HolderPending'
    BY <1>3 DEF Arm, Superseding, HolderPending, KeypadTypeOK
  <1>4. ASSUME NEW e \in Entries, DeadlinePasses(e) PROVE HolderPending'
    BY <1>4 DEF DeadlinePasses, DeadlineRuns, HolderPending, KeypadTypeOK
  <1>5. ASSUME NEW e \in Entries, Returns(e) PROVE HolderPending'
    BY <1>5 DEF Returns, ReturnsDigits, ReturnsSuperseded, ReturnsTimeout,
       AfterDeadline, HolderPending, KeypadTypeOK
  <1>6. ASSUME NEW k \in Keys,
               Press(k) \/ PressUnmapped(k) \/ PressDebounced(k)
                 \/ PressSuppressed(k) \/ PressAccepted(k)
        PROVE  UNCHANGED <<capture, entry>>
    BY <1>6 DEF Press, PressUnmapped, PressDebounced, PressSuppressed,
       PressAccepted, entryVars
  <1>7. Tick \/ ActionStep \/ UNCHANGED keyVars => UNCHANGED <<capture, entry>>
    BY DEF Tick, ActionStep, Acknowledged, TransferAnswered, PivotAnswered,
       ReplyAnswered, GoodbyeReturned, keyVars, entryVars
  <1> QED BY <1>1, <1>2, <1>3, <1>4, <1>5, <1>6, <1>7 DEF KeypadNext, Dispatch

(***************************************************************************)
(* The keypad is never held by an entry that is over, for any number of    *)
(* overlapping calls of await_keypad_entry.                                *)
(***************************************************************************)
THEOREM HolderAlwaysPending == KeypadSpec => []HolderPending
  <1>1. KeypadInit => HolderPending BY KeypadInitTyped
  <1> QED BY <1>1, KeypadTypeCorrect, HolderStep, PTL DEF KeypadSpec

-----------------------------------------------------------------------------
(***************************************************************************)
(* The debounce window: lastPress holds the latest press of a key that was *)
(* not taken for a repeat, and the clock is never behind it.               *)
(***************************************************************************)
PressesRemembered ==
  /\ \A k \in Keys : lastPress[k] # Nil => lastPress[k] <= now
  /\ \A i \in DOMAIN events : Accepted(i) =>
       /\ events[i].key \in Keys /\ lastPress[events[i].key] # Nil
       /\ events[i].at <= lastPress[events[i].key]
  /\ \A t \in acting : Accepted(t.event)

DebounceInv == PressesRemembered /\ Debounced

\* The statuses of a press that was not taken for a repeat.
NotRepeats == {"pending", "executed", "failed", "refused_intake_only",
               "suppressed_in_flight"}

\* record_dtmf_event adds one event, stamped now, and changes no other.
LEMMA RecordAppends ==
  ASSUME KeypadTypeOK, NEW k \in Keys \cup {Nil}, NEW s \in Statuses,
         Record(k, s)
  PROVE  /\ DOMAIN events = 1..Len(events)
         /\ DOMAIN events' = 1..(Len(events) + 1)
         /\ Len(events) \in Nat
         /\ \A i \in DOMAIN events : events'[i] = events[i]
         /\ events'[Len(events) + 1].key = k
         /\ events'[Len(events) + 1].status = s
         /\ events'[Len(events) + 1].at = now
  <1> DEFINE added == [key |-> k, status |-> s, at |-> now]
  <1>1. added \in EventRecord BY DEF EventRecord, KeypadTypeOK
  <1>2. events \in Seq(EventRecord) BY DEF KeypadTypeOK
  <1>3. added.key = k /\ added.status = s /\ added.at = now
    OBVIOUS
  <1>4. events' = Append(events, added) BY DEF Record
  <1> HIDE DEF added
  <1> QED BY <1>1, <1>2, <1>3, <1>4, AppendProperties

\* An event that is not an accepted press leaves the window alone.
LEMMA RepeatKeepsWindow ==
  ASSUME KeypadTypeOK, DebounceInv, NEW k \in Keys \cup {Nil},
         NEW s \in Statuses \ NotRepeats, Record(k, s),
         UNCHANGED <<now, lastPress, acting>>
  PROVE  DebounceInv'
  <1>1. /\ DOMAIN events = 1..Len(events)
        /\ DOMAIN events' = 1..(Len(events) + 1)
        /\ Len(events) \in Nat
        /\ \A i \in DOMAIN events : events'[i] = events[i]
        /\ events'[Len(events) + 1].status = s
    BY RecordAppends
  <1>2. \A i \in DOMAIN events : Accepted(i)' <=> Accepted(i)
    BY <1>1 DEF Accepted
  <1>3. \A i \in DOMAIN events' : Accepted(i)' => i \in DOMAIN events
    BY <1>1 DEF Accepted, NotRepeats
  <1>4. \A t \in acting : t.event \in DOMAIN events BY DEF KeypadTypeOK
  <1>5. PressesRemembered'
    BY <1>1, <1>2, <1>3, <1>4 DEF DebounceInv, PressesRemembered
  <1>6. Debounced' BY <1>1, <1>2, <1>3 DEF DebounceInv, Debounced
  <1> QED BY <1>5, <1>6 DEF DebounceInv

\* A press outside the window of the last one is remembered as the latest.
LEMMA AcceptedKeepsWindow ==
  ASSUME KeypadTypeOK, DebounceInv, NEW k \in Keys, NEW s \in NotRepeats,
         ~Recent(k), Record(k, s), lastPress' = Remembered(k), now' = now,
         \A t \in acting' : t \in acting \/ t.event = Len(events) + 1
  PROVE  DebounceInv'
  <1> PICK new \in {Len(events) + 1} : TRUE OBVIOUS
  <1>1. /\ DOMAIN events = 1..Len(events)
        /\ DOMAIN events' = 1..new
        /\ Len(events) \in Nat
        /\ \A i \in DOMAIN events : events'[i] = events[i]
        /\ events'[new].key = k
        /\ events'[new].status = s
        /\ events'[new].at = now
    BY RecordAppends DEF NotRepeats, Statuses
  <1>2. /\ \A i \in DOMAIN events : Accepted(i)' <=> Accepted(i)
        /\ Accepted(new)'
    BY <1>1 DEF Accepted, NotRepeats
  <1>3. /\ lastPress'[k] = now
        /\ \A l \in Keys : l # k => lastPress'[l] = lastPress[l]
        /\ now \in Nat /\ now # Nil
        /\ \A l \in Keys : lastPress[l] \in Nat \cup {Nil}
    BY KeypadAssumption DEF Remembered, KeypadTypeOK
  <1>a. \A i \in DOMAIN events : events[i].at \in Nat
    <2>1. events \in Seq(EventRecord) BY DEF KeypadTypeOK
    <2>2. \A i \in DOMAIN events : events[i] \in EventRecord BY <2>1
    <2> QED BY <2>2 DEF EventRecord
  <1>4. \A i \in DOMAIN events' : i = new \/ i \in DOMAIN events
    BY <1>1
  <1>5. \A t \in acting' : Accepted(t.event)'
    BY <1>2 DEF DebounceInv, PressesRemembered, KeypadTypeOK
  <1>6. PressesRemembered'
    <2>1. \A l \in Keys : lastPress'[l] # Nil => lastPress'[l] <= now
      BY <1>3 DEF DebounceInv, PressesRemembered
    <2>2. ASSUME NEW i \in DOMAIN events', Accepted(i)'
          PROVE  /\ events'[i].key \in Keys
                 /\ lastPress'[events'[i].key] # Nil
                 /\ events'[i].at <= lastPress'[events'[i].key]
      <3>1. CASE i = new BY <1>1, <1>3, <3>1
      <3>2. CASE i \in DOMAIN events
        <4>1. /\ events[i].key \in Keys /\ lastPress[events[i].key] # Nil
              /\ events[i].at <= lastPress[events[i].key]
              /\ lastPress[events[i].key] <= now
          BY <1>2, <2>2, <3>2 DEF DebounceInv, PressesRemembered
        <4>2. events'[i] = events[i] BY <1>1, <3>2
        <4>3. events[i].at <= now BY <1>3, <1>a, <3>2, <4>1
        <4> QED BY <1>3, <4>1, <4>2, <4>3
      <3> QED BY <1>4, <3>1, <3>2
    <2> QED BY <1>5, <2>1, <2>2 DEF PressesRemembered
  <1>7. Debounced'
    <2> SUFFICES ASSUME NEW i \in DOMAIN events', NEW j \in DOMAIN events',
                        i < j, Accepted(i)', Accepted(j)',
                        events'[i].key = events'[j].key
                 PROVE  events'[j].at - events'[i].at >= Debounce
      BY DEF Debounced
    <2>1. i \in DOMAIN events /\ events'[i] = events[i] /\ Accepted(i)
      BY <1>1, <1>2, <1>4
    <2>2. CASE j \in DOMAIN events
      <3>1. events'[j] = events[j] /\ Accepted(j) BY <1>1, <1>2, <2>2
      <3> QED BY <2>1, <2>2, <3>1 DEF DebounceInv, Debounced
    <2>3. CASE j = new
      <3>1. events[i].key = k BY <1>1, <2>1, <2>3
      <3>2. lastPress[k] # Nil /\ events[i].at <= lastPress[k]
        BY <2>1, <3>1 DEF DebounceInv, PressesRemembered
      <3>3. ~(now - lastPress[k] < Debounce)
        BY <3>2 DEF Recent
      <3>4. events'[j].at = now BY <1>1, <2>3
      <3> QED BY <1>3, <1>a, <2>1, <3>2, <3>3, <3>4, KeypadAssumption
    <2> QED BY <1>4, <2>2, <2>3
  <1> QED BY <1>6, <1>7 DEF DebounceInv

\* The status of a running action is updated in place, its press kept.
LEMMA SettledKeepsWindow ==
  ASSUME KeypadTypeOK, DebounceInv, NEW i \in DOMAIN events,
         NEW s \in NotRepeats, Accepted(i), Settle(i, s),
         UNCHANGED <<now, lastPress>>,
         \A t \in acting' : t \in acting \/ t.event = i
  PROVE  DebounceInv'
  <1>1. events \in Seq(EventRecord) BY DEF KeypadTypeOK
  <1>2. /\ DOMAIN events' = DOMAIN events
        /\ \A j \in DOMAIN events : j # i => events'[j] = events[j]
        /\ events'[i] = [events[i] EXCEPT !.status = s]
    BY <1>1 DEF Settle
  <1>3. events[i] \in EventRecord BY <1>1
  <1>4. /\ events'[i].key = events[i].key /\ events'[i].at = events[i].at
        /\ events'[i].status = s
    BY <1>2, <1>3 DEF EventRecord
  <1>5. \A j \in DOMAIN events : Accepted(j)' <=> Accepted(j)
    BY <1>2, <1>4 DEF Accepted, NotRepeats
  <1>6. \A j \in DOMAIN events :
          events'[j].key = events[j].key /\ events'[j].at = events[j].at
    BY <1>2, <1>4
  <1>7. \A t \in acting : t.event \in DOMAIN events BY DEF KeypadTypeOK
  <1>8. PressesRemembered'
    BY <1>2, <1>5, <1>6, <1>7 DEF DebounceInv, PressesRemembered
  <1>9. Debounced' BY <1>2, <1>5, <1>6 DEF DebounceInv, Debounced
  <1> QED BY <1>8, <1>9 DEF DebounceInv

\* Tasks that end or move on without a word leave it alone too.
LEMMA SilentKeepsWindow ==
  ASSUME KeypadTypeOK, DebounceInv, UNCHANGED <<events, lastPress>>,
         now' = now \/ now' = now + 1,
         \A t \in acting' :
           t \in acting \/ \E u \in acting : t.event = u.event
  PROVE  DebounceInv'
  <1>1. \A i \in DOMAIN events : Accepted(i)' <=> Accepted(i)
    BY DEF Accepted
  <1>2. \A t \in acting : t.event \in DOMAIN events BY DEF KeypadTypeOK
  <1>3. \A k \in Keys : lastPress[k] # Nil => lastPress[k] <= now'
    BY DEF DebounceInv, PressesRemembered, KeypadTypeOK
  <1>4. \A t \in acting' : Accepted(t.event)'
    BY <1>1, <1>2 DEF DebounceInv, PressesRemembered
  <1>5. PressesRemembered'
    BY <1>1, <1>3, <1>4 DEF DebounceInv, PressesRemembered
  <1>6. Debounced' BY <1>1 DEF DebounceInv, Debounced
  <1> QED BY <1>5, <1>6 DEF DebounceInv

\* A press of the menu.
LEMMA PressKeepsWindow ==
  ASSUME KeypadTypeOK, DebounceInv, NEW k \in Keys,
         PressUnmapped(k) \/ PressDebounced(k) \/ PressSuppressed(k)
           \/ PressAccepted(k)
  PROVE  DebounceInv'
  <1>1. CASE PressUnmapped(k)
    <2>1. UNCHANGED <<now, lastPress, acting>>
      BY <1>1 DEF PressUnmapped, menuVars
    <2>2. CASE UNCHANGED events BY <2>1, <2>2, SilentKeepsWindow
    <2>3. CASE Record(k, "unmapped")
      BY <2>1, <2>3, RepeatKeepsWindow DEF Statuses, NotRepeats
    <2> QED BY <1>1, <2>2, <2>3 DEF PressUnmapped
  <1>2. CASE PressDebounced(k)
    BY <1>2, RepeatKeepsWindow DEF PressDebounced, menuVars, Statuses,
       NotRepeats
  <1>3. CASE PressSuppressed(k)
    BY <1>3, AcceptedKeepsWindow DEF PressSuppressed, NotRepeats
  <1>4. CASE PressAccepted(k)
    BY <1>4, AcceptedKeepsWindow DEF PressAccepted, NotRepeats
  <1> QED BY <1>1, <1>2, <1>3, <1>4

\* A step of the task of an accepted press.
LEMMA ActionKeepsWindow ==
  ASSUME KeypadTypeOK, DebounceInv, ActionStep
  PROVE  DebounceInv'
  <1> PICK i \in DOMAIN events :
        \/ Acknowledged(i)
        \/ TransferAnswered(i) \/ PivotAnswered(i)
        \/ ReplyAnswered(i) \/ GoodbyeReturned(i)
    BY DEF ActionStep
  <1>1. UNCHANGED <<now, lastPress>>
    BY DEF Acknowledged, TransferAnswered, PivotAnswered, ReplyAnswered,
       GoodbyeReturned
  <1>2. PICK t \in acting : t.event = i
    BY DEF Acknowledged, TransferAnswered, PivotAnswered, ReplyAnswered,
       GoodbyeReturned, Task
  <1>3. Accepted(i) BY <1>2 DEF DebounceInv, PressesRemembered
  <1>4. \A u \in acting' : u \in acting \/ u.event = i
    <2>1. \A label : Task(i, label).event = i BY DEF Task
    <2>2. acting' \subseteq acting \cup {Task(i, "act"), Task(i, "pivot")}
      BY DEF Acknowledged, TransferAnswered, PivotAnswered, ReplyAnswered,
         GoodbyeReturned, Advance, Ends
    <2> QED BY <2>1, <2>2
  <1>5. \/ UNCHANGED events
        \/ \E s \in NotRepeats : Settle(i, s)
    BY DEF Acknowledged, TransferAnswered, PivotAnswered, ReplyAnswered,
       GoodbyeReturned, NotRepeats
  <1>6. CASE UNCHANGED events BY <1>1, <1>2, <1>4, <1>6, SilentKeepsWindow
  <1>7. ASSUME NEW s \in NotRepeats, Settle(i, s) PROVE DebounceInv'
    BY <1>1, <1>3, <1>4, <1>7, SettledKeepsWindow
  <1> QED BY <1>5, <1>6, <1>7

\* The digits of an entry and its deadline are no presses of the menu.
LEMMA EntryKeepsWindow ==
  ASSUME KeypadTypeOK, DebounceInv,
         \/ \E k \in Keys : Press(k) \/ FeedCapture(k)
         \/ \E e \in Entries : Arm(e) \/ DeadlinePasses(e) \/ Returns(e)
         \/ Tick \/ UNCHANGED keyVars
  PROVE  DebounceInv'
  <1>1. UNCHANGED <<lastPress, acting>> /\ (now' = now \/ now' = now + 1)
    BY DEF Press, FeedCapture, Arm, DeadlinePasses, Returns, ReturnsDigits,
       ReturnsSuperseded, ReturnsTimeout, Tick, keyVars, menuVars
  <1>2. \/ UNCHANGED events
        \/ /\ now' = now
           /\ \E k \in Keys \cup {Nil}, s \in Statuses \ NotRepeats :
                Record(k, s)
    <2>1. {"intake_capture", "intake_capture_cleared",
           "intake_capture_timeout"} \subseteq Statuses \ NotRepeats
      BY DEF Statuses, NotRepeats
    <2>2. ASSUME NEW k \in Keys, FeedCapture(k)
          PROVE  \/ UNCHANGED events
                 \/ /\ now' = now
                    /\ \E s \in Statuses \ NotRepeats : Record(k, s)
      BY <2>1, <2>2 DEF FeedCapture, FeedCompleting, FeedClearing,
         FeedCollecting
    <2>3. ASSUME NEW e \in Entries, Returns(e)
          PROVE  \/ UNCHANGED events
                 \/ /\ now' = now
                    /\ \E s \in Statuses \ NotRepeats : Record(Nil, s)
      BY <2>1, <2>3 DEF Returns, ReturnsDigits, ReturnsSuperseded,
         ReturnsTimeout
    <2>4. ASSUME \/ \E k \in Keys : Press(k)
                 \/ \E e \in Entries : Arm(e) \/ DeadlinePasses(e)
                 \/ Tick \/ UNCHANGED keyVars
          PROVE  UNCHANGED events
      BY <2>4 DEF Press, Arm, DeadlinePasses, Tick, keyVars
    <2> QED BY <2>2, <2>3, <2>4
  <1>3. CASE UNCHANGED events BY <1>1, <1>3, SilentKeepsWindow
  <1>4. ASSUME NEW k \in Keys \cup {Nil}, NEW s \in Statuses \ NotRepeats,
               Record(k, s), now' = now
        PROVE  DebounceInv'
    BY <1>1, <1>4, RepeatKeepsWindow
  <1> QED BY <1>2, <1>3, <1>4

(***************************************************************************)
(* Two presses of one key that were not taken for repeats are at least the *)
(* debounce window apart, the suppressed ones included, for any menu, any  *)
(* window and any number of presses.                                       *)
(***************************************************************************)
THEOREM PressesDebounced == KeypadSpec => []Debounced
  <1>1. KeypadInit => DebounceInv
    BY DEF KeypadInit, DebounceInv, PressesRemembered, Debounced
  <1>2. KeypadTypeOK /\ DebounceInv /\ [KeypadNext]_keyVars => DebounceInv'
    BY PressKeepsWindow, ActionKeepsWindow, EntryKeepsWindow
       DEF KeypadNext, Dispatch
  <1>3. DebounceInv => Debounced BY DEF DebounceInv
  <1> QED BY <1>1, <1>2, <1>3, KeypadTypeCorrect, PTL DEF KeypadSpec

-----------------------------------------------------------------------------
(***************************************************************************)
(* The digits of an entry: while its buffer is armed they are what was fed *)
(* to it after the last clear key, no terminator among it, and fewer than  *)
(* the length asked for; an entry not begun was fed nothing.               *)
(***************************************************************************)
HeldAfter(n, s, b) ==
  /\ IsLastClear(n, s)
  /\ b = SubSeq(s, n + 1, Len(s))

Collecting(e) ==
  /\ \A m \in DOMAIN typed[e] : typed[e][m] # Pound
  /\ \E n \in 0..Len(typed[e]) : HeldAfter(n, typed[e], buffer[e])
  /\ lengthOf[e] # NoLength => Len(buffer[e]) < lengthOf[e]

Answered(e) ==
  /\ buffer[e] = Answer(typed[e])
  /\ lengthOf[e] # NoLength => Len(buffer[e]) <= lengthOf[e]

DigitsInv ==
  /\ capture # Nil => Collecting(capture)
  /\ \A e \in Entries : entry[e] = "idle" =>
       typed[e] = <<>> /\ buffer[e] = <<>>
  /\ AnswerAsTyped

\* There is one last clear key.
LEMMA LastClearIs ==
  ASSUME NEW s \in Seq(Keys), NEW n \in 0..Len(s), IsLastClear(n, s)
  PROVE  LastClear(s) = n
  <1>1. ASSUME NEW m \in 0..Len(s), IsLastClear(m, s) PROVE m = n
    <2>1. CASE m < n BY <1>1, <2>1 DEF IsLastClear
    <2>2. CASE n < m BY <1>1, <2>2 DEF IsLastClear
    <2> QED BY <2>1, <2>2
  <1> QED BY <1>1 DEF LastClear

\* A key that is not the clear key leaves the last clear key where it was.
LEMMA ClearStays ==
  ASSUME NEW s \in Seq(Keys), NEW n \in 0..Len(s), IsLastClear(n, s),
         NEW k \in Keys \ {Star}
  PROVE  IsLastClear(n, Append(s, k))
  BY AppendProperties DEF IsLastClear

\* What is held after a digit, and what is left of it by another key.
LEMMA HeldExtends ==
  ASSUME NEW s \in Seq(Keys), NEW n \in 0..Len(s), NEW k \in Keys \ {Star}
  PROVE  /\ SubSeq(Append(s, k), n + 1, Len(s)) = SubSeq(s, n + 1, Len(s))
         /\ SubSeq(Append(s, k), n + 1, Len(s) + 1)
              = Append(SubSeq(s, n + 1, Len(s)), k)
  <1> DEFINE held == SubSeq(s, n + 1, Len(s))
             same == SubSeq(Append(s, k), n + 1, Len(s))
             longer == SubSeq(Append(s, k), n + 1, Len(s) + 1)
  <1>1. /\ Append(s, k) \in Seq(Keys) /\ Len(Append(s, k)) = Len(s) + 1
        /\ \A i \in 1..Len(s) : Append(s, k)[i] = s[i]
        /\ Append(s, k)[Len(s) + 1] = k
    BY AppendProperties
  <1>2. /\ \A i \in 1..Len(s) : s[i] \in Keys /\ Append(s, k)[i] \in Keys
        /\ Append(s, k)[Len(s) + 1] \in Keys
    BY <1>1
  <1>3. /\ held \in Seq(Keys) /\ Len(held) = Len(s) - n
        /\ \A i \in 1..(Len(s) - n) : held[i] = s[n + i]
    BY <1>2, SubSeqProperties, Z3
  <1>4. /\ same \in Seq(Keys) /\ Len(same) = Len(s) - n
        /\ \A i \in 1..(Len(s) - n) : same[i] = Append(s, k)[n + i]
    BY <1>2, SubSeqProperties, Z3
  <1>5. /\ longer \in Seq(Keys) /\ Len(longer) = Len(s) + 1 - n
        /\ \A i \in 1..(Len(s) + 1 - n) : longer[i] = Append(s, k)[n + i]
    BY <1>2, SubSeqProperties, Z3
  <1> HIDE DEF held, same, longer
  <1>6. held = same BY <1>1, <1>3, <1>4, SeqEqual
  <1>7. /\ Append(held, k) \in Seq(Keys)
        /\ Len(Append(held, k)) = Len(held) + 1
        /\ \A i \in 1..Len(held) : Append(held, k)[i] = held[i]
        /\ Append(held, k)[Len(held) + 1] = k
    BY <1>3, AppendProperties
  <1>8. longer = Append(held, k)
    <2>1. \A i \in 1..(Len(s) + 1 - n) : longer[i] = Append(held, k)[i]
      <3> TAKE i \in 1..(Len(s) + 1 - n)
      <3>1. CASE i = Len(s) + 1 - n
        <4>1. n + i = Len(s) + 1 /\ i = Len(held) + 1 BY <1>3, <3>1
        <4>2. longer[i] = k BY <1>1, <1>5, <4>1
        <4>3. Append(held, k)[i] = k BY <1>7, <4>1
        <4> QED BY <4>2, <4>3
      <3>2. CASE i # Len(s) + 1 - n
        <4>1. i \in 1..(Len(s) - n) /\ n + i \in 1..Len(s) BY <3>2
        <4> QED BY <1>1, <1>3, <1>5, <1>7, <4>1
      <3> QED BY <3>1, <3>2
    <2>2. Len(longer) = Len(Append(held, k)) /\ Len(longer) = Len(s) + 1 - n
      BY <1>3, <1>5, <1>7
    <2> QED BY <1>5, <1>7, <2>1, <2>2, SeqEqual
  <1> QED BY <1>6, <1>8 DEF held, same, longer

\* A key fed to the armed buffer goes into the history of its entry alone.
LEMMA FedToHolder ==
  ASSUME KeypadTypeOK, NEW k \in Keys, FeedCapture(k)
  PROVE  /\ capture \in Entries /\ typed[capture] \in Seq(Keys)
         /\ typed'[capture] = Append(typed[capture], k)
         /\ \A d \in Entries : d # capture =>
              typed'[d] = typed[d] /\ buffer'[d] = buffer[d] /\ entry'[d] = entry[d]
         /\ lengthOf' = lengthOf
  BY DEF FeedCapture, FeedCompleting, FeedClearing, FeedCollecting,
     KeypadTypeOK, fixed

\* The terminator, or the last digit of the length asked for: the buffer
\* holds the answer.
LEMMA CompletingAnswers ==
  ASSUME KeypadTypeOK, NEW k \in Keys, NEW e \in Entries, e = capture,
         Collecting(e), FeedCapture(k), FeedCompleting(e, k)
  PROVE  Answered(e)'
  <1> DEFINE s == typed[e]
             fed == Append(s, k)
  <1>1. /\ s \in Seq(Keys) /\ typed'[e] = fed /\ lengthOf' = lengthOf
        /\ Len(s) \in Nat /\ Len(fed) = Len(s) + 1 /\ fed[Len(s) + 1] = k
        /\ fed # <<>> /\ fed \in Seq(Keys)
    BY FedToHolder, AppendProperties
  <1>2. /\ buffer[e] \in Seq(Digits) /\ buffer'[e] = Extended(e, k)
        /\ lengthOf[e] \in (Nat \ {0}) \cup {NoLength}
    BY KeypadAssumption DEF FeedCompleting, KeypadTypeOK
  <1>3. PICK n \in 0..Len(s) :
          IsLastClear(n, s) /\ buffer[e] = SubSeq(s, n + 1, Len(s))
    BY DEF Collecting, HeldAfter
  <1>4. k # Star
    BY KeypadAssumption DEF FeedCompleting, Completes, Pound, Star
  <1>5. /\ SubSeq(fed, n + 1, Len(s)) = buffer[e]
        /\ SubSeq(fed, n + 1, Len(s) + 1) = Append(buffer[e], k)
        /\ IsLastClear(n, fed)
    <2>1. k \in Keys \ {Star} /\ s \in Seq(Keys) BY <1>1, <1>4
    <2>2. /\ SubSeq(fed, n + 1, Len(s)) = SubSeq(s, n + 1, Len(s))
          /\ SubSeq(fed, n + 1, Len(s) + 1)
               = Append(SubSeq(s, n + 1, Len(s)), k)
      BY <2>1, HeldExtends
    <2>3. IsLastClear(n, fed) BY <1>3, <2>1, ClearStays
    <2> HIDE DEF s, fed
    <2> QED BY <1>3, <2>2, <2>3
  <1>6. LastClear(fed) = n
    <2>1. n \in 0..Len(fed) BY <1>1
    <2> QED BY <1>1, <1>5, <2>1, LastClearIs
  <1> HIDE DEF s, fed
  <1>7. buffer'[e] = Answer(fed)
    <2>1. CASE k = Pound
      <3>1. LastDigit(fed) = Len(s) BY <1>1, <2>1 DEF LastDigit
      <3>2. buffer'[e] = buffer[e]
        BY <1>2, <2>1, KeypadAssumption DEF Extended
      <3> QED BY <1>5, <1>6, <3>1, <3>2 DEF Answer
    <2>2. CASE k # Pound
      <3>1. LastDigit(fed) = Len(s) + 1 BY <1>1, <2>2 DEF LastDigit
      <3>2. k \in Digits BY <1>4, <2>2 DEF Keys
      <3>3. buffer'[e] = Append(buffer[e], k) BY <1>2, <3>2 DEF Extended
      <3> QED BY <1>5, <1>6, <3>1, <3>3 DEF Answer
    <2> QED BY <2>1, <2>2
  <1>8. ASSUME lengthOf[e] # NoLength PROVE Len(buffer'[e]) <= lengthOf[e]
    <2>1. Len(buffer[e]) < lengthOf[e] BY <1>8 DEF Collecting
    <2>2. Len(buffer'[e]) \in {Len(buffer[e]), Len(buffer[e]) + 1}
      BY <1>2 DEF Extended
    <2> QED BY <1>2, <1>8, <2>1, <2>2
  <1> QED BY <1>1, <1>7, <1>8 DEF Answered

\* The clear key leaves an empty buffer.
LEMMA ClearingCollects ==
  ASSUME KeypadTypeOK, NEW k \in Keys, NEW e \in Entries, e = capture,
         Collecting(e), FeedCapture(k), FeedClearing(e, k)
  PROVE  Collecting(e)'
  <1> DEFINE s == typed[e]
             fed == Append(s, k)
  <1>1. /\ s \in Seq(Keys) /\ typed'[e] = fed /\ lengthOf' = lengthOf
        /\ Len(s) \in Nat /\ Len(fed) = Len(s) + 1 /\ fed[Len(s) + 1] = k
        /\ \A i \in 1..Len(s) : fed[i] = s[i]
        /\ fed \in Seq(Keys)
    BY FedToHolder, AppendProperties
  <1>2. /\ buffer'[e] = <<>> /\ k = Star /\ Star # Pound
        /\ lengthOf[e] \in (Nat \ {0}) \cup {NoLength}
    BY KeypadAssumption DEF FeedClearing, AfterClear, KeypadTypeOK, Pound, Star
  <1>3. IsLastClear(Len(fed), fed) /\ Len(fed) \in 0..Len(fed)
    BY <1>1, <1>2 DEF IsLastClear
  <1>4. SubSeq(fed, Len(fed) + 1, Len(fed)) = <<>>
    BY <1>1, SubSeqEmpty
  <1>5. \A m \in DOMAIN fed : fed[m] # Pound
    <2>1. DOMAIN fed = 1..(Len(s) + 1) /\ DOMAIN s = 1..Len(s) BY <1>1
    <2> QED BY <1>1, <1>2, <2>1 DEF Collecting
  <1> HIDE DEF s, fed
  <1> QED BY <1>1, <1>2, <1>3, <1>4, <1>5 DEF Collecting, HeldAfter

\* A digit goes to the end of the buffer.
LEMMA DigitCollects ==
  ASSUME KeypadTypeOK, NEW k \in Keys, NEW e \in Entries, e = capture,
         Collecting(e), FeedCapture(k), FeedCollecting(e, k)
  PROVE  Collecting(e)'
  <1> DEFINE s == typed[e]
             fed == Append(s, k)
  <1>1. /\ s \in Seq(Keys) /\ typed'[e] = fed /\ lengthOf' = lengthOf
        /\ Len(s) \in Nat /\ Len(fed) = Len(s) + 1 /\ fed[Len(s) + 1] = k
        /\ \A i \in 1..Len(s) : fed[i] = s[i]
        /\ fed \in Seq(Keys)
    BY FedToHolder, AppendProperties
  <1>2. k \in Digits /\ k # Star /\ k # Pound
    BY KeypadAssumption DEF FeedCollecting, Completes, Keys
  <1>3. /\ buffer[e] \in Seq(Digits) /\ buffer'[e] = Append(buffer[e], k)
        /\ lengthOf[e] \in (Nat \ {0}) \cup {NoLength}
    BY <1>2, KeypadAssumption DEF FeedCollecting, Extended, KeypadTypeOK
  <1>4. PICK n \in 0..Len(s) :
          IsLastClear(n, s) /\ buffer[e] = SubSeq(s, n + 1, Len(s))
    BY DEF Collecting, HeldAfter
  <1>5. /\ SubSeq(fed, n + 1, Len(fed)) = Append(buffer[e], k)
        /\ IsLastClear(n, fed) /\ n \in 0..Len(fed)
    <2>1. k \in Keys \ {Star} /\ s \in Seq(Keys) BY <1>1, <1>2
    <2>2. SubSeq(fed, n + 1, Len(s) + 1)
            = Append(SubSeq(s, n + 1, Len(s)), k)
      BY <2>1, HeldExtends
    <2>3. IsLastClear(n, fed) BY <1>4, <2>1, ClearStays
    <2> HIDE DEF s, fed
    <2>4. Len(fed) = Len(s) + 1 /\ n \in 0..Len(fed) BY <1>1
    <2>5. SubSeq(fed, n + 1, Len(fed)) = SubSeq(fed, n + 1, Len(s) + 1)
      BY <2>4, Zenon
    <2> QED BY <1>4, <2>2, <2>3, <2>4, <2>5
  <1>6. \A m \in DOMAIN fed : fed[m] # Pound
    <2>1. DOMAIN fed = 1..(Len(s) + 1) /\ DOMAIN s = 1..Len(s) BY <1>1
    <2> QED BY <1>1, <1>2, <2>1 DEF Collecting
  <1>7. lengthOf[e] # NoLength => Len(buffer'[e]) < lengthOf[e]
    <2>1. Len(buffer'[e]) = Len(buffer[e]) + 1 BY <1>3
    <2> QED BY <1>2, <1>3, <2>1 DEF FeedCollecting, Completes
  <1> HIDE DEF s, fed
  <1> QED BY <1>1, <1>3, <1>5, <1>6, <1>7 DEF Collecting, HeldAfter

\* Feeding the armed buffer.
LEMMA FeedKeepsDigits ==
  ASSUME KeypadTypeOK, HolderPending, DigitsInv, NEW k \in Keys, FeedCapture(k)
  PROVE  DigitsInv'
  <1> PICK e \in Entries : e = capture BY FedToHolder
  <1>1. /\ Collecting(e) /\ entry[e] \in {"waiting", "expired"} /\ e # Nil
        /\ \A d \in Entries : d # e =>
             typed'[d] = typed[d] /\ buffer'[d] = buffer[d] /\ entry'[d] = entry[d]
        /\ lengthOf' = lengthOf /\ capture' \in {e, Nil}
        /\ entry \in [Entries -> Pending \cup Returned \cup {"idle"}]
    BY FedToHolder, KeypadAssumption
       DEF DigitsInv, HolderPending, FeedCapture, FeedCompleting, FeedClearing,
           FeedCollecting, AfterCompletion, KeypadTypeOK
  <1>2. CASE FeedCompleting(e, k)
    <2>1. Answered(e)' BY <1>1, <1>2, CompletingAnswers
    <2>2. capture' = Nil /\ entry'[e] # "idle"
      BY <1>1, <1>2 DEF FeedCompleting, AfterCompletion
    <2> QED BY <1>1, <2>1, <2>2 DEF DigitsInv, AnswerAsTyped, Answered
  <1>3. CASE FeedClearing(e, k) \/ FeedCollecting(e, k)
    <2>1. Collecting(e)' BY <1>1, <1>3, ClearingCollects, DigitCollects
    <2>2. capture' = e /\ entry' = entry
      BY <1>3 DEF FeedClearing, FeedCollecting
    <2>3. AnswerAsTyped' BY <1>1, <2>2 DEF DigitsInv, AnswerAsTyped
    <2>4. \A d \in Entries :
            entry'[d] = "idle" => typed'[d] = <<>> /\ buffer'[d] = <<>>
      BY <1>1, <2>2 DEF DigitsInv
    <2>5. Collecting(capture)' BY <2>1, <2>2 DEF Collecting
    <2> QED BY <2>3, <2>4, <2>5 DEF DigitsInv
  <1> QED BY <1>2, <1>3 DEF FeedCapture

\* An entry that begins has the buffer to itself, and one that ends keeps
\* what it holds.
LEMMA EntryKeepsDigits ==
  ASSUME KeypadTypeOK, HolderPending, DigitsInv, NEW e \in Entries,
         Arm(e) \/ DeadlinePasses(e) \/ Returns(e)
  PROVE  DigitsInv'
  <1>1. UNCHANGED <<typed, buffer, lengthOf>>
    BY DEF Arm, DeadlinePasses, Returns, ReturnsDigits, ReturnsSuperseded,
       ReturnsTimeout, fixed
  <1>2. \A d \in Entries : entry'[d] = "idle" => entry[d] = "idle"
    BY DEF Arm, Superseding, DeadlinePasses, Returns, ReturnsDigits,
       ReturnsSuperseded, ReturnsTimeout, KeypadTypeOK
  <1>3. \A d \in Entries : entry'[d] \in {"completed", "typed"} =>
          entry[d] \in {"completed", "typed"}
    BY DEF Arm, Superseding, DeadlinePasses, Returns, ReturnsDigits,
       ReturnsSuperseded, ReturnsTimeout, KeypadTypeOK
  <1>4. AnswerAsTyped' BY <1>1, <1>3 DEF DigitsInv, AnswerAsTyped
  <1>5. \A d \in Entries : Collecting(d)' <=> Collecting(d)
    BY <1>1 DEF Collecting
  <1>6. capture' # Nil => Collecting(capture)'
    <2>1. CASE Arm(e)
      <3>1. capture' = e /\ typed[e] = <<>> /\ buffer[e] = <<>>
        BY <2>1 DEF Arm, DigitsInv
      <3>2. IsLastClear(0, <<>>) BY DEF IsLastClear
      <3>3. SubSeq(typed[e], 1, Len(typed[e])) = <<>>
        BY <3>1, SubSeqEmpty
      <3>4. lengthOf[e] \in (Nat \ {0}) \cup {NoLength}
        BY KeypadAssumption DEF KeypadTypeOK
      <3>5. Collecting(e)
        BY <3>1, <3>2, <3>3, <3>4 DEF Collecting, HeldAfter
      <3> QED BY <1>1, <3>1, <3>5 DEF Collecting
    <2>2. CASE DeadlinePasses(e) \/ Returns(e)
      <3>1. capture' \in {capture, Nil}
        BY <2>2 DEF DeadlinePasses, Returns, ReturnsDigits,
           ReturnsSuperseded, ReturnsTimeout, AfterDeadline
      <3> QED BY <1>1, <3>1 DEF DigitsInv, Collecting
    <2> QED BY <2>1, <2>2
  <1> QED BY <1>1, <1>2, <1>4, <1>6 DEF DigitsInv

\* Nothing else touches the entries.
LEMMA OthersKeepDigits ==
  ASSUME DigitsInv, UNCHANGED <<entryVars, fixed>> PROVE DigitsInv'
  BY DEF DigitsInv, Collecting, AnswerAsTyped, entryVars, fixed

(***************************************************************************)
(* The digits an entry returns are those the caller typed for it after the *)
(* last clear key, without the terminator and never more than asked for,   *)
(* for any keys and lengths and however the entries overlap, run into      *)
(* their deadlines and take the keypad from one another.                   *)
(***************************************************************************)
THEOREM DigitsAsTyped == KeypadSpec => []AnswerAsTyped
  <1>1. KeypadInit => DigitsInv
    BY DEF KeypadInit, DigitsInv, AnswerAsTyped
  <1>2. KeypadTypeOK /\ HolderPending /\ DigitsInv /\ [KeypadNext]_keyVars
          => DigitsInv'
    <2> SUFFICES ASSUME KeypadTypeOK, HolderPending, DigitsInv,
                        [KeypadNext]_keyVars
                 PROVE  DigitsInv'
      OBVIOUS
    <2>1. CASE \/ Tick \/ ActionStep \/ UNCHANGED keyVars
               \/ \E k \in Keys : \/ Press(k) \/ PressUnmapped(k)
                                  \/ PressDebounced(k) \/ PressSuppressed(k)
                                  \/ PressAccepted(k)
      <3>1. UNCHANGED <<entryVars, fixed>>
        BY <2>1 DEF Tick, ActionStep, Acknowledged, TransferAnswered,
           PivotAnswered, ReplyAnswered, GoodbyeReturned, keyVars, fixed,
           entryVars, Press, PressUnmapped, PressDebounced, PressSuppressed,
           PressAccepted
      <3> QED BY <3>1, OthersKeepDigits
    <2> QED BY <2>1, FeedKeepsDigits, EntryKeepsDigits
            DEF KeypadNext, Dispatch
  <1>3. DigitsInv => AnswerAsTyped BY DEF DigitsInv
  <1> QED BY <1>1, <1>2, <1>3, KeypadTypeCorrect, HolderAlwaysPending, PTL
          DEF KeypadSpec
=============================================================================
