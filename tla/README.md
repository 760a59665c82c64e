# AIReceptionist in TLA+

A phone receptionist: a LiveKit worker answers calls with a realtime language
model whose tools take messages, transfer, book, collect intakes and end the
call; when a call ends its operators get a report. This directory models the
parts of it that keep state across awaits, threads and processes, checks them
with TLC and proves what matters most with TLAPS.

All line numbers are those of `src/`; `PROJECT.json` maps each definition to
its lines, and names each run, mutant, hazard and theorem.

## The system

| Component | State | Operations | Talks to |
|---|---|---|---|
| Call lifecycle (`lifecycle.py`, `transcript/metadata.py`) | outcomes, agent-end reason, queued message emails, queued intake, recording handle, `_finalized` | the recorders the tools call; `start_recording_if_enabled`; `on_call_ended` | tools, session, email channels, recording, transcript |
| Call session (`agent.py`: `handle_call`, `end_call`, goodbye tasks, close handler) | timers, one-shot flags, user state | idle watchers, `_speak_goodbye_and_terminate`, `_terminate_room`, `_handle_close` | LiveKit, lifecycle |
| Keypad (`agent.py`, `intakes/dtmf_capture.py`) | debounce times, `action_in_flight`, armed capture, event log | `_dispatch_dtmf_event`, `await_keypad_entry` | session, transfer, lifecycle |
| Intake (`agent.py`, `intakes/`) | answers in memory, partial and final file | `record_intake_answer`, `finalize_intake` | file system, lifecycle |
| Voice credentials (`voice_auth.py`) | token file, lock file, cache and thread locks per process | `_read_codex_access_token` | OAuth server, other worker processes |
| Message dispatch (`messaging/`) | background tasks, failure records | synchronous channel, background channels, retry | files, webhooks, SMTP |
| Booking and CRM (`booking/`, `crm/`) | offered slots (three batches), clients | check, book, find, reschedule, cancel | Google Calendar, EspoCRM |
| Info packets (`info_packets.py`, `agent.py`) | the pending destination | the two calls of `send_info_packet` | email |
| Realtime recovery (`agent.py`) | in-flight guard, counter | `handle_error` | session |
| Unproductive turns (`agent.py`) | per-turn flags, counter | three event handlers | session, lifecycle |
| Worker generations (`scripts/_spawn_agent.py`, `agent.py`) | pid and generation files | launch, watchdog | processes |
| Provisioning, retention (`telephony/`, `retention/`) | remote trunks and rules; files | list-compare-create; sweep | LiveKit, file system |
| Configuration, prompts, setup command lines, templates | none across steps | pure functions, one-shot input and output | |

The hard behaviours are concurrent calls of `on_call_ended` by goodbye tasks
and the close handler; tools that are still awaiting something when the call
ends; keypad entries that overlap and race with their deadlines; tool calls of
one model reply that write the same file from two threads; deliveries,
retries and failure records going on while the loop is shut down; several worker
processes sharing one OAuth file, one of which may die; restarts that race each
other; and sweeps and provisioning runs that meet what others do meanwhile or
break off and are run again.

What makes each modelled component correct:

- *Lifecycle*: a call is reported once, to every channel, with what was
  recorded before it ended, after its artifacts exist.
- *Session*: every call that ends is reported, the agent lets the caller go
  before its email work, an ending by the agent is never filed as a hang-up,
  nothing fires after the close.
- *Keypad*: an answer is what was typed for it; the keypad is given back; one
  action at a time; repeats are recognised.
- *Intake*: what counts as recorded or final is on disk; case types are never
  mixed; the report carries the last state.
- *Credentials*: whoever holds the lock spends a refresh token once; the file
  keeps a usable token; every caller is answered.
- *Dispatch*: a caller is told "saved" only when a copy is where the
  configuration is most durable; what failed in the background is on record;
  nothing is posted again after a refusal.
- *Booking*: no two appointments overlap, a contact is one, only one's own
  appointments change.
- *Info packets*: nothing goes to an address that was not read back, once per
  read-back.
- *Recovery and unproductive turns*: a rejected reply is asked for again, within
  the cap; the counter is the streak its configuration describes.
- *Worker generations*: the newest worker serves, older ones go.
- *Retention*: what is too old is removed, and only that.
- *Provisioning*: what is reported as done routes the number; repeating the
  command repeats nothing.

## Modules

`CallLifecycle` is extended by `CallSession`; `CallReport` is the abstract
specification `CallLifecycle` implements. `Keypad`, `Intake`, `Booking`,
`Dispatch`, `InfoPacket` and `UnproductiveTurns` stand alone: what they share
with the lifecycle is the one call by which each hands over its result.
`RealtimeRecovery`, `VoiceAuth`, `WorkerGeneration`, `Retention` and `Provision`
share nothing with the rest. `MC*` modules hold the values TLC gives the
constants, `*Proofs` modules the theorems. `MCParts`, `MCProcesses`
and `MCEnds` put modules with disjoint variables into one specification whose
behaviours each exercise one of them.

### CallLifecycle

One `CallLifecycle` object. The recorders (`RecordOutcome`,
`RecordAppointmentBooked`, `RecordAgentEnded`, `EnqueueMessage`,
`EnqueueIntake`) are one action each; none looks at `_finalized`, as in the
code. `on_call_ended` is a process with a program counter `pc[f]` for every
task `f` that calls it. The labels in `Waiting` are its awaits (stopping the
recording, writing the transcript, the summary, each delivery); those in
`Running` are the code between two awaits, during which nothing else is
enabled (`LoopFree`): asyncio runs a task alone up to its next await. The
mail a call sends is the sequence `mail` of attempts; whether one succeeds
changes nothing the lifecycle does afterwards, so an attempt that raises and
one that returns are the same step. `taken` and `atEnd` are history.
Transcript segments are not modelled: the summary, which the code asks for
only when there is something to summarise, is asked for or not.

### CallSession

`handle_call` around that object: the three idle timers with their one-shot
flags, `end_call`, the unproductive-turn ending (its outcome only), the
keypad's end key, one goodbye task for each of these, `_terminate_room`'s
`remove_participant` with its fallback, the close handler. LiveKit is
external: API calls answer or fail, and a caller leaves at any time. The close
event comes at most once, at any moment after `session.start` was called and
for any reason: with the caller still on the line too, when the session breaks
off (`brokeOff` is history). `session.start` may raise, which leaves the
handlers and the maximum timer behind. `EndKey` is enabled once because the
handler awaits the goodbye with `action_in_flight` set.

### CallReport

What operators are promised: live, reporting, complete; an email is attempted
only while reporting and never twice; the first reason stays. `Abstract` in
`CallLifecycle` is the refinement mapping and `ReportedOnce` the property.

### Keypad

Presses become tasks in order (`queue`), as `_create_background_task` starts
them. `FeedCapture` is a press that goes to an armed entry, `PressUnmapped`,
`PressDebounced`, `PressSuppressed` and `PressAccepted` the ways a menu press
goes. An accepted press is a task in `acting` with the await it is at.
`entry[e]` is the future of a call of `await_keypad_entry` and its task:
resolved or cancelled and yet to resume are states of their own, since the
keypad may change in between. `now` is the monotonic clock the debounce window
is measured on.

### Intake

A tool call updates memory and builds its snapshot in one go, writes the
snapshot in a worker thread, and enqueues it back on the event loop. The calls
of one model reply may run concurrently; the history variable `overlapped` tells
behaviours in which some did from those in which each waited for the one before.
A write or removal may fail (`unwritten`). The name of a final file has a
timestamp of one second: a finalization gets a path of its own or that of the
one that began before it, and `finals` is the files by path. The job may stop
anywhere, so the properties about files are required at every moment.

### VoiceAuth

Callers in worker threads of several processes; the per-process lock for the
refresh token a caller has read, the lock file (`O_EXCL`), the second reading,
the request, the write, the release that looks at the owner before it unlinks.
The server rotates the refresh token or does not. Tokens are generations.
The lock file may stay behind for a crash, for an `os.write` that fails after
`os.open`, for an owner that cannot be read or an `unlink` that fails, all of
which the code swallows or passes on; and any lock may grow stale, that of a
holder at work too, for the twenty seconds of the request's timeout are for each
of its reads and writes. `unlink` removes what is there by now (`Unlinks`).
`aged` and `robbed` are history: a lock has grown stale, a caller's lock was
unlinked by another while it was refreshing.

### Booking

The four appointment tools over one calendar, for several phone calls. Each
await is a step: the query for the window and the offers made from its answer
(`seen` keeps what the server saw when it looked), the look at the one slot,
the CRM's contacts, the write and its answer. A write the tool has given up on
(`loose`) may land at any later time: the calendar client's thread outlives
`wait_for`, and a posted CRM request outlives its timeout. `crm` chooses the
backend. The two differ where the code does: the calendar is asked for the
slot alone, the CRM for the buffered slot; only the calendar's path resets the
offers after a race; contacts, moves and cancellations are the CRM's. A contact
is looked for as the code does: the server searches the numbers as they are
stored for the caller's last seven digits in one run (`ContactsForPhone`), so
that a number stored with separators (`plain` is false) is not found, and of
those found the name decides (`ContactsOf`), so that people of one name whose
numbers end alike are one to the tools. Each call starts after its first
`check_availability`. `together` is history: the
pairs of tool calls one of which looked while the other was between its own
look and its write. All appointments have the configured duration; grid,
business hours and booking window are the set `Slots`.

### Dispatch

`take_message` and the `Dispatcher`: `IsSync` is the choice of the awaited
channel, `AttemptEnds` one turn of `retry_with_backoff` with what follows it,
up to the reply to the caller (`Saved`, `Raised`) or the failure record of a
background task. A file channel has one attempt. An attempt whose answer is
lost has arrived. `attempts` keeps how each ended, so that the properties can
speak of what a receiver has seen. `Shutdown` cancels every task; a thread that
is writing a record finishes or not. Email channels are skipped, as the code
skips them, and the message is queued for the end of the call.

### InfoPacket

The gate of `send_info_packet`: `IsConfirming` decides between asking for
consent, arming the address for read-back and sending. A call that sends is
under way until the email is answered, and others may be made meanwhile;
`collided` is history and tells when two were. `armed` is the pending address.

### UnproductiveTurns

Three handlers, each one action, in any order. `turns` is history: what the
first reply of each turn was and whether a tool ran in it, from which the
property reads the streak independently of the counter. Text before the first
transcript belongs to no turn. `CallSession` has the ending this leads to.

### RealtimeRecovery

One task per error event. A task runs alone up to its backoff, so the early
returns and the setting of the guard are single steps. `owed` is history: a
recoverable error has come after the last retry.

### WorkerGeneration

A launcher is a process that goes through `Following`, one step per effect on
the pidfile, the generation file or a process, and may die at any of them.
`OpenToken` and `WriteToken` are apart because writing a file first empties it.
`Checks` is one round of the worker's watchdog. `windows` chooses whether the
other workers of the checkout are looked for.

### Retention

A run of the sweep over one directory: each file is looked at (`LookAt`,
`LookFails`) and then unlinked (`Unlink`) in two steps, between which another
run may have removed it. Calls write files and days pass meanwhile. A file
written after the walk began may be missed. The walk itself fails in two ways:
`rglob` passes over a directory it has no permission to list (`ListingRefused`,
with `unlisted` as history), and any other error of it or of `is_file` ends the
command (`WalkAborts`).

### Provision

Each run of `netelip apply`: list, compare or create, for the trunk and then
the rule, against the sets LiveKit keeps. A create may be carried out with its
answer lost. A rule found by its name is reused if it names the trunk; its agent,
room prefix and metadata are not looked at, nor are the credentials of a trunk by
a plan without any. `crossed` is history: two runs were under way at once.

## Runs

| Run | Question | Instance |
|---|---|---|
| MCCallLifecycle | reported once, after its artifacts, nothing repeated, nothing missing | 2 finalizers, 2 messages, 1 submission, 2 reasons, 2 channels, every email mode |
| MCCallSession | caller released before the emails of a goodbye task; an ending by the agent kept; no timer after close | `end_call`, one other way of ending, a message in flight, the close event, with and without recording |
| MCEnds | ended calls are reported, fan-outs completed, a silent caller released; entries and actions of the keypad end | one way of ending, a session that may not start or break off; 2 entries, 2 presses; fair |
| MCKeypad | answers as typed; who holds the keypad; one action; debounce | 2 entries, 3 presses, window of 1 in 1 tick, a menu of two keys, of one, none |
| MCProcesses | newest worker serves, stale workers go; until a holder is robbed, tokens spent once and the file usable | 3 launchers, fair; 3 callers, 2 processes, 2 issued pairs, one crash |
| MCVoiceAuthEnds | every caller is answered | 3 callers, 2 processes, 1 issued pair, one crash, fair |
| MCParts | each part beside the others, one per behaviour | 2 messages on 5 layouts of channels with 3 attempts; 4 packet calls, 2 addresses; 4 turns, threshold 2; 4 errors, 2 recoveries; 2 sweeps, a transcript and a failure record, 2 days; 3 provisioning runs, 5 plans |
| MCBooking | overlaps and doubled contacts only among tool calls that ran into each other; changes only by one who matches the owner and while planned | 3 tool calls of 2 phone calls, 3 people whose numbers end alike, two of one name, 2 slots with the buffer between them, 1 staff time across both |
| MCIntake | nothing mixed, recorded and final on disk; in turn: files and report are the last call's | 3 answers, 2 finalizations, 2 cases, 2 questions |

Why these bounds are enough to see the interesting cases: two finalizers make
the race for `_finalized` (the session has up to six); two channels and two
messages make both loops of the fan-out iterate; two entries are the least
that can supersede one another, three presses fill an answer of two digits and
leave one over, and one tick is the edge of a window of one; three callers in
two processes meet both locks, and two issued pairs let a rotated token be
rotated again; three answers change the case type and come back;
three tool calls book, move and cancel one appointment or book twice around a
check, and two batches of offers let one age out; the layouts have a file after
a webhook and before it, two of a kind, and email alone; a third attempt is the
last; four packet calls read back and send twice; four turns reach the threshold,
fall back and reach it again; two sweeps can find the same file old; three
restarts let one kill, one write and one die; of three provisioning runs one can
break off, one can complete and one find both. Two or three of a kind suffice
wherever the code treats pairs: nothing in it counts further.
`MaxPresses`, `MaxTime`, `MaxIssued`, `MaxCrashes`, `StaffTimes`, `MaxCalls`,
`MaxTurns`, `MaxErrors` and `MaxDay` are the only bounds on what would be
unbounded. Messages, reasons, finalizers, the calls, cases
and questions of an intake, and callers are interchangeable; the only temporal
formulas checked under a symmetry are step properties, which treat them alike.

The credentials' safety is conditional on `~robbed`. That is not a
convenience: a stale lock can be removed twice, and a holder whose lock was taken
for abandoned removes the next one (`MCVoiceAuthStale`, with no crash at all), and
everything that rests on the lock goes with it. `HoldersSpendOnce` says also that
nothing less does it: `robbed` implies that a lock has stood for two minutes.
Taking over an abandoned lock, whoever left it, is safe until then.

Three disagreements of the code with its own text have a run each:

| Run | What the text says | What happens |
|---|---|---|
| MCCallLateMessage | each enqueued message is fired | one whose dispatch ends after the queue was cleared is not |
| MCKeypadNewer | an older entry leaves the newer capture alone | its timeout clears it |
| MCVoiceAuthStale | one caller spends the token | a fresh lock is unlinked as stale, two spend it |

Differences seen while modelling, which the models contain and no run is
devoted to:

| Text | Code |
|---|---|
| each call site of the goodbye has recorded the agent's ending (`agent.py:882`) | the keypad's end key has not (`agent.py:2883`), so `AgentEndNotHungUp` excepts it |
| the agent's ending finalizes the call before it removes the caller (`lifecycle.py:64-66`, `309-310`) | removed first, then finalized (`agent.py:934-953`) |
| the lifecycle is finalized before the playout (`architecture.md:101`) | played, released, then finalized (`agent.py:918-953`); `CallerReleasedBeforeMail` states the code's order |
| a caller without a final transcript is hung up on (`config.py:119`) | the absolute timer starts with the first final transcript (`agent.py:2989`) |
| thirty seconds with no input (`function-tools-reference.md:730`) | thirty seconds in all (`agent.py:1790`) |
| keys after completion are ignored (`dtmf_capture.py:21`) | the capture is disarmed, so the next key reaches the menu (`agent.py:1297`) |
| errors during dispatch are swallowed (`agent.py:1124`) | one in a reply leaves the handler and the event stays pending (`agent.py:1250`) |
| widening busy times is equivalent to a buffer around new bookings (`availability.py:42`) | it is the buffer on the other side: with placement `after`, a slot that ends where an appointment begins is offered |
| the partial file is removed at finalization (`intakes/models.py:51`) | a partial write still in its thread brings it back (`intakes/storage.py:67`); `FinalReported` is about calls in turn |
| a caller who hangs up mid-intake leaves whatever was captured (`agent.py:1630`) | of two overlapping answers the older snapshot may be written last (`intakes/storage.py:67`); `AnswersInTurnOnDisk` is about calls in turn |
| something durable exists before the caller hears the confirmation (`architecture.md:141`) | with email channels only, nothing does until the call ends (`dispatcher.py:69`); `SavedHasCopy` speaks of the other layouts |
| exhausted webhooks and emails land in `.failures/` (`configuration-reference.md:834`) | a webhook that is the awaited channel and the emails of the call's end leave no record (`dispatcher.py:77`, `lifecycle.py:498`) |
| a stale confirmation cannot send twice (`agent.py:2027`) | two confirmed calls that overlap both send, for the gate is cleared after the send; `SendsReadBack` excepts them |
| a resource is reused that has the same name and configuration (`netelip-livekit-setup.md:128`) | a rule with another agent is reused too (`netelip.py:229-235`), and a trunk with credentials by a plan without (`204`); `Differed` in `ProvisionedOnce` |
| the provisioning is idempotent (`netelip-livekit-setup.md:128`) | two runs at once leave two trunks of one name |

And what the code does where no text speaks of it, which the models contain and
the properties name as their exceptions:

- A session that closes for an error with the caller on the line mails at once,
  cancels the silence timers and hangs up on nobody (`agent.py:3042-3069`):
  `brokeOff` in `CallerReleasedBeforeMail` and `SilentCallerReleased`.
- A `session.start` that raises (`agent.py:3085`) may leave no session to close: a
  caller who then hangs up is not reported (`setup = "failed"` in
  `EndedCallIsReported`).
- Two finalizations within one second share a path, and the later write stays
  (`intakes/storage.py:33`): `FinalOnDisk` says what is left.
- A number stored with separators among its last seven digits is not found and
  gets a second contact, and of two namesakes whose numbers end alike each may
  move the other's appointments (`espocrm.py:303-319`): `OneContactInTurn` and
  `OnlyOwnChanged` are about the rest.
- A booking made while an insert that timed out is still in its thread overlaps
  it (`booking/client.py:103`): `NoDoubleBookingInTurn` excepts that one.
- Of a directory it may not list the sweep says nothing, and exits with 0
  (`retention/sweeper.py:75`): `unlisted` in `CleanSweepClears`.
- A lock whose owner could not be written, or that could not be removed, stands
  until it is two minutes old, and a request may last longer than that
  (`voice_auth.py:208`, `287-301`, `334-343`): `robbed` and `aged` in
  `HoldersSpendOnce`.

## Fairness

Weak fairness on each task's next step (`FanOutStep`, `GoodbyeStep`,
`ActionStep`, `Dispatch`, `Returns`): the event loop runs every ready task, and
every await it stands for is bounded by a timeout or by a call that returns or
raises. Weak fairness on the timers, on `HandleClose` of a running session whose
caller has gone (LiveKit closes it; a close for another reason is not assumed)
and on an entry's deadline. The job process outlives the tasks the close handler
spawns, as the comment at `agent.py:3046-3052` says. In `VoiceAuth` threads run
on; a caller in the polling loop is also strongly fair in giving up (`GivesUp`),
since its thirty seconds pass however often it finds the lock held or cannot
remove it; and a lock that is left grows stale. The watchdog of each worker is a
loop in a daemon thread, so its next round is weakly fair; launchers are not
fair, they may die. In `MCProcesses` and `MCEnds` each of these holds for
the behaviours about its part. Nothing is assumed of callers, of the model's tool calls, of
whether a request succeeds, or of crashes.

## Proofs

The theorems hold for every value of the constants under the named assumptions
of the modules (`ConfigAssumption`, `DataAssumption`, `SessionAssumption`,
`KeypadAssumption`, `LauncherAssumption`, `VoiceAssumption`,
`DispatchAssumption`, `InfoPacketAssumption`, `UnproductiveAssumption`,
`RecoveryAssumption`, `RetentionAssumption`, `ProvisionAssumption`,
`IntakeAssumption`, `BookingAssumption`), which TLC evaluates in the runs of
these modules. `ProvisionAssumption` says that plans with one rule name have one
business, trunk name and room prefix, which holds as all are made from the
business; `BookingAssumption` that the slots on offer are finitely many, as the
opening hours of a few days are; the others give counters and sentinels their
types (`None` and `Nil` are no values of the data they stand beside).

- `TypeCorrect` (CallLifecycleProofs): `TypeOK` is inductive; one lemma per
  group of actions.
- `MailedOnce` (CallLifecycleProofs): `NoDuplicateMail` is not inductive. It needs
  that at most one call of `on_call_ended` is past the guard (`OneFanOut`),
  that the queue has no message twice (`QueueDistinct`), and that what has been
  mailed lies before the place the running loop has come to, by trigger,
  message and channel. These, with `TypeOK`, make `MailInv`.
- `ReportedOncePerChannel` (CallLifecycleProofs): a consolidated call is never
  in the message loop nor at the booking and intake triggers, so each of its
  emails is a `call_end` one (`ModeInv`), and `MailedOnce` leaves one per channel.
- `EarlyDataKept` (CallLifecycleProofs): `EarlyDataReported` says nothing before
  the fan-out is over, so the invariant follows what was pending on its way: it
  is held, in the queue, then in the copy, the intake until the very end
  (`EarlyHeld`), and every email that comes before the position of the loops was
  attempted with it (`EarlySent`). A late tool only adds; only the one fan-out
  clears.
- `MailedWithArtifacts` and `ImplementsCallReport` (CallRefinementProofs): a
  call late in the fan-out has had its transcript answered (`WrittenByThen`);
  each step of the lifecycle is a step of `CallReport` or leaves its variables
  alone, deliveries being `Send` by `MailInv` and by the channels' bound
  (`RefinementInv`).
- `SessionImplementsLifecycle`, `SessionMailedOnce`, `SessionReported`
  (CallSessionProofs): a step of the session is a lifecycle step or leaves the
  lifecycle alone, so the lifecycle's theorems hold of whole calls.
- `SessionTypeCorrect`: inductive, with the lifecycle's types and `ReleaseInv`,
  which has those of the goodbye tasks.
- `TimersEndWithClose`: the close event comes after the handlers are in place and
  cancels all timers, and no handler that arms a timer runs after it
  (`TimersCancelled`).
- `ReleasedBeforeMail`: strengthened by what a goodbye task about to finalize
  knows, and by a fan-out with the caller on the line being the close handler's,
  of a session that broke off (`ReleaseInv`).
- `AgentEndKept`: every path but the end key records `agent_ended` in the step
  that makes it a path, outcomes only grow, and `hung_up` is added to an empty
  set only (`AgentEndInv`).
- `KeypadTypeCorrect`, `OneActionAtATime`, `HolderAlwaysPending` (KeypadProofs):
  the invariants are inductive over the types; each has one step per group of
  actions.
- `PressesDebounced` (KeypadProofs): `lastPress` is the time of the latest press
  that was no repeat, and the clock is not behind it (`PressesRemembered`), so
  the comparison with it is one with every press before.
- `DigitsAsTyped` (KeypadProofs): the buffer of the entry that holds the keypad
  is what came after some last clear key, no pound among it, and short of the
  length (`Collecting`); the answer is read from the sequence of keys typed,
  which the buffer never sees, so each press is compared with a definition of
  its own.
- `NewestWorkerServes` (ProcessProofs): a worker exists only after its launcher
  has written its token (`SpawnedLate`), so the launcher that writes the newest
  token has no worker yet that an older launcher could stop; with the types and
  this the property is inductive.
- `TokenSpentOnce`, `TokenFileUsable` (ProcessProofs): mutual exclusion. Until a
  caller is robbed the lock file is that of the caller refreshing, through every
  crash and every lock left behind (`LockIsOwned`), so what it read again is what
  is on the file, and its request spends a token nobody has spent
  (`TokensKnown`). Until a lock has grown stale nobody is about to unlink one that
  is not its own, so none is robbed.
- `SavedMeansCopied`, `RecordsReplay`, `NoPostAfterRefusal` (PartProofs):
  `DispatchInv` says of each delivery what its attempts were, by the place it is
  in (`AttemptsFit`), that a record stands for one that gave up (`RecordsFit`),
  and that the awaited channel is where the caller was told (`ToldFits`,
  `MessageFits`); one lemma per action.

- `PacketsReadBack` (PartProofs): an address that is armed or being sent to has
  a read-back that no packet sent has used up, while no two sends overlap
  (`GateInv`).
- `StreakCounted` (PartProofs): the flags of the object are those of the last
  turn (`LastTurn`), so each handler changes the set of turns in the streak as
  it changes the counter (`TurnInv`).
- `RepliesRetried` (PartProofs): the in-flight guard is set exactly while a task
  sleeps, and a rejected reply not asked for again has a task to come unless the
  recoveries are used up (`RecoveryInv`).
- `OnlyExpired`, `CleanSweeps` (PartProofs): a file about to be unlinked is older
  than a cutoff that time only makes more generous, a file in one run's result
  is in no other's, and what a run has seen and found old is gone or in its
  errors, or was not listed (`SweepInv`).
- `NumberProvisionedOnce` (PartProofs): each trunk and rule is some begun run's,
  with its plan's values, and each run has settled on what is there, so that what
  differs from its plan is of another applied plan of the trunk; runs that
  never cross find a name free until they create it (`ProvisionInv`).
- `OneCaseType`, `ReportedFinalOnDisk`, `RecordedOnDisk` (IntakeProofs): files and
  report are snapshots that nobody rebuilds, and a snapshot holds answers of
  calls made for its own case type, whose arguments stay; a file is the snapshot
  of a finalization of its path, and before the last one returns no other can
  have taken its path in turn (`IntakeInv`).

- `AnswersKept`, `FinalCounts` (IntakeProofs): while no two calls have been
  under way at once at most one is busy (`OneBusy`), the partial file is what it
  is about to write or has written (`DiskHolds`), and after the last
  finalization nothing is left to write or enqueue (`FreshReported`).
- `NoDoubleBooking`, `OneContact`, `OwnAppointments`, `MovesPlanned`
  (BookingProofs): a tool call between its look and its write, or whose write
  may still land, is clear of every planned appointment, contact and
  cancellation but those of tool calls it has met (`SlotClear`, `ContactClear`,
  `MoveClear`), and any two such have met (`AllMet`). `JobFits` and `RecordFits`
  say what a tool call at each place has been asked and shown. With it the two
  action properties need one look at the steps that write.

Only model-checked: liveness, which is out of the prover's reach as is
`ENABLED` (`EndedCallIsReported`, `SilentCallerReleased`, `FanOutCompletes`,
`EntryReturns`, `ActionsEnd`, `StaleWorkersGo`, `CallersAnswered`), and that the
three statements of the code's text listed above are false. Every invariant and
action property of the passing runs has a theorem.

## What remains

1. `Dispatch` and `UnproductiveTurns` composed with `CallSession`, whose actions
   `MessageDispatched` and `UnproductiveTurns` are their outcomes.
2. The grid, the hours and the buffers of `find_slots` against a reference, and
   the configuration's validators as predicates, against the configurations the
   other modules assume.

## Not modelled

Wording (prompts, templates, formatting), the setup command lines and the demo
seed keep no state across steps. LiveKit, the realtime model, SMTP, the
calendar and the CRM are external and appear as answers. A job that is killed
in the middle of the fan-out loses the rest of its emails: nothing persists
the fan-out and nothing promises otherwise, so there is nothing to check. A
business with the calendar and the CRM both on, where offers come from one and
moves go to the other, is left out of `Booking`, as are `find_appointments` and
the knowledge search, which only read. Cancellations by the staff are left out of
`Booking` as well: `MovedWhilePlanned` is about those the tools make.
