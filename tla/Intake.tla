-------------------------------- MODULE Intake --------------------------------
(***************************************************************************)
(* The phone intake of a call: record_intake_answer and finalize_intake of *)
(* receptionist/agent.py over the files of receptionist/intakes/storage.py *)
(*                                                                         *)
(* A tool updates the answers in memory and takes a snapshot of them in    *)
(* one go; a worker thread then puts the snapshot on disk by an atomic     *)
(* rename; back on the event loop the snapshot becomes the submission the  *)
(* end-of-call report will carry.  The calls of one reply of the model run *)
(* concurrently, so the writes of two calls may land in either order.  The *)
(* job may end at any moment and leave the files as they are.              *)
(***************************************************************************)
EXTENDS Integers, FiniteSets

CONSTANTS
  Answers,     \* the calls of record_intake_answer
  Finals,      \* the calls of finalize_intake
  Cases,       \* the configured case types
  Questions,   \* the keys of their questions
  None

\* A partial one has no "final"; a final one names the finalization, whose
\* overview and callback details are its own.
Submission ==
  [case : Cases, answers : [Questions -> Answers \cup {None}],
   final : Finals \cup {None}]

Arguments == [case : Cases, question : Questions]

ASSUME IntakeAssumption ==
  /\ Answers \cap Finals = {}
  /\ None \notin Answers \cup Finals \cup Cases
  /\ None \notin Submission \cup Arguments

VARIABLES
  case,      \* _intake_case_type
  answers,   \* _intake_answers: the call that gave each question's answer
  asked,     \* the arguments of each call of record_intake_answer
  at,        \* where each call is
  snapshot,  \* the submission each call has built
  partial,   \* the partial file
  target,    \* the path of each finalization's file, by _final_path
  newest,    \* the path of the finalization that began last
  finals,    \* the final files, by path
  pending,   \* _pending_intake_submission of the lifecycle
  submitted, \* the outcome intake_submitted
  unwritten, \* history: a write or a removal has failed
  overlapped \* history: a call began while another one ran

intakeVars == <<case, answers, asked, at, snapshot, partial, target, newest,
                finals, pending, submitted, unwritten, overlapped>>

paths == <<target, newest>>

Calls == Answers \cup Finals

NoAnswers == [q \in Questions |-> None]

IntakeInit ==
  /\ case = None
  /\ answers = NoAnswers
  /\ asked = [c \in Answers |-> None]
  /\ at = [c \in Calls |-> "idle"]
  /\ snapshot = [c \in Calls |-> None]
  /\ partial = None
  /\ target = [f \in Finals |-> None]
  /\ newest = None
  /\ finals = [f \in Finals |-> None]
  /\ pending = None
  /\ submitted = FALSE
  /\ unwritten = FALSE
  /\ overlapped = FALSE

Moves(c, label) == at' = [at EXCEPT ![c] = label]

Busy == {c \in Calls : at[c] \notin {"idle", "done", "failed"}}

Starts(c) ==
  /\ at[c] = "idle"
  /\ overlapped' = (overlapped \/ Busy # {})

(***************************************************************************)
(* record_intake_answer.                                                   *)
(***************************************************************************)
\* Mutant: the answers of the earlier case type are kept.
KeptAnswers(k) == answers

\* A changed case type drops the answers of the earlier one.
AnswersOf(k) == IF case \in {None, k} THEN answers ELSE NoAnswers

\* Mutant: the snapshot is taken before the answer is in.
SnapshotBefore(c, k, q) ==
  [case |-> k, final |-> None, answers |-> AnswersOf(k)]

PartialOf(c, k, q) ==
  [case |-> k, final |-> None, answers |-> [AnswersOf(k) EXCEPT ![q] = c]]

RecordAnswer(c) ==
  /\ Starts(c)
  /\ \E k \in Cases, q \in Questions :
       /\ asked' = [asked EXCEPT ![c] = [case |-> k, question |-> q]]
       /\ case' = k
       /\ answers' = [AnswersOf(k) EXCEPT ![q] = c]
       /\ snapshot' = [snapshot EXCEPT ![c] = PartialOf(c, k, q)]
  /\ Moves(c, "write")
  /\ UNCHANGED <<partial, paths, finals, pending, submitted, unwritten>>

\* persist_partial replaces the file, or fails, which is logged.
PersistPartial(c) ==
  /\ c \in Answers
  /\ at[c] = "write"
  /\ \/ partial' = snapshot[c] /\ UNCHANGED unwritten
     \/ unwritten' = TRUE /\ UNCHANGED partial
  /\ Moves(c, "enqueue")
  /\ UNCHANGED <<case, answers, asked, snapshot, paths, finals, pending,
                 submitted, overlapped>>

\* Mutant: the first submission enqueued is the one that counts.
FirstReported(c) == IF pending = None THEN snapshot[c] ELSE pending

\* enqueue_intake_submission: the last one counts.
Reported(c) == snapshot[c]

EnqueuePartial(c) ==
  /\ c \in Answers
  /\ at[c] = "enqueue"
  /\ pending' = Reported(c)
  /\ Moves(c, "done")
  /\ UNCHANGED <<case, answers, asked, snapshot, partial, paths, finals,
                 submitted, unwritten, overlapped>>

(***************************************************************************)
(* finalize_intake.                                                        *)
(***************************************************************************)
\* Mutant: the partial file is removed before the final one is written.
RemoveFirst == "remove"

FirstStep == "write"

\* The name has a timestamp of one second: a path of its own, which is known
\* here by the call, or the path of the last one, begun in the same second.
FinalPath(c) == {c, newest} \ {None}

\* Without an answer the tool returns at once.
Finalize(c) ==
  /\ Starts(c)
  /\ case # None /\ answers # NoAnswers
  /\ snapshot' = [snapshot EXCEPT ![c] =
                    [case |-> case, answers |-> answers, final |-> c]]
  /\ \E path \in FinalPath(c) :
       target' = [target EXCEPT ![c] = path] /\ newest' = path
  /\ Moves(c, FirstStep)
  /\ UNCHANGED <<case, answers, asked, partial, finals, pending, submitted,
                 unwritten>>

\* Mutant: a failed write is not noticed.
FailureUnnoticed == "enqueue"

AfterFailure == "failed"

AfterFinal == "remove"

\* persist_final writes or replaces the file at its path, or fails, and the
\* tool offers a message.
PersistFinal(c) ==
  /\ c \in Finals
  /\ at[c] = "write"
  /\ \/ /\ finals' = [finals EXCEPT ![target[c]] = snapshot[c]]
        /\ Moves(c, AfterFinal) /\ UNCHANGED unwritten
     \/ unwritten' = TRUE /\ Moves(c, AfterFailure) /\ UNCHANGED finals
  /\ UNCHANGED <<case, answers, asked, snapshot, partial, paths, pending,
                 submitted, overlapped>>

\* The partial file is unlinked, or stays if that fails.
RemovePartial(c) ==
  /\ at[c] = "remove"
  /\ \/ partial' = None /\ UNCHANGED unwritten
     \/ partial # None /\ unwritten' = TRUE /\ UNCHANGED partial
  /\ Moves(c, "enqueue")
  /\ UNCHANGED <<case, answers, asked, snapshot, paths, finals, pending,
                 submitted, overlapped>>

EnqueueFinal(c) ==
  /\ c \in Finals
  /\ at[c] = "enqueue"
  /\ pending' = Reported(c)
  /\ submitted' = TRUE
  /\ Moves(c, "done")
  /\ UNCHANGED <<case, answers, asked, snapshot, partial, paths, finals,
                 unwritten, overlapped>>

-----------------------------------------------------------------------------
IntakeNext ==
  \/ \E c \in Answers :
       RecordAnswer(c) \/ PersistPartial(c) \/ EnqueuePartial(c)
  \/ \E c \in Finals :
       \/ Finalize(c)
       \/ PersistFinal(c) \/ RemovePartial(c) \/ EnqueueFinal(c)

IntakeSpec == IntakeInit /\ [][IntakeNext]_intakeVars

-----------------------------------------------------------------------------
IntakeTypeOK ==
  /\ case \in Cases \cup {None}
  /\ answers \in [Questions -> Answers \cup {None}]
  /\ asked \in [Answers -> Arguments \cup {None}]
  /\ at \in [Calls -> {"idle", "write", "remove", "enqueue", "done", "failed"}]
  /\ snapshot \in [Calls -> Submission \cup {None}]
  /\ partial \in Submission \cup {None}
  /\ target \in [Finals -> Finals \cup {None}]
  /\ newest \in Finals \cup {None}
  /\ finals \in [Finals -> Submission \cup {None}]
  /\ pending \in Submission \cup {None}
  /\ submitted \in BOOLEAN
  /\ unwritten \in BOOLEAN
  /\ overlapped \in BOOLEAN

FinalFiles == {finals[f] : f \in Finals} \ {None}

(***************************************************************************)
(* No submission, on disk or in the report, mixes the answers of two case  *)
(* types ("so we don't mix-and-match answer sets across case types").      *)
(***************************************************************************)
OfOneCase(s) ==
  \A q \in Questions : s.answers[q] # None => asked[s.answers[q]].case = s.case

NoMixedCases ==
  \A s \in FinalFiles \cup ({partial, pending} \ {None}) : OfOneCase(s)

(***************************************************************************)
(* The call counts as submitted only with a final file, however many calls *)
(* of the tools overlap and fail.  The finalization the report carries has *)
(* its file, which holds it or another one of the same second; and it is   *)
(* itself on disk when the calls, made one after the other, have returned. *)
(***************************************************************************)
FinalOnDisk ==
  /\ submitted => FinalFiles # {}
  /\ pending # None /\ pending.final # None =>
       /\ \E f \in Finals :
            /\ target[f] = target[pending.final]
            /\ finals[target[f]] = snapshot[f]
       /\ ~overlapped /\ Busy = {} => pending \in FinalFiles

(***************************************************************************)
(* "If the caller hangs up mid-intake the receiving team still gets        *)
(* whatever was captured": as long as no write has failed, an answer a     *)
(* tool call has recorded leaves a file behind, at every moment.           *)
(***************************************************************************)
IntakeOnDisk ==
  ~unwritten /\ (\E c \in Answers : at[c] = "done") =>
    partial # None \/ FinalFiles # {}

(***************************************************************************)
(* The same promise about the contents: with every call returned and no    *)
(* write failed, an intake not finalized is on disk with every answer.     *)
(***************************************************************************)
EveryAnswerOnDisk ==
  ~unwritten /\ Busy = {} /\ case # None /\ FinalFiles = {} =>
    partial # None /\ partial.answers = answers

(***************************************************************************)
(* Calls made one after the other keep it, across changed case types and   *)
(* corrected answers.                                                      *)
(***************************************************************************)
AnswersInTurnOnDisk == ~overlapped => EveryAnswerOnDisk

\* A finalization has returned, and nothing was answered since it began.
Finalized ==
  \E f \in Finals : /\ at[f] = "done"
                    /\ snapshot[f].case = case /\ snapshot[f].answers = answers

(***************************************************************************)
(* A finalized intake takes the place of its partial: with the calls made  *)
(* one after the other the report carries the final submission, never an   *)
(* answer given before it, and the partial file is gone (the docstring of  *)
(* IntakeSubmission) unless its removal failed.                            *)
(***************************************************************************)
FinalReported ==
  ~overlapped /\ Busy = {} /\ Finalized =>
    pending.final # None /\ (~unwritten => partial = None)
=============================================================================
