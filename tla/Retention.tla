------------------------------- MODULE Retention -------------------------------
(***************************************************************************)
(* The retention sweep (receptionist/retention): it walks an artifact      *)
(* directory while calls write to it and other sweeps walk it too, and     *)
(* unlinks the files older than the retention, failure records excepted.   *)
(*                                                                         *)
(* A file is written once.  stat and unlink are two calls on the path.     *)
(***************************************************************************)
EXTENDS Integers, FiniteSets

CONSTANTS
  Files,          \* the files calls write into the directory
  Failures,       \* those of them under .failures/
  Sweeps,         \* the runs of the sweep on this directory
  RetentionDays,  \* the values of retention_days considered
  MaxDay,         \* bound: the days that pass
  Unset           \* no file, no day

ASSUME RetentionAssumption ==
  /\ Failures \subseteq Files
  /\ RetentionDays \subseteq Nat
  /\ MaxDay \in Nat
  /\ Unset \notin Files \cup Int

VARIABLES
  days,     \* retention_days of the configuration
  today,    \* time.time()
  written,  \* the day each file was written, its mtime
  removed,  \* history: the day each file was unlinked
  sweep     \* each run: where it is, its cutoff, the file it has found old,
            \* the files seen, its result, and, as history, the files that
            \* were there at its start and those the walk could not list

retentionVars == <<days, today, written, removed, sweep>>

Present == {f \in Files : written[f] # Unset /\ removed[f] = Unset}

NotStarted ==
  [at |-> "idle", dry |-> FALSE, cutoff |-> Unset, old |-> Unset, seen |-> {},
   deleted |-> {}, errors |-> {}, found |-> {}, unlisted |-> {}]

RetentionInit ==
  /\ days \in RetentionDays
  /\ today = 0
  /\ written = [f \in Files |-> Unset]
  /\ removed = [f \in Files |-> Unset]
  /\ sweep = [s \in Sweeps |-> NotStarted]

DayPasses ==
  /\ today < MaxDay
  /\ today' = today + 1
  /\ UNCHANGED <<days, written, removed, sweep>>

FileWritten(f) ==
  /\ written[f] = Unset
  /\ written' = [written EXCEPT ![f] = today]
  /\ UNCHANGED <<days, today, removed, sweep>>

Walked == Files \ Failures

SweepBegins(s, dry) ==
  /\ sweep[s].at = "idle"
  /\ sweep' = [sweep EXCEPT ![s] =
       [NotStarted EXCEPT !.at = "walking", !.dry = dry, !.cutoff = today - days,
                          !.found = Present]]
  /\ UNCHANGED <<days, today, written, removed>>

IsOld(s, f) == days > 0 /\ written[f] < sweep[s].cutoff

Look(s, f) ==
  /\ sweep[s].at = "walking" /\ sweep[s].old = Unset
  /\ f \in Walked \ (sweep[s].seen \cup sweep[s].unlisted)
  /\ f \in Present

\* stat tells the file's age; an old one is unlinked next.
LookAt(s, f) ==
  /\ Look(s, f)
  /\ sweep' = [sweep EXCEPT ![s].seen = @ \cup {f},
                            ![s].old = IF IsOld(s, f) /\ ~sweep[s].dry
                                         THEN f ELSE Unset]
  /\ UNCHANGED <<days, today, written, removed>>

\* stat fails with another error than that the file is gone.
LookFails(s, f) ==
  /\ Look(s, f)
  /\ days > 0
  /\ sweep' = [sweep EXCEPT ![s].seen = @ \cup {f}, ![s].errors = @ \cup {f}]
  /\ UNCHANGED <<days, today, written, removed>>

\* rglob passes over a directory it has no permission to list: the files in
\* it are neither seen nor an error.
ListingRefused(s, f) ==
  /\ Look(s, f)
  /\ sweep' = [sweep EXCEPT ![s].unlisted = @ \cup {f}]
  /\ UNCHANGED <<days, today, written, removed>>

\* Any other error of rglob, or of is_file, ends the command.
WalkAborts(s) ==
  /\ sweep[s].at = "walking" /\ sweep[s].old = Unset
  /\ sweep' = [sweep EXCEPT ![s].at = "aborted"]
  /\ UNCHANGED <<days, today, written, removed>>

\* Mutant: unlink does not tell whether the file was there.
MissingOk(s, f) == TRUE

Unlinks(s, f) == f \in Present

Unlink(s) ==
  LET f == sweep[s].old IN
  /\ f # Unset
  /\ \/ /\ Unlinks(s, f)
        /\ removed' = [removed EXCEPT ![f] = today]
        /\ sweep' = [sweep EXCEPT ![s].old = Unset, ![s].deleted = @ \cup {f}]
     \/ /\ UNCHANGED removed
        /\ sweep' = [sweep EXCEPT ![s].old = Unset, ![s].errors = @ \cup {f}]
  /\ UNCHANGED <<days, today, written>>

\* Mutant: the exit code does not look at the errors.
AlwaysClean(s) == "clean"

ExitCode(s) == IF sweep[s].errors = {} \/ sweep[s].dry THEN "clean" ELSE "errors"

\* The walk is over when every file it could list was seen; one written
\* since it began may have been missed.
SweepEnds(s) ==
  /\ sweep[s].at = "walking" /\ sweep[s].old = Unset
  /\ sweep[s].found \cap Present \cap Walked
       \subseteq sweep[s].seen \cup sweep[s].unlisted
  /\ sweep' = [sweep EXCEPT ![s].at = ExitCode(s)]
  /\ UNCHANGED <<days, today, written, removed>>

-----------------------------------------------------------------------------
RetentionNext ==
  \/ DayPasses
  \/ \E f \in Files : FileWritten(f)
  \/ \E s \in Sweeps :
       \/ \E dry \in BOOLEAN : SweepBegins(s, dry)
       \/ \E f \in Files : LookAt(s, f) \/ LookFails(s, f) \/ ListingRefused(s, f)
       \/ Unlink(s) \/ SweepEnds(s) \/ WalkAborts(s)

RetentionSpec == RetentionInit /\ [][RetentionNext]_retentionVars

-----------------------------------------------------------------------------
Day == 0..MaxDay

RetentionTypeOK ==
  /\ days \in RetentionDays
  /\ today \in Day
  /\ written \in [Files -> Day \cup {Unset}]
  /\ removed \in [Files -> Day \cup {Unset}]
  /\ sweep \in [Sweeps ->
       [at : {"idle", "walking", "clean", "errors", "aborted"}, dry : BOOLEAN,
        cutoff : Int \cup {Unset}, old : Files \cup {Unset}, seen : SUBSET Files,
        deleted : SUBSET Files, errors : SUBSET Files, found : SUBSET Files,
        unlisted : SUBSET Files]]

(***************************************************************************)
(* Only what has outlived the retention is removed, whatever the sweeps at *)
(* once and the calls that write meanwhile: never a failure record, never  *)
(* a file by a dry run or with a retention of 0; and a file counts as      *)
(* deleted in one sweep only.                                              *)
(***************************************************************************)
OnlyExpiredRemoved ==
  /\ \A f \in Files : removed[f] # Unset =>
       /\ f \notin Failures
       /\ days > 0
       /\ removed[f] - written[f] > days
       /\ Cardinality({s \in Sweeps : f \in sweep[s].deleted}) = 1
  /\ \A s \in Sweeps : sweep[s].dry => sweep[s].deleted = {}

(***************************************************************************)
(* A sweep that ends with no error has done its work but for directories   *)
(* that rglob could not list, which it says nothing of: of the other files *)
(* that were there and too old when it began, none is left, though sweeps  *)
(* run at once and stat and unlink fail.                                   *)
(***************************************************************************)
CleanSweepClears ==
  \A s \in Sweeps : sweep[s].at = "clean" /\ ~sweep[s].dry /\ days > 0 =>
    \A f \in sweep[s].found \ (Failures \cup sweep[s].unlisted) :
      written[f] < sweep[s].cutoff => f \notin Present
=============================================================================
