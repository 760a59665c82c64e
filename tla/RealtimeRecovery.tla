--------------------------- MODULE RealtimeRecovery ---------------------------
(***************************************************************************)
(* _RealtimeRecovery (receptionist/agent.py): every error event of the     *)
(* realtime session starts a task of handle_error, which speaks a filler,  *)
(* waits and asks for the reply again; a burst of errors is one recovery,  *)
(* and a call has a limited number of them.                                *)
(*                                                                         *)
(* The tasks start in the order of the errors, and run alone up to the     *)
(* backoff they sleep.                                                     *)
(***************************************************************************)
EXTENDS Naturals, Sequences, FiniteSets

CONSTANTS
  MaxRecoveries,  \* _MAX_REALTIME_RECOVERIES_PER_CALL
  MaxErrors       \* bound: the error events of a call

ASSUME RecoveryAssumption == MaxRecoveries \in Nat /\ MaxErrors \in Nat

VARIABLES
  recovering,  \* _in_flight
  recoveries,  \* _recovery_count
  handlers,    \* the task of each error: recoverable or not, and where it is
  owed         \* history: a recoverable error has come since the last retry

recoveryVars == <<recovering, recoveries, handlers, owed>>

HandlerPlaces == {"queued", "backoff", "done"}

RecoveryInit ==
  /\ recovering = FALSE
  /\ recoveries = 0
  /\ handlers = <<>>
  /\ owed = FALSE

\* An error event; _is_recoverable is about its text alone.
ErrorEvent(recoverable) ==
  /\ Len(handlers) < MaxErrors
  /\ handlers' = Append(handlers, [recoverable |-> recoverable, at |-> "queued"])
  /\ owed' = (owed \/ recoverable)
  /\ UNCHANGED <<recovering, recoveries>>

Starting(i) ==
  /\ handlers[i].at = "queued"
  /\ \A j \in 1..(i - 1) : handlers[j].at # "queued"

Recovers(i) ==
  /\ ~recovering
  /\ recoveries < MaxRecoveries
  /\ handlers[i].recoverable

\* The early returns: another recovery is in flight, the cap, not recoverable.
HandlerReturns(i) ==
  /\ Starting(i)
  /\ ~Recovers(i)
  /\ handlers' = [handlers EXCEPT ![i].at = "done"]
  /\ UNCHANGED <<recovering, recoveries, owed>>

\* The guard and the count are set before the first await.
HandlerBacksOff(i) ==
  /\ Starting(i)
  /\ Recovers(i)
  /\ handlers' = [handlers EXCEPT ![i].at = "backoff"]
  /\ recovering' = TRUE
  /\ recoveries' = recoveries + 1
  /\ UNCHANGED owed

\* Mutant: a generate_reply that raises leaves the guard set.
GuardKept(raised) == raised

GuardAfter(raised) == FALSE

\* generate_reply answers or raises; the finally clause clears the guard.
HandlerRetries(i) ==
  /\ handlers[i].at = "backoff"
  /\ handlers' = [handlers EXCEPT ![i].at = "done"]
  /\ \E raised \in BOOLEAN : recovering' = GuardAfter(raised)
  /\ owed' = FALSE
  /\ UNCHANGED recoveries

HandlerStep(i) == HandlerReturns(i) \/ HandlerBacksOff(i) \/ HandlerRetries(i)

-----------------------------------------------------------------------------
RecoveryNext ==
  \/ \E recoverable \in BOOLEAN : ErrorEvent(recoverable)
  \/ \E i \in DOMAIN handlers : HandlerStep(i)

RecoverySpec == RecoveryInit /\ [][RecoveryNext]_recoveryVars

-----------------------------------------------------------------------------
RecoveryTypeOK ==
  /\ recovering \in BOOLEAN
  /\ recoveries \in Nat
  /\ handlers \in Seq([recoverable : BOOLEAN, at : HandlerPlaces])
  /\ owed \in BOOLEAN

InBackoff == {i \in DOMAIN handlers : handlers[i].at = "backoff"}

(***************************************************************************)
(* A burst is one recovery and no rejected reply is forgotten: at most one *)
(* task sleeps, at most MaxRecoveries ever do; and once every task is done *)
(* the reply has been asked for again after the last recoverable error,    *)
(* unless the call had used up its recoveries.                             *)
(***************************************************************************)
RejectedReplyRetried ==
  /\ \A i, j \in InBackoff : i = j
  /\ recoveries <= MaxRecoveries
  /\ (\A i \in DOMAIN handlers : handlers[i].at = "done") /\ owed =>
       recoveries = MaxRecoveries
=============================================================================
