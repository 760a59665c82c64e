------------------------------ MODULE CallReport ------------------------------
(***************************************************************************)
(* What a call promises its operators, without the tasks that do it: the   *)
(* call is live, then reported once, then complete; an email is attempted  *)
(* only while it is being reported and never a second time; the reason     *)
(* noted for the agent's hanging up is never replaced.                     *)
(***************************************************************************)
EXTENDS Integers, Sequences

CONSTANTS
  Reasons, None,
  Emails          \* the identities of the emails a call may send

VARIABLES phase, reason, sent

callVars == <<phase, reason, sent>>

Init ==
  /\ phase = "live"
  /\ reason = None
  /\ sent = <<>>

\* A reason may be noted in any phase: end paths race with each other.
NoteReason ==
  /\ reason = None
  /\ reason' \in Reasons
  /\ UNCHANGED <<phase, sent>>

BeginReport ==
  /\ phase = "live"
  /\ phase' = "reporting"
  /\ UNCHANGED <<reason, sent>>

Send ==
  /\ phase = "reporting"
  /\ \E e \in Emails :
       /\ \A i \in DOMAIN sent : sent[i] # e
       /\ sent' = Append(sent, e)
  /\ UNCHANGED <<phase, reason>>

Complete ==
  /\ phase = "reporting"
  /\ phase' = "complete"
  /\ UNCHANGED <<reason, sent>>

Next == NoteReason \/ BeginReport \/ Send \/ Complete

Spec == Init /\ [][Next]_callVars
=============================================================================
