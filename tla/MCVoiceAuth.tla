----------------------------- MODULE MCVoiceAuth -----------------------------
(***************************************************************************)
(* Three callers that refresh one token, each in a process of its own or   *)
(* two of them in one.                                                     *)
(***************************************************************************)
EXTENDS VoiceAuth, TLC

CONSTANTS c1, c2, c3, p1, p2, p3

Apart == (c1 :> p1) @@ (c2 :> p2) @@ (c3 :> p3)
Together == (c1 :> p1) @@ (c2 :> p1) @@ (c3 :> p2)
=============================================================================
