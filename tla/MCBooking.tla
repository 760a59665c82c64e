------------------------------ MODULE MCBooking ------------------------------
(***************************************************************************)
(* Instances of Booking for TLC: two tool calls of one call and one of     *)
(* another, and three people whose numbers end alike, two of them with one *)
(* name.                                                                   *)
(***************************************************************************)
EXTENDS Booking, TLC

CONSTANTS r1, r2, r3, c1, c2, p1, p2, p3, name1, name2, tail

TwoCalls == (r1 :> c1) @@ (r2 :> c1) @@ (r3 :> c2)
Names == (p1 :> name1) @@ (p2 :> name1) @@ (p3 :> name2)
Tails == [p \in Callers |-> tail]

BookingSymmetry == Permutations({r1, r2}) \cup Permutations({p1, p2})
=============================================================================
