------------------------------- MODULE MCKeypad -------------------------------
(***************************************************************************)
(* Instances of Keypad for TLC.                                            *)
(***************************************************************************)
EXTENDS Keypad

\* Menus on keys an entry uses too, with a long or a short action; no menu.
SharedMenus ==
  {[k \in {"1", Pound} |-> IF k = "1" THEN "transfer" ELSE "end_call"],
   [k \in {"1"} |-> "take_message"],
   [k \in {} |-> "transfer"]}
=============================================================================
