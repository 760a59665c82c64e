-------------------------------- MODULE MCEnds --------------------------------
(***************************************************************************)
(* What must come to its end in a call: the call itself and the report of  *)
(* it, and the entries and actions of its keypad.  The two share no        *)
(* variable, so a behaviour here exercises one of them and leaves the      *)
(* other as it begins.                                                     *)
(***************************************************************************)
EXTENDS MCCallSession, Keypad

\* Each action on a key of its own menu.
OneKeyMenus == {[k \in {"1"} |-> a] : a \in Actions}

VARIABLE part   \* what this behaviour is about

EndsInit ==
  /\ part \in {"call", "keypad"}
  /\ SessionInit /\ KeypadInit
  \* What the other part begins with makes no difference.
  /\ part # "call" => idle.silence
  /\ part # "keypad" => menuOf["1"] = "transfer"

OnCall(action) == part = "call" /\ action /\ UNCHANGED <<keyVars, part>>

OnKeypad(action) == part = "keypad" /\ action /\ UNCHANGED <<allVars, part>>

EndsNext == OnCall(SessionNext) \/ OnKeypad(KeypadNext)

endsVars == <<allVars, keyVars, part>>

\* SessionFairness, for the behaviours about the call.
CallFairness ==
  /\ WF_endsVars(OnCall(SetupStep))
  /\ WF_endsVars(OnCall(GraceExpires))
  /\ WF_endsVars(OnCall(AbsoluteExpires))
  /\ WF_endsVars(OnCall(MaximumExpires))
  /\ \A p \in Paths : WF_endsVars(OnCall(GoodbyeStep(p)))
  /\ WF_endsVars(OnCall(setup = "running" /\ caller # "connected" /\ HandleClose))
  /\ WF_endsVars(OnCall(CloseFinalizes))
  /\ \A m \in Messages : WF_endsVars(OnCall(MessageDispatched(m)))
  /\ \A f \in Finalizers : WF_endsVars(OnCall(FanOut(f)))

\* KeypadFairness, for those about the keypad.
EntryFairness ==
  /\ \A k \in Keys : WF_endsVars(OnKeypad(Dispatch(k)))
  /\ WF_endsVars(OnKeypad(ActionStep))
  /\ \A e \in Entries : /\ WF_endsVars(OnKeypad(DeadlinePasses(e)))
                        /\ WF_endsVars(OnKeypad(Returns(e)))

EndsSpec == EndsInit /\ [][EndsNext]_endsVars /\ CallFairness /\ EntryFairness
=============================================================================
