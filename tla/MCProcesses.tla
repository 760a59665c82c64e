----------------------------- MODULE MCProcesses -----------------------------
(***************************************************************************)
(* What several processes of one installation do to the files they share:  *)
(* the launchers and workers to the generation file and the pidfile, the   *)
(* calls that need a token to the token file and its lock.  The two share  *)
(* no variable, so a behaviour here exercises one of them and leaves the   *)
(* other as it begins.                                                     *)
(***************************************************************************)
EXTENDS WorkerGeneration, VoiceAuth, TLC

CONSTANTS c1, c2, c3, p1, p2

\* Two callers in one process and one in another.
Shared == (c1 :> p1) @@ (c2 :> p1) @@ (c3 :> p2)

VARIABLE files   \* the files this behaviour is about

ProcessInit ==
  /\ files \in {"generation", "token"}
  /\ GenerationInit /\ VoiceInit
  \* What the other files begin with makes no difference.
  /\ files # "generation" => ~windows
  /\ files # "token" => expired = {}

OnGeneration(action) == files = "generation" /\ action /\ UNCHANGED <<voiceVars, files>>

OnToken(action) == files = "token" /\ action /\ UNCHANGED <<generationVars, files>>

ProcessNext == OnGeneration(GenerationNext) \/ OnToken(VoiceNext)

processVars == <<generationVars, voiceVars, files>>

\* GenerationFairness, for the behaviours about its files.
ProcessFairness == \A l \in Launchers : WF_processVars(OnGeneration(Checks(l)))

ProcessSpec == ProcessInit /\ [][ProcessNext]_processVars /\ ProcessFairness
=============================================================================
