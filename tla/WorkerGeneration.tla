--------------------------- MODULE WorkerGeneration ---------------------------
(***************************************************************************)
(* Restarting the worker: scripts/_spawn_agent.py stops the worker of the  *)
(* pidfile and, on Windows, the others of this checkout, writes a new      *)
(* generation token, starts a worker with it and writes its pid; every     *)
(* worker watches the token file and exits when it holds another token     *)
(* (the watchdog of receptionist/agent.py).                                *)
(*                                                                         *)
(* Launchers are separate processes: two may run at once and one may die   *)
(* between any two steps.  A launcher, its token and its worker have one   *)
(* name, for the token is a fresh uuid.                                    *)
(***************************************************************************)
EXTENDS Naturals, FiniteSets

CONSTANTS
  Launchers,  \* the runs of the launcher
  NoToken     \* the token file truncated, or absent

ASSUME LauncherAssumption == NoToken \notin Launchers

VARIABLES
  windows,     \* sys.platform == "win32"
  step,        \* the step each launcher is at
  died,        \* the launchers that died on the way
  generation,  \* the content of agent.generation
  pidfile,     \* the worker whose pid agent.pid holds
  worker       \* the worker each launcher has started

generationVars == <<windows, step, died, generation, pidfile, worker>>

\* The steps before the launcher's token is in the file, and those after.
BeforeToken == {"kill_prior", "kill_orphans", "open_token", "write_token"}
AfterToken == {"spawn", "write_pid", "launched", "spawn_failed"}

GenerationInit ==
  /\ windows \in BOOLEAN
  /\ step = [l \in Launchers |-> "idle"]
  /\ died = {}
  /\ generation = NoToken
  /\ pidfile = NoToken
  /\ worker = [l \in Launchers |-> "none"]

Alive == {l \in Launchers : worker[l] \in {"starting", "running"}}

\* Mutant: the token is written first, the workers are killed after it.
TokenFirst ==
  [idle |-> "open_token", open_token |-> "write_token",
   write_token |-> "kill_prior", kill_prior |-> "kill_orphans",
   kill_orphans |-> "spawn", spawn |-> "write_pid", write_pid |-> "launched"]

Following ==
  [idle |-> "kill_prior", kill_prior |-> "kill_orphans",
   kill_orphans |-> "open_token", open_token |-> "write_token",
   write_token |-> "spawn", spawn |-> "write_pid", write_pid |-> "launched"]

Does(l, s) ==
  /\ l \notin died
  /\ step[l] = s
  /\ step' = [step EXCEPT ![l] = Following[s]]

Launch(l) ==
  /\ Does(l, "idle")
  /\ UNCHANGED <<windows, died, generation, pidfile, worker>>

Kills(w) == worker' = [worker EXCEPT ![w] = IF w \in Alive THEN "gone" ELSE @]

\* Best effort: the kill may fail, and a pid of a worker gone stops nothing.
KillPrior(l) ==
  /\ Does(l, "kill_prior")
  /\ \/ pidfile # NoToken /\ Kills(pidfile)
     \/ UNCHANGED worker
  /\ UNCHANGED <<windows, died, generation, pidfile>>

\* taskkill for one of the processes listed as this checkout's.
KillOrphan(l, w) ==
  /\ l \notin died
  /\ step[l] = "kill_orphans"
  /\ windows
  /\ w \in Alive
  /\ Kills(w)
  /\ UNCHANGED <<windows, step, died, generation, pidfile>>

OrphansKilled(l) ==
  /\ Does(l, "kill_orphans")
  /\ UNCHANGED <<windows, died, generation, pidfile, worker>>

\* write_text opens the file, which empties it, and then writes the token.
OpenToken(l) ==
  /\ Does(l, "open_token")
  /\ generation' = NoToken
  /\ UNCHANGED <<windows, died, pidfile, worker>>

WriteToken(l) ==
  /\ Does(l, "write_token")
  /\ generation' = l
  /\ UNCHANGED <<windows, died, pidfile, worker>>

Spawn(l) ==
  /\ Does(l, "spawn")
  /\ worker' = [worker EXCEPT ![l] = "starting"]
  /\ UNCHANGED <<windows, died, generation, pidfile>>

SpawnFails(l) ==
  /\ l \notin died
  /\ step[l] = "spawn"
  /\ step' = [step EXCEPT ![l] = "spawn_failed"]
  /\ UNCHANGED <<windows, died, generation, pidfile, worker>>

WritePid(l) ==
  /\ Does(l, "write_pid")
  /\ pidfile' = l
  /\ UNCHANGED <<windows, died, generation, worker>>

Die(l) ==
  /\ step[l] \notin {"idle", "launched", "spawn_failed"}
  /\ died' = died \cup {l}
  /\ UNCHANGED <<windows, step, generation, pidfile, worker>>

LauncherStep(l) ==
  \/ Launch(l) \/ KillPrior(l) \/ (\E w \in Launchers : KillOrphan(l, w))
  \/ OrphansKilled(l) \/ OpenToken(l) \/ WriteToken(l)
  \/ Spawn(l) \/ SpawnFails(l) \/ WritePid(l) \/ Die(l)

(***************************************************************************)
(* The watchdog: once before the worker registers, then again and again in *)
(* its thread.                                                             *)
(***************************************************************************)
\* Mutant: a file that cannot be read tells nothing.
MatchesOrEmpty(l) == generation \in {l, NoToken}

MatchesFile(l) == generation = l

Checks(l) ==
  /\ l \in Alive
  /\ worker' = [worker EXCEPT ![l] = IF MatchesFile(l) THEN "running" ELSE "gone"]
  /\ UNCHANGED <<windows, step, died, generation, pidfile>>

-----------------------------------------------------------------------------
GenerationNext == \E l \in Launchers : LauncherStep(l) \/ Checks(l)

GenerationSpec == GenerationInit /\ [][GenerationNext]_generationVars

\* The watchdog is a loop in a daemon thread.
GenerationFairness == \A l \in Launchers : WF_generationVars(Checks(l))

-----------------------------------------------------------------------------
GenerationTypeOK ==
  /\ windows \in BOOLEAN
  /\ step \in [Launchers -> {"idle"} \cup BeforeToken \cup AfterToken]
  /\ died \in SUBSET Launchers
  /\ generation \in Launchers \cup {NoToken}
  /\ pidfile \in Launchers \cup {NoToken}
  /\ worker \in [Launchers -> {"none", "starting", "running", "gone"}]

(***************************************************************************)
(* The worker of the current token is never stopped by another launcher    *)
(* that is done with its own token, nor by the watchdog: if it is gone, a  *)
(* newer restart is under way, or one died before it wrote its token.  So  *)
(* of any number of restarts at once the last to write its token serves.   *)
(***************************************************************************)
NewestServes ==
  \A l \in Launchers :
    generation = l /\ worker[l] = "gone" =>
      \E m \in Launchers : step[m] \in BeforeToken

(***************************************************************************)
(* A worker whose token is no longer in the file does not stay: no stale   *)
(* worker goes on answering calls, even when its launcher died before it   *)
(* wrote the pid or between emptying and writing the token file.           *)
(***************************************************************************)
StaleWorkersGo ==
  \A l \in Launchers : l \in Alive /\ generation # l ~> l \notin Alive
=============================================================================
