----------------------------- MODULE ProcessProofs -----------------------------
(***************************************************************************)
(* Theorems about the files processes share: WorkerGeneration for any      *)
(* number of launchers, VoiceAuth for any number of callers and processes. *)
(***************************************************************************)
EXTENDS WorkerGeneration, VoiceAuth, TLAPS

(***************************************************************************)
(* A worker exists only once its launcher has spawned it, which is after   *)
(* the launcher's token was written.                                       *)
(***************************************************************************)
SpawnedLate ==
  \A l \in Launchers : worker[l] # "none" => step[l] \in {"write_pid", "launched"}

GenerationInv == GenerationTypeOK /\ SpawnedLate /\ NewestServes

\* The launcher's steps in their order.
LEMMA StepsFollow ==
  /\ Following["idle"] = "kill_prior"
  /\ Following["kill_prior"] = "kill_orphans"
  /\ Following["kill_orphans"] = "open_token"
  /\ Following["open_token"] = "write_token"
  /\ Following["write_token"] = "spawn"
  /\ Following["spawn"] = "write_pid"
  /\ Following["write_pid"] = "launched"
  BY DEF Following

\* No worker has been spawned at first.
THEOREM GenerationInitHolds == GenerationInit => GenerationInv
  BY
     DEF GenerationInit, GenerationInv, GenerationTypeOK, SpawnedLate,
         NewestServes

\* A launcher moves on to the step that follows, and the others stay.
LEMMA Moving ==
  ASSUME GenerationTypeOK, NEW l \in Launchers, NEW s, Does(l, s),
         s \in {"idle", "kill_prior", "kill_orphans", "open_token", "write_token",
                "spawn", "write_pid"}
  PROVE  /\ step[l] = s
         /\ step' \in [Launchers -> {"idle"} \cup BeforeToken \cup AfterToken]
         /\ step'[l] = Following[s]
         /\ \A m \in Launchers \ {l} : step'[m] = step[m]
  BY StepsFollow DEF Does, GenerationTypeOK, BeforeToken, AfterToken

\* taskkill stops a worker that runs and nothing else.
LEMMA Killing ==
  ASSUME GenerationTypeOK, NEW w \in Launchers, Kills(w)
  PROVE  /\ worker' \in [Launchers -> {"none", "starting", "running", "gone"}]
         /\ \A m \in Launchers : worker[m] = "none" => worker'[m] = "none"
  BY DEF Kills, Alive, GenerationTypeOK

(***************************************************************************)
(* No step of a launcher breaks the invariant.  The kills come before the  *)
(* launcher's own token, so they leave a launcher at a step before it; and *)
(* the step that writes a token writes it for a worker not spawned yet.    *)
(***************************************************************************)
LEMMA LauncherKeeps ==
  ASSUME GenerationInv, NEW l \in Launchers, LauncherStep(l)
  PROVE  GenerationInv'
  <1> USE DEF GenerationInv
  <1>1. CASE Launch(l)
    <2>1. step'[l] = "kill_prior" /\ step[l] = "idle"
          /\ step' \in [Launchers -> {"idle"} \cup BeforeToken \cup AfterToken]
          /\ \A m \in Launchers \ {l} : step'[m] = step[m]
      BY <1>1, Moving, StepsFollow DEF Launch
    <2> QED BY <1>1, <2>1
        DEF Launch, GenerationTypeOK, SpawnedLate, NewestServes, BeforeToken,
            AfterToken
  <1>2. CASE KillPrior(l)
    <2>1. step'[l] = "kill_orphans" /\ step[l] = "kill_prior"
          /\ step' \in [Launchers -> {"idle"} \cup BeforeToken \cup AfterToken]
          /\ \A m \in Launchers \ {l} : step'[m] = step[m]
      BY <1>2, Moving, StepsFollow DEF KillPrior
    <2>2. /\ worker' \in [Launchers -> {"none", "starting", "running", "gone"}]
          /\ \A m \in Launchers : worker[m] = "none" => worker'[m] = "none"
      BY <1>2, Killing DEF KillPrior, GenerationTypeOK
    <2> QED BY <1>2, <2>1, <2>2
        DEF KillPrior, GenerationTypeOK, SpawnedLate, NewestServes, BeforeToken,
            AfterToken
  <1>3. ASSUME NEW w \in Launchers, KillOrphan(l, w) PROVE GenerationInv'
    <2>1. /\ worker' \in [Launchers -> {"none", "starting", "running", "gone"}]
          /\ \A m \in Launchers : worker[m] = "none" => worker'[m] = "none"
      BY <1>3, Killing DEF KillOrphan
    <2> QED BY <1>3, <2>1
        DEF KillOrphan, GenerationTypeOK, SpawnedLate, NewestServes, BeforeToken
  <1>4. CASE OrphansKilled(l)
    <2>1. step'[l] = "open_token" /\ step[l] = "kill_orphans"
          /\ step' \in [Launchers -> {"idle"} \cup BeforeToken \cup AfterToken]
          /\ \A m \in Launchers \ {l} : step'[m] = step[m]
      BY <1>4, Moving, StepsFollow DEF OrphansKilled
    <2> QED BY <1>4, <2>1
        DEF OrphansKilled, GenerationTypeOK, SpawnedLate, NewestServes,
            BeforeToken, AfterToken
  <1>5. CASE OpenToken(l)
    <2>1. step'[l] = "write_token" /\ step[l] = "open_token"
          /\ step' \in [Launchers -> {"idle"} \cup BeforeToken \cup AfterToken]
          /\ \A m \in Launchers \ {l} : step'[m] = step[m]
      BY <1>5, Moving, StepsFollow DEF OpenToken
    <2> QED BY <1>5, <2>1, LauncherAssumption
            DEF OpenToken, GenerationTypeOK, SpawnedLate, NewestServes,
                BeforeToken, AfterToken
  <1>6. CASE WriteToken(l)
    <2>1. step'[l] = "spawn" /\ step[l] = "write_token"
          /\ step' \in [Launchers -> {"idle"} \cup BeforeToken \cup AfterToken]
          /\ \A m \in Launchers \ {l} : step'[m] = step[m]
      BY <1>6, Moving, StepsFollow DEF WriteToken
    <2>2. worker[l] = "none" BY <2>1 DEF SpawnedLate
    <2> QED BY <1>6, <2>1, <2>2
        DEF WriteToken, GenerationTypeOK, SpawnedLate, NewestServes,
            BeforeToken, AfterToken
  <1>7. CASE Spawn(l)
    <2>1. step'[l] = "write_pid" /\ step[l] = "spawn"
          /\ step' \in [Launchers -> {"idle"} \cup BeforeToken \cup AfterToken]
          /\ \A m \in Launchers \ {l} : step'[m] = step[m]
      BY <1>7, Moving, StepsFollow DEF Spawn
    <2> QED BY <1>7, <2>1
        DEF Spawn, GenerationTypeOK, SpawnedLate, NewestServes, BeforeToken,
            AfterToken
  <1>8. CASE SpawnFails(l)
    BY <1>8
       DEF SpawnFails, GenerationTypeOK, SpawnedLate, NewestServes, BeforeToken,
           AfterToken
  <1>9. CASE WritePid(l)
    <2>1. step'[l] = "launched" /\ step[l] = "write_pid"
          /\ step' \in [Launchers -> {"idle"} \cup BeforeToken \cup AfterToken]
          /\ \A m \in Launchers \ {l} : step'[m] = step[m]
      BY <1>9, Moving, StepsFollow DEF WritePid
    <2> QED BY <1>9, <2>1
        DEF WritePid, GenerationTypeOK, SpawnedLate, NewestServes, BeforeToken,
            AfterToken
  <1>10. CASE Die(l)
    BY <1>10 DEF Die, GenerationTypeOK, SpawnedLate, NewestServes
  <1> QED BY <1>1, <1>2, <1>3, <1>4, <1>5, <1>6, <1>7, <1>8, <1>9, <1>10
      DEF LauncherStep

\* The watchdog stops only a worker whose token is not in the file.
LEMMA WatchdogKeeps ==
  ASSUME GenerationInv, NEW l \in Launchers, Checks(l)
  PROVE  GenerationInv'
  <1>1. worker[l] # "none" BY DEF Checks, Alive
  <1>2. worker' = [worker EXCEPT ![l] = IF generation = l THEN "running" ELSE "gone"]
    BY DEF Checks, MatchesFile
  <1>3. GenerationTypeOK'
    BY <1>2 DEF Checks, GenerationInv, GenerationTypeOK
  <1>4. SpawnedLate'
    BY <1>1, <1>2 DEF Checks, GenerationInv, GenerationTypeOK, SpawnedLate
  <1>5. NewestServes'
    BY <1>2 DEF Checks, GenerationInv, GenerationTypeOK, NewestServes
  <1> QED BY <1>3, <1>4, <1>5 DEF GenerationInv

\* A step of another part changes nothing of the launchers.
LEMMA GenerationStutters ==
  GenerationInv /\ UNCHANGED generationVars => GenerationInv'
  BY
     DEF generationVars, GenerationInv, GenerationTypeOK, SpawnedLate,
         NewestServes,
         BeforeToken, AfterToken

(***************************************************************************)
(* The files and workers have their types, and of any number of restarts   *)
(* at once the last to write its token serves, for any number of           *)
(* launchers: SpawnedLate is what makes NewestServes inductive, for a      *)
(* token is never written for a worker that could already have been        *)
(* stopped.                                                                *)
(***************************************************************************)
THEOREM NewestWorkerServes == GenerationSpec => [](GenerationTypeOK /\ NewestServes)
  <1>1. GenerationInit => GenerationInv BY GenerationInitHolds
  <1>2. GenerationInv /\ [GenerationNext]_generationVars => GenerationInv'
    BY LauncherKeeps, WatchdogKeeps, GenerationStutters DEF GenerationNext
  <1>3. GenerationInv => GenerationTypeOK /\ NewestServes BY DEF GenerationInv
  <1> QED BY <1>1, <1>2, <1>3, PTL DEF GenerationSpec

-----------------------------------------------------------------------------
(***************************************************************************)
(* VoiceAuth: until a caller is robbed, the lock file is that of the       *)
(* caller refreshing.  And until a lock has grown stale, none is robbed:   *)
(* nobody is about to take one for abandoned, and a caller removes its     *)
(* own.                                                                    *)
(***************************************************************************)
Refreshing == {"reread", "post", "write"}

Owns(c) == lock # None /\ lock.owner = c

LockIsOwned ==
  /\ ~robbed => \A c \in Callers : at[c] \in Refreshing => Owns(c)
  /\ ~aged =>
       /\ ~robbed
       /\ lock # None => ~lock.stale
       /\ \A c \in Callers : /\ at[c] # "unlink"
                             /\ at[c] = "remove" => Owns(c)

(***************************************************************************)
(* What the holder of the lock knows of the tokens, unless an answer was   *)
(* lost: the one it posts is on file and not spent, the one it writes is   *)
(* not spent; only between the two is the one on file spent.               *)
(***************************************************************************)
TokensKnown ==
  ~robbed /\ ~lost =>
    /\ rejected = {}
    /\ file.refresh <= issued /\ spent \subseteq 0..issued
    /\ file.refresh \in spent => \E c \in Callers : at[c] = "write"
    /\ \A c \in Callers :
         /\ at[c] = "post" => token[c] = file.refresh /\ token[c] \notin spent
         /\ at[c] = "write" => /\ answer[c].refresh \notin spent
                               /\ answer[c].refresh <= issued

\* What a caller under way has read, and what it is about to write.
Carried ==
  \A c \in Callers :
    /\ at[c] \in {"thread"} \cup Locking \cup Critical => token[c] \in Generations
    /\ at[c] = "write" => answer[c] \in Pair

VoiceInv == VoiceTypeOK /\ Carried /\ LockIsOwned /\ TokensKnown

\* The generations of a token are natural numbers from 0.
LEMMA GenerationsFromZero == 0 \in Generations /\ Generations \subseteq Nat
  BY VoiceAssumption DEF Generations

\* No process has read anything and nobody holds a lock at first.
THEOREM VoiceInitHolds == VoiceInit => VoiceInv
  <1> SUFFICES ASSUME VoiceInit PROVE VoiceInv OBVIOUS
  <1>1. VoiceTypeOK
    BY GenerationsFromZero DEF VoiceInit, VoiceTypeOK, Pair, Lock
  <1>2. LockIsOwned BY DEF VoiceInit, LockIsOwned, Refreshing
  <1>3. TokensKnown BY DEF VoiceInit, TokensKnown
  <1>4. Carried BY DEF VoiceInit, Carried, Locking, Critical
  <1> QED BY <1>1, <1>2, <1>3, <1>4 DEF VoiceInv

Labels == {"start", "thread"} \cup Locking \cup Critical \cup Ended

\* A caller that moves goes to a place there is.
LEMMA MovesTyped ==
  ASSUME at \in [Callers -> Labels], NEW c \in Callers, NEW l \in Labels, Moves(c, l)
  PROVE  at' \in [Callers -> Labels] /\ at'[c] = l
         /\ \A d \in Callers \ {c} : at'[d] = at[d]
  BY DEF Moves

\* The cache of the caller's process takes a pair of the generations there are.
LEMMA CacheTyped ==
  ASSUME VoiceTypeOK, NEW c \in Callers, NEW pair \in Pair, Cache(c, pair)
  PROVE  cache' \in [Processes -> [Generations -> Generations \cup {None}]]
  <1>1. pair.access \in Generations /\ pair.refresh \in Generations BY DEF Pair
  <1>2. ProcessOf[c] \in Processes BY VoiceAssumption
  <1>3. cache[ProcessOf[c]] \in [Generations -> Generations \cup {None}]
    BY <1>2 DEF VoiceTypeOK
  <1>4. [cache[ProcessOf[c]] EXCEPT ![pair.refresh] = pair.access]
          \in [Generations -> Generations \cup {None}]
    BY <1>1, <1>3
  <1>5. cache' = [cache EXCEPT ![ProcessOf[c]] =
                    [cache[ProcessOf[c]] EXCEPT ![pair.refresh] = pair.access]]
    BY DEF Cache
  <1> QED BY <1>2, <1>4, <1>5 DEF VoiceTypeOK

\* What the server issues is new or the token posted.
LEMMA IssueTyped ==
  ASSUME VoiceTypeOK, NEW c \in Callers, token[c] \in Generations,
         NEW pair \in Pair, Issue(c, pair)
  PROVE  /\ issued' \in Generations /\ issued' = issued + 1
         /\ spent' \subseteq Generations
  <1>1. issued' = issued + 1 /\ issued < MaxIssued BY DEF Issue
  <1>2. issued' \in Generations BY <1>1, VoiceAssumption
      DEF Generations, VoiceTypeOK
  <1>3. spent' \subseteq Generations BY DEF Issue, VoiceTypeOK
  <1> QED BY <1>1, <1>2, <1>3

\* The file is read: the caller has the token on file.
LEMMA ReadKeeps ==
  ASSUME VoiceInv, NEW c \in Callers, Read(c)
  PROVE  VoiceInv'
  <1> USE DEF VoiceInv
  <1>1. /\ at[c] = "start" /\ at'[c] \in {"done", "thread"}
        /\ at' \in [Callers -> Labels]
        /\ \A d \in Callers \ {c} : at'[d] = at[d]
    BY MovesTyped DEF Read, VoiceTypeOK, Labels, Locking, Critical, Pair, Ended
  <1>2. VoiceTypeOK'
    BY <1>1, CacheTyped
       DEF Read, VoiceTypeOK, Carried, server, locals, history, lockFile,
           Labels,
           Critical,
           Pair, FreshOnFile, FreshInCache
  <1>3. Carried'
    BY <1>1
       DEF Read, VoiceTypeOK, Carried, server, locals, history, lockFile,
           Locking,
           Critical,
           Pair, FreshOnFile, FreshInCache
  <1>4. LockIsOwned'
    BY <1>1
       DEF Read, VoiceTypeOK, LockIsOwned, Refreshing, Owns, server, locals,
           history, lockFile, Critical,
           FreshOnFile, FreshInCache
  <1>5. TokensKnown'
    BY <1>1
       DEF Read, VoiceTypeOK, LockIsOwned, Refreshing, Owns, TokensKnown,
           server, locals, history, lockFile,
           Critical, FreshOnFile, FreshInCache
  <1> QED BY <1>2, <1>3, <1>4, <1>5

\* Nobody else of the process holds the token it was read for.
LEMMA EnterThreadLockKeeps ==
  ASSUME VoiceInv, NEW c \in Callers, EnterThreadLock(c)
  PROVE  VoiceInv'
  <1> USE DEF VoiceInv
  <1>1. /\ at[c] = "thread" /\ at'[c] \in {"create"}
        /\ at' \in [Callers -> Labels]
        /\ \A d \in Callers \ {c} : at'[d] = at[d]
    BY MovesTyped
       DEF EnterThreadLock, VoiceTypeOK, Labels, Locking, Critical, Ended
  <1>2. VoiceTypeOK'
    BY <1>1
       DEF EnterThreadLock, VoiceTypeOK, Carried, server, locals, history,
           lockFile,
           Labels,
           Critical, Pair
  <1>3. Carried'
    BY <1>1
       DEF EnterThreadLock, VoiceTypeOK, Carried, server, locals, history,
           lockFile,
           Locking,
           Critical
  <1>4. LockIsOwned'
    BY <1>1
       DEF EnterThreadLock, VoiceTypeOK, LockIsOwned, Refreshing, Owns, server,
           locals, history, lockFile,
           Critical
  <1>5. TokensKnown'
    BY <1>1
       DEF EnterThreadLock, VoiceTypeOK, LockIsOwned, Refreshing, Owns,
           TokensKnown, server,
           locals, history, lockFile, Critical
  <1> QED BY <1>2, <1>3, <1>4, <1>5

\* The lock file is created only where there is none, so nobody refreshes
\* under one then.
LEMMA CreateLockKeeps ==
  ASSUME VoiceInv, NEW c \in Callers, CreateLock(c)
  PROVE  VoiceInv'
  <1> USE DEF VoiceInv
  <1>1. /\ at[c] = "create" /\ at'[c] \in {"exists", "reread", "failed"}
        /\ at' \in [Callers -> Labels]
        /\ \A d \in Callers \ {c} : at'[d] = at[d]
    BY MovesTyped DEF CreateLock, VoiceTypeOK, Labels, Locking, Critical, Ended
  <1>2. \/ lock' = lock /\ at'[c] \in {"exists", "failed"}
        \/ lock = None /\ lock' = [owner |-> c, stale |-> FALSE]
        \/ /\ lock = None /\ at'[c] = "failed"
           /\ lock' = [owner |-> None, stale |-> FALSE]
    BY MovesTyped, <1>1
       DEF CreateLock, LockExists, VoiceTypeOK, Labels, Locking, Critical, Ended
  <1>3. /\ [owner |-> c, stale |-> FALSE] \in Lock
        /\ [owner |-> None, stale |-> FALSE] \in Lock
    BY DEF Lock
  <1>4. VoiceTypeOK'
    <2>1. lock' \in Lock \cup {None} BY <1>2, <1>3 DEF VoiceTypeOK
    <2> QED
      BY <1>1, <2>1
         DEF CreateLock, VoiceTypeOK, server, locals, history, Labels
  <1>5. Carried'
    BY <1>1 DEF CreateLock, Carried, server, locals, Locking, Critical
  <1>6. LockIsOwned'
    <2>1. UNCHANGED <<aged, robbed>> BY DEF CreateLock
    <2>2. CASE lock' = lock /\ at'[c] \in {"exists", "failed"}
      BY <1>1, <2>1, <2>2 DEF LockIsOwned, Refreshing, Owns
    <2>3. CASE lock = None /\ lock' = [owner |-> c, stale |-> FALSE]
      <3>1. lock' # None BY <1>3, <2>3, VoiceAssumption DEF Lock
      <3> QED BY <1>1, <2>1, <2>3, <3>1 DEF LockIsOwned, Refreshing, Owns
    <2>4. CASE /\ lock = None /\ at'[c] = "failed"
               /\ lock' = [owner |-> None, stale |-> FALSE]
      BY <1>1, <2>1, <2>4 DEF LockIsOwned, Refreshing, Owns
    <2> QED BY <1>2, <2>2, <2>3, <2>4
  <1>7. TokensKnown'
    BY <1>1 DEF CreateLock, TokensKnown, server, locals, history
  <1> QED BY <1>4, <1>5, <1>6, <1>7

\* A lock is found stale only when one has aged.
LEMMA LookAtLockKeeps ==
  ASSUME VoiceInv, NEW c \in Callers, LookAtLock(c)
  PROVE  VoiceInv'
  <1> USE DEF VoiceInv
  <1>1. /\ at[c] = "exists" /\ at'[c] \in {"create", "unlink", "failed"}
        /\ at' \in [Callers -> Labels]
        /\ \A d \in Callers \ {c} : at'[d] = at[d]
        /\ at'[c] = "unlink" => lock # None /\ lock.stale
    BY MovesTyped
       DEF LookAtLock, Waits, VoiceTypeOK, Labels, Locking, Critical, Ended
  <1>2. VoiceTypeOK'
    BY <1>1
       DEF LookAtLock, VoiceTypeOK, server, locals, history, lockFile, Labels
  <1>3. Carried'
    BY <1>1 DEF LookAtLock, Carried, server, locals, Locking, Critical
  <1>4. LockIsOwned'
    BY <1>1 DEF LookAtLock, LockIsOwned, Refreshing, Owns, lockFile
  <1>5. TokensKnown'
    BY <1>1 DEF LookAtLock, TokensKnown, server, locals, history, lockFile
  <1> QED BY <1>2, <1>3, <1>4, <1>5

\* Unlinking the lock of a caller that refreshes under it is robbing it.
LEMMA UnlinksKeeps ==
  ASSUME VoiceTypeOK, LockIsOwned, NEW c \in Callers, Unlinks(c),
         at[c] \in {"unlink", "remove"}, at'[c] \notin {"unlink", "remove"} \cup Refreshing,
         \A d \in Callers \ {c} : at'[d] = at[d]
  PROVE  LockIsOwned' /\ lock' = None /\ aged' = aged /\ robbed' \in BOOLEAN
         /\ (robbed => robbed')
  <1>1. lock' = None /\ aged' = aged /\ robbed' \in BOOLEAN /\ (robbed => robbed')
    BY DEF Unlinks, VoiceTypeOK
  <1>2. ASSUME ~robbed', NEW d \in Callers, at'[d] \in Refreshing PROVE FALSE
    <2>1. d # c /\ at[d] \in Refreshing BY <1>2
    <2>2. lock # None /\ lock.owner = d BY <1>1, <1>2, <2>1
        DEF LockIsOwned, Owns
    <2> QED BY <1>2, <2>1, <2>2, VoiceAssumption DEF Unlinks, Refreshing
  <1>3. ASSUME ~aged
        PROVE  ~robbed' /\ \A d \in Callers : at'[d] \notin {"unlink", "remove"}
    <2>1. at[c] = "remove" /\ lock # None /\ lock.owner = c /\ ~robbed
      BY <1>3 DEF LockIsOwned, Owns
    <2>2. ~robbed' BY <2>1 DEF Unlinks
    <2>3. \A d \in Callers \ {c} : at[d] \notin {"unlink", "remove"}
      BY <1>3, <2>1 DEF LockIsOwned, Owns
    <2> QED BY <2>2, <2>3
  <1> QED BY <1>1, <1>2, <1>3 DEF LockIsOwned

LEMMA UnlinkStaleKeeps ==
  ASSUME VoiceInv, NEW c \in Callers, UnlinkStale(c)
  PROVE  VoiceInv'
  <1> USE DEF VoiceInv
  <1>1. /\ at[c] = "unlink" /\ at'[c] \in {"create", "failed"}
        /\ at' \in [Callers -> Labels]
        /\ \A d \in Callers \ {c} : at'[d] = at[d]
    BY MovesTyped
       DEF UnlinkStale, Waits, VoiceTypeOK, Labels, Locking, Critical, Ended
  <1>2. LockIsOwned' /\ lock' \in Lock \cup {None} /\ aged' = aged
        /\ robbed' \in BOOLEAN /\ (robbed => robbed')
    <2>1. CASE Unlinks(c) BY <1>1, <2>1, UnlinksKeeps DEF Refreshing
    <2>2. CASE UNCHANGED lockFile
      BY <1>1, <2>2 DEF lockFile, LockIsOwned, Refreshing, Owns, VoiceTypeOK
    <2> QED BY <2>1, <2>2 DEF UnlinkStale
  <1>3. VoiceTypeOK'
    BY <1>1, <1>2
       DEF UnlinkStale, VoiceTypeOK, server, locals, history, Labels
  <1>4. Carried'
    BY <1>1 DEF UnlinkStale, Carried, server, locals, Locking, Critical
  <1>5. TokensKnown'
    BY <1>1, <1>2 DEF UnlinkStale, TokensKnown, server, locals, history
  <1> QED BY <1>2, <1>3, <1>4, <1>5

\* The holder reads the file again: if its token were spent, the caller that
\* writes its successor would hold the lock too.
LEMMA RereadKeeps ==
  ASSUME VoiceInv, NEW c \in Callers, Reread(c)
  PROVE  VoiceInv'
  <1> USE DEF VoiceInv
  <1>1. /\ at[c] = "reread" /\ at'[c] \in {"release", "post"}
        /\ at' \in [Callers -> Labels]
        /\ \A d \in Callers \ {c} : at'[d] = at[d]
    BY MovesTyped
       DEF Reread, VoiceTypeOK, Labels, Locking, Critical, Pair, Ended,
           RereadToken
  <1>2. VoiceTypeOK'
    BY <1>1, CacheTyped
       DEF Reread, VoiceTypeOK, Carried, server, locals, history, lockFile,
           Labels,
           Critical,
           Pair, RereadToken, FreshOnFile, FreshInCache
  <1>3. Carried'
    BY <1>1
       DEF Reread, VoiceTypeOK, Carried, server, locals, history, lockFile,
           Locking,
           Critical,
           Pair, RereadToken, FreshOnFile, FreshInCache
  <1>4. LockIsOwned'
    BY <1>1
       DEF Reread, VoiceTypeOK, LockIsOwned, Refreshing, Owns, server, locals,
           history, lockFile, Critical,
           RereadToken, FreshOnFile, FreshInCache
  <1>5. TokensKnown'
    BY <1>1
       DEF Reread, VoiceTypeOK, LockIsOwned, Refreshing, Owns, TokensKnown,
           server, locals,
           history, lockFile,
           Critical, RereadToken, FreshOnFile, FreshInCache
  <1> QED BY <1>2, <1>3, <1>4, <1>5

\* The pair issued is not spent, whether its refresh token is new or the one
\* posted, and no other caller holds what the file has.
LEMMA RefreshedKeeps ==
  ASSUME VoiceInv, NEW c \in Callers, Refreshed(c)
  PROVE  VoiceInv'
  <1> USE DEF VoiceInv
  <1>1. /\ at[c] = "post" /\ at'[c] \in {"write"}
        /\ at' \in [Callers -> Labels]
        /\ \A d \in Callers \ {c} : at'[d] = at[d]
    BY MovesTyped DEF Refreshed, VoiceTypeOK, Labels, Locking, Critical, Ended
  <1>0. PICK pair \in Pair : Issue(c, pair) /\ answer' = [answer EXCEPT ![c] = pair]
    BY DEF Refreshed
  <1>9. token[c] \in Generations BY <1>1 DEF Carried, Critical
  <1>2. VoiceTypeOK'
    <2>1. issued' \in Generations /\ spent' \subseteq Generations
      BY <1>0, <1>9, IssueTyped
    <2> QED
      BY <1>0, <1>1, <2>1
         DEF Refreshed, VoiceTypeOK, Carried, server, locals, history, lockFile,
             Labels,
             Critical, Pair
  <1>3. Carried'
    BY <1>0, <1>1
       DEF Refreshed, VoiceTypeOK, Carried, server, locals, history, lockFile,
           Locking,
           Critical
  <1>4. LockIsOwned'
    BY <1>1
       DEF Refreshed, VoiceTypeOK, LockIsOwned, Refreshing, Owns, server,
           locals, history, lockFile,
           Critical
  <1>5. TokensKnown'
    <2> SUFFICES ASSUME ~robbed, ~lost PROVE TokensKnown'
      BY DEF Refreshed, TokensKnown, history, lockFile
    <2>1. /\ issued' = issued + 1 /\ issued \in Nat
          /\ \/ pair.refresh = issued + 1 /\ spent' = spent \cup {token[c]}
             \/ pair.refresh = token[c] /\ spent' = spent
      BY <1>0, GenerationsFromZero DEF Issue, VoiceTypeOK
    <2>2. /\ token[c] = file.refresh /\ token[c] \notin spent
          /\ file.refresh <= issued /\ spent \subseteq 0..issued
      BY <1>1 DEF TokensKnown
    <2>3. pair.refresh \in Nat /\ file.refresh \in Nat
      BY GenerationsFromZero DEF Pair, VoiceTypeOK
    <2>4. /\ spent' \subseteq 0..issued' /\ pair.refresh \notin spent'
          /\ pair.refresh <= issued'
      <3>1. CASE pair.refresh = issued + 1 /\ spent' = spent \cup {token[c]}
        <4>1. issued + 1 \notin spent /\ token[c] # issued + 1
          BY <2>1, <2>2, <2>3
        <4>2. \A g \in spent' : g \in 0..(issued + 1) BY <2>1, <2>2, <2>3, <3>1
        <4> QED BY <2>1, <3>1, <4>1, <4>2
      <3>2. CASE pair.refresh = token[c] /\ spent' = spent
        <4>1. \A g \in spent' : g \in 0..(issued + 1) BY <2>1, <2>2, <3>2
        <4> QED BY <2>1, <2>2, <2>3, <3>2, <4>1
      <3> QED BY <2>1, <3>1, <3>2
    <2>5. \A d \in Callers : at'[d] \in {"post", "write"} => d = c
      BY <1>1 DEF LockIsOwned, Refreshing, Owns
    <2>6. at'[c] = "write" /\ answer'[c] = pair
      BY <1>0, <1>1 DEF VoiceTypeOK
    <2>7. file' = file /\ rejected' = rejected BY DEF Refreshed, history
    <2> QED BY <2>1, <2>2, <2>3, <2>4, <2>5, <2>6, <2>7 DEF TokensKnown
  <1> QED BY <1>2, <1>3, <1>4, <1>5

\* Nothing is claimed once an answer is lost.
LEMMA AnswerLostKeeps ==
  ASSUME VoiceInv, NEW c \in Callers, AnswerLost(c)
  PROVE  VoiceInv'
  <1> USE DEF VoiceInv
  <1>1. /\ at[c] = "post" /\ at'[c] \in {"release"}
        /\ at' \in [Callers -> Labels]
        /\ \A d \in Callers \ {c} : at'[d] = at[d]
    BY MovesTyped DEF AnswerLost, VoiceTypeOK, Labels, Locking, Critical, Ended
  <1>2. VoiceTypeOK'
    BY <1>1, IssueTyped
       DEF AnswerLost, VoiceTypeOK, Carried, server, locals, history, lockFile,
           Labels,
           Critical, Pair
  <1>3. Carried'
    BY <1>1
       DEF AnswerLost, VoiceTypeOK, Carried, server, locals, history, lockFile,
           Locking,
           Critical
  <1>4. LockIsOwned'
    BY <1>1
       DEF AnswerLost, VoiceTypeOK, LockIsOwned, Refreshing, Owns, server,
           locals, history, lockFile,
           Critical
  <1>5. TokensKnown'
    BY <1>1
       DEF AnswerLost, VoiceTypeOK, LockIsOwned, Refreshing, Owns, TokensKnown,
           server, locals,
           history, lockFile, Critical
  <1> QED BY <1>2, <1>3, <1>4, <1>5

\* A request without effect changes no token.
LEMMA RequestFailsKeeps ==
  ASSUME VoiceInv, NEW c \in Callers, RequestFails(c)
  PROVE  VoiceInv'
  <1> USE DEF VoiceInv
  <1>1. /\ at[c] = "post" /\ at'[c] \in {"release"}
        /\ at' \in [Callers -> Labels]
        /\ \A d \in Callers \ {c} : at'[d] = at[d]
    BY MovesTyped
       DEF RequestFails, VoiceTypeOK, Labels, Locking, Critical, Ended
  <1>2. VoiceTypeOK'
    BY <1>1
       DEF RequestFails, VoiceTypeOK, Carried, server, locals, history,
           lockFile, Labels,
           Critical, Pair
  <1>3. Carried'
    BY <1>1
       DEF RequestFails, VoiceTypeOK, Carried, server, locals, history,
           lockFile, Locking,
           Critical
  <1>4. LockIsOwned'
    BY <1>1
       DEF RequestFails, VoiceTypeOK, LockIsOwned, Refreshing, Owns, server,
           locals, history, lockFile,
           Critical
  <1>5. TokensKnown'
    BY <1>1
       DEF RequestFails, VoiceTypeOK, LockIsOwned, Refreshing, Owns,
           TokensKnown, server, locals,
           history, lockFile, Critical
  <1> QED BY <1>2, <1>3, <1>4, <1>5

\* The token posted is not spent.
LEMMA RefreshRejectedKeeps ==
  ASSUME VoiceInv, NEW c \in Callers, RefreshRejected(c)
  PROVE  VoiceInv'
  <1> USE DEF VoiceInv
  <1>1. /\ at[c] = "post" /\ at'[c] \in {"release"}
        /\ at' \in [Callers -> Labels]
        /\ \A d \in Callers \ {c} : at'[d] = at[d]
    BY MovesTyped
       DEF RefreshRejected, VoiceTypeOK, Labels, Locking, Critical, Ended
  <1>2. VoiceTypeOK'
    BY <1>1
       DEF RefreshRejected, VoiceTypeOK, Carried, server, locals, history,
           lockFile,
           Labels,
           Critical, Pair
  <1>3. Carried'
    BY <1>1
       DEF RefreshRejected, VoiceTypeOK, Carried, server, locals, history,
           lockFile,
           Locking,
           Critical
  <1>4. LockIsOwned'
    BY <1>1
       DEF RefreshRejected, VoiceTypeOK, LockIsOwned, Refreshing, Owns, server,
           locals, history, lockFile,
           Critical
  <1>5. TokensKnown'
    BY <1>1
       DEF RefreshRejected, VoiceTypeOK, LockIsOwned, Refreshing, Owns,
           TokensKnown, server,
           locals, history, lockFile, Critical
  <1> QED BY <1>2, <1>3, <1>4, <1>5

\* The pair written is not spent.
LEMMA WriteFileKeeps ==
  ASSUME VoiceInv, NEW c \in Callers, WriteFile(c)
  PROVE  VoiceInv'
  <1> USE DEF VoiceInv
  <1>1. /\ at[c] = "write" /\ at'[c] \in {"release"}
        /\ at' \in [Callers -> Labels]
        /\ \A d \in Callers \ {c} : at'[d] = at[d]
    BY MovesTyped DEF WriteFile, VoiceTypeOK, Labels, Locking, Critical, Ended
  <1>2. VoiceTypeOK'
    BY <1>1, CacheTyped
       DEF WriteFile, VoiceTypeOK, Carried, server, locals, history, lockFile,
           Labels,
           Critical, Pair, Written
  <1>3. Carried'
    BY <1>1
       DEF WriteFile, VoiceTypeOK, Carried, server, locals, history, lockFile,
           Locking,
           Critical, Written
  <1>4. LockIsOwned'
    BY <1>1
       DEF WriteFile, VoiceTypeOK, LockIsOwned, Refreshing, Owns, server,
           locals, history, lockFile,
           Critical,
           Written
  <1>5. TokensKnown'
    BY <1>1
       DEF WriteFile, VoiceTypeOK, LockIsOwned, Refreshing, Owns, TokensKnown,
           server, locals,
           history, lockFile, Critical, Written
  <1> QED BY <1>2, <1>3, <1>4, <1>5

\* A caller goes on to remove a lock only when it reads its own name there.
LEMMA ReleaseLockKeeps ==
  ASSUME VoiceInv, NEW c \in Callers, ReleaseLock(c)
  PROVE  VoiceInv'
  <1> USE DEF VoiceInv
  <1>1. /\ at[c] = "release" /\ at'[c] \in {"remove", "done"}
        /\ at' \in [Callers -> Labels]
        /\ \A d \in Callers \ {c} : at'[d] = at[d]
        /\ at'[c] = "remove" => Owns(c)
    BY MovesTyped
       DEF ReleaseLock, Owns, VoiceTypeOK, Labels, Locking, Critical, Ended
  <1>2. VoiceTypeOK'
    BY <1>1
       DEF ReleaseLock, VoiceTypeOK, server, locals, history, lockFile, Labels
  <1>3. Carried'
    BY <1>1 DEF ReleaseLock, Carried, server, locals, Locking, Critical
  <1>4. LockIsOwned'
    BY <1>1 DEF ReleaseLock, LockIsOwned, Refreshing, Owns, lockFile
  <1>5. TokensKnown'
    BY <1>1 DEF ReleaseLock, TokensKnown, server, locals, history, lockFile
  <1> QED BY <1>2, <1>3, <1>4, <1>5

\* The lock it removes is another's only when its own has aged.
LEMMA RemoveLockKeeps ==
  ASSUME VoiceInv, NEW c \in Callers, RemoveLock(c)
  PROVE  VoiceInv'
  <1> USE DEF VoiceInv
  <1>1. /\ at[c] = "remove" /\ at'[c] = "done"
        /\ at' \in [Callers -> Labels]
        /\ \A d \in Callers \ {c} : at'[d] = at[d]
    BY MovesTyped DEF RemoveLock, VoiceTypeOK, Labels, Locking, Critical, Ended
  <1>2. LockIsOwned' /\ lock' \in Lock \cup {None} /\ aged' = aged
        /\ robbed' \in BOOLEAN /\ (robbed => robbed')
    <2>1. CASE Unlinks(c) BY <1>1, <2>1, UnlinksKeeps DEF Refreshing
    <2>2. CASE UNCHANGED lockFile
      BY <1>1, <2>2 DEF lockFile, LockIsOwned, Refreshing, Owns, VoiceTypeOK
    <2> QED BY <2>1, <2>2 DEF RemoveLock
  <1>3. VoiceTypeOK'
    BY <1>1, <1>2
       DEF RemoveLock, VoiceTypeOK, server, locals, history, Labels
  <1>4. Carried'
    BY <1>1 DEF RemoveLock, Carried, server, locals, Locking, Critical
  <1>5. TokensKnown'
    BY <1>1, <1>2 DEF RemoveLock, TokensKnown, server, locals, history
  <1> QED BY <1>2, <1>3, <1>4, <1>5

\* A token that expires, and a lock that ages, are nobody's move.
LEMMA EnvironmentKeeps ==
  ASSUME VoiceInv, TokenExpires \/ LockAges
  PROVE  VoiceInv'
  <1> USE DEF VoiceInv
  <1>1. CASE TokenExpires
    <2>1. VoiceTypeOK'
      BY <1>1 DEF TokenExpires, VoiceTypeOK, Pair, locals, history, lockFile
    <2>2. Carried' /\ LockIsOwned' /\ TokensKnown'
      BY <1>1
         DEF TokenExpires, Carried, LockIsOwned, Owns, TokensKnown, locals,
             history, lockFile
    <2> QED BY <2>1, <2>2
  <1>2. CASE LockAges
    <2>1. lock \in Lock /\ lock # None BY <1>2 DEF LockAges, VoiceTypeOK
    <2>2. /\ lock' \in Lock /\ lock'.owner = lock.owner
      BY <1>2, <2>1 DEF LockAges, Lock
    <2>3. lock' # None BY <2>2, VoiceAssumption DEF Lock
    <2>4. VoiceTypeOK'
      BY <1>2, <2>2 DEF LockAges, VoiceTypeOK, server, locals, history
    <2>5. Carried' BY <1>2 DEF LockAges, Carried, locals
    <2>6. LockIsOwned'
      BY <1>2, <2>2, <2>3 DEF LockAges, LockIsOwned, Owns
    <2>7. TokensKnown'
      BY <1>2 DEF LockAges, TokensKnown, server, locals, history
    <2> QED BY <2>4, <2>5, <2>6, <2>7
  <1> QED BY <1>1, <1>2

\* The callers that crash refresh no more; one that had an answer to write
\* has lost it.
LEMMA CrashKeeps ==
  ASSUME VoiceInv, NEW p \in Processes, Crash(p)
  PROVE  VoiceInv'
  <1> USE DEF VoiceInv
  <1>1. crashes' \in Nat /\ lost' \in BOOLEAN BY DEF Crash, VoiceTypeOK
  <1>2. /\ at' \in [Callers -> Labels]
        /\ \A c \in Callers :
             at'[c] = at[c] \/ (ProcessOf[c] = p /\ at'[c] = "crashed")
    BY DEF Crash, VoiceTypeOK, Labels, Ended
  <1>3. cache' \in [Processes -> [Generations -> Generations \cup {None}]]
    BY DEF Crash, VoiceTypeOK
  <1>4. VoiceTypeOK'
    BY <1>1, <1>2, <1>3
       DEF Crash, VoiceTypeOK, Labels, server, locals, lockFile
  <1>5. Carried'
    BY <1>2 DEF Crash, Carried, Locking, Critical, locals
  <1>6. LockIsOwned'
    BY <1>2 DEF Crash, LockIsOwned, Refreshing, Owns, lockFile
  <1>7. TokensKnown'
    <2> SUFFICES ASSUME ~robbed, ~lost' PROVE TokensKnown'
      BY DEF Crash, TokensKnown, lockFile
    <2>1. ~lost /\ \A c \in Callers : at[c] = "write" => at'[c] = "write"
      <3>1. \A c \in Callers : ProcessOf[c] = p => at[c] # "write" BY DEF Crash
      <3> QED BY <1>2, <3>1 DEF Crash
    <2> QED BY <1>2, <2>1 DEF Crash, TokensKnown, server, locals, lockFile
  <1> QED BY <1>4, <1>5, <1>6, <1>7

\* A step of another part changes nothing of the credentials.
LEMMA VoiceStutters ==
  VoiceInv /\ UNCHANGED voiceVars => VoiceInv'
  <1> SUFFICES ASSUME VoiceInv, UNCHANGED voiceVars PROVE VoiceInv' OBVIOUS
  <1>1. VoiceTypeOK' BY DEF voiceVars, VoiceInv, VoiceTypeOK
  <1>2. Carried' /\ LockIsOwned' /\ TokensKnown'
    BY DEF voiceVars, VoiceInv, Carried, LockIsOwned, Owns, TokensKnown
  <1> QED BY <1>1, <1>2 DEF VoiceInv

\* Every step of a process, a crash and the clock keep the invariant.
LEMMA VoiceStepKeeps == VoiceInv /\ [VoiceNext]_voiceVars => VoiceInv'
  <1> SUFFICES ASSUME VoiceInv, [VoiceNext]_voiceVars PROVE VoiceInv' OBVIOUS
  <1>1. ASSUME NEW c \in Callers, Step(c) PROVE VoiceInv'
    BY <1>1, ReadKeeps, EnterThreadLockKeeps, CreateLockKeeps, LookAtLockKeeps,
       UnlinkStaleKeeps, RereadKeeps, RefreshedKeeps, AnswerLostKeeps,
       RequestFailsKeeps, RefreshRejectedKeeps, WriteFileKeeps, ReleaseLockKeeps,
       RemoveLockKeeps DEF Step
  <1> QED BY <1>1, EnvironmentKeeps, CrashKeeps, VoiceStutters DEF VoiceNext

(***************************************************************************)
(* As long as no caller is robbed of its lock and no answer is lost, no    *)
(* refresh token is posted twice, for any number of callers in any         *)
(* processes, any number of which crash; and none is robbed unless a lock  *)
(* has grown stale.  The lock file alone carries it: the argument never    *)
(* uses the locks of the processes.                                        *)
(***************************************************************************)
THEOREM TokenSpentOnce == VoiceSpec => []HoldersSpendOnce
  <1>1. VoiceInv => HoldersSpendOnce
    BY DEF VoiceInv, LockIsOwned, TokensKnown, HoldersSpendOnce, SpentOnce
  <1> QED BY <1>1, VoiceInitHolds, VoiceStepKeeps, PTL DEF VoiceSpec

(***************************************************************************)
(* Under the same conditions the file never keeps a spent token but while  *)
(* its successor is being written; and the variables have their types.     *)
(***************************************************************************)
THEOREM TokenFileUsable == VoiceSpec => [](VoiceTypeOK /\ FileUsable)
  <1>1. VoiceInv => VoiceTypeOK /\ FileUsable
    BY DEF VoiceInv, TokensKnown, FileUsable
  <1> QED BY <1>1, VoiceInitHolds, VoiceStepKeeps, PTL DEF VoiceSpec
=============================================================================
