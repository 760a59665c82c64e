------------------------------ MODULE VoiceAuth ------------------------------
(***************************************************************************)
(* The refresh of the OAuth token file in receptionist/voice_auth.py.      *)
(* Every call resolves its bearer in a worker thread, and several worker   *)
(* processes share one token file.  A caller that finds the access token   *)
(* expired takes its process's lock for the refresh token it has read,     *)
(* then a lock file beside the token file, reads the token file again,     *)
(* posts the refresh token and writes the answer.                          *)
(*                                                                         *)
(* A lock file older than two minutes counts as abandoned.  It may be that *)
(* of a process that crashed, one that could not be written or removed, or *)
(* that of a holder whose request takes longer: the twenty seconds of its  *)
(* timeout are for each read and write of the connection.                  *)
(***************************************************************************)
EXTENDS Integers, FiniteSets

CONSTANTS
  Callers,     \* the calls of _read_codex_access_token
  Processes,
  ProcessOf,   \* the process each caller runs in
  MaxCrashes,  \* bound: the processes that crash
  MaxIssued,   \* bound: the token pairs the server issues
  None

ASSUME VoiceAssumption ==
  /\ ProcessOf \in [Callers -> Processes]
  /\ MaxCrashes \in Nat /\ MaxIssued \in Nat
  /\ None \notin Callers \cup Nat
  /\ None \notin [owner : Callers \cup {None}, stale : BOOLEAN]

VARIABLES
  file,     \* the token file: the generations of its two tokens
  lock,     \* the lock file: its owner, and whether it has grown stale
  cache,    \* _TOKEN_CACHE of each process: refresh token to access token
  expired,  \* the access tokens that should be refreshed
  spent,    \* the refresh tokens the server accepts no longer
  issued,   \* the last generation the server has issued
  at,       \* where each caller is
  wanted,   \* the refresh token each caller read before it took the locks
  token,    \* the refresh token each caller has read last
  answer,   \* the tokens the server's answer brought it
  crashes,
  lost,     \* history: an issued pair never reached the file
  rejected, \* history: the callers whose refresh token was already spent
  aged,     \* history: a lock file has grown stale
  robbed    \* history: a lock file was unlinked by another caller than the
            \* one that was refreshing under it

voiceVars == <<file, lock, cache, expired, spent, issued, at, wanted,
               token, answer, crashes, lost, rejected, aged, robbed>>
server  == <<expired, spent, issued>>
locals  == <<wanted, token, answer>>
lockFile == <<lock, aged, robbed>>
history == <<crashes, lost, rejected>>

Generations == 0..MaxIssued
Pair == [access : Generations, refresh : Generations]

Lock == [owner : Callers \cup {None}, stale : BOOLEAN]

Locking  == {"create", "exists", "unlink"}
Critical == {"reread", "post", "write", "release", "remove"}
Ended    == {"done", "failed", "crashed"}

VoiceInit ==
  /\ file = [access |-> 0, refresh |-> 0]
  /\ lock = None
  /\ cache = [p \in Processes |-> [r \in Generations |-> None]]
  /\ expired \in {{}, {0}}
  /\ spent = {}
  /\ issued = 0
  /\ at = [c \in Callers |-> "start"]
  /\ wanted = [c \in Callers |-> None]
  /\ token = [c \in Callers |-> None]
  /\ answer = [c \in Callers |-> None]
  /\ crashes = 0
  /\ lost = FALSE
  /\ rejected = {}
  /\ aged = FALSE
  /\ robbed = FALSE

Moves(c, label) == at' = [at EXCEPT ![c] = label]

\* _cache_token, in the caller's process.
Cache(c, pair) ==
  cache' = [cache EXCEPT ![ProcessOf[c]][pair.refresh] = pair.access]

\* The token of the file, or the one cached for its refresh token, will do.
FreshOnFile == file.access \notin expired

FreshInCache(c) ==
  LET cached == cache[ProcessOf[c]][file.refresh]
  IN  cached # None /\ cached \notin expired

\* The file is read; its token is returned, or the cached one, or the
\* refresh begins.
Read(c) ==
  /\ at[c] = "start"
  /\ token' = [token EXCEPT ![c] = file.refresh]
  /\ wanted' = [wanted EXCEPT ![c] = file.refresh]
  /\ \/ FreshOnFile /\ Cache(c, file) /\ Moves(c, "done")
     \/ /\ ~FreshOnFile
        /\ Moves(c, IF FreshInCache(c) THEN "done" ELSE "thread")
        /\ UNCHANGED cache
  /\ UNCHANGED <<file, lockFile, server, answer, history>>

\* Mutant: a caller that fails keeps its process's lock.
HeldAfterError == Locking \cup Critical \cup {"failed"}

Holding == Locking \cup Critical

\* _get_refresh_lock: one lock per process and refresh token, held from here
\* to the end.  wanted is the token it was taken for.
Holders(c) ==
  {d \in Callers \ {c} : /\ ProcessOf[d] = ProcessOf[c]
                         /\ wanted[d] = wanted[c]
                         /\ at[d] \in Holding}

EnterThreadLock(c) ==
  /\ at[c] = "thread"
  /\ Holders(c) = {}
  /\ Moves(c, "create")
  /\ UNCHANGED <<file, lockFile, cache, server, locals, history>>

(***************************************************************************)
(* _refresh_file_lock.                                                     *)
(***************************************************************************)
LockExists(c) == lock # None

\* The file is created and the owner written in it.  A failure of either
\* ends the call; when it is the write's, the file stays.
CreateLock(c) ==
  /\ at[c] = "create"
  /\ \/ LockExists(c) /\ Moves(c, "exists") /\ UNCHANGED lock
     \/ /\ ~LockExists(c)
        /\ \/ lock' = [owner |-> c, stale |-> FALSE] /\ Moves(c, "reread")
           \/ lock' = [owner |-> None, stale |-> FALSE] /\ Moves(c, "failed")
     \/ Moves(c, "failed") /\ UNCHANGED lock
  /\ UNCHANGED <<file, cache, server, locals, history, aged, robbed>>

\* Not removed: the caller tries again, and gives up after its thirty seconds.
Waits(c) == \E label \in {"create", "failed"} : Moves(c, label)

\* The lock is looked at: gone, stale, or held, as one counts too that
\* cannot be looked at.
LookAtLock(c) ==
  /\ at[c] = "exists"
  /\ \/ lock = None /\ Moves(c, "create")
     \/ lock # None /\ lock.stale /\ Moves(c, "unlink")
     \/ lock # None /\ Waits(c)
  /\ UNCHANGED <<file, lockFile, cache, server, locals, history>>

\* unlink removes whatever has the name by now.
Unlinks(c) ==
  /\ lock' = None
  /\ robbed' = \/ robbed
               \/ /\ lock # None /\ lock.owner \notin {None, c}
                  /\ at[lock.owner] \in {"reread", "post", "write"}
  /\ UNCHANGED aged

\* _remove_stale_refresh_lock: an error of unlink is swallowed.
UnlinkStale(c) ==
  /\ at[c] = "unlink"
  /\ \/ Unlinks(c) /\ Moves(c, "create")
     \/ UNCHANGED lockFile /\ Waits(c)
  /\ UNCHANGED <<file, cache, server, locals, history>>

(***************************************************************************)
(* The critical section.                                                   *)
(***************************************************************************)
\* Mutant: the token read before the locks is posted.
KeepToken(c) ==
  at[c] = "reread" /\ Moves(c, "post") /\ UNCHANGED <<token, cache>>

RereadToken(c) ==
  /\ at[c] = "reread"
  /\ token' = [token EXCEPT ![c] = file.refresh]
  /\ \/ FreshOnFile /\ Cache(c, file) /\ Moves(c, "release")
     \/ /\ ~FreshOnFile
        /\ Moves(c, IF FreshInCache(c) THEN "release" ELSE "post")
        /\ UNCHANGED cache

Reread(c) ==
  /\ RereadToken(c)
  /\ UNCHANGED <<file, lockFile, server, wanted, answer, history>>

\* The server issues a new access token, and a new refresh token for the one
\* it then accepts no longer, or lets that one be.
Issue(c, pair) ==
  /\ token[c] \notin spent
  /\ issued < MaxIssued
  /\ issued' = issued + 1
  /\ pair.access = issued + 1
  /\ \/ pair.refresh = issued + 1 /\ spent' = spent \cup {token[c]}
     \/ pair.refresh = token[c] /\ UNCHANGED spent

\* The answer arrives.
Refreshed(c) ==
  /\ at[c] = "post"
  /\ \E pair \in Pair :
       Issue(c, pair) /\ answer' = [answer EXCEPT ![c] = pair]
  /\ Moves(c, "write")
  /\ UNCHANGED <<file, lockFile, cache, expired, wanted, token, history>>

\* The server has answered, but the request times out.
AnswerLost(c) ==
  /\ at[c] = "post"
  /\ \E pair \in Pair : Issue(c, pair)
  /\ lost' = TRUE
  /\ Moves(c, "release")
  /\ UNCHANGED <<file, lockFile, cache, expired, locals, crashes, rejected>>

\* The request fails before it has any effect.
RequestFails(c) ==
  /\ at[c] = "post"
  /\ Moves(c, "release")
  /\ UNCHANGED <<file, lockFile, cache, server, locals, history>>

RefreshRejected(c) ==
  /\ at[c] = "post"
  /\ token[c] \in spent
  /\ rejected' = rejected \cup {c}
  /\ Moves(c, "release")
  /\ UNCHANGED <<file, lockFile, cache, server, locals, crashes, lost>>

\* Mutant: only the access token of the answer is written.
AccessOnly(c) == [file EXCEPT !.access = answer[c].access]

Written(c) == answer[c]

\* _write_auth_json replaces the file, or raises and the answer is gone.
WriteFile(c) ==
  /\ at[c] = "write"
  /\ \/ file' = Written(c) /\ Cache(c, answer[c]) /\ UNCHANGED lost
     \/ lost' = TRUE /\ UNCHANGED <<file, cache>>
  /\ Moves(c, "release")
  /\ UNCHANGED <<lockFile, server, locals, crashes, rejected>>

\* _remove_refresh_lock_if_owner reads the owner, then unlinks; an error of
\* either is swallowed.
ReleaseLock(c) ==
  /\ at[c] = "release"
  /\ \/ lock # None /\ lock.owner = c /\ Moves(c, "remove")
     \/ Moves(c, "done")
  /\ UNCHANGED <<file, lockFile, cache, server, locals, history>>

RemoveLock(c) ==
  /\ at[c] = "remove"
  /\ Unlinks(c) \/ UNCHANGED lockFile
  /\ Moves(c, "done")
  /\ UNCHANGED <<file, cache, server, locals, history>>

(***************************************************************************)
(* The environment.                                                        *)
(***************************************************************************)
TokenExpires ==
  /\ file.access \notin expired
  /\ expired' = expired \cup {file.access}
  /\ UNCHANGED <<file, lockFile, cache, spent, issued, at, locals, history>>

\* A process dies with all its callers; its cache goes, its lock file stays.
Crash(p) ==
  /\ crashes < MaxCrashes
  /\ crashes' = crashes + 1
  /\ at' = [c \in Callers |-> IF ProcessOf[c] = p /\ at[c] \notin Ended
                              THEN "crashed" ELSE at[c]]
  /\ lost' = (lost \/ \E c \in Callers : ProcessOf[c] = p /\ at[c] = "write")
  /\ cache' = [cache EXCEPT ![p] = [r \in Generations |-> None]]
  /\ UNCHANGED <<file, lockFile, server, locals, rejected>>

LockAges ==
  /\ lock # None /\ ~lock.stale
  /\ lock' = [lock EXCEPT !.stale = TRUE]
  /\ aged' = TRUE
  /\ UNCHANGED <<file, cache, server, at, locals, history, robbed>>

-----------------------------------------------------------------------------
Step(c) ==
  \/ Read(c)
  \/ EnterThreadLock(c)
  \/ CreateLock(c) \/ LookAtLock(c) \/ UnlinkStale(c)
  \/ Reread(c)
  \/ Refreshed(c) \/ AnswerLost(c) \/ RequestFails(c) \/ RefreshRejected(c)
  \/ WriteFile(c)
  \/ ReleaseLock(c) \/ RemoveLock(c)

VoiceNext ==
  \/ \E c \in Callers : Step(c)
  \/ TokenExpires
  \/ \E p \in Processes : Crash(p)
  \/ LockAges

VoiceSpec == VoiceInit /\ [][VoiceNext]_voiceVars

\* A thread runs on; a wait for a lock that is not removed comes to its
\* deadline, and a lock that is left grows stale.
GivesUp(c) == (LookAtLock(c) \/ UnlinkStale(c)) /\ Moves(c, "failed")

VoiceFairness ==
  /\ WF_voiceVars(LockAges)
  /\ \A c \in Callers : WF_voiceVars(Step(c)) /\ SF_voiceVars(GivesUp(c))

FairVoiceSpec == VoiceSpec /\ VoiceFairness

-----------------------------------------------------------------------------
VoiceTypeOK ==
  /\ file \in Pair
  /\ lock \in Lock \cup {None}
  /\ cache \in [Processes -> [Generations -> Generations \cup {None}]]
  /\ expired \subseteq Generations
  /\ spent \subseteq Generations
  /\ issued \in Generations
  /\ at \in [Callers ->
              {"start", "thread"} \cup Locking \cup Critical \cup Ended]
  /\ wanted \in [Callers -> Generations \cup {None}]
  /\ token \in [Callers -> Generations \cup {None}]
  /\ answer \in [Callers -> Pair \cup {None}]
  /\ crashes \in Nat
  /\ lost \in BOOLEAN
  /\ rejected \subseteq Callers
  /\ aged \in BOOLEAN /\ robbed \in BOOLEAN

(***************************************************************************)
(* "Only one caller spends the refresh token" (the comment on the second   *)
(* read): as long as no answer has been lost, no caller posts a refresh    *)
(* token another one has already spent.                                    *)
(***************************************************************************)
SpentOnce == ~lost => rejected = {}

(***************************************************************************)
(* That holds until a caller is robbed of the lock it is refreshing under, *)
(* whatever the processes of the callers, their crashes, the locks left    *)
(* behind and those taken over: abandoned locks can be removed safely.     *)
(* And none is robbed unless a lock file has stood for two minutes.        *)
(***************************************************************************)
HoldersSpendOnce ==
  /\ ~robbed => SpentOnce
  /\ robbed => aged

(***************************************************************************)
(* Nor does the token file keep a refresh token that is spent, but for the *)
(* time its successor is in the hands of the caller about to write it, or  *)
(* when the successor was lost or a caller was robbed of its lock.         *)
(***************************************************************************)
FileUsable ==
  ~robbed /\ ~lost /\ file.refresh \in spent =>
    \E c \in Callers : at[c] = "write" /\ answer[c].refresh \notin spent

(***************************************************************************)
(* Every caller gets a token or an error in the end, though a process that *)
(* held the lock has crashed, or the lock cannot be read or removed.       *)
(***************************************************************************)
CallersAnswered == \A c \in Callers : at[c] = "thread" ~> at[c] \in Ended
=============================================================================
