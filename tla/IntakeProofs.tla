------------------------------ MODULE IntakeProofs -----------------------------
(***************************************************************************)
(* Theorems about Intake for any case types, questions and calls of the    *)
(* two tools, overlapping and failing in every order.                      *)
(***************************************************************************)
EXTENDS Intake, TLAPS

(***************************************************************************)
(* Everything on disk and in the report is the snapshot of some call, and  *)
(* a snapshot is never rebuilt; it holds answers of calls that were made   *)
(* for its own case type, which no later call can change.                  *)
(***************************************************************************)
Given(s) ==
  \A q \in Questions : s.answers[q] # None =>
    at[s.answers[q]] # "idle" /\ asked[s.answers[q]].case = s.case

Maker(c) == IF c \in Finals THEN c ELSE None

SomeFile == \E path \in Finals : finals[path] # None

SnapshotFits(c) ==
  /\ at[c] = "idle" <=> snapshot[c] = None
  /\ snapshot[c] # None => snapshot[c].final = Maker(c) /\ Given(snapshot[c])
  /\ c \in Finals /\ at[c] # "idle" => target[c] \in Finals
  /\ c \in Finals /\ at[c] \in {"remove", "enqueue", "done"} =>
       finals[target[c]] # None
  /\ c \in Answers /\ at[c] \in {"enqueue", "done"} /\ ~unwritten =>
       partial # None \/ SomeFile

\* A final file holds the submission of a finalization named like it.
FilesFit ==
  \A path \in Finals : finals[path] # None =>
    \E f \in Finals : /\ at[f] # "idle" /\ target[f] = path
                      /\ finals[path] = snapshot[f]

InMemory ==
  /\ case = None => answers = NoAnswers
  /\ \A q \in Questions : answers[q] # None =>
       at[answers[q]] # "idle" /\ asked[answers[q]].case = case

OnlySnapshots ==
  /\ FilesFit
  /\ partial # None => Given(partial)
  /\ pending # None => Given(pending)
  /\ pending # None /\ pending.final # None => at[pending.final] = "done"
  /\ submitted => SomeFile

IntakeInv ==
  /\ IntakeTypeOK
  /\ InMemory
  /\ \A c \in Calls : SnapshotFits(c)
  /\ OnlySnapshots

\* The set of final files is empty as long as no path has one.
LEMMA SomeFinalFile == FinalFiles # {} <=> SomeFile
  BY DEF FinalFiles, SomeFile

\* Nothing is asked, built or written at first.
LEMMA IntakeInitHolds == IntakeInit => IntakeInv
  <1> SUFFICES ASSUME IntakeInit PROVE IntakeInv
    OBVIOUS
  <1>1. IntakeTypeOK BY DEF IntakeInit, IntakeTypeOK, NoAnswers, Calls
  <1>2. InMemory BY DEF IntakeInit, InMemory, NoAnswers
  <1>3. ASSUME NEW c \in Calls PROVE SnapshotFits(c)
    <2>1. at[c] = "idle" /\ snapshot[c] = None BY DEF IntakeInit
    <2> QED BY <2>1 DEF SnapshotFits
  <1> QED BY <1>1, <1>2, <1>3 DEF IntakeInv, OnlySnapshots, FilesFit,
          IntakeInit

\* A call that has begun stays begun and keeps its arguments, so that what
\* was made of its answer stays true.
LEMMA GivenStays ==
  ASSUME NEW s \in Submission, Given(s),
         \A c \in Answers : at[c] # "idle" =>
           at'[c] # "idle" /\ asked'[c] = asked[c]
  PROVE  Given(s)'
  BY DEF Given, Submission

\* The steps of a call that has begun: it moves on, and neither the answers
\* nor the snapshots change.
LEMMA LaterSteps ==
  ASSUME IntakeInv, NEW c \in Calls,
         NEW label \in {"remove", "enqueue", "done", "failed"},
         at[c] \notin {"idle", "done"}, Moves(c, label),
         UNCHANGED <<case, answers, asked, snapshot, paths>>
  PROVE  /\ at' \in [Calls ->
              {"idle", "write", "remove", "enqueue", "done", "failed"}]
         /\ at'[c] = label /\ \A d \in Calls : d # c => at'[d] = at[d]
         /\ InMemory'
         /\ \A s \in Submission : Given(s) => Given(s)'
         /\ \A d \in Calls : /\ at'[d] = "idle" <=> snapshot'[d] = None
                             /\ snapshot'[d] # None =>
                                  /\ snapshot'[d].final = Maker(d)
                                  /\ Given(snapshot[d])'
         /\ finals' = finals => FilesFit'
         /\ pending # None /\ pending.final # None =>
              at'[pending.final] = "done"
  <1>1. /\ at' \in [Calls ->
              {"idle", "write", "remove", "enqueue", "done", "failed"}]
        /\ at'[c] = label /\ \A d \in Calls : d # c => at'[d] = at[d]
    BY DEF IntakeInv, IntakeTypeOK, Moves
  <1>2. \A d \in Calls : at'[d] = "idle" <=> at[d] = "idle" BY <1>1
  <1>3. \A d \in Answers : at[d] # "idle" => at'[d] # "idle" /\ asked'[d] = asked[d]
    BY <1>2 DEF Calls
  <1>4. \A s \in Submission : Given(s) => Given(s)' BY <1>3, GivenStays
  <1>5. InMemory'
    BY <1>3 DEF IntakeInv, InMemory, IntakeTypeOK
  <1>6. ASSUME NEW d \in Calls
        PROVE  /\ at'[d] = "idle" <=> snapshot'[d] = None
               /\ snapshot'[d] # None =>
                    /\ snapshot'[d].final = Maker(d)
                    /\ Given(snapshot[d])'
    <2>1. snapshot' = snapshot /\ SnapshotFits(d) /\ snapshot[d] \in Submission \cup {None}
      BY DEF IntakeInv, IntakeTypeOK
    <2>2. ASSUME snapshot[d] # None PROVE Given(snapshot[d])'
      <3> DEFINE s == snapshot[d]
      <3>1. s \in Submission /\ Given(s) BY <2>1, <2>2 DEF SnapshotFits
      <3>2. Given(s)' BY <1>3, <2>1, <3>1 DEF Given, Submission
      <3> QED BY <3>2
    <2> QED BY <1>2, <2>1, <2>2 DEF SnapshotFits
  <1>7. finals' = finals => FilesFit'
    BY <1>2 DEF IntakeInv, OnlySnapshots, FilesFit, Calls, paths
  <1>8. pending # None /\ pending.final # None =>
          at'[pending.final] = "done"
    <2> SUFFICES ASSUME pending # None, pending.final # None
                 PROVE  at'[pending.final] = "done"
      OBVIOUS
    <2>1. pending.final \in Calls /\ at[pending.final] = "done"
      BY DEF IntakeInv, IntakeTypeOK, OnlySnapshots, Submission, Calls
    <2> QED BY <1>1, <2>1
  <1> QED BY <1>1, <1>4, <1>5, <1>6, <1>7, <1>8

\* What one later step leaves of the snapshots when it only adds to the files.
Lasting ==
  /\ \A path \in Finals : finals[path] # None => finals'[path] # None
  /\ unwritten => unwritten'
  /\ partial # None \/ SomeFile => partial' # None \/ SomeFile'

\* The calls that do not move keep what is known of them.
LEMMA OthersFit ==
  ASSUME IntakeInv, NEW d \in Calls, Lasting, at'[d] = at[d],
         snapshot' = snapshot, at'[d] = "idle" <=> snapshot'[d] = None,
         snapshot'[d] # None =>
           snapshot'[d].final = Maker(d) /\ Given(snapshot[d])',
         target' = target
  PROVE  SnapshotFits(d)'
  <1>1. SnapshotFits(d) BY DEF IntakeInv
  <1> QED BY <1>1 DEF SnapshotFits, Lasting

\* A partial file is written: by a call whose snapshot it holds.
LEMMA PersistPartialKeeps ==
  ASSUME IntakeInv, NEW c \in Answers, PersistPartial(c)
  PROVE  IntakeInv'
  <1>1. /\ at[c] = "write" /\ Moves(c, "enqueue") /\ c \in Calls
        /\ \/ partial' = snapshot[c] /\ unwritten' = unwritten
           \/ unwritten' = TRUE /\ partial' = partial
        /\ UNCHANGED <<case, answers, asked, snapshot, paths>>
        /\ finals' = finals /\ pending' = pending /\ submitted' = submitted
        /\ overlapped' = overlapped
    BY DEF PersistPartial, Calls
  <1>2. snapshot[c] \in Submission /\ Given(snapshot[c]) /\ snapshot[c] # None
    BY <1>1, IntakeAssumption
       DEF IntakeInv, IntakeTypeOK, SnapshotFits
  <1>3. /\ at' \in [Calls ->
              {"idle", "write", "remove", "enqueue", "done", "failed"}]
        /\ at'[c] = "enqueue" /\ \A d \in Calls : d # c => at'[d] = at[d]
        /\ InMemory'
        /\ \A s \in Submission : Given(s) => Given(s)'
        /\ \A d \in Calls : /\ at'[d] = "idle" <=> snapshot'[d] = None
                            /\ snapshot'[d] # None =>
                                 /\ snapshot'[d].final = Maker(d)
                                 /\ Given(snapshot[d])'
        /\ finals' = finals => FilesFit'
        /\ pending # None /\ pending.final # None =>
             at'[pending.final] = "done"
    BY <1>1, LaterSteps
  <1>4. IntakeTypeOK' BY <1>1, <1>2, <1>3 DEF IntakeInv, IntakeTypeOK, paths
  <1>5. Lasting BY <1>1, <1>2 DEF Lasting, SomeFile
  <1>6. ASSUME NEW d \in Calls PROVE SnapshotFits(d)'
    <2>1. CASE d # c BY <1>1, <1>3, <1>5, <2>1, OthersFit DEF paths
    <2>2. CASE d = c
      <3>1. d \notin Finals BY <2>2, IntakeAssumption
      <3>2. ~unwritten' => partial' # None BY <1>1, <1>2
      <3> QED BY <1>1, <1>3, <2>2, <3>1, <3>2 DEF SnapshotFits
    <2> QED BY <2>1, <2>2
  <1>7. OnlySnapshots'
    BY <1>1, <1>2, <1>3 DEF IntakeInv, IntakeTypeOK, OnlySnapshots, SomeFile
  <1> QED BY <1>3, <1>4, <1>6, <1>7 DEF IntakeInv

\* The report's submission becomes an unfinished one.
LEMMA EnqueuePartialKeeps ==
  ASSUME IntakeInv, NEW c \in Answers, EnqueuePartial(c)
  PROVE  IntakeInv'
  <1>1. /\ at[c] = "enqueue" /\ Moves(c, "done") /\ c \in Calls
        /\ pending' = snapshot[c]
        /\ UNCHANGED <<case, answers, asked, snapshot, paths>>
        /\ finals' = finals /\ partial' = partial /\ submitted' = submitted
        /\ unwritten' = unwritten /\ overlapped' = overlapped
    BY DEF EnqueuePartial, Reported, Calls
  <1>2. /\ snapshot[c] \in Submission /\ Given(snapshot[c])
        /\ snapshot[c] # None /\ snapshot[c].final = None
    BY <1>1, IntakeAssumption
       DEF IntakeInv, IntakeTypeOK, SnapshotFits, Maker
  <1>3. /\ at' \in [Calls ->
              {"idle", "write", "remove", "enqueue", "done", "failed"}]
        /\ at'[c] = "done" /\ \A d \in Calls : d # c => at'[d] = at[d]
        /\ InMemory'
        /\ \A s \in Submission : Given(s) => Given(s)'
        /\ \A d \in Calls : /\ at'[d] = "idle" <=> snapshot'[d] = None
                            /\ snapshot'[d] # None =>
                                 /\ snapshot'[d].final = Maker(d)
                                 /\ Given(snapshot[d])'
        /\ finals' = finals => FilesFit'
        /\ pending # None /\ pending.final # None =>
             at'[pending.final] = "done"
    BY <1>1, LaterSteps
  <1>4. IntakeTypeOK' BY <1>1, <1>2, <1>3 DEF IntakeInv, IntakeTypeOK, paths
  <1>5. Lasting BY <1>1 DEF Lasting, SomeFile
  <1>6. ASSUME NEW d \in Calls PROVE SnapshotFits(d)'
    <2>1. CASE d # c BY <1>1, <1>3, <1>5, <2>1, OthersFit DEF paths
    <2>2. CASE d = c
      <3>1. d \notin Finals BY <2>2, IntakeAssumption
      <3>2. ~unwritten => partial # None \/ SomeFile
        BY <1>1 DEF IntakeInv, SnapshotFits
      <3> QED BY <1>1, <1>3, <2>2, <3>1, <3>2 DEF SnapshotFits, SomeFile
    <2> QED BY <2>1, <2>2
  <1>7. OnlySnapshots'
    BY <1>1, <1>2, <1>3 DEF IntakeInv, IntakeTypeOK, OnlySnapshots, SomeFile
  <1> QED BY <1>3, <1>4, <1>6, <1>7 DEF IntakeInv

\* A final file is written, or the call fails.
LEMMA PersistFinalKeeps ==
  ASSUME IntakeInv, NEW c \in Finals, PersistFinal(c)
  PROVE  IntakeInv'
  <1>1. PICK label \in {"remove", "failed"} :
          /\ at[c] = "write" /\ Moves(c, label) /\ c \in Calls
          /\ \/ /\ finals' = [finals EXCEPT ![target[c]] = snapshot[c]]
                /\ unwritten' = unwritten
             \/ label = "failed" /\ unwritten' = TRUE /\ finals' = finals
          /\ UNCHANGED <<case, answers, asked, snapshot, paths>>
          /\ partial' = partial /\ pending' = pending /\ submitted' = submitted
          /\ overlapped' = overlapped
    BY DEF PersistFinal, AfterFinal, AfterFailure, Calls
  <1>2. /\ snapshot[c] \in Submission /\ Given(snapshot[c])
        /\ snapshot[c] # None /\ target[c] \in Finals
        /\ finals \in [Finals -> Submission \cup {None}]
    BY <1>1, IntakeAssumption
       DEF IntakeInv, IntakeTypeOK, SnapshotFits
  <1>3. /\ at' \in [Calls ->
              {"idle", "write", "remove", "enqueue", "done", "failed"}]
        /\ at'[c] = label /\ \A d \in Calls : d # c => at'[d] = at[d]
        /\ InMemory'
        /\ \A s \in Submission : Given(s) => Given(s)'
        /\ \A d \in Calls : /\ at'[d] = "idle" <=> snapshot'[d] = None
                            /\ snapshot'[d] # None =>
                                 /\ snapshot'[d].final = Maker(d)
                                 /\ Given(snapshot[d])'
        /\ finals' = finals => FilesFit'
        /\ pending # None /\ pending.final # None =>
             at'[pending.final] = "done"
    BY <1>1, LaterSteps
  <1>4. /\ finals' \in [Finals -> Submission \cup {None}]
        /\ label = "remove" => finals'[target[c]] = snapshot[c]
        /\ \A path \in Finals :
             \/ finals'[path] = finals[path]
             \/ path = target[c] /\ finals'[path] = snapshot[c]
    BY <1>1, <1>2
  <1>5. IntakeTypeOK' BY <1>1, <1>3, <1>4 DEF IntakeInv, IntakeTypeOK, paths
  <1>6. \A path \in Finals : finals[path] # None => finals'[path] # None
    BY <1>2, <1>4
  <1>7. Lasting BY <1>1, <1>6 DEF Lasting, SomeFile
  <1>8. ASSUME NEW d \in Calls PROVE SnapshotFits(d)'
    <2>1. CASE d # c BY <1>1, <1>3, <1>7, <2>1, OthersFit DEF paths
    <2>2. CASE d = c
      <3>1. d \notin Answers /\ d \in Finals BY <2>2, IntakeAssumption
      <3>2. label = "remove" => finals'[target'[d]] # None
        BY <1>1, <1>2, <1>4, <2>2 DEF paths
      <3> QED BY <1>1, <1>2, <1>3, <2>2, <3>1, <3>2 DEF SnapshotFits, paths
    <2> QED BY <2>1, <2>2
  <1>9. FilesFit'
    <2> SUFFICES ASSUME NEW path \in Finals, finals'[path] # None
                 PROVE  \E f \in Finals : /\ at'[f] # "idle" /\ target'[f] = path
                                          /\ finals'[path] = snapshot'[f]
      BY DEF FilesFit
    <2>1. CASE path = target[c] /\ finals'[path] = snapshot[c]
      BY <1>1, <1>3, <2>1 DEF paths
    <2>2. CASE finals'[path] = finals[path]
      <3>1. PICK f \in Finals : /\ at[f] # "idle" /\ target[f] = path
                                /\ finals[path] = snapshot[f]
        BY <2>2 DEF IntakeInv, OnlySnapshots, FilesFit
      <3>2. at'[f] # "idle" BY <1>3, <3>1 DEF Calls
      <3> QED BY <1>1, <2>2, <3>1, <3>2 DEF paths
    <2> QED BY <1>4, <2>1, <2>2
  <1>10. OnlySnapshots'
    BY <1>1, <1>3, <1>6, <1>9
    DEF IntakeInv, IntakeTypeOK, OnlySnapshots, SomeFile
  <1> QED BY <1>3, <1>5, <1>8, <1>10 DEF IntakeInv

\* The partial file goes only when the final one is there.
LEMMA RemovePartialKeeps ==
  ASSUME IntakeInv, NEW c \in Finals, RemovePartial(c)
  PROVE  IntakeInv'
  <1>1. /\ at[c] = "remove" /\ Moves(c, "enqueue") /\ c \in Calls
        /\ \/ partial' = None /\ unwritten' = unwritten
           \/ unwritten' = TRUE /\ partial' = partial
        /\ UNCHANGED <<case, answers, asked, snapshot, paths>>
        /\ finals' = finals /\ pending' = pending /\ submitted' = submitted
        /\ overlapped' = overlapped
    BY DEF RemovePartial, Calls
  <1>2. target[c] \in Finals /\ finals[target[c]] # None /\ SomeFile
    BY <1>1 DEF IntakeInv, SnapshotFits, SomeFile
  <1>3. /\ at' \in [Calls ->
              {"idle", "write", "remove", "enqueue", "done", "failed"}]
        /\ at'[c] = "enqueue" /\ \A d \in Calls : d # c => at'[d] = at[d]
        /\ InMemory'
        /\ \A s \in Submission : Given(s) => Given(s)'
        /\ \A d \in Calls : /\ at'[d] = "idle" <=> snapshot'[d] = None
                            /\ snapshot'[d] # None =>
                                 /\ snapshot'[d].final = Maker(d)
                                 /\ Given(snapshot[d])'
        /\ finals' = finals => FilesFit'
        /\ pending # None /\ pending.final # None =>
             at'[pending.final] = "done"
    BY <1>1, LaterSteps
  <1>4. IntakeTypeOK' BY <1>1, <1>3 DEF IntakeInv, IntakeTypeOK, paths
  <1>5. Lasting BY <1>1, <1>2 DEF Lasting, SomeFile
  <1>6. ASSUME NEW d \in Calls PROVE SnapshotFits(d)'
    <2>1. CASE d # c BY <1>1, <1>3, <1>5, <2>1, OthersFit DEF paths
    <2>2. CASE d = c
      <3>1. d \notin Answers BY <2>2, IntakeAssumption
      <3> QED BY <1>1, <1>2, <1>3, <2>2, <3>1 DEF SnapshotFits, paths
    <2> QED BY <2>1, <2>2
  <1>7. OnlySnapshots'
    BY <1>1, <1>3 DEF IntakeInv, IntakeTypeOK, OnlySnapshots, SomeFile
  <1> QED BY <1>3, <1>4, <1>6, <1>7 DEF IntakeInv

\* The report's submission becomes one that is on disk as final.
LEMMA EnqueueFinalKeeps ==
  ASSUME IntakeInv, NEW c \in Finals, EnqueueFinal(c)
  PROVE  IntakeInv'
  <1>1. /\ at[c] = "enqueue" /\ Moves(c, "done") /\ c \in Calls
        /\ pending' = snapshot[c] /\ submitted' = TRUE
        /\ UNCHANGED <<case, answers, asked, snapshot, paths>>
        /\ finals' = finals /\ partial' = partial
        /\ unwritten' = unwritten /\ overlapped' = overlapped
    BY DEF EnqueueFinal, Reported, Calls
  <1>2. /\ snapshot[c] \in Submission /\ Given(snapshot[c])
        /\ snapshot[c].final = c /\ c # None /\ SomeFile
        /\ target[c] \in Finals /\ finals[target[c]] # None
    BY <1>1, IntakeAssumption
    DEF IntakeInv, IntakeTypeOK, SnapshotFits, SomeFile, Maker
  <1>3. /\ at' \in [Calls ->
              {"idle", "write", "remove", "enqueue", "done", "failed"}]
        /\ at'[c] = "done" /\ \A d \in Calls : d # c => at'[d] = at[d]
        /\ InMemory'
        /\ \A s \in Submission : Given(s) => Given(s)'
        /\ \A d \in Calls : /\ at'[d] = "idle" <=> snapshot'[d] = None
                            /\ snapshot'[d] # None =>
                                 /\ snapshot'[d].final = Maker(d)
                                 /\ Given(snapshot[d])'
        /\ finals' = finals => FilesFit'
        /\ pending # None /\ pending.final # None =>
             at'[pending.final] = "done"
    BY <1>1, LaterSteps
  <1>4. IntakeTypeOK' BY <1>1, <1>2, <1>3 DEF IntakeInv, IntakeTypeOK, paths
  <1>5. Lasting BY <1>1 DEF Lasting, SomeFile
  <1>6. ASSUME NEW d \in Calls PROVE SnapshotFits(d)'
    <2>1. CASE d # c BY <1>1, <1>3, <1>5, <2>1, OthersFit DEF paths
    <2>2. CASE d = c
      <3>1. d \notin Answers BY <2>2, IntakeAssumption
      <3> QED BY <1>1, <1>2, <1>3, <2>2, <3>1 DEF SnapshotFits, paths
    <2> QED BY <2>1, <2>2
  <1>7. OnlySnapshots'
    BY <1>1, <1>2, <1>3 DEF IntakeInv, IntakeTypeOK, OnlySnapshots, SomeFile
  <1> QED BY <1>3, <1>4, <1>6, <1>7 DEF IntakeInv

\* A call begins and builds its snapshot: what is there of others stays.
LEMMA CallBegins ==
  ASSUME IntakeInv, NEW c \in Calls, NEW s \in Submission, at[c] = "idle",
         Moves(c, "write"), snapshot' = [snapshot EXCEPT ![c] = s],
         asked' \in [Answers -> Arguments \cup {None}],
         \A d \in Answers : d # c => asked'[d] = asked[d],
         s.final = Maker(c), Given(s)',
         overlapped' \in BOOLEAN, case' \in Cases,
         answers' \in [Questions -> Answers \cup {None}],
         target' \in [Finals -> Finals \cup {None}],
         newest' \in Finals \cup {None},
         c \in Finals => target'[c] \in Finals,
         \A f \in Finals : f # c => target'[f] = target[f],
         UNCHANGED <<partial, finals, pending, submitted, unwritten>>
  PROVE  /\ IntakeTypeOK' /\ OnlySnapshots'
         /\ \A d \in Calls : SnapshotFits(d)'
         /\ at'[c] = "write" /\ \A d \in Calls : d # c => at'[d] = at[d]
  <1>1. /\ at' \in [Calls ->
              {"idle", "write", "remove", "enqueue", "done", "failed"}]
        /\ at'[c] = "write" /\ \A d \in Calls : d # c => at'[d] = at[d]
        /\ snapshot' \in [Calls -> Submission \cup {None}] /\ snapshot'[c] = s
        /\ \A d \in Calls : d # c => snapshot'[d] = snapshot[d]
    BY DEF IntakeInv, IntakeTypeOK, Moves
  <1>2. \A d \in Answers : at[d] # "idle" =>
          at'[d] # "idle" /\ asked'[d] = asked[d]
    BY <1>1 DEF Calls
  <1>3. \A t \in Submission : Given(t) => Given(t)' BY <1>2, GivenStays
  <1>4. IntakeTypeOK' BY <1>1 DEF IntakeInv, IntakeTypeOK
  <1>5. FilesFit'
    <2> SUFFICES ASSUME NEW path \in Finals, finals'[path] # None
                 PROVE  \E f \in Finals : /\ at'[f] # "idle" /\ target'[f] = path
                                          /\ finals'[path] = snapshot'[f]
      BY DEF FilesFit
    <2>1. PICK f \in Finals : /\ at[f] # "idle" /\ target[f] = path
                              /\ finals[path] = snapshot[f]
      BY DEF IntakeInv, OnlySnapshots, FilesFit
    <2>2. f \in Calls /\ f # c BY <2>1 DEF Calls
    <2> QED BY <1>1, <2>1, <2>2
  <1>6. pending # None /\ pending.final # None => at'[pending.final] = "done"
    <2> SUFFICES ASSUME pending # None, pending.final # None
                 PROVE  at'[pending.final] = "done"
      OBVIOUS
    <2>1. pending.final \in Calls /\ at[pending.final] = "done"
      BY DEF IntakeInv, IntakeTypeOK, OnlySnapshots, Submission, Calls
    <2> QED BY <1>1, <2>1
  <1>7. OnlySnapshots'
    BY <1>3, <1>5, <1>6 DEF IntakeInv, IntakeTypeOK, OnlySnapshots, SomeFile
  <1>8. ASSUME NEW d \in Calls PROVE SnapshotFits(d)'
    <2>1. CASE d = c
      <3>1. s # None /\ snapshot'[d] = s /\ at'[d] = "write"
        BY <1>1, <2>1, IntakeAssumption
      <3>2. Given(snapshot[d])' BY <3>1 DEF Given
      <3> QED BY <2>1, <3>1, <3>2 DEF SnapshotFits
    <2>2. CASE d # c
      <3>1. /\ at'[d] = at[d] /\ snapshot'[d] = snapshot[d] /\ SnapshotFits(d)
            /\ snapshot[d] \in Submission \cup {None}
        BY <1>1, <2>2 DEF IntakeInv, IntakeTypeOK
      <3>2. ASSUME snapshot[d] # None PROVE Given(snapshot[d])'
        <4> DEFINE t == snapshot[d]
        <4>1. t \in Submission /\ Given(t) BY <3>1, <3>2 DEF SnapshotFits
        <4>2. snapshot'[d] = t BY <3>1
        <4> QED BY <1>2, <4>1, <4>2 DEF Given, Submission
      <3>3. d \in Finals => target'[d] = target[d] BY <2>2
      <3> QED BY <3>1, <3>2, <3>3 DEF SnapshotFits, SomeFile
    <2> QED BY <2>1, <2>2
  <1> QED BY <1>1, <1>4, <1>7, <1>8

\* An answer of another case type drops the earlier ones before it goes in.
LEMMA RecordAnswerKeeps ==
  ASSUME IntakeInv, NEW c \in Answers, RecordAnswer(c)
  PROVE  IntakeInv'
  <1>1. PICK k \in Cases, q \in Questions :
          /\ asked' = [asked EXCEPT ![c] = [case |-> k, question |-> q]]
          /\ case' = k
          /\ answers' = [AnswersOf(k) EXCEPT ![q] = c]
          /\ snapshot' = [snapshot EXCEPT ![c] = PartialOf(c, k, q)]
    BY DEF RecordAnswer
  <1>2. /\ at[c] = "idle" /\ Moves(c, "write") /\ c \in Calls
        /\ overlapped' \in BOOLEAN
        /\ UNCHANGED <<partial, finals, pending, submitted, unwritten>>
        /\ UNCHANGED <<target, newest>>
    BY DEF RecordAnswer, Starts, Calls, IntakeInv, IntakeTypeOK, paths
  <1>3. /\ AnswersOf(k) \in [Questions -> Answers \cup {None}]
        /\ answers' \in [Questions -> Answers \cup {None}]
        /\ answers'[q] = c /\ \A r \in Questions : r # q => answers'[r] = AnswersOf(k)[r]
    BY <1>1 DEF IntakeInv, IntakeTypeOK, AnswersOf, NoAnswers
  <1>4. PICK s \in Submission :
          /\ s.case = k /\ s.final = None /\ s.answers = answers'
          /\ snapshot' = [snapshot EXCEPT ![c] = s]
    <2> DEFINE built == PartialOf(c, k, q)
    <2>1. /\ built.case = k /\ built.final = None /\ built.answers = answers'
          /\ built \in Submission
      BY <1>1, <1>3 DEF PartialOf, Submission
    <2> QED BY <1>1, <2>1
  <1>5. /\ asked' \in [Answers -> Arguments \cup {None}]
        /\ asked'[c].case = k /\ \A d \in Answers : d # c => asked'[d] = asked[d]
    BY <1>1 DEF IntakeInv, IntakeTypeOK, Arguments
  <1>6. at' = [at EXCEPT ![c] = "write"] /\ at'[c] = "write"
    BY <1>2 DEF Moves, IntakeInv, IntakeTypeOK
  <1>7. ASSUME NEW r \in Questions, answers'[r] # None
        PROVE  /\ answers'[r] \in Answers
               /\ at'[answers'[r]] # "idle" /\ asked'[answers'[r]].case = k
    <2>1. CASE r = q BY <1>3, <1>5, <1>6, <2>1
    <2>2. CASE r # q
      <3>1. answers'[r] = AnswersOf(k)[r] /\ AnswersOf(k)[r] \in Answers
        BY <1>3, <1>7, <2>2
      <3>2. case = k /\ answers'[r] = answers[r]
        <4>1. AnswersOf(k) = answers \/ AnswersOf(k) = NoAnswers
          BY DEF AnswersOf
        <4>2. NoAnswers[r] = None BY DEF NoAnswers
        <4>3. AnswersOf(k) # NoAnswers
          BY <1>7, <3>1, <4>2
        <4>4. case # None /\ AnswersOf(k) = answers
          BY <4>1, <4>3 DEF IntakeInv, InMemory
        <4> QED BY <3>1, <4>3, <4>4 DEF AnswersOf
      <3>3. at[answers[r]] # "idle" /\ asked[answers[r]].case = k
        BY <1>7, <3>2 DEF IntakeInv, InMemory
      <3>4. answers[r] # c BY <1>2, <3>3
      <3> QED BY <1>5, <1>6, <3>1, <3>2, <3>3, <3>4
              DEF IntakeInv, IntakeTypeOK, Calls
    <2> QED BY <2>1, <2>2
  <1>8. Given(s)' BY <1>4, <1>7 DEF Given
  <1>9. /\ c \notin Finals /\ s.final = Maker(c)
        /\ target \in [Finals -> Finals \cup {None}]
        /\ newest \in Finals \cup {None}
    BY <1>4, IntakeAssumption DEF Maker, IntakeInv, IntakeTypeOK
  <1>10. /\ IntakeTypeOK' /\ OnlySnapshots' /\ \A d \in Calls : SnapshotFits(d)'
    BY <1>1, <1>2, <1>3, <1>4, <1>5, <1>8, <1>9, CallBegins
  <1>11. InMemory'
    BY <1>1, <1>7, IntakeAssumption DEF InMemory
  <1> QED BY <1>10, <1>11 DEF IntakeInv

\* The final submission is of the case type in memory and its answers.
LEMMA FinalizeKeeps ==
  ASSUME IntakeInv, NEW c \in Finals, Finalize(c)
  PROVE  IntakeInv'
  <1> DEFINE built == [case |-> case, answers |-> answers, final |-> c]
  <1>1. /\ at[c] = "idle" /\ Moves(c, "write") /\ c \in Calls /\ case # None
        /\ overlapped' \in BOOLEAN /\ snapshot' = [snapshot EXCEPT ![c] = built]
        /\ case' = case /\ answers' = answers /\ asked' = asked
        /\ UNCHANGED <<partial, finals, pending, submitted, unwritten>>
    BY DEF Finalize, FirstStep, Starts, Calls, IntakeInv, IntakeTypeOK
  <1>0. /\ target' \in [Finals -> Finals \cup {None}]
        /\ newest' \in Finals \cup {None} /\ target'[c] \in Finals
        /\ \A f \in Finals : f # c => target'[f] = target[f]
    <2>1. PICK path \in FinalPath(c) :
            target' = [target EXCEPT ![c] = path] /\ newest' = path
      BY DEF Finalize
    <2>2. path \in Finals
      BY DEF FinalPath, IntakeInv, IntakeTypeOK
    <2> QED BY <2>1, <2>2 DEF IntakeInv, IntakeTypeOK
  <1>2. /\ built \in Submission /\ built.final = c
        /\ built.case = case /\ built.answers = answers
        /\ case \in Cases /\ answers \in [Questions -> Answers \cup {None}]
        /\ asked \in [Answers -> Arguments \cup {None}]
    BY <1>1 DEF IntakeInv, IntakeTypeOK, Submission
  <1>3. \A d \in Calls : at[d] # "idle" => at'[d] # "idle"
    BY <1>1 DEF Moves, IntakeInv, IntakeTypeOK
  <1>4. ASSUME NEW r \in Questions, answers[r] # None
        PROVE  at'[answers[r]] # "idle" /\ asked[answers[r]].case = case
    BY <1>2, <1>3, <1>4 DEF IntakeInv, InMemory, Calls
  <1>5. PICK s \in Submission :
          /\ s.final = c /\ s.case = case /\ s.answers = answers
          /\ snapshot' = [snapshot EXCEPT ![c] = s]
    BY <1>1, <1>2
  <1>6. InMemory' BY <1>1, <1>4 DEF InMemory
  <1> HIDE DEF built
  <1>7. Given(s)' BY <1>1, <1>4, <1>5 DEF Given
  <1>8. /\ IntakeTypeOK' /\ OnlySnapshots' /\ \A d \in Calls : SnapshotFits(d)'
    BY <1>0, <1>1, <1>2, <1>5, <1>7, CallBegins DEF Maker
  <1> QED BY <1>6, <1>8 DEF IntakeInv

\* Every step of every call of the two tools keeps it.
LEMMA IntakeKept == IntakeSpec => []IntakeInv
  <1>1. IntakeInv /\ [IntakeNext]_intakeVars => IntakeInv'
    <2> SUFFICES ASSUME IntakeInv, [IntakeNext]_intakeVars PROVE IntakeInv'
      OBVIOUS
    <2>1. ASSUME NEW c \in Answers,
                 RecordAnswer(c) \/ PersistPartial(c) \/ EnqueuePartial(c)
          PROVE  IntakeInv'
      BY <2>1, RecordAnswerKeeps, PersistPartialKeeps, EnqueuePartialKeeps
    <2>2. ASSUME NEW c \in Finals,
                 \/ Finalize(c) \/ PersistFinal(c)
                 \/ RemovePartial(c) \/ EnqueueFinal(c)
          PROVE  IntakeInv'
      BY <2>2, FinalizeKeeps, PersistFinalKeeps, RemovePartialKeeps,
         EnqueueFinalKeeps
    <2>3. CASE UNCHANGED intakeVars
      BY <2>3
         DEF intakeVars, IntakeInv, IntakeTypeOK, InMemory, SnapshotFits,
             OnlySnapshots, FilesFit, SomeFile, Given
    <2> QED BY <2>1, <2>2, <2>3 DEF IntakeNext
  <1> QED BY <1>1, IntakeInitHolds, PTL DEF IntakeSpec

(***************************************************************************)
(* No file and no report mixes the answers of two case types, whatever the *)
(* calls that overlap, for every number of calls and of questions.         *)
(***************************************************************************)
THEOREM OneCaseType == IntakeSpec => []NoMixedCases
  <1>1. ASSUME IntakeInv, NEW s \in FinalFiles PROVE Given(s)
    <2>1. PICK path \in Finals : finals[path] = s /\ s # None
      BY <1>1 DEF FinalFiles
    <2>2. PICK f \in Finals : at[f] # "idle" /\ s = snapshot[f]
      BY <1>1, <2>1 DEF IntakeInv, OnlySnapshots, FilesFit
    <2> QED BY <1>1, <2>1, <2>2 DEF IntakeInv, SnapshotFits, Calls
  <1>2. IntakeInv => NoMixedCases
    BY <1>1 DEF IntakeInv, OnlySnapshots, Given, NoMixedCases, OfOneCase
  <1> QED BY <1>2, IntakeKept, PTL

(***************************************************************************)
(* An answer a call has recorded leaves a file behind at every moment,     *)
(* also between the final file and the removal of the partial one.         *)
(***************************************************************************)
THEOREM RecordedOnDisk == IntakeSpec => []IntakeOnDisk
  <1>1. IntakeInv => IntakeOnDisk
    BY SomeFinalFile DEF IntakeInv, SnapshotFits, IntakeOnDisk, Calls
  <1> QED BY <1>1, IntakeKept, PTL

-----------------------------------------------------------------------------
(***************************************************************************)
(* Calls made one after the other.                                         *)
(***************************************************************************)
\* A finalization has returned, and nothing was answered since it began.
Fresh(f) ==
  /\ f \in Finals /\ at[f] = "done"
  /\ snapshot[f].case = case /\ snapshot[f].answers = answers

(***************************************************************************)
(* While no call has begun before the last one ended: the one under way    *)
(* holds the answers in memory; they are on disk but for the one still to  *)
(* be written; and once a finalization has returned, nothing unfinished is *)
(* written or reported before the next answer.                             *)
(***************************************************************************)
OneBusy ==
  /\ \A c, d \in Busy : c = d
  /\ \A c \in Busy : snapshot[c].answers = answers

DiskHolds ==
  /\ ~unwritten /\ case # None /\ ~SomeFile
  /\ \A c \in Answers : at[c] # "write"
  => partial # None /\ partial.answers = answers

FreshReported ==
  \A f \in Finals :
    /\ Fresh(f) =>
         /\ \A c \in Answers : c \notin Busy
         /\ pending.final # None
         /\ ~unwritten => partial = None
    /\ at[f] = "enqueue" /\ ~unwritten => partial = None

\* The file of a finalization under way is its own, and between two of them
\* the one that is reported is on disk.
FilesHold ==
  /\ \A f \in Finals :
       at[f] \in {"remove", "enqueue"} => finals[target[f]] = snapshot[f]
  /\ /\ pending # None /\ pending.final # None
     /\ \A f \in Finals : at[f] \notin {"remove", "enqueue"}
     => \E path \in Finals : finals[path] = pending

InTurn == ~overlapped => OneBusy /\ DiskHolds /\ FreshReported /\ FilesHold

\* No step that leaves the final files and the report alone disturbs them, if
\* no finalization goes on or back.
LEMMA FilesHoldStay ==
  ASSUME FilesHold, UNCHANGED <<finals, pending>>,
         \A f \in Finals :
           /\ at'[f] \in {"remove", "enqueue"} <=> at[f] \in {"remove", "enqueue"}
           /\ at[f] \in {"remove", "enqueue"} =>
                target'[f] = target[f] /\ snapshot'[f] = snapshot[f]
  PROVE  FilesHold'
  BY DEF FilesHold

\* A call that ends or moves on, with the answers and snapshots left alone.
LEMMA BusyMoves ==
  ASSUME IntakeInv, OneBusy, NEW c \in Busy,
         NEW label \in {"remove", "enqueue", "done", "failed"}, Moves(c, label),
         UNCHANGED <<case, answers, asked, snapshot, paths>>
  PROVE  /\ OneBusy' /\ c \in Calls /\ at'[c] = label
         /\ \A d \in Calls : d # c => d \notin Busy /\ d \notin Busy' /\ at'[d] = at[d]
         /\ \A f \in Finals : Fresh(f)' => Fresh(f) \/ (f = c /\ label = "done")
  <1>1. c \in Calls /\ at'[c] = label /\ \A d \in Calls : d # c => at'[d] = at[d]
    BY DEF IntakeInv, IntakeTypeOK, Moves, Busy
  <1>2. Busy' \subseteq {c} /\ \A d \in Calls : d # c => d \notin Busy /\ d \notin Busy'
    BY <1>1 DEF OneBusy, Busy, Calls
  <1>3. OneBusy' BY <1>2 DEF OneBusy
  <1>4. \A f \in Finals : Fresh(f)' => Fresh(f) \/ (f = c /\ label = "done")
    BY <1>1 DEF Fresh, Calls
  <1> QED BY <1>1, <1>2, <1>3, <1>4

\* The write of a partial: what is on disk is then the answers in memory.
LEMMA PersistPartialInTurn ==
  ASSUME IntakeInv, InTurn, NEW c \in Answers, PersistPartial(c), ~overlapped'
  PROVE  InTurn'
  <1>1. /\ ~overlapped /\ OneBusy /\ FreshReported /\ c \in Busy
        /\ c \in Calls /\ at[c] = "write"
        /\ Moves(c, "enqueue") /\ finals' = finals /\ pending' = pending
        /\ \/ partial' = snapshot[c] /\ unwritten' = unwritten
           \/ unwritten' = TRUE
        /\ UNCHANGED <<case, answers, asked, snapshot, paths>>
    BY DEF PersistPartial, InTurn, Busy, Calls
  <1>2. /\ OneBusy' /\ at'[c] = "enqueue"
        /\ \A d \in Calls : d # c => d \notin Busy /\ at'[d] = at[d]
        /\ \A f \in Finals : Fresh(f)' => Fresh(f)
    BY <1>1, BusyMoves
  <1>3. snapshot[c] # None /\ snapshot[c].answers = answers
    BY <1>1, IntakeAssumption DEF OneBusy, IntakeInv, SnapshotFits
  <1>4. DiskHolds' BY <1>1, <1>3 DEF DiskHolds, SomeFile
  <1>5. \A f \in Finals : ~Fresh(f) BY <1>1 DEF FreshReported
  <1>6. \A f \in Finals : at'[f] # "enqueue"
    BY <1>1, <1>2, IntakeAssumption DEF Busy, Calls
  <1>7. FreshReported' BY <1>2, <1>5, <1>6 DEF FreshReported
  <1>8. FilesHold'
    BY <1>1, <1>2, FilesHoldStay, IntakeAssumption DEF InTurn, Calls, paths
  <1> QED BY <1>2, <1>4, <1>7, <1>8 DEF InTurn

\* The report of a partial ends its call, which no finalization preceded.
LEMMA EnqueuePartialInTurn ==
  ASSUME IntakeInv, InTurn, NEW c \in Answers, EnqueuePartial(c), ~overlapped'
  PROVE  InTurn'
  <1>1. /\ ~overlapped /\ OneBusy /\ DiskHolds /\ FreshReported /\ c \in Busy
        /\ c \in Calls /\ at[c] = "enqueue" /\ Moves(c, "done")
        /\ finals' = finals /\ partial' = partial /\ unwritten' = unwritten
        /\ UNCHANGED <<case, answers, asked, snapshot, paths>>
    BY DEF EnqueuePartial, InTurn, Busy, Calls
  <1>2. /\ OneBusy' /\ at'[c] = "done" /\ c \notin Finals
        /\ \A d \in Calls : d # c => d \notin Busy /\ at'[d] = at[d]
        /\ \A f \in Finals : Fresh(f)' => Fresh(f) \/ f = c
    BY <1>1, BusyMoves, IntakeAssumption
  <1>3. \A d \in Answers : at[d] # "write"
    BY <1>1, <1>2 DEF Busy, Calls
  <1>4. DiskHolds' BY <1>1, <1>3 DEF DiskHolds, SomeFile
  <1>5. \A f \in Finals : ~Fresh(f) BY <1>1 DEF FreshReported
  <1>6. \A f \in Finals : at'[f] # "enqueue"
    BY <1>1, <1>2 DEF Busy, Calls
  <1>7. FreshReported' BY <1>2, <1>5, <1>6 DEF FreshReported
  <1>8. pending' # None => pending'.final = None
    <2>1. snapshot[c] # None => snapshot[c].final = None
      BY <1>1, <1>2 DEF IntakeInv, SnapshotFits, Maker
    <2> QED BY <2>1 DEF EnqueuePartial, Reported
  <1>9. FilesHold'
    BY <1>1, <1>2, <1>8, IntakeAssumption
    DEF InTurn, FilesHold, Busy, Calls, paths
  <1> QED BY <1>2, <1>4, <1>7, <1>9 DEF InTurn

\* A finalization leaves its file, or may report that it did not.
LEMMA PersistFinalInTurn ==
  ASSUME IntakeInv, InTurn, NEW c \in Finals, PersistFinal(c), ~overlapped'
  PROVE  InTurn'
  <1>1. PICK label \in {"remove", "failed"} :
          /\ ~overlapped /\ OneBusy /\ DiskHolds /\ FreshReported /\ FilesHold
          /\ c \in Busy
          /\ c \in Calls /\ at[c] = "write" /\ Moves(c, label)
          /\ partial' = partial /\ pending' = pending
          /\ \/ /\ finals' = [finals EXCEPT ![target[c]] = snapshot[c]]
                /\ unwritten' = unwritten /\ label = "remove"
             \/ unwritten' = TRUE /\ finals' = finals /\ label = "failed"
          /\ UNCHANGED <<case, answers, asked, snapshot, paths>>
    BY DEF PersistFinal, AfterFinal, AfterFailure, InTurn, Busy, Calls
  <1>2. /\ OneBusy' /\ at'[c] = label
        /\ \A d \in Calls : d # c => d \notin Busy /\ d \notin Busy' /\ at'[d] = at[d]
        /\ \A f \in Finals : Fresh(f)' => Fresh(f)
    BY <1>1, BusyMoves
  <1>3. /\ target[c] \in Finals /\ snapshot[c] # None
        /\ finals \in [Finals -> Submission \cup {None}]
    BY <1>1 DEF IntakeInv, IntakeTypeOK, SnapshotFits
  <1>4. label = "remove" => finals'[target[c]] = snapshot[c]
    BY <1>1, <1>3
  <1>5. DiskHolds' BY <1>1, <1>3, <1>4 DEF DiskHolds, SomeFile
  <1>6. \A d \in Answers : d \notin Busy'
    BY <1>1, <1>2, IntakeAssumption DEF Busy, Calls
  <1>7. \A f \in Finals : f \in Calls /\ (f # c =>
          at[f] \notin {"remove", "enqueue"} /\ at'[f] = at[f])
    BY <1>2 DEF Busy, Calls
  <1>8. FreshReported'
    BY <1>1, <1>2, <1>6, <1>7 DEF FreshReported
  <1>9. FilesHold'
    <2>1. CASE label = "remove"
      BY <1>1, <1>2, <1>4, <1>7, <2>1 DEF FilesHold, paths
    <2>2. CASE label = "failed"
      BY <1>1, <1>2, <1>7, <2>2 DEF FilesHold, paths
    <2> QED BY <2>1, <2>2
  <1> QED BY <1>2, <1>5, <1>8, <1>9 DEF InTurn

\* The partial is gone once the final file is there.
LEMMA RemovePartialInTurn ==
  ASSUME IntakeInv, InTurn, NEW c \in Finals, RemovePartial(c), ~overlapped'
  PROVE  InTurn'
  <1>1. /\ ~overlapped /\ OneBusy /\ FreshReported /\ c \in Busy
        /\ c \in Calls /\ at[c] = "remove" /\ Moves(c, "enqueue")
        /\ finals' = finals /\ pending' = pending
        /\ (partial' = None /\ unwritten' = unwritten) \/ unwritten' = TRUE
        /\ UNCHANGED <<case, answers, asked, snapshot, paths>>
    BY DEF RemovePartial, InTurn, Busy, Calls
  <1>2. /\ OneBusy' /\ at'[c] = "enqueue"
        /\ \A d \in Calls : d # c => d \notin Busy /\ d \notin Busy' /\ at'[d] = at[d]
        /\ \A f \in Finals : Fresh(f)' => Fresh(f)
    BY <1>1, BusyMoves
  <1>3. SomeFile BY <1>1 DEF IntakeInv, SnapshotFits, SomeFile
  <1>4. DiskHolds' BY <1>1, <1>3 DEF DiskHolds, SomeFile
  <1>5. \A d \in Answers : d \notin Busy'
    BY <1>1, <1>2, IntakeAssumption DEF Busy, Calls
  <1>6. FreshReported' BY <1>1, <1>2, <1>5 DEF FreshReported
  <1>7. \A f \in Finals : f # c => at'[f] = at[f]
    BY <1>2 DEF Calls
  <1>8. FilesHold'
    BY <1>1, <1>2, <1>7, FilesHoldStay DEF InTurn, paths
  <1> QED BY <1>2, <1>4, <1>6, <1>8 DEF InTurn

\* The report of a finalization is the last one until the next answer.
LEMMA EnqueueFinalInTurn ==
  ASSUME IntakeInv, InTurn, NEW c \in Finals, EnqueueFinal(c), ~overlapped'
  PROVE  InTurn'
  <1>1. /\ ~overlapped /\ OneBusy /\ DiskHolds /\ FreshReported /\ c \in Busy
        /\ c \in Calls /\ at[c] = "enqueue" /\ Moves(c, "done")
        /\ finals' = finals /\ partial' = partial /\ unwritten' = unwritten
        /\ pending' = snapshot[c]
        /\ UNCHANGED <<case, answers, asked, snapshot, paths>>
    BY DEF EnqueueFinal, Reported, InTurn, Busy, Calls
  <1>2. /\ OneBusy' /\ at'[c] = "done"
        /\ \A d \in Calls : d # c => d \notin Busy /\ d \notin Busy' /\ at'[d] = at[d]
    BY <1>1, BusyMoves
  <1>3. /\ snapshot[c].final # None
        /\ target[c] \in Finals /\ finals[target[c]] # None
    BY <1>1, IntakeAssumption DEF IntakeInv, SnapshotFits, Maker
  <1>4. DiskHolds' BY <1>1, <1>3 DEF DiskHolds, SomeFile
  <1>5. \A d \in Answers : d \notin Busy'
    BY <1>1, <1>2, IntakeAssumption DEF Busy, Calls
  <1>6. ~unwritten => partial = None BY <1>1 DEF FreshReported
  <1>7. \A f \in Finals : at'[f] # "enqueue"
    BY <1>1, <1>2 DEF Busy, Calls
  <1>8. FreshReported' BY <1>1, <1>3, <1>5, <1>6, <1>7 DEF FreshReported
  <1>9. FilesHold'
    <2>1. finals[target[c]] = snapshot[c] BY <1>1 DEF InTurn, FilesHold
    <2>2. \A f \in Finals : at'[f] \notin {"remove", "enqueue"}
      BY <1>1, <1>2 DEF Busy, Calls
    <2> QED BY <1>1, <1>3, <2>1, <2>2 DEF FilesHold
  <1> QED BY <1>2, <1>4, <1>8, <1>9 DEF InTurn

\* No submission that is there holds the answer of a call that begins.
LEMMA RecordAnswerInTurn ==
  ASSUME IntakeInv, InTurn, NEW c \in Answers, RecordAnswer(c), ~overlapped'
  PROVE  InTurn'
  <1>1. PICK k \in Cases, q \in Questions :
          /\ case' = k /\ answers' = [AnswersOf(k) EXCEPT ![q] = c]
          /\ snapshot' = [snapshot EXCEPT ![c] = PartialOf(c, k, q)]
    BY DEF RecordAnswer
  <1>2. /\ ~overlapped /\ Busy = {} /\ at[c] = "idle" /\ c \in Calls
        /\ Moves(c, "write")
    BY DEF RecordAnswer, Starts, Calls
  <1>3. /\ at'[c] = "write" /\ \A d \in Calls : d # c => at'[d] = at[d]
        /\ snapshot'[c] = PartialOf(c, k, q)
        /\ \A d \in Calls : d # c => snapshot'[d] = snapshot[d]
    BY <1>1, <1>2 DEF IntakeInv, IntakeTypeOK, Moves
  <1>4. snapshot'[c].answers = answers'
    <2>1. PartialOf(c, k, q).answers = [AnswersOf(k) EXCEPT ![q] = c]
      BY DEF PartialOf
    <2> QED BY <1>1, <1>3, <2>1
  <1>5. Busy' \subseteq {c} BY <1>2, <1>3 DEF Busy, Calls
  <1>6. OneBusy' BY <1>4, <1>5 DEF OneBusy
  <1>7. DiskHolds' BY <1>3 DEF DiskHolds
  <1>8. answers'[q] = c
    <2>1. AnswersOf(k) \in [Questions -> Answers \cup {None}]
      BY DEF IntakeInv, IntakeTypeOK, AnswersOf, NoAnswers
    <2> QED BY <1>1, <2>1
  <1>9. ASSUME NEW f \in Finals PROVE ~Fresh(f)' /\ at'[f] # "enqueue"
    <2>1. f # c /\ f \in Calls BY IntakeAssumption DEF Calls
    <2>2. at'[f] # "enqueue" BY <1>2, <1>3, <2>1 DEF Busy
    <2>3. ASSUME at[f] = "done" PROVE snapshot[f].answers[q] # c
      <3>1. snapshot[f] # None /\ Given(snapshot[f])
        BY <2>1, <2>3 DEF IntakeInv, SnapshotFits
      <3> QED BY <1>2, <3>1, IntakeAssumption DEF Given
    <2> QED BY <1>3, <1>8, <2>1, <2>2, <2>3 DEF Fresh
  <1>10. FreshReported' BY <1>9 DEF FreshReported
  <1>11. FilesHold'
    <2>1. UNCHANGED <<finals, pending, target>> BY DEF RecordAnswer, paths
    <2>2. \A f \in Finals : f # c /\ f \in Calls BY IntakeAssumption DEF Calls
    <2> QED BY <1>2, <1>3, <2>1, <2>2, FilesHoldStay DEF InTurn
  <1> QED BY <1>6, <1>7, <1>10, <1>11 DEF InTurn

\* A finalization begins with the answers in memory, all calls ended.
LEMMA FinalizeInTurn ==
  ASSUME IntakeInv, InTurn, NEW c \in Finals, Finalize(c), ~overlapped'
  PROVE  InTurn'
  <1> DEFINE built == [case |-> case, answers |-> answers, final |-> c]
  <1>1. /\ ~overlapped /\ Busy = {} /\ at[c] = "idle" /\ c \in Calls
        /\ DiskHolds /\ FreshReported
        /\ Moves(c, "write") /\ snapshot' = [snapshot EXCEPT ![c] = built]
        /\ case' = case /\ answers' = answers /\ partial' = partial
        /\ finals' = finals /\ pending' = pending /\ unwritten' = unwritten
    BY DEF Finalize, FirstStep, Starts, Calls, InTurn, OneBusy
  <1>2. /\ at'[c] = "write" /\ \A d \in Calls : d # c => at'[d] = at[d]
        /\ snapshot'[c] = built
        /\ \A d \in Calls : d # c => snapshot'[d] = snapshot[d]
    BY <1>1 DEF IntakeInv, IntakeTypeOK, Moves
  <1>3. snapshot'[c].answers = answers' BY <1>1, <1>2
  <1> HIDE DEF built
  <1>4. Busy' \subseteq {c} BY <1>1, <1>2 DEF Busy, Calls
  <1>5. OneBusy' BY <1>3, <1>4 DEF OneBusy
  <1>6. \A d \in Answers : d # c /\ d \in Calls BY IntakeAssumption DEF Calls
  <1>7. \A d \in Answers : at[d] # "write" BY <1>1, <1>6 DEF Busy
  <1>8. DiskHolds' BY <1>1, <1>7 DEF DiskHolds, SomeFile
  <1>9. \A f \in Finals : (Fresh(f)' => Fresh(f)) /\ at'[f] # "enqueue"
    <2> TAKE f \in Finals
    <2>1. f \in Calls BY DEF Calls
    <2>2. at[f] # "enqueue" BY <1>1, <2>1 DEF Busy
    <2> QED BY <1>1, <1>2, <2>1, <2>2 DEF Fresh
  <1>10. FreshReported' BY <1>1, <1>4, <1>6, <1>9 DEF FreshReported
  <1>11. FilesHold'
    <2>1. \A f \in Finals : f \in Calls /\ at[f] \notin {"remove", "enqueue"}
      BY <1>1 DEF Busy, Calls
    <2> QED BY <1>1, <1>2, <2>1, FilesHoldStay DEF InTurn
  <1> QED BY <1>5, <1>8, <1>10, <1>11 DEF InTurn

\* So the whole holds in every run.
LEMMA InTurnKept == IntakeSpec => []InTurn
  <1>1. IntakeInit => InTurn
    BY DEF IntakeInit, InTurn, OneBusy, DiskHolds, FreshReported, FilesHold,
       Fresh, Busy, Calls
  <1>2. IntakeInv /\ InTurn /\ [IntakeNext]_intakeVars => InTurn'
    <2> SUFFICES ASSUME IntakeInv, InTurn, [IntakeNext]_intakeVars, ~overlapped'
                 PROVE  InTurn'
      BY DEF InTurn
    <2>1. ASSUME NEW c \in Answers,
                 RecordAnswer(c) \/ PersistPartial(c) \/ EnqueuePartial(c)
          PROVE  InTurn'
      BY <2>1, RecordAnswerInTurn, PersistPartialInTurn, EnqueuePartialInTurn
    <2>2. ASSUME NEW c \in Finals,
                 \/ Finalize(c) \/ PersistFinal(c)
                 \/ RemovePartial(c) \/ EnqueueFinal(c)
          PROVE  InTurn'
      BY <2>2, FinalizeInTurn, PersistFinalInTurn, RemovePartialInTurn,
         EnqueueFinalInTurn
    <2>3. CASE UNCHANGED intakeVars
      BY <2>3 DEF intakeVars, InTurn, OneBusy, DiskHolds, FreshReported,
         FilesHold, SomeFile, Fresh, Busy
    <2> QED BY <2>1, <2>2, <2>3 DEF IntakeNext
  <1> QED BY <1>1, <1>2, IntakeKept, PTL DEF IntakeSpec

(***************************************************************************)
(* With the calls of record_intake_answer and finalize_intake made one     *)
(* after the other, an intake not finalized is on disk with every answer   *)
(* once they have returned, for any number of calls, corrected answers and *)
(* changed case types, unless a write failed.                              *)
(***************************************************************************)
THEOREM AnswersKept == IntakeSpec => []AnswersInTurnOnDisk
  <1>1. InTurn => AnswersInTurnOnDisk
    BY SomeFinalFile
    DEF InTurn, DiskHolds, AnswersInTurnOnDisk, EveryAnswerOnDisk, Busy, Calls
  <1> QED BY <1>1, InTurnKept, PTL

(***************************************************************************)
(* Made one after the other, they leave the final submission in the        *)
(* report, not an answer given before it, and remove the partial file      *)
(* unless a write or the removal failed.                                   *)
(***************************************************************************)
THEOREM FinalCounts == IntakeSpec => []FinalReported
  <1>1. InTurn => FinalReported
    BY DEF InTurn, FreshReported, Fresh, FinalReported, Finalized
  <1> QED BY <1>1, InTurnKept, PTL

(***************************************************************************)
(* A call counts as submitted only with a final file, whatever overlaps    *)
(* and fails; the finalization the report carries has its file, which can  *)
(* only have been replaced by one of the same second; and with the calls   *)
(* made one after the other it is on disk itself once they have returned.  *)
(***************************************************************************)
THEOREM ReportedFinalOnDisk == IntakeSpec => []FinalOnDisk
  <1>1. ASSUME IntakeInv, pending # None, pending.final # None
        PROVE  \E f \in Finals : /\ target[f] = target[pending.final]
                                 /\ finals[target[f]] = snapshot[f]
    <2> DEFINE c == pending.final
    <2>1. c \in Finals /\ c \in Calls /\ at[c] = "done"
      BY <1>1
      DEF IntakeInv, IntakeTypeOK, OnlySnapshots, Submission, Calls
    <2>2. target[c] \in Finals /\ finals[target[c]] # None
      BY <1>1, <2>1 DEF IntakeInv, SnapshotFits
    <2> QED BY <1>1, <2>2 DEF IntakeInv, OnlySnapshots, FilesFit
  <1>2. ASSUME InTurn, pending # None, pending.final # None, ~overlapped,
               Busy = {}
        PROVE  pending \in FinalFiles
    <2>1. \A f \in Finals : at[f] \notin {"remove", "enqueue"}
      BY <1>2 DEF Busy, Calls
    <2> QED BY <1>2, <2>1 DEF InTurn, FilesHold, FinalFiles
  <1>3. IntakeInv => (submitted => FinalFiles # {})
    BY SomeFinalFile DEF IntakeInv, OnlySnapshots
  <1>4. IntakeInv /\ InTurn => FinalOnDisk
    BY <1>1, <1>2, <1>3 DEF FinalOnDisk
  <1> QED BY <1>4, IntakeKept, InTurnKept, PTL
=============================================================================
