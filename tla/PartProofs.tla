------------------------------ MODULE PartProofs ------------------------------
(***************************************************************************)
(* Theorems about the parts that share nothing with another: Dispatch for  *)
(* any messages, channels and number of attempts, InfoPacket for any       *)
(* addresses, RealtimeRecovery for any cap, Retention for any files and    *)
(* number of sweeps, UnproductiveTurns for any threshold, Provision for    *)
(* any plans and number of runs.                                           *)
(***************************************************************************)
EXTENDS Dispatch, InfoPacket, UnproductiveTurns, RealtimeRecovery, Retention,
        Provision, SequenceTheorems, FiniteSetTheorems, TLAPS

(***************************************************************************)
(* What is known of one delivery from the place it is in: what its past    *)
(* attempts were, that a background delivery runs only for a message that  *)
(* is saved, and that the awaited one stands for what the caller is told.  *)
(***************************************************************************)
GaveUp(m, c) ==
  LET s == attempts[m][c] IN
  /\ told[m] = "saved" /\ ~IsSync(c)
  /\ s # <<>>
  /\ ~IsTransient(c, s[Len(s)]) \/ Len(s) = MaxAttempts
  /\ \A i \in DOMAIN s : s[i] # "accepted"

AttemptsFit(m, c) ==
  LET s == attempts[m][c]
      d == delivery[m][c] IN
  /\ d = "none" => s = <<>>
  /\ d \in {"sending", "backoff"} =>
       Len(s) < MaxAttempts /\ \A i \in DOMAIN s : IsTransient(c, s[i])
  /\ d = "delivered" => s # <<>> /\ s[Len(s)] = "accepted"
  /\ \A i \in 1..(Len(s) - 1) : IsTransient(c, s[i])

RecordsFit(m, c) ==
  LET d == delivery[m][c] IN
  /\ d = "recording" \/ <<m, c>> \in records => GaveUp(m, c)
  /\ <<m, c>> \in records => d \in {"failed", "cancelled"}
  /\ d = "failed" /\ told[m] = "saved" => <<m, c>> \in records \cup diskErrors

ToldFits(m, c) ==
  LET d == delivery[m][c] IN
  /\ d # "none" => c \in Active
  /\ told[m] = "nothing" => d = "none"
  /\ d # "none" /\ ~IsSync(c) => told[m] = "saved"
  /\ IsSync(c) => /\ d = "recording" => FALSE
                  /\ told[m] = "dispatching" => d \in {"sending", "backoff"}
                  /\ told[m] = "saved" => d = "delivered"
                  /\ d \in {"sending", "backoff"} => told[m] = "dispatching"

MessageFits(m) ==
  /\ told[m] = "saved" <=> m \in mailQueue
  /\ told[m] = "saved" => outcome
  /\ told[m] = "saved" /\ Active # {} => \E c \in Channels : IsSync(c)

DispatchInv ==
  /\ DispatchTypeOK
  /\ \A m \in Messages : MessageFits(m)
  /\ \A m \in Messages, c \in Channels :
       AttemptsFit(m, c) /\ RecordsFit(m, c) /\ ToldFits(m, c)

\* There is one awaited channel at most, and it delivers now.
LEMMA SyncUnique ==
  ASSUME DispatchTypeOK, NEW c \in Channels, NEW d \in Channels, IsSync(c), IsSync(d)
  PROVE  c = d
  <1>1. layout \in Seq(Kinds) BY DispatchAssumption DEF DispatchTypeOK
  <1>2. c \in Nat /\ d \in Nat BY <1>1 DEF Channels
  <1>3. c \in Active /\ d \in Active BY DEF IsSync
  <1>4. layout[c] = layout[d] BY <1>3 DEF IsSync
  <1>5. c <= d BY <1>3, <1>4 DEF IsSync
  <1>6. d <= c BY <1>3, <1>4 DEF IsSync
  <1> QED BY <1>2, <1>5, <1>6

\* Nothing is told, tried or recorded at first.
THEOREM DispatchInitHolds == DispatchInit => DispatchInv
  <1> SUFFICES ASSUME DispatchInit PROVE DispatchInv OBVIOUS
  <1>1. DispatchTypeOK
    <2>1. <<>> \in Seq(Endings) OBVIOUS
    <2> QED BY <2>1 DEF DispatchInit, DispatchTypeOK, Places
  <1>2. \A m \in Messages : MessageFits(m)
    BY DEF DispatchInit, MessageFits
  <1>3. \A m \in Messages, c \in Channels :
          AttemptsFit(m, c) /\ RecordsFit(m, c) /\ ToldFits(m, c)
    BY DEF DispatchInit, AttemptsFit, RecordsFit, ToldFits
  <1> QED BY <1>1, <1>2, <1>3 DEF DispatchInv

\* A step for one delivery leaves what is known of the others.
LEMMA OthersFit ==
  ASSUME DispatchInv, NEW m \in Messages, NEW c \in Channels,
         layout' = layout, told'[m] = told[m], delivery'[m][c] = delivery[m][c],
         attempts'[m][c] = attempts[m][c],
         <<m, c>> \in records' <=> <<m, c>> \in records,
         diskErrors \subseteq diskErrors'
  PROVE  AttemptsFit(m, c)' /\ RecordsFit(m, c)' /\ ToldFits(m, c)'
  <1>1. IsSync(c)' = IsSync(c) /\ Active' = Active
    BY DEF IsSync, Active, Channels
  <1>2. \A a : IsTransient(c, a)' = IsTransient(c, a)
    BY DEF IsTransient
  <1> QED BY <1>1, <1>2
      DEF DispatchInv, AttemptsFit, RecordsFit, ToldFits, GaveUp

\* What is said of the channels is fixed by the layout.
LEMMA LayoutFixed ==
  ASSUME layout' = layout
  PROVE  /\ Channels' = Channels /\ Active' = Active
         /\ \A c : IsSync(c)' = IsSync(c)
         /\ \A c, a : IsTransient(c, a)' = IsTransient(c, a)
  BY DEF Channels, Active, IsSync, IsTransient

\* A message is taken for the channels: it had no delivery yet.
LEMMA TakeMessageKeeps ==
  ASSUME DispatchInv, NEW m \in Messages, TakeMessage(m)
  PROVE  DispatchInv'
  <1>1. layout' = layout /\ attempts' = attempts /\ records' = records
        /\ diskErrors' = diskErrors /\ mailQueue' = mailQueue /\ outcome' = outcome
    BY DEF TakeMessage
  <1>2. told[m] = "nothing" /\ \A c \in Channels : delivery[m][c] = "none" /\ attempts[m][c] = <<>>
    BY DEF TakeMessage, DispatchInv, ToldFits, AttemptsFit
  <1>3. /\ told' = [told EXCEPT ![m] = "dispatching"]
        /\ delivery' = [delivery EXCEPT ![m] = [c \in Channels |->
                          IF IsSync(c) THEN "sending" ELSE "none"]]
    BY DEF TakeMessage
  <1>4. DispatchTypeOK'
    <2>1. [c \in Channels |-> IF IsSync(c) THEN "sending" ELSE "none"] \in [Channels -> Places]
      BY DEF Places
    <2> QED BY <1>1, <1>3, <2>1, LayoutFixed
        DEF TakeMessage, DispatchInv, DispatchTypeOK
  <1>5. \A n \in Messages : MessageFits(n)'
    BY <1>1, <1>2, <1>3, LayoutFixed
       DEF DispatchInv, MessageFits, DispatchTypeOK
  <1>6. ASSUME NEW n \in Messages, NEW c \in Channels
        PROVE  AttemptsFit(n, c)' /\ RecordsFit(n, c)' /\ ToldFits(n, c)'
    <2>1. CASE n # m
      <3>1. told'[n] = told[n] /\ delivery'[n][c] = delivery[n][c]
        BY <1>3, <2>1 DEF DispatchInv, DispatchTypeOK
      <3> QED BY <1>1, <3>1, OthersFit
    <2>2. CASE n = m
      <3>1. told'[n] = "dispatching" /\ delivery'[n][c] = IF IsSync(c) THEN "sending" ELSE "none"
        BY <1>3, <2>2 DEF DispatchInv, DispatchTypeOK
      <3>2. AttemptsFit(n, c)'
        BY <1>1, <1>2, <2>2, <3>1, LayoutFixed, DispatchAssumption
           DEF AttemptsFit
      <3>3. <<n, c>> \notin records
        BY <1>2, <2>2 DEF DispatchInv, RecordsFit
      <3>4. RecordsFit(n, c)' BY <1>1, <3>1, <3>3 DEF RecordsFit
      <3>5. ToldFits(n, c)'
        BY <1>1, <3>1, LayoutFixed DEF ToldFits, IsSync
      <3> QED BY <3>2, <3>4, <3>5
    <2> QED BY <2>1, <2>2
  <1> QED BY <1>1, <1>4, <1>5, <1>6, LayoutFixed DEF DispatchInv

\* A message is taken for the call-end email alone.
LEMMA TakeMessageForMailKeeps ==
  ASSUME DispatchInv, NEW m \in Messages, TakeMessageForMail(m)
  PROVE  DispatchInv'
  <1>1. /\ layout' = layout /\ attempts' = attempts /\ records' = records
        /\ diskErrors' = diskErrors /\ delivery' = delivery /\ up' = up
        /\ told' = [told EXCEPT ![m] = "saved"]
        /\ mailQueue' = mailQueue \cup {m} /\ outcome' = TRUE
        /\ Active = {} /\ told[m] = "nothing"
    BY DEF TakeMessageForMail, Saved
  <1>2. DispatchTypeOK'
    BY <1>1, LayoutFixed DEF DispatchInv, DispatchTypeOK
  <1>3. \A n \in Messages : MessageFits(n)'
    BY <1>1, LayoutFixed DEF DispatchInv, MessageFits, DispatchTypeOK
  <1>4. ASSUME NEW n \in Messages, NEW c \in Channels
        PROVE  AttemptsFit(n, c)' /\ RecordsFit(n, c)' /\ ToldFits(n, c)'
    <2>1. CASE n # m
      <3>1. told'[n] = told[n] BY <1>1, <2>1 DEF DispatchInv, DispatchTypeOK
      <3> QED BY <1>1, <3>1, OthersFit
    <2>2. CASE n = m
      <3>1. told'[n] = "saved" BY <1>1, <2>2 DEF DispatchInv, DispatchTypeOK
      <3>2. delivery[n][c] = "none" /\ attempts[n][c] = <<>> /\ ~IsSync(c) /\ <<n, c>> \notin records
        BY <1>1, <2>2 DEF DispatchInv, ToldFits, AttemptsFit, RecordsFit, IsSync
      <3> QED BY <1>1, <3>1, <3>2, LayoutFixed
          DEF AttemptsFit, RecordsFit, ToldFits
    <2> QED BY <2>1, <2>2
  <1> QED BY <1>1, <1>2, <1>3, <1>4, LayoutFixed DEF DispatchInv

\* A delivery that waited tries again.
LEMMA NextAttemptKeeps ==
  ASSUME DispatchInv, NEW m \in Messages, NEW c \in Channels, NextAttempt(m, c)
  PROVE  DispatchInv'
  <1>1. /\ layout' = layout /\ attempts' = attempts /\ records' = records
        /\ diskErrors' = diskErrors /\ up' = up /\ told' = told
        /\ mailQueue' = mailQueue /\ outcome' = outcome
        /\ delivery[m][c] = "backoff"
        /\ delivery' = [delivery EXCEPT ![m][c] = "sending"]
    BY DEF NextAttempt, At
  <1>2. DispatchTypeOK'
    BY <1>1, LayoutFixed DEF DispatchInv, DispatchTypeOK, Places
  <1>3. \A n \in Messages : MessageFits(n)'
    BY <1>1, LayoutFixed DEF DispatchInv, MessageFits, DispatchTypeOK
  <1>4. ASSUME NEW n \in Messages, NEW d \in Channels
        PROVE  AttemptsFit(n, d)' /\ RecordsFit(n, d)' /\ ToldFits(n, d)'
    <2>1. CASE n # m \/ d # c
      <3>1. delivery'[n][d] = delivery[n][d] BY <1>1, <2>1
          DEF DispatchInv, DispatchTypeOK
      <3> QED BY <1>1, <3>1, OthersFit
    <2>2. CASE n = m /\ d = c
      <3>1. delivery'[n][d] = "sending" /\ delivery[n][d] = "backoff"
        BY <1>1, <2>2 DEF DispatchInv, DispatchTypeOK
      <3> QED BY <1>1, <3>1, LayoutFixed
          DEF DispatchInv, AttemptsFit, RecordsFit, ToldFits
    <2> QED BY <2>1, <2>2
  <1> QED BY <1>1, <1>2, <1>3, <1>4, LayoutFixed DEF DispatchInv

\* A delivery that gave up writes its failure record.
LEMMA RecordFailureKeeps ==
  ASSUME DispatchInv, NEW m \in Messages, NEW c \in Channels, RecordFailure(m, c)
  PROVE  DispatchInv'
  <1>1. /\ layout' = layout /\ attempts' = attempts /\ up' = up /\ told' = told
        /\ mailQueue' = mailQueue /\ outcome' = outcome
        /\ delivery[m][c] = "recording"
        /\ delivery' = [delivery EXCEPT ![m][c] = "failed"]
        /\ \/ records' = records \cup {<<m, c>>} /\ diskErrors' = diskErrors
           \/ diskErrors' = diskErrors \cup {<<m, c>>} /\ records' = records
    BY DEF RecordFailure, At
  <1>2. DispatchTypeOK'
    BY <1>1, LayoutFixed DEF DispatchInv, DispatchTypeOK, Places
  <1>3. \A n \in Messages : MessageFits(n)'
    BY <1>1, LayoutFixed DEF DispatchInv, MessageFits, DispatchTypeOK
  <1>4. ASSUME NEW n \in Messages, NEW d \in Channels
        PROVE  AttemptsFit(n, d)' /\ RecordsFit(n, d)' /\ ToldFits(n, d)'
    <2>1. CASE n # m \/ d # c
      <3>1. delivery'[n][d] = delivery[n][d] BY <1>1, <2>1
          DEF DispatchInv, DispatchTypeOK
      <3> QED BY <1>1, <2>1, <3>1, OthersFit
    <2>2. CASE n = m /\ d = c
      <3>1. delivery'[n][d] = "failed" /\ delivery[n][d] = "recording"
        BY <1>1, <2>2 DEF DispatchInv, DispatchTypeOK
      <3>2. <<n, d>> \in records' \cup diskErrors' BY <1>1, <2>2
      <3> QED BY <1>1, <3>1, <3>2, LayoutFixed
              DEF DispatchInv, AttemptsFit, RecordsFit, ToldFits, GaveUp
    <2> QED BY <2>1, <2>2
  <1> QED BY <1>1, <1>2, <1>3, <1>4, LayoutFixed DEF DispatchInv

\* One more attempt after the ones that were worth another.
Grown(m, c, a) ==
  LET s == attempts[m][c]
      t == attempts'[m][c] IN
  /\ t \in Seq(Endings) /\ t # <<>>
  /\ Len(t) = Len(s) + 1 /\ Len(s) \in Nat /\ Len(s) < MaxAttempts
  /\ t[Len(t)] = a
  /\ \A i \in 1..(Len(t) - 1) : IsTransient(c, t[i]) /\ t[i] # "accepted"
  /\ attempts' \in [Messages -> [Channels -> Seq(Endings)]]
  /\ \A n \in Messages, d \in Channels :
       n # m \/ d # c => attempts'[n][d] = attempts[n][d]

\* The attempts of one delivery grow, and of no other.
LEMMA Appended ==
  ASSUME DispatchInv, NEW m \in Messages, NEW c \in Channels, NEW a \in Endings,
         delivery[m][c] = "sending", Heard(m, c, a)
  PROVE  Grown(m, c, a)
  <1>0. attempts' = [attempts EXCEPT ![m][c] = Append(@, a)] BY DEF Heard
  <1> DEFINE s == attempts[m][c]
             t == attempts'[m][c]
  <1>1. attempts \in [Messages -> [Channels -> Seq(Endings)]] /\ s \in Seq(Endings)
    BY DEF DispatchInv, DispatchTypeOK
  <1>2. t = Append(s, a) BY <1>0, <1>1
  <1>3. t \in Seq(Endings) /\ Len(t) = Len(s) + 1 /\ t[Len(t)] = a /\ Len(s) \in Nat
        /\ \A i \in 1..Len(s) : t[i] = s[i]
    BY <1>1, <1>2
  <1>4. Len(s) < MaxAttempts /\ \A i \in 1..Len(s) : IsTransient(c, s[i])
    BY <1>1 DEF DispatchInv, AttemptsFit
  <1>5. \A i \in 1..(Len(t) - 1) : IsTransient(c, t[i]) /\ t[i] # "accepted"
    <2> SUFFICES ASSUME NEW i \in 1..(Len(t) - 1)
                 PROVE  IsTransient(c, t[i]) /\ t[i] # "accepted"
      OBVIOUS
    <2>1. i \in 1..Len(s) BY <1>3
    <2>2. t[i] = s[i] /\ IsTransient(c, s[i]) BY <1>3, <1>4, <2>1
    <2> QED BY <2>2 DEF IsTransient
  <1>6. attempts' \in [Messages -> [Channels -> Seq(Endings)]]
    BY <1>0, <1>1, <1>2, <1>3
  <1>7. \A n \in Messages, d \in Channels : n # m \/ d # c => attempts'[n][d] = attempts[n][d]
    BY <1>0, <1>1
  <1>8. t # <<>> BY <1>3
  <1> QED BY <1>3, <1>4, <1>5, <1>6, <1>7, <1>8 DEF Grown

\* The attempt is accepted: the awaited channel saves the message and starts
\* the others.
LEMMA AcceptedKeeps ==
  ASSUME DispatchInv, NEW m \in Messages, NEW c \in Channels,
         delivery[m][c] = "sending", Heard(m, c, "accepted"), Delivered(m, c),
         UNCHANGED <<layout, records, diskErrors, up>>
  PROVE  DispatchInv'
  <1>1. Grown(m, c, "accepted")
    <2>1. "accepted" \in Endings BY DEF Endings
    <2> QED BY <2>1, Appended
  <1> DEFINE t == attempts'[m][c]
  <1>3. /\ t \in Seq(Endings) /\ t # <<>> /\ t[Len(t)] = "accepted"
        /\ \A i \in 1..(Len(t) - 1) : IsTransient(c, t[i])
        /\ attempts' \in [Messages -> [Channels -> Seq(Endings)]]
        /\ \A n \in Messages, d \in Channels : n # m \/ d # c => attempts'[n][d] = attempts[n][d]
    BY <1>1 DEF Grown
  <1>4. CASE IsSync(c)
    <2>1. /\ delivery' = [delivery EXCEPT ![m] = [d \in Channels |->
                           CASE d = c -> "delivered"
                             [] d \in Active \ {c} -> "sending"
                             [] OTHER -> "none"]]
          /\ told' = [told EXCEPT ![m] = "saved"]
          /\ mailQueue' = mailQueue \cup {m} /\ outcome' = TRUE
      BY <1>4 DEF Delivered, Saved
    <2>2. told[m] = "dispatching" BY <1>4 DEF DispatchInv, ToldFits
    <2>3. DispatchTypeOK'
      <3>1. [d \in Channels |-> CASE d = c -> "delivered"
                                 [] d \in Active \ {c} -> "sending"
                                 [] OTHER -> "none"] \in [Channels -> Places]
        BY DEF Places
      <3> QED BY <1>3, <2>1, <3>1, LayoutFixed DEF DispatchInv, DispatchTypeOK
    <2>4. \A n \in Messages : MessageFits(n)'
      BY <1>4, <2>1, LayoutFixed DEF DispatchInv, MessageFits, DispatchTypeOK
    <2>5. ASSUME NEW n \in Messages, NEW d \in Channels
          PROVE  AttemptsFit(n, d)' /\ RecordsFit(n, d)' /\ ToldFits(n, d)'
      <3>1. CASE n # m
        <4>1. told'[n] = told[n] /\ delivery'[n][d] = delivery[n][d]
          BY <2>1, <3>1 DEF DispatchInv, DispatchTypeOK
        <4> QED BY <1>3, <3>1, <4>1, OthersFit
      <3>2. CASE n = m /\ d = c
        <4>1. delivery'[n][d] = "delivered" /\ told'[n] = "saved"
          BY <2>1, <3>2 DEF DispatchInv, DispatchTypeOK
        <4>2. <<n, d>> \notin records BY <3>2 DEF DispatchInv, RecordsFit
        <4>3. d \in Active BY <1>4, <3>2 DEF IsSync
        <4>4. AttemptsFit(n, d)'
          BY <1>3, <3>2, <4>1 DEF AttemptsFit, IsTransient
        <4>5. RecordsFit(n, d)' BY <4>1, <4>2 DEF RecordsFit
        <4>6. ToldFits(n, d)' BY <1>4, <3>2, <4>1, <4>3, LayoutFixed DEF ToldFits
        <4> QED BY <4>4, <4>5, <4>6
      <3>3. CASE n = m /\ d # c
        <4>1. ~IsSync(d) BY <1>4, <3>3, SyncUnique DEF DispatchInv
        <4>2. delivery[n][d] = "none" BY <2>2, <3>3, <4>1
            DEF DispatchInv, ToldFits
        <4>3. attempts'[n][d] = <<>> /\ <<n, d>> \notin records
          <5>1. AttemptsFit(n, d) /\ RecordsFit(n, d) BY DEF DispatchInv
          <5>2. attempts'[n][d] = attempts[n][d] BY <1>3, <3>3
          <5>3. attempts[n][d] = <<>> BY <4>2, <5>1 DEF AttemptsFit
          <5>4. <<n, d>> \notin records BY <4>2, <5>1 DEF RecordsFit
          <5> QED BY <5>2, <5>3, <5>4
        <4>4. /\ told'[n] = "saved"
              /\ delivery'[n][d] \in {"none", "sending"}
              /\ delivery'[n][d] = "sending" => d \in Active
          BY <2>1, <3>3 DEF DispatchInv, DispatchTypeOK
        <4> QED BY <4>1, <4>3, <4>4, LayoutFixed, DispatchAssumption
                DEF AttemptsFit, RecordsFit, ToldFits
      <3> QED BY <3>1, <3>2, <3>3
    <2> QED BY <2>3, <2>4, <2>5, LayoutFixed DEF DispatchInv
  <1>5. CASE ~IsSync(c)
    <2>1. /\ delivery' = [delivery EXCEPT ![m][c] = "delivered"]
          /\ told' = told /\ mailQueue' = mailQueue /\ outcome' = outcome
      BY <1>5 DEF Delivered, At
    <2>2. DispatchTypeOK'
      BY <1>3, <2>1, LayoutFixed DEF DispatchInv, DispatchTypeOK, Places
    <2>3. \A n \in Messages : MessageFits(n)'
      BY <2>1, LayoutFixed DEF DispatchInv, MessageFits, DispatchTypeOK
    <2>4. ASSUME NEW n \in Messages, NEW d \in Channels
          PROVE  AttemptsFit(n, d)' /\ RecordsFit(n, d)' /\ ToldFits(n, d)'
      <3>1. CASE n # m \/ d # c
        <4>1. delivery'[n][d] = delivery[n][d] BY <2>1, <3>1
            DEF DispatchInv, DispatchTypeOK
        <4> QED BY <1>3, <2>1, <3>1, <4>1, OthersFit
      <3>2. CASE n = m /\ d = c
        <4>1. delivery'[n][d] = "delivered"
          BY <2>1, <3>2 DEF DispatchInv, DispatchTypeOK
        <4>2. <<n, d>> \notin records BY <3>2 DEF DispatchInv, RecordsFit
        <4>3. told[n] = "saved" /\ d \in Active BY <1>5, <3>2
            DEF DispatchInv, ToldFits
        <4> QED BY <1>3, <1>5, <2>1, <3>2, <4>1, <4>2, <4>3, LayoutFixed
                DEF AttemptsFit, RecordsFit, ToldFits
      <3> QED BY <3>1, <3>2
    <2> QED BY <2>2, <2>3, <2>4, LayoutFixed DEF DispatchInv
  <1> QED BY <1>4, <1>5

\* An attempt fails transiently and another one is left.
LEMMA RetriedKeeps ==
  ASSUME DispatchInv, NEW m \in Messages, NEW c \in Channels, NEW a \in Endings,
         delivery[m][c] = "sending", Heard(m, c, a), a # "accepted", Retried(m, c, a),
         At(m, c, "backoff"),
         UNCHANGED <<layout, told, records, diskErrors, mailQueue, outcome, up>>
  PROVE  DispatchInv'
  <1>1. Grown(m, c, a) BY Appended
  <1> DEFINE t == attempts'[m][c]
  <1>2. /\ t \in Seq(Endings) /\ t # <<>> /\ t[Len(t)] = a /\ Len(t) < MaxAttempts
        /\ \A i \in 1..(Len(t) - 1) : IsTransient(c, t[i])
        /\ attempts' \in [Messages -> [Channels -> Seq(Endings)]]
        /\ \A n \in Messages, d \in Channels : n # m \/ d # c => attempts'[n][d] = attempts[n][d]
    BY <1>1 DEF Grown, Retried
  <1>3. \A i \in DOMAIN t : IsTransient(c, t[i])
    BY <1>2 DEF Retried
  <1>4. delivery' = [delivery EXCEPT ![m][c] = "backoff"] BY DEF At
  <1>5. DispatchTypeOK'
    BY <1>2, <1>4, LayoutFixed DEF DispatchInv, DispatchTypeOK, Places
  <1>6. \A n \in Messages : MessageFits(n)'
    BY LayoutFixed DEF DispatchInv, MessageFits, DispatchTypeOK
  <1>7. ASSUME NEW n \in Messages, NEW d \in Channels
        PROVE  AttemptsFit(n, d)' /\ RecordsFit(n, d)' /\ ToldFits(n, d)'
    <2>1. CASE n # m \/ d # c
      <3>1. delivery'[n][d] = delivery[n][d] BY <1>4, <2>1
          DEF DispatchInv, DispatchTypeOK
      <3> QED BY <1>2, <2>1, <3>1, OthersFit
    <2>2. CASE n = m /\ d = c
      <3>1. delivery'[n][d] = "backoff" BY <1>4, <2>2
          DEF DispatchInv, DispatchTypeOK
      <3>2. AttemptsFit(n, d)' BY <1>2, <1>3, <2>2, <3>1, LayoutFixed
          DEF AttemptsFit
      <3>3. RecordsFit(n, d)' BY <2>2, <3>1 DEF DispatchInv, RecordsFit
      <3>4. ToldFits(n, d)' BY <2>2, <3>1, LayoutFixed DEF DispatchInv, ToldFits
      <3> QED BY <3>2, <3>3, <3>4
    <2> QED BY <2>1, <2>2
  <1> QED BY <1>5, <1>6, <1>7, LayoutFixed DEF DispatchInv

\* The last attempt fails, or one that is not worth another.
LEMMA RaisedKeeps ==
  ASSUME DispatchInv, NEW m \in Messages, NEW c \in Channels, NEW a \in Endings,
         delivery[m][c] = "sending", Heard(m, c, a), a # "accepted", ~Retried(m, c, a),
         Raised(m, c), UNCHANGED <<layout, records, diskErrors, up>>
  PROVE  DispatchInv'
  <1>1. Grown(m, c, a) BY Appended
  <1> DEFINE t == attempts'[m][c]
  <1>2. /\ t \in Seq(Endings) /\ t # <<>> /\ t[Len(t)] = a
        /\ Len(t) = Len(attempts[m][c]) + 1 /\ Len(attempts[m][c]) \in Nat
        /\ Len(attempts[m][c]) < MaxAttempts
        /\ \A i \in 1..(Len(t) - 1) : IsTransient(c, t[i]) /\ t[i] # "accepted"
        /\ attempts' \in [Messages -> [Channels -> Seq(Endings)]]
        /\ \A n \in Messages, d \in Channels : n # m \/ d # c => attempts'[n][d] = attempts[n][d]
    BY <1>1 DEF Grown
  <1>3. ~IsTransient(c, a) \/ Len(t) = MaxAttempts
    BY <1>2, DispatchAssumption DEF Retried
  <1>4. \A i \in DOMAIN t : t[i] # "accepted" BY <1>2
  <1>5. CASE IsSync(c)
    <2>1. /\ delivery' = [delivery EXCEPT ![m][c] = "failed"]
          /\ told' = [told EXCEPT ![m] = "trouble"]
          /\ mailQueue' = mailQueue /\ outcome' = outcome
      BY <1>5 DEF Raised, At
    <2>2. told[m] = "dispatching" BY <1>5 DEF DispatchInv, ToldFits
    <2>3. DispatchTypeOK'
      BY <1>2, <2>1, LayoutFixed DEF DispatchInv, DispatchTypeOK, Places
    <2>4. \A n \in Messages : MessageFits(n)'
      BY <2>1, <2>2, LayoutFixed DEF DispatchInv, MessageFits, DispatchTypeOK
    <2>5. ASSUME NEW n \in Messages, NEW d \in Channels
          PROVE  AttemptsFit(n, d)' /\ RecordsFit(n, d)' /\ ToldFits(n, d)'
      <3>1. CASE n # m
        <4>1. told'[n] = told[n] /\ delivery'[n][d] = delivery[n][d]
          BY <2>1, <3>1 DEF DispatchInv, DispatchTypeOK
        <4> QED BY <1>2, <3>1, <4>1, OthersFit
      <3>2. CASE n = m /\ d = c
        <4>1. delivery'[n][d] = "failed" /\ told'[n] = "trouble"
          BY <2>1, <3>2 DEF DispatchInv, DispatchTypeOK
        <4>2. <<n, d>> \notin records BY <3>2 DEF DispatchInv, RecordsFit
        <4>3. d \in Active BY <1>5, <3>2 DEF IsSync
        <4>4. AttemptsFit(n, d)'
          BY <1>2, <3>2, <4>1 DEF AttemptsFit, IsTransient
        <4>5. RecordsFit(n, d)' BY <4>1, <4>2 DEF RecordsFit
        <4>6. ToldFits(n, d)' BY <1>5, <3>2, <4>1, <4>3, LayoutFixed DEF ToldFits
        <4> QED BY <4>4, <4>5, <4>6
      <3>3. CASE n = m /\ d # c
        <4>1. ~IsSync(d) BY <1>5, <3>3, SyncUnique DEF DispatchInv
        <4>2. delivery[n][d] = "none" BY <2>2, <3>3, <4>1
            DEF DispatchInv, ToldFits
        <4>3. attempts'[n][d] = <<>> /\ <<n, d>> \notin records
          <5>1. AttemptsFit(n, d) /\ RecordsFit(n, d) BY DEF DispatchInv
          <5>2. attempts'[n][d] = attempts[n][d] BY <1>2, <3>3
          <5>3. attempts[n][d] = <<>> BY <4>2, <5>1 DEF AttemptsFit
          <5>4. <<n, d>> \notin records BY <4>2, <5>1 DEF RecordsFit
          <5> QED BY <5>2, <5>3, <5>4
        <4>4. delivery'[n][d] = "none" BY <2>1, <3>3, <4>2
            DEF DispatchInv, DispatchTypeOK
        <4> QED BY <4>1, <4>3, <4>4, LayoutFixed
            DEF AttemptsFit, RecordsFit, ToldFits
      <3> QED BY <3>1, <3>2, <3>3
    <2> QED BY <2>3, <2>4, <2>5, LayoutFixed DEF DispatchInv
  <1>6. CASE ~IsSync(c)
    <2>1. /\ delivery' = [delivery EXCEPT ![m][c] = "recording"]
          /\ told' = told /\ mailQueue' = mailQueue /\ outcome' = outcome
      BY <1>6 DEF Raised, At, AfterBackgroundError
    <2>2. DispatchTypeOK'
      BY <1>2, <2>1, LayoutFixed DEF DispatchInv, DispatchTypeOK, Places
    <2>3. \A n \in Messages : MessageFits(n)'
      BY <2>1, LayoutFixed DEF DispatchInv, MessageFits, DispatchTypeOK
    <2>4. ASSUME NEW n \in Messages, NEW d \in Channels
          PROVE  AttemptsFit(n, d)' /\ RecordsFit(n, d)' /\ ToldFits(n, d)'
      <3>1. CASE n # m \/ d # c
        <4>1. delivery'[n][d] = delivery[n][d] BY <2>1, <3>1
            DEF DispatchInv, DispatchTypeOK
        <4> QED BY <1>2, <2>1, <3>1, <4>1, OthersFit
      <3>2. CASE n = m /\ d = c
        <4>1. delivery'[n][d] = "recording" BY <2>1, <3>2
            DEF DispatchInv, DispatchTypeOK
        <4>2. <<n, d>> \notin records BY <3>2 DEF DispatchInv, RecordsFit
        <4>3. told'[n] = "saved" /\ d \in Active
          BY <1>6, <2>1, <3>2 DEF DispatchInv, ToldFits
        <4>4. GaveUp(n, d)'
          BY <1>2, <1>3, <1>4, <1>6, <3>2, <4>3, LayoutFixed DEF GaveUp
        <4>5. AttemptsFit(n, d)'
          BY <1>2, <3>2, <4>1 DEF AttemptsFit, IsTransient
        <4>6. RecordsFit(n, d)' BY <4>1, <4>2, <4>4 DEF RecordsFit
        <4>7. ToldFits(n, d)'
          BY <1>6, <3>2, <4>1, <4>3, LayoutFixed DEF ToldFits
        <4> QED BY <4>5, <4>6, <4>7
      <3> QED BY <3>1, <3>2
    <2> QED BY <2>2, <2>3, <2>4, LayoutFixed DEF DispatchInv
  <1> QED BY <1>5, <1>6

\* An attempt is answered: the delivery is done, waits or gives up.
LEMMA AttemptEndsKeeps ==
  ASSUME DispatchInv, NEW m \in Messages, NEW c \in Channels, AttemptEnds(m, c)
  PROVE  DispatchInv'
  <1>1. PICK a \in PossibleAnswers(c) :
          /\ Heard(m, c, a)
          /\ \/ a = "accepted" /\ Delivered(m, c)
             \/ /\ a # "accepted" /\ Retried(m, c, a)
                /\ At(m, c, "backoff")
                /\ UNCHANGED <<told, mailQueue, outcome>>
             \/ a # "accepted" /\ ~Retried(m, c, a) /\ Raised(m, c)
    BY DEF AttemptEnds
  <1>2. a \in Endings BY DEF PossibleAnswers, Endings
  <1>3. delivery[m][c] = "sending" /\ UNCHANGED <<layout, records, diskErrors, up>>
    BY DEF AttemptEnds
  <1> QED BY <1>1, <1>2, <1>3, AcceptedKeeps, RetriedKeeps, RaisedKeeps

\* The loop is shut down: every delivery is cut where it is.
LEMMA ShutdownKeeps ==
  ASSUME DispatchInv, Shutdown
  PROVE  DispatchInv'
  <1>1. PICK arrived \in SUBSET Unfinished, stored \in SUBSET Unfinished :
          /\ \A d \in arrived : delivery[d[1]][d[2]] = "sending"
          /\ attempts' = [m \in Messages |-> [c \in Channels |->
                           IF <<m, c>> \in arrived
                             THEN Append(attempts[m][c], "lost")
                             ELSE attempts[m][c]]]
          /\ records' = records \cup RecordsAfterCut(stored)
    BY DEF Shutdown
  <1>2. /\ layout' = layout /\ diskErrors' = diskErrors /\ up' = FALSE
        /\ mailQueue' = mailQueue /\ outcome' = outcome
        /\ delivery' = [m \in Messages |-> [c \in Channels |->
                         IF delivery[m][c] \in Live THEN "cancelled"
                                                    ELSE delivery[m][c]]]
        /\ told' = [m \in Messages |-> IF told[m] = "dispatching" THEN "cut"
                                                                  ELSE told[m]]
    BY DEF Shutdown
  <1>3. DispatchTypeOK'
    <2>1. attempts' \in [Messages -> [Channels -> Seq(Endings)]]
      <3>1. "lost" \in Endings BY DEF Endings
      <3>2. \A m \in Messages, c \in Channels : attempts[m][c] \in Seq(Endings)
        BY DEF DispatchInv, DispatchTypeOK
      <3>3. \A m \in Messages, c \in Channels :
              Append(attempts[m][c], "lost") \in Seq(Endings)
        BY <3>1, <3>2
      <3> QED BY <1>1, <3>2, <3>3
    <2>2. records' \subseteq Messages \X Channels
      BY <1>1 DEF RecordsAfterCut, Unfinished, DispatchInv, DispatchTypeOK
    <2>3. delivery' \in [Messages -> [Channels -> Places]]
      <3>1. \A m \in Messages, c \in Channels : delivery[m][c] \in Places
        BY DEF DispatchInv, DispatchTypeOK
      <3> QED BY <1>2, <3>1 DEF Places
    <2>4. told' \in [Messages -> {"nothing", "dispatching", "saved", "trouble",
                                  "cut"}]
      BY <1>2 DEF DispatchInv, DispatchTypeOK
    <2> QED BY <1>2, <2>1, <2>2, <2>3, <2>4, LayoutFixed
            DEF DispatchInv, DispatchTypeOK
  <1>4. ASSUME NEW m \in Messages PROVE MessageFits(m)'
    BY <1>2, LayoutFixed DEF DispatchInv, MessageFits
  <1>5. ASSUME NEW m \in Messages, NEW c \in Channels
        PROVE  AttemptsFit(m, c)' /\ RecordsFit(m, c)' /\ ToldFits(m, c)'
    <2>1. /\ delivery'[m][c] = IF delivery[m][c] \in Live THEN "cancelled"
                                                          ELSE delivery[m][c]
          /\ told'[m] = IF told[m] = "dispatching" THEN "cut" ELSE told[m]
      BY <1>2
    <2>2. CASE <<m, c>> \in arrived
      <3>1. delivery[m][c] = "sending" BY <1>1, <2>2
      <3>2. delivery'[m][c] = "cancelled" BY <2>1, <3>1 DEF Live
      <3>3. AttemptsFit(m, c)'
        <4> DEFINE s == attempts[m][c]
                   t == attempts'[m][c]
        <4>1. s \in Seq(Endings) BY DEF DispatchInv, DispatchTypeOK
        <4>2. t = Append(s, "lost") BY <1>1, <2>2
        <4>3. /\ Len(t) = Len(s) + 1 /\ Len(s) \in Nat
              /\ \A i \in 1..Len(s) : t[i] = s[i]
          BY <4>1, <4>2
        <4>4. \A i \in 1..Len(s) : IsTransient(c, s[i])
          BY <3>1, <4>1 DEF DispatchInv, AttemptsFit
        <4>5. ASSUME NEW i \in 1..(Len(t) - 1) PROVE IsTransient(c, t[i])
          <5>1. i \in 1..Len(s) BY <4>3
          <5>2. t[i] = s[i] /\ IsTransient(c, s[i]) BY <4>3, <4>4, <5>1
          <5> QED BY <5>2
        <4> QED BY <1>2, <3>2, <4>5, LayoutFixed DEF AttemptsFit
      <3>4. <<m, c>> \notin records'
        BY <1>1, <3>1 DEF RecordsAfterCut, DispatchInv, RecordsFit
      <3>5. RecordsFit(m, c)' BY <3>2, <3>4 DEF RecordsFit
      <3>6. ToldFits(m, c)'
        BY <1>2, <2>1, <3>1, <3>2, LayoutFixed DEF DispatchInv, ToldFits
      <3> QED BY <3>3, <3>5, <3>6
    <2>3. CASE <<m, c>> \notin arrived
      <3>1. attempts'[m][c] = attempts[m][c] BY <1>1, <2>3
      <3>2. AttemptsFit(m, c)'
        BY <1>2, <2>1, <3>1, LayoutFixed DEF DispatchInv, AttemptsFit, Live
      <3>3. <<m, c>> \in records' =>
              <<m, c>> \in records \/ delivery[m][c] = "recording"
        BY <1>1 DEF RecordsAfterCut
      <3>4. GaveUp(m, c) => GaveUp(m, c)'
        BY <1>2, <2>1, <3>1, LayoutFixed DEF GaveUp
      <3>5. RecordsFit(m, c)'
        BY <1>1, <1>2, <2>1, <3>3, <3>4 DEF DispatchInv, RecordsFit, Live
      <3>6. ToldFits(m, c)'
        BY <1>2, <2>1, LayoutFixed DEF DispatchInv, ToldFits, Live
      <3> QED BY <3>2, <3>5, <3>6
    <2> QED BY <2>2, <2>3
  <1> QED BY <1>2, <1>3, <1>4, <1>5, LayoutFixed DEF DispatchInv

\* A step that changes none of the variables changes none of the facts.
LEMMA DispatchStutters ==
  ASSUME DispatchInv, UNCHANGED dispatchVars
  PROVE  DispatchInv'
  <1>1. \A m \in Messages, c \in Channels :
          AttemptsFit(m, c)' /\ RecordsFit(m, c)' /\ ToldFits(m, c)'
    BY OthersFit DEF dispatchVars, DispatchInv
  <1>2. \A m \in Messages : MessageFits(m)'
    BY LayoutFixed DEF dispatchVars, DispatchInv, MessageFits
  <1>3. DispatchTypeOK'
    BY LayoutFixed DEF dispatchVars, DispatchInv, DispatchTypeOK
  <1> QED BY <1>1, <1>2, <1>3, LayoutFixed DEF dispatchVars, DispatchInv

(***************************************************************************)
(* The invariant holds in every state, whatever the endpoints answer and   *)
(* whenever the loop is shut down.                                         *)
(***************************************************************************)
THEOREM DispatchKept == DispatchSpec => []DispatchInv
  <1>1. DispatchInv /\ [DispatchNext]_dispatchVars => DispatchInv'
    <2> SUFFICES ASSUME DispatchInv, [DispatchNext]_dispatchVars
                 PROVE  DispatchInv'
      OBVIOUS
    <2>1. CASE \E m \in Messages : TakeMessage(m) \/ TakeMessageForMail(m)
      BY <2>1, TakeMessageKeeps, TakeMessageForMailKeeps
    <2>2. CASE \E m \in Messages, c \in Channels :
                 AttemptEnds(m, c) \/ NextAttempt(m, c) \/ RecordFailure(m, c)
      BY <2>2, AttemptEndsKeeps, NextAttemptKeeps, RecordFailureKeeps
    <2>3. CASE Shutdown BY <2>3, ShutdownKeeps
    <2>4. CASE UNCHANGED dispatchVars BY <2>4, DispatchStutters
    <2> QED BY <2>1, <2>2, <2>3, <2>4 DEF DispatchNext
  <1> QED BY DispatchInitHolds, <1>1, PTL DEF DispatchSpec

(***************************************************************************)
(* A channel list with something to dispatch has an awaited channel, and   *)
(* it is a file wherever there is one.                                     *)
(***************************************************************************)
LEMMA SyncIsFile ==
  ASSUME NEW c \in Channels, IsSync(c), NEW f \in Channels, layout[f] = "file"
  PROVE  layout[c] = "file"
  <1>1. f \in Active BY DEF Active
  <1> QED BY <1>1 DEF IsSync

(***************************************************************************)
(* A caller is told "saved" only when a copy is in the most durable place  *)
(* the configuration has (Dispatcher.dispatch_message), for any messages,  *)
(* channels and number of attempts.                                        *)
(***************************************************************************)
THEOREM SavedMeansCopied == DispatchSpec => []SavedHasCopy
  <1>1. DispatchInv => SavedHasCopy
    <2> SUFFICES ASSUME DispatchInv, NEW m \in Messages
                 PROVE  /\ told[m] = "saved" <=> m \in mailQueue
                        /\ told[m] = "saved" =>
                             /\ outcome
                             /\ (\E c \in Channels : layout[c] = "file") =>
                                  HasCopy(m, "file")
                             /\ Active # {} =>
                                  HasCopy(m, "file") \/ HasCopy(m, "webhook")
      BY DEF SavedHasCopy
    <2>1. /\ told[m] = "saved" <=> m \in mailQueue
          /\ told[m] = "saved" => outcome
      BY DEF DispatchInv, MessageFits
    <2>2. ASSUME told[m] = "saved", Active # {}
          PROVE  /\ (\E c \in Channels : layout[c] = "file") => HasCopy(m, "file")
                 /\ HasCopy(m, "file") \/ HasCopy(m, "webhook")
      <3>1. PICK c \in Channels : IsSync(c)
        BY <2>2 DEF DispatchInv, MessageFits
      <3>2. delivery[m][c] = "delivered" BY <2>2, <3>1 DEF DispatchInv, ToldFits
      <3>3. Arrived(attempts[m][c]) # {}
        <4> DEFINE s == attempts[m][c]
        <4>1. s \in Seq(Endings) BY DEF DispatchInv, DispatchTypeOK
        <4>2. s # <<>> /\ s[Len(s)] = "accepted"
          BY <3>2 DEF DispatchInv, AttemptsFit
        <4>3. Len(s) \in DOMAIN s BY <4>1, <4>2
        <4> QED BY <4>2, <4>3 DEF Arrived
      <3>4. HasCopy(m, layout[c]) BY <3>3 DEF HasCopy
      <3>5. layout[c] \in {"file", "webhook"}
        <4>1. layout \in Seq(Kinds) BY DispatchAssumption
            DEF DispatchInv, DispatchTypeOK
        <4>2. layout[c] \in Kinds BY <4>1 DEF Channels
        <4> QED BY <3>1, <4>2 DEF IsSync, Active, Kinds
      <3>6. (\E f \in Channels : layout[f] = "file") => layout[c] = "file"
        BY <3>1, SyncIsFile
      <3> QED BY <3>4, <3>5, <3>6
    <2>3. (\E c \in Channels : layout[c] = "file") => Active # {}
      BY DEF Active
    <2> QED BY <2>1, <2>2, <2>3
  <1> QED BY DispatchKept, <1>1, PTL

(***************************************************************************)
(* A failure record says what has to be replayed and nothing else          *)
(* (_run_background, record_failure), for any messages, channels and       *)
(* number of attempts.                                                     *)
(***************************************************************************)
THEOREM RecordsReplay == DispatchSpec => []RecordSaysReplay
  <1>1. DispatchInv => RecordSaysReplay
    BY DEF DispatchInv, RecordsFit, GaveUp, RecordSaysReplay
  <1> QED BY DispatchKept, <1>1, PTL

(***************************************************************************)
(* A webhook is posted again only after a transient error                  *)
(* (retry_with_backoff), for any messages, channels and number of attempts.*)
(***************************************************************************)
THEOREM NoPostAfterRefusal == DispatchSpec => []PostedAgainAfterTransient
  <1>1. DispatchInv => PostedAgainAfterTransient
    BY DEF DispatchInv, AttemptsFit, IsTransient, PostedAgainAfterTransient
  <1> QED BY DispatchKept, <1>1, PTL

-----------------------------------------------------------------------------
(***************************************************************************)
(* InfoPacket: an address that is armed or being sent to has a read-back   *)
(* no packet sent has used up, while no two sends are under way together.  *)
(***************************************************************************)
ReadBackLeft(a) ==
  armed = a \/ (\E i \in Sending : packets[i].to = a) =>
    Cardinality(SentTo(a)) + 1 <= readBacks[a]

GateInv ==
  /\ PacketTypeOK
  /\ \A a \in Addresses : IsFiniteSet(SentTo(a))
  /\ \A a \in Addresses : TriedTo(a) # {} \/ armed = a => readBacks[a] > 0
  /\ ~collided =>
       /\ \A i, j \in Sending : i = j
       /\ \A a \in Addresses :
            ReadBackLeft(a) /\ Cardinality(SentTo(a)) <= readBacks[a]

\* A call adds an entry to the packets and changes none.
LEMMA CallAdds ==
  ASSUME PacketTypeOK, NEW a \in Addresses, NEW fate \in Fates, Call(a, fate)
  PROVE  /\ packets' \in Seq([to : Addresses, fate : Fates])
         /\ DOMAIN packets' = DOMAIN packets \cup {Len(packets) + 1}
         /\ Len(packets) + 1 \notin DOMAIN packets
         /\ packets'[Len(packets) + 1] = [to |-> a, fate |-> fate]
         /\ \A i \in DOMAIN packets : packets'[i] = packets[i]
  BY DEF PacketTypeOK, Call

\* A call that is answered at once changes neither the sends nor the sent.
LEMMA AnsweredAtOnce ==
  ASSUME PacketTypeOK, NEW a \in Addresses, NEW fate \in {"refused", "read_back"},
         Call(a, fate)
  PROVE  /\ packets' \in Seq([to : Addresses, fate : Fates])
         /\ Sending' = Sending
         /\ \A i \in Sending : packets'[i] = packets[i]
         /\ \A b \in Addresses : SentTo(b)' = SentTo(b) /\ TriedTo(b)' = TriedTo(b)
  <1> DEFINE n == Len(packets) + 1
  <1>1. fate \in Fates BY DEF Fates
  <1>2. /\ packets' \in Seq([to : Addresses, fate : Fates])
        /\ DOMAIN packets' = DOMAIN packets \cup {n} /\ n \notin DOMAIN packets
        /\ packets'[n] = [to |-> a, fate |-> fate]
        /\ \A i \in DOMAIN packets : packets'[i] = packets[i]
    BY <1>1, CallAdds
  <1>3. packets'[n].fate = fate /\ packets'[n].to = a BY <1>2
  <1>4. \A b \in Addresses : packets'[n] # [to |-> b, fate |-> "sent"]
    <2> SUFFICES ASSUME NEW b \in Addresses
                 PROVE  packets'[n] # [to |-> b, fate |-> "sent"]
      OBVIOUS
    <2>1. [to |-> b, fate |-> "sent"].fate = "sent" OBVIOUS
    <2> QED BY <1>3, <2>1
  <1> QED BY <1>2, <1>3, <1>4 DEF Sending, SentTo, TriedTo

\* The caller is asked for consent.
LEMMA AskConsentKeeps ==
  ASSUME GateInv, NEW a \in Addresses, NEW confirmed \in BOOLEAN,
         AskConsent(a, confirmed)
  PROVE  GateInv'
  <1>1. /\ Call(a, "refused") /\ armed' = armed /\ log' = log
        /\ readBacks' = readBacks /\ collided' = collided
    BY DEF AskConsent
  <1>2. /\ packets' \in Seq([to : Addresses, fate : Fates])
        /\ Sending' = Sending
        /\ \A i \in Sending : packets'[i] = packets[i]
        /\ \A b \in Addresses : SentTo(b)' = SentTo(b) /\ TriedTo(b)' = TriedTo(b)
    BY <1>1, AnsweredAtOnce DEF GateInv
  <1> QED BY <1>1, <1>2 DEF GateInv, PacketTypeOK, ReadBackLeft

\* An address is armed and handed back.
LEMMA ArmReadBackKeeps ==
  ASSUME GateInv, NEW a \in Addresses, NEW confirmed \in BOOLEAN,
         ArmReadBack(a, confirmed)
  PROVE  GateInv'
  <1>1. /\ Call(a, "read_back") /\ armed' = a /\ log' = log
        /\ readBacks' = [readBacks EXCEPT ![a] = @ + 1] /\ collided' = collided
    BY DEF ArmReadBack
  <1>2. /\ packets' \in Seq([to : Addresses, fate : Fates])
        /\ Sending' = Sending
        /\ \A i \in Sending : packets'[i] = packets[i]
        /\ \A b \in Addresses : SentTo(b)' = SentTo(b) /\ TriedTo(b)' = TriedTo(b)
    BY <1>1, AnsweredAtOnce DEF GateInv
  <1>3. /\ readBacks' \in [Addresses -> Nat] /\ readBacks'[a] = readBacks[a] + 1
        /\ \A b \in Addresses : b # a => readBacks'[b] = readBacks[b]
        /\ \A b \in Addresses : readBacks[b] \in Nat
    BY <1>1 DEF GateInv, PacketTypeOK
  <1>4. PacketTypeOK' BY <1>1, <1>2, <1>3 DEF GateInv, PacketTypeOK
  <1>5. \A b \in Addresses : Cardinality(SentTo(b)) \in Nat
    BY FS_CardinalityType DEF GateInv
  <1>6. ~collided' => \A b \in Addresses :
          ReadBackLeft(b)' /\ Cardinality(SentTo(b)') <= readBacks'[b]
    BY <1>1, <1>2, <1>3, <1>5 DEF GateInv, ReadBackLeft
  <1>7. \A b \in Addresses : TriedTo(b)' # {} \/ armed' = b => readBacks'[b] > 0
    BY <1>1, <1>2, <1>3 DEF GateInv
  <1> QED BY <1>1, <1>2, <1>4, <1>6, <1>7 DEF GateInv

\* A confirmed call begins to send.
LEMMA SendConfirmedKeeps ==
  ASSUME GateInv, NEW a \in Addresses, NEW confirmed \in BOOLEAN,
         SendConfirmed(a, confirmed)
  PROVE  GateInv'
  <1> DEFINE n == Len(packets) + 1
  <1>1. /\ Call(a, "sending") /\ armed' = armed /\ log' = log /\ armed = a
        /\ readBacks' = readBacks /\ collided' = (collided \/ Sending # {})
    BY DEF SendConfirmed, IsConfirming
  <1>2. "sending" \in Fates BY DEF Fates
  <1>3. /\ packets' \in Seq([to : Addresses, fate : Fates])
        /\ DOMAIN packets' = DOMAIN packets \cup {n} /\ n \notin DOMAIN packets
        /\ packets'[n] = [to |-> a, fate |-> "sending"]
        /\ \A i \in DOMAIN packets : packets'[i] = packets[i]
    BY <1>1, <1>2, CallAdds DEF GateInv
  <1>4. packets'[n].fate = "sending" /\ packets'[n].to = a BY <1>3
  <1>5. \A b \in Addresses : packets'[n] # [to |-> b, fate |-> "sent"]
    <2> SUFFICES ASSUME NEW b \in Addresses
                 PROVE  packets'[n] # [to |-> b, fate |-> "sent"]
      OBVIOUS
    <2>1. [to |-> b, fate |-> "sent"].fate = "sent" OBVIOUS
    <2> QED BY <1>4, <2>1
  <1>6. \A b \in Addresses : SentTo(b)' = SentTo(b) BY <1>3, <1>5 DEF SentTo
  <1>7. \A b \in Addresses : b # a => TriedTo(b)' = TriedTo(b)
    BY <1>3, <1>4 DEF TriedTo
  <1>8. Sending' = Sending \cup {n} BY <1>3, <1>4 DEF Sending
  <1>9. PacketTypeOK' BY <1>1, <1>3 DEF GateInv, PacketTypeOK
  <1>10. ~collided' => Sending' = {n} BY <1>1, <1>8
  <1>11. ~collided' => \A b \in Addresses :
           ReadBackLeft(b)' /\ Cardinality(SentTo(b)') <= readBacks'[b]
    BY <1>1, <1>4, <1>6, <1>10 DEF GateInv, ReadBackLeft
  <1> QED BY <1>1, <1>6, <1>7, <1>9, <1>10, <1>11 DEF GateInv

\* A send is settled one way or the other.
LEMMA SettlesOne ==
  ASSUME PacketTypeOK, NEW i \in DOMAIN packets, NEW fate \in {"sent", "failed"},
         Settles(i, fate)
  PROVE  /\ packets' \in Seq([to : Addresses, fate : Fates])
         /\ log' \in Seq([to : Addresses, fate : {"sent", "failed"}])
         /\ DOMAIN packets' = DOMAIN packets
         /\ packets[i].to \in Addresses
         /\ packets'[i] = [to |-> packets[i].to, fate |-> fate]
         /\ \A j \in DOMAIN packets : j # i => packets'[j] = packets[j]
         /\ packets[i].fate = "sending"
         /\ readBacks' = readBacks /\ collided' = collided
  <1>1. /\ packets[i].fate = "sending"
        /\ packets' = [packets EXCEPT ![i].fate = fate]
        /\ log' = Append(log, [to |-> packets[i].to, fate |-> fate])
        /\ readBacks' = readBacks /\ collided' = collided
    BY DEF Settles
  <1>2. packets \in Seq([to : Addresses, fate : Fates]) BY DEF PacketTypeOK
  <1>3. packets[i] \in [to : Addresses, fate : Fates]
    <2>1. DOMAIN packets = 1..Len(packets) BY <1>2
    <2>2. i \in 1..Len(packets) BY <2>1
    <2> QED BY <1>2, <2>2, ElementOfSeq
  <1>4. packets[i].to \in Addresses BY <1>3
  <1>5. [packets[i] EXCEPT !.fate = fate] = [to |-> packets[i].to, fate |-> fate]
    BY <1>3
  <1>6. packets' = [packets EXCEPT ![i] = [packets[i] EXCEPT !.fate = fate]]
    BY <1>1
  <1>7. [to |-> packets[i].to, fate |-> fate] \in [to : Addresses, fate : Fates]
    BY <1>4 DEF Fates
  <1>8. /\ packets' \in Seq([to : Addresses, fate : Fates])
        /\ DOMAIN packets' = DOMAIN packets
        /\ packets'[i] = [to |-> packets[i].to, fate |-> fate]
        /\ \A j \in DOMAIN packets : j # i => packets'[j] = packets[j]
    BY <1>2, <1>5, <1>6, <1>7
  <1>9. log' \in Seq([to : Addresses, fate : {"sent", "failed"}])
    <2>1. log \in Seq([to : Addresses, fate : {"sent", "failed"}])
      BY DEF PacketTypeOK
    <2>2. [to |-> packets[i].to, fate |-> fate] \in
            [to : Addresses, fate : {"sent", "failed"}]
      BY <1>4
    <2> QED BY <1>1, <2>1, <2>2
  <1> QED BY <1>1, <1>4, <1>8, <1>9

\* The sends under way and the tries once a send is settled.
LEMMA SettledSets ==
  ASSUME PacketTypeOK, NEW i \in DOMAIN packets, NEW fate \in {"sent", "failed"},
         Settles(i, fate)
  PROVE  /\ Sending' = Sending \ {i} /\ i \in Sending
         /\ \A a \in Addresses : TriedTo(a)' = TriedTo(a)
         /\ \A a \in Addresses : SentTo(a)' =
              IF fate = "sent" /\ a = packets[i].to THEN SentTo(a) \cup {i}
                                                    ELSE SentTo(a)
         /\ \A a \in Addresses : i \notin SentTo(a)
  <1>1. /\ DOMAIN packets' = DOMAIN packets
        /\ packets[i].to \in Addresses
        /\ packets'[i] = [to |-> packets[i].to, fate |-> fate]
        /\ \A j \in DOMAIN packets : j # i => packets'[j] = packets[j]
        /\ packets[i].fate = "sending"
    BY SettlesOne
  <1>2. packets'[i].fate = fate /\ packets'[i].to = packets[i].to BY <1>1
  <1>3. \A a \in Addresses :
          packets'[i] = [to |-> a, fate |-> "sent"]
            <=> fate = "sent" /\ a = packets[i].to
    BY <1>1, <1>2
  <1>4. \A a \in Addresses : packets[i] # [to |-> a, fate |-> "sent"]
    <2> SUFFICES ASSUME NEW a \in Addresses
                 PROVE  packets[i] # [to |-> a, fate |-> "sent"]
      OBVIOUS
    <2>1. [to |-> a, fate |-> "sent"].fate = "sent" OBVIOUS
    <2> QED BY <1>1, <2>1
  <1>5. Sending' = Sending \ {i} /\ i \in Sending
    BY <1>1, <1>2 DEF Sending
  <1>6. ASSUME NEW a \in Addresses PROVE TriedTo(a)' = TriedTo(a)
    BY <1>1, <1>2 DEF TriedTo
  <1>7. ASSUME NEW a \in Addresses
        PROVE  /\ SentTo(a)' =
                    IF fate = "sent" /\ a = packets[i].to THEN SentTo(a) \cup {i}
                                                          ELSE SentTo(a)
               /\ i \notin SentTo(a)
    BY <1>1, <1>3, <1>4 DEF SentTo
  <1> QED BY <1>5, <1>6, <1>7

\* The packet is sent and the gate cleared.
LEMMA PacketSentKeeps ==
  ASSUME GateInv, NEW i \in DOMAIN packets, PacketSent(i)
  PROVE  GateInv'
  <1> DEFINE to == packets[i].to
  <1>1. Settles(i, "sent") /\ armed' = NoAddress BY DEF PacketSent, AfterSent
  <1>2. /\ packets' \in Seq([to : Addresses, fate : Fates])
        /\ log' \in Seq([to : Addresses, fate : {"sent", "failed"}])
        /\ packets[i].to \in Addresses
        /\ readBacks' = readBacks /\ collided' = collided
    BY <1>1, SettlesOne DEF GateInv
  <1>3. /\ Sending' = Sending \ {i} /\ i \in Sending
        /\ \A a \in Addresses : TriedTo(a)' = TriedTo(a)
        /\ \A a \in Addresses :
             SentTo(a)' = IF a = packets[i].to THEN SentTo(a) \cup {i} ELSE SentTo(a)
        /\ \A a \in Addresses : i \notin SentTo(a)
    BY <1>1, SettledSets DEF GateInv
  <1>4. PacketTypeOK' BY <1>1, <1>2 DEF GateInv, PacketTypeOK
  <1>5. \A a \in Addresses : NoAddress # a BY InfoPacketAssumption
  <1>6. ASSUME NEW a \in Addresses
        PROVE  /\ IsFiniteSet(SentTo(a)')
               /\ Cardinality(SentTo(a)') =
                    IF a = packets[i].to THEN Cardinality(SentTo(a)) + 1
                                         ELSE Cardinality(SentTo(a))
    BY <1>3, FS_AddElement DEF GateInv
  <1>7. ~collided' =>
          /\ Sending' = {}
          /\ \A a \in Addresses : Cardinality(SentTo(a)') <= readBacks'[a]
    <2> SUFFICES ASSUME ~collided' 
                 PROVE  /\ Sending' = {}
                        /\ \A a \in Addresses :
                             Cardinality(SentTo(a)') <= readBacks'[a]
      OBVIOUS
    <2>1. Sending' = {} BY <1>2, <1>3 DEF GateInv
    <2>2. \A a \in Addresses : Cardinality(SentTo(a)') <= readBacks'[a]
      BY <1>2, <1>3, <1>6 DEF GateInv, ReadBackLeft
    <2> QED BY <2>1, <2>2
  <1>8. \A a \in Addresses : TriedTo(a)' # {} \/ armed' = a => readBacks'[a] > 0
    BY <1>1, <1>2, <1>3, <1>5 DEF GateInv
  <1>9. ~collided' => \A a \in Addresses : ReadBackLeft(a)'
    BY <1>1, <1>5, <1>7 DEF ReadBackLeft
  <1> QED BY <1>4, <1>6, <1>7, <1>8, <1>9 DEF GateInv

\* The email failed and the address stays armed.
LEMMA PacketFailedKeeps ==
  ASSUME GateInv, NEW i \in DOMAIN packets, PacketFailed(i)
  PROVE  GateInv'
  <1>1. Settles(i, "failed") /\ armed' = armed BY DEF PacketFailed
  <1>2. /\ packets' \in Seq([to : Addresses, fate : Fates])
        /\ log' \in Seq([to : Addresses, fate : {"sent", "failed"}])
        /\ \A j \in DOMAIN packets : j # i => packets'[j] = packets[j]
        /\ readBacks' = readBacks /\ collided' = collided
    BY <1>1, SettlesOne DEF GateInv
  <1>3. /\ Sending' = Sending \ {i}
        /\ \A a \in Addresses : TriedTo(a)' = TriedTo(a) /\ SentTo(a)' = SentTo(a)
    BY <1>1, SettledSets DEF GateInv
  <1>4. PacketTypeOK' BY <1>1, <1>2 DEF GateInv, PacketTypeOK
  <1>5. \A j \in Sending' : j \in Sending /\ packets'[j] = packets[j]
    BY <1>2, <1>3 DEF Sending
  <1>6. \A a \in Addresses : ReadBackLeft(a) => ReadBackLeft(a)'
    BY <1>1, <1>2, <1>3, <1>5 DEF ReadBackLeft
  <1> QED BY <1>1, <1>2, <1>3, <1>4, <1>5, <1>6 DEF GateInv

(***************************************************************************)
(* No packet goes to an address that was not read back, and of sends that  *)
(* do not run into each other each has a read-back of its own              *)
(* (send_info_packet), for any addresses and any number of calls.          *)
(***************************************************************************)
THEOREM PacketsReadBack == PacketSpec => []SendsReadBack
  <1>1. PacketInit => GateInv
    <2> SUFFICES ASSUME PacketInit PROVE GateInv OBVIOUS
    <2>1. /\ <<>> \in Seq([to : Addresses, fate : Fates])
          /\ <<>> \in Seq([to : Addresses, fate : {"sent", "failed"}])
      OBVIOUS
    <2>2. PacketTypeOK BY <2>1 DEF PacketInit, PacketTypeOK
    <2>3. /\ Sending = {}
          /\ \A a \in Addresses : SentTo(a) = {} /\ TriedTo(a) = {}
      BY DEF PacketInit, Sending, SentTo, TriedTo
    <2>4. \A a \in Addresses : armed # a
      BY InfoPacketAssumption DEF PacketInit
    <2>5. \A a \in Addresses : IsFiniteSet(SentTo(a)) /\ Cardinality(SentTo(a)) = 0
      BY <2>3, FS_EmptySet
    <2> QED BY <2>2, <2>3, <2>4, <2>5 DEF PacketInit, GateInv, ReadBackLeft
  <1>2. GateInv /\ UNCHANGED packetVars => GateInv'
    BY
       DEF packetVars, GateInv, PacketTypeOK, ReadBackLeft, SentTo, TriedTo,
           Sending
  <1>3. GateInv /\ [PacketNext]_packetVars => GateInv'
    BY <1>2, AskConsentKeeps, ArmReadBackKeeps, SendConfirmedKeeps,
       PacketSentKeeps, PacketFailedKeeps DEF PacketNext
  <1>4. GateInv => SendsReadBack BY DEF GateInv, SendsReadBack
  <1> QED BY <1>1, <1>3, <1>4, PTL DEF PacketSpec

-----------------------------------------------------------------------------
(***************************************************************************)
(* RealtimeRecovery: the guard is set while a task sleeps, and a rejected  *)
(* reply not asked for again has a task to come, unless the recoveries are *)
(* used up.                                                                *)
(***************************************************************************)
RetryToCome ==
  \/ \E i \in DOMAIN handlers :
       \/ handlers[i].at = "queued" /\ handlers[i].recoverable
       \/ handlers[i].at = "backoff"
  \/ recoveries = MaxRecoveries

RecoveryInv ==
  /\ RecoveryTypeOK
  /\ recoveries <= MaxRecoveries
  /\ \A i, j \in InBackoff : i = j
  /\ recovering <=> InBackoff # {}
  /\ owed => RetryToCome

\* One task moves on and the others stay where they are.
LEMMA HandlerMoves ==
  ASSUME RecoveryTypeOK, NEW i \in DOMAIN handlers, NEW place \in HandlerPlaces,
         handlers' = [handlers EXCEPT ![i].at = place]
  PROVE  /\ handlers' \in Seq([recoverable : BOOLEAN, at : HandlerPlaces])
         /\ DOMAIN handlers' = DOMAIN handlers
         /\ handlers'[i].at = place
         /\ \A j \in DOMAIN handlers : j # i => handlers'[j] = handlers[j]
  <1>1. handlers \in Seq([recoverable : BOOLEAN, at : HandlerPlaces])
    BY DEF RecoveryTypeOK
  <1>2. handlers[i] \in [recoverable : BOOLEAN, at : HandlerPlaces]
    <2>1. DOMAIN handlers = 1..Len(handlers) BY <1>1
    <2>2. i \in 1..Len(handlers) BY <2>1
    <2> QED BY <1>1, <2>2, ElementOfSeq
  <1>3. [handlers[i] EXCEPT !.at = place] \in
          [recoverable : BOOLEAN, at : HandlerPlaces]
    BY <1>2
  <1>4. handlers' = [handlers EXCEPT ![i] = [handlers[i] EXCEPT !.at = place]]
    OBVIOUS
  <1>5. handlers'[i] = [handlers[i] EXCEPT !.at = place] BY <1>1, <1>4
  <1>6. handlers'[i].at = place BY <1>2, <1>5
  <1> QED BY <1>1, <1>3, <1>4, <1>6

\* An error event adds a task that is queued.
LEMMA ErrorKeeps ==
  ASSUME RecoveryInv, NEW recoverable \in BOOLEAN, ErrorEvent(recoverable)
  PROVE  RecoveryInv'
  <1> DEFINE n == Len(handlers) + 1
             new == [recoverable |-> recoverable, at |-> "queued"]
  <1>1. /\ handlers \in Seq([recoverable : BOOLEAN, at : HandlerPlaces])
        /\ handlers' = Append(handlers, new)
        /\ recovering' = recovering /\ recoveries' = recoveries
        /\ owed' = (owed \/ recoverable)
    BY DEF RecoveryInv, RecoveryTypeOK, ErrorEvent
  <1>2. new \in [recoverable : BOOLEAN, at : HandlerPlaces] BY DEF HandlerPlaces
  <1>3. /\ handlers' \in Seq([recoverable : BOOLEAN, at : HandlerPlaces])
        /\ DOMAIN handlers' = DOMAIN handlers \cup {n} /\ n \notin DOMAIN handlers
        /\ handlers'[n] = new
        /\ \A i \in DOMAIN handlers : handlers'[i] = handlers[i]
    BY <1>1, <1>2
  <1>4. handlers'[n].at = "queued" /\ handlers'[n].recoverable = recoverable
    BY <1>3
  <1>5. InBackoff' = InBackoff BY <1>3, <1>4 DEF InBackoff
  <1>6. owed' => RetryToCome'
    BY <1>1, <1>3, <1>4 DEF RecoveryInv, RetryToCome
  <1> QED BY <1>1, <1>3, <1>5, <1>6 DEF RecoveryInv, RecoveryTypeOK

\* A task returns at once, backs off or asks for the reply again.
LEMMA HandlerKeeps ==
  ASSUME RecoveryInv, NEW i \in DOMAIN handlers, HandlerStep(i)
  PROVE  RecoveryInv'
  <1>1. RecoveryTypeOK BY DEF RecoveryInv
  <1>2. CASE HandlerReturns(i)
    <2>1. /\ handlers' = [handlers EXCEPT ![i].at = "done"]
          /\ recovering' = recovering /\ recoveries' = recoveries /\ owed' = owed
          /\ handlers[i].at = "queued" /\ ~Recovers(i)
      BY <1>2 DEF HandlerReturns, Starting
    <2>2. "done" \in HandlerPlaces BY DEF HandlerPlaces
    <2>3. /\ handlers' \in Seq([recoverable : BOOLEAN, at : HandlerPlaces])
          /\ DOMAIN handlers' = DOMAIN handlers
          /\ handlers'[i].at = "done"
          /\ \A j \in DOMAIN handlers : j # i => handlers'[j] = handlers[j]
      BY <1>1, <2>1, <2>2, HandlerMoves
    <2>4. InBackoff' = InBackoff BY <2>1, <2>3 DEF InBackoff
    <2>5. owed' => RetryToCome'
      <3>1. CASE recovering
        BY <2>4, <3>1 DEF RecoveryInv, InBackoff, RetryToCome
      <3>2. CASE recoveries = MaxRecoveries
        BY <2>1, <3>2 DEF RetryToCome
      <3>3. CASE ~recovering /\ recoveries # MaxRecoveries
        <4>1. ~handlers[i].recoverable
          BY <2>1, <3>3, RecoveryAssumption
             DEF RecoveryInv, RecoveryTypeOK, Recovers
        <4> QED BY <2>1, <2>3, <3>3, <4>1 DEF RecoveryInv, RetryToCome
      <3> QED BY <3>1, <3>2, <3>3
    <2> QED BY <2>1, <2>3, <2>4, <2>5 DEF RecoveryInv, RecoveryTypeOK
  <1>3. CASE HandlerBacksOff(i)
    <2>1. /\ handlers' = [handlers EXCEPT ![i].at = "backoff"]
          /\ recovering' = TRUE /\ recoveries' = recoveries + 1 /\ owed' = owed
          /\ handlers[i].at = "queued" /\ ~recovering /\ recoveries < MaxRecoveries
      BY <1>3 DEF HandlerBacksOff, Starting, Recovers
    <2>2. "backoff" \in HandlerPlaces BY DEF HandlerPlaces
    <2>3. /\ handlers' \in Seq([recoverable : BOOLEAN, at : HandlerPlaces])
          /\ DOMAIN handlers' = DOMAIN handlers
          /\ handlers'[i].at = "backoff"
          /\ \A j \in DOMAIN handlers : j # i => handlers'[j] = handlers[j]
      BY <1>1, <2>1, <2>2, HandlerMoves
    <2>4. InBackoff' = {i}
      BY <2>1, <2>3 DEF RecoveryInv, InBackoff
    <2>5. RetryToCome' BY <2>3 DEF RetryToCome
    <2>6. recoveries' \in Nat /\ recoveries' <= MaxRecoveries
      BY <2>1, RecoveryAssumption DEF RecoveryInv, RecoveryTypeOK
    <2> QED BY <2>1, <2>3, <2>4, <2>5, <2>6 DEF RecoveryInv, RecoveryTypeOK
  <1>4. CASE HandlerRetries(i)
    <2>1. /\ handlers' = [handlers EXCEPT ![i].at = "done"]
          /\ recovering' = FALSE /\ recoveries' = recoveries /\ owed' = FALSE
          /\ handlers[i].at = "backoff"
      BY <1>4 DEF HandlerRetries, GuardAfter
    <2>2. "done" \in HandlerPlaces BY DEF HandlerPlaces
    <2>3. /\ handlers' \in Seq([recoverable : BOOLEAN, at : HandlerPlaces])
          /\ DOMAIN handlers' = DOMAIN handlers
          /\ handlers'[i].at = "done"
          /\ \A j \in DOMAIN handlers : j # i => handlers'[j] = handlers[j]
      BY <1>1, <2>1, <2>2, HandlerMoves
    <2>4. InBackoff' = {} BY <2>1, <2>3 DEF RecoveryInv, InBackoff
    <2> QED BY <2>1, <2>3, <2>4 DEF RecoveryInv, RecoveryTypeOK
  <1> QED BY <1>2, <1>3, <1>4 DEF HandlerStep

(***************************************************************************)
(* A burst of errors is one recovery, within the cap, and a rejected reply *)
(* is asked for again (_RealtimeRecovery.handle_error), for any number of  *)
(* errors and any cap.                                                     *)
(***************************************************************************)
THEOREM RepliesRetried == RecoverySpec => []RejectedReplyRetried
  <1>1. RecoveryInit => RecoveryInv
    <2> SUFFICES ASSUME RecoveryInit PROVE RecoveryInv OBVIOUS
    <2>1. RecoveryTypeOK
      <3>1. <<>> \in Seq([recoverable : BOOLEAN, at : HandlerPlaces]) OBVIOUS
      <3> QED BY <3>1 DEF RecoveryInit, RecoveryTypeOK
    <2>2. InBackoff = {} BY DEF RecoveryInit, InBackoff
    <2> QED BY <2>1, <2>2, RecoveryAssumption DEF RecoveryInit, RecoveryInv
  <1>2. RecoveryInv /\ UNCHANGED recoveryVars => RecoveryInv'
    BY DEF recoveryVars, RecoveryInv, RecoveryTypeOK, InBackoff, RetryToCome
  <1>3. RecoveryInv /\ [RecoveryNext]_recoveryVars => RecoveryInv'
    BY <1>2, ErrorKeeps, HandlerKeeps DEF RecoveryNext
  <1>4. RecoveryInv => RejectedReplyRetried
    BY DEF RecoveryInv, RetryToCome, RejectedReplyRetried
  <1> QED BY <1>1, <1>3, <1>4, PTL DEF RecoverySpec

-----------------------------------------------------------------------------
(***************************************************************************)
(* Retention: what a run of the sweep knows of the files it has seen, and  *)
(* of the one it is about to unlink.                                       *)
(***************************************************************************)
AboutToUnlink(s) ==
  LET f == sweep[s].old IN
  f # Unset =>
    /\ f \in Walked /\ written[f] # Unset
    /\ sweep[s].at = "walking" /\ ~sweep[s].dry
    /\ days > 0 /\ written[f] < sweep[s].cutoff

Begun(s) ==
  sweep[s].at # "idle" =>
    /\ sweep[s].cutoff \in Int /\ sweep[s].cutoff <= today - days
    /\ \A f \in sweep[s].found : written[f] # Unset

Handled(s) ==
  sweep[s].at # "idle" /\ ~sweep[s].dry /\ days > 0 =>
    \A f \in sweep[s].seen :
      /\ written[f] # Unset
      /\ written[f] < sweep[s].cutoff =>
           f \notin Present \/ f \in sweep[s].errors \/ f = sweep[s].old

EndedClean(s) ==
  sweep[s].at = "clean" =>
    /\ sweep[s].old = Unset
    /\ sweep[s].errors = {} \/ sweep[s].dry
    /\ sweep[s].found \cap Present \cap Walked
         \subseteq sweep[s].seen \cup sweep[s].unlisted

DeletedFits(s) ==
  /\ sweep[s].dry => sweep[s].deleted = {}
  /\ sweep[s].at = "idle" => sweep[s].deleted = {}
  /\ \A f \in sweep[s].deleted : removed[f] # Unset
  /\ \A t \in Sweeps : sweep[s].deleted \cap sweep[t].deleted # {} => s = t

Outlived(f) ==
  removed[f] # Unset =>
    /\ f \notin Failures /\ days > 0 /\ written[f] # Unset
    /\ removed[f] - written[f] > days
    /\ \E s \in Sweeps : f \in sweep[s].deleted

RunFits(s) ==
  AboutToUnlink(s) /\ Begun(s) /\ Handled(s) /\ EndedClean(s) /\ DeletedFits(s)

SweepInv ==
  /\ RetentionTypeOK
  /\ \A s \in Sweeps : RunFits(s)
  /\ \A f \in Files : Outlived(f)

\* The fields of one run, and the days, as the prover needs them.
LEMMA SweepTyped ==
  ASSUME RetentionTypeOK, NEW s \in Sweeps
  PROVE  /\ sweep[s].dry \in BOOLEAN /\ sweep[s].old \in Files \cup {Unset}
         /\ sweep[s].at \in {"idle", "walking", "clean", "errors", "aborted"}
         /\ sweep[s].cutoff \in Int \cup {Unset}
         /\ sweep[s].seen \in SUBSET Files /\ sweep[s].deleted \in SUBSET Files
         /\ sweep[s].errors \in SUBSET Files /\ sweep[s].found \in SUBSET Files
         /\ sweep[s].unlisted \in SUBSET Files
         /\ days \in Nat /\ today \in Int /\ Unset \notin Files /\ Unset \notin Int
         /\ \A f \in Files : /\ written[f] # Unset => written[f] \in Int
                             /\ removed[f] # Unset => removed[f] \in Int
  BY RetentionAssumption DEF RetentionTypeOK, Day

\* A day passes: cutoffs stay where they were.
LEMMA DayKeeps ==
  ASSUME SweepInv, DayPasses
  PROVE  SweepInv'
  <1>1. /\ today' = today + 1 /\ today < MaxDay
        /\ days' = days /\ written' = written /\ removed' = removed /\ sweep' = sweep
    BY DEF DayPasses
  <1>2. RetentionTypeOK'
    BY <1>1, RetentionAssumption DEF SweepInv, RetentionTypeOK, Day
  <1>3. ASSUME NEW s \in Sweeps PROVE RunFits(s)'
    BY <1>1, SweepTyped
       DEF SweepInv, RunFits, AboutToUnlink, Begun, Handled, EndedClean,
           DeletedFits, Present
  <1> QED BY <1>1, <1>2, <1>3 DEF SweepInv, Outlived

\* A call writes a file: none that was seen, found or removed.
LEMMA WriteKeeps ==
  ASSUME SweepInv, NEW f \in Files, FileWritten(f)
  PROVE  SweepInv'
  <1>1. /\ today' = today /\ days' = days /\ removed' = removed /\ sweep' = sweep
        /\ written[f] = Unset /\ written' = [written EXCEPT ![f] = today]
    BY DEF FileWritten
  <1>2. /\ RetentionTypeOK' 
        /\ \A g \in Files : written[g] # Unset => written'[g] = written[g]
        /\ \A g \in Files : g # f => written'[g] = written[g]
    BY <1>1 DEF SweepInv, RetentionTypeOK
  <1>3. ASSUME NEW s \in Sweeps PROVE RunFits(s)'
    <2>1. /\ RunFits(s) /\ sweep[s].seen \subseteq Files
          /\ sweep[s].found \subseteq Files /\ sweep[s].old \in Files \cup {Unset}
      BY SweepTyped DEF SweepInv
    <2>2. /\ AboutToUnlink(s)' /\ Begun(s)' /\ DeletedFits(s)'
      BY <1>1, <1>2, <2>1
         DEF RunFits, AboutToUnlink, Begun, DeletedFits, Walked
    <2>3. \A g \in Files : g \in Present' /\ g # f => g \in Present
      BY <1>1, <1>2 DEF Present
    <2>4. Handled(s)'
      BY <1>1, <1>2, <2>1, <2>3 DEF RunFits, Handled
    <2>5. EndedClean(s)'
      BY <1>1, <1>2, <2>1, <2>3 DEF RunFits, EndedClean, Begun, Present
    <2> QED BY <2>2, <2>4, <2>5 DEF RunFits
  <1>4. ASSUME NEW g \in Files PROVE Outlived(g)'
    BY <1>1, <1>2 DEF SweepInv, Outlived
  <1> QED BY <1>2, <1>3, <1>4 DEF SweepInv

RunType ==
  [at : {"idle", "walking", "clean", "errors", "aborted"}, dry : BOOLEAN,
   cutoff : Int \cup {Unset}, old : Files \cup {Unset}, seen : SUBSET Files,
   deleted : SUBSET Files, errors : SUBSET Files, found : SUBSET Files,
   unlisted : SUBSET Files]

\* What a step of one run does not touch.
OnlyRun(s) ==
  /\ days' = days /\ today' = today /\ written' = written
  /\ sweep' \in [Sweeps -> RunType]
  /\ \A t \in Sweeps : t # s => sweep'[t] = sweep[t]

\* A step of another run, which deletes nothing, changes nothing here.
LEMMA OtherRuns ==
  ASSUME SweepInv, NEW s \in Sweeps, OnlyRun(s), removed' = removed,
         sweep'[s].deleted = sweep[s].deleted
  PROVE  /\ RetentionTypeOK'
         /\ \A t \in Sweeps : t # s => RunFits(t)'
         /\ \A f \in Files : Outlived(f)'
         /\ DeletedFits(s) /\ \A t \in Sweeps : sweep'[t].deleted = sweep[t].deleted
  <1>1. \A t \in Sweeps : sweep'[t].deleted = sweep[t].deleted BY DEF OnlyRun
  <1>2. RetentionTypeOK' BY DEF SweepInv, RetentionTypeOK, OnlyRun, RunType
  <1>3. ASSUME NEW t \in Sweeps, t # s PROVE RunFits(t)'
    BY <1>1, <1>3
       DEF OnlyRun, SweepInv, RunFits, AboutToUnlink, Begun, Handled,
           EndedClean, DeletedFits, Present
  <1>4. ASSUME NEW f \in Files PROVE Outlived(f)'
    BY <1>1 DEF OnlyRun, SweepInv, Outlived
  <1> QED BY <1>1, <1>2, <1>3, <1>4 DEF SweepInv, RunFits

\* A run begins with nothing seen.
LEMMA BeginKeeps ==
  ASSUME SweepInv, NEW s \in Sweeps, NEW dry \in BOOLEAN, SweepBegins(s, dry)
  PROVE  SweepInv'
  <1> DEFINE new == [NotStarted EXCEPT !.at = "walking", !.dry = dry,
                                       !.cutoff = today - days, !.found = Present]
  <1>1. /\ sweep[s].at = "idle" /\ removed' = removed
        /\ sweep' = [sweep EXCEPT ![s] = new]
        /\ days' = days /\ today' = today /\ written' = written
    BY DEF SweepBegins
  <1>2. sweep \in [Sweeps -> RunType] BY DEF SweepInv, RetentionTypeOK, RunType
  <1>3. NotStarted \in RunType BY DEF NotStarted, RunType
  <1>4. today - days \in Int /\ Present \subseteq Files
    BY SweepTyped DEF SweepInv, Present
  <1>5. new \in RunType BY <1>3, <1>4 DEF RunType
  <1>6. /\ new.at = "walking" /\ new.dry = dry
        /\ new.cutoff = today - days /\ new.old = NotStarted.old
        /\ new.seen = NotStarted.seen /\ new.deleted = NotStarted.deleted
        /\ new.found = Present
    BY <1>3 DEF RunType
  <1>7. /\ NotStarted.old = Unset /\ NotStarted.seen = {}
        /\ NotStarted.deleted = {}
    BY DEF NotStarted
  <1> HIDE DEF new
  <1>8. OnlyRun(s) /\ sweep'[s] = new BY <1>1, <1>2, <1>5 DEF OnlyRun
  <1>9. /\ sweep'[s].at = "walking" /\ sweep'[s].dry = dry
        /\ sweep'[s].cutoff = today - days /\ sweep'[s].old = Unset
        /\ sweep'[s].seen = {} /\ sweep'[s].deleted = {}
        /\ sweep'[s].found = Present
    BY <1>6, <1>7, <1>8
  <1>10. sweep[s].deleted = {}
    BY <1>1 DEF SweepInv, RunFits, DeletedFits
  <1>11. /\ RetentionTypeOK'
         /\ \A t \in Sweeps : t # s => RunFits(t)'
         /\ \A f \in Files : Outlived(f)'
         /\ \A t \in Sweeps : sweep'[t].deleted = sweep[t].deleted
    BY <1>1, <1>8, <1>9, <1>10, OtherRuns
  <1>12. RunFits(s)'
    <2>1. AboutToUnlink(s)' /\ Handled(s)' /\ EndedClean(s)' /\ DeletedFits(s)'
      BY <1>9 DEF AboutToUnlink, Handled, EndedClean, DeletedFits
    <2>2. Begun(s)'
      BY <1>1, <1>4, <1>9 DEF Begun, Present
    <2> QED BY <2>1, <2>2 DEF RunFits
  <1> QED BY <1>11, <1>12 DEF SweepInv

\* A file is looked at; an old one is the next to be unlinked.
LEMMA LookAtKeeps ==
  ASSUME SweepInv, NEW s \in Sweeps, NEW f \in Files, LookAt(s, f)
  PROVE  SweepInv'
  <1> DEFINE r == sweep[s]
             new == [r EXCEPT !.seen = @ \cup {f},
                              !.old = IF IsOld(s, f) /\ ~r.dry THEN f ELSE Unset]
  <1>1. /\ r.at = "walking" /\ r.old = Unset /\ f \in Walked /\ f \in Present
        /\ sweep' = [sweep EXCEPT ![s] = new]
        /\ days' = days /\ today' = today /\ written' = written
        /\ removed' = removed
    BY DEF LookAt, Look
  <1>2. sweep \in [Sweeps -> RunType] BY DEF SweepInv, RetentionTypeOK, RunType
  <1>3. r \in RunType BY <1>2
  <1>4. new \in RunType BY <1>3 DEF RunType
  <1>5. /\ new.at = r.at /\ new.dry = r.dry /\ new.cutoff = r.cutoff
        /\ new.seen = r.seen \cup {f} /\ new.deleted = r.deleted
        /\ new.errors = r.errors /\ new.found = r.found
        /\ new.old = IF IsOld(s, f) /\ ~r.dry THEN f ELSE Unset
    BY <1>3 DEF RunType
  <1> HIDE DEF new
  <1>6. OnlyRun(s) /\ sweep'[s] = new BY <1>1, <1>2, <1>4 DEF OnlyRun
  <1>7. /\ RetentionTypeOK'
        /\ \A t \in Sweeps : t # s => RunFits(t)'
        /\ \A g \in Files : Outlived(g)'
        /\ DeletedFits(s)
        /\ \A t \in Sweeps : sweep'[t].deleted = sweep[t].deleted
    BY <1>1, <1>5, <1>6, OtherRuns
  <1>8. written[f] # Unset /\ Present' = Present BY <1>1 DEF Present
  <1>9. AboutToUnlink(s)'
    <2>1. CASE IsOld(s, f) /\ ~r.dry
      <3>1. sweep'[s].old = f BY <1>5, <1>6, <2>1
      <3> QED BY <1>1, <1>5, <1>6, <1>8, <2>1, <3>1 DEF AboutToUnlink, IsOld
    <2>2. CASE ~(IsOld(s, f) /\ ~r.dry)
      <3>1. sweep'[s].old = Unset BY <1>5, <1>6, <2>2
      <3> QED BY <3>1 DEF AboutToUnlink
    <2> QED BY <2>1, <2>2
  <1>10. Begun(s)' BY <1>1, <1>5, <1>6 DEF SweepInv, RunFits, Begun
  <1>11. Handled(s)'
    <2> SUFFICES ASSUME r.at # "idle", ~r.dry, days > 0, NEW g \in r.seen \cup {f}
                 PROVE  /\ written[g] # Unset
                        /\ written[g] < r.cutoff =>
                             g \notin Present \/ g \in r.errors \/ g = new.old
      BY <1>1, <1>5, <1>6, <1>8 DEF Handled
    <2>1. CASE g = f
      BY <1>5, <1>8, <2>1 DEF IsOld
    <2>2. CASE g \in r.seen
      BY <1>1, <1>3, <2>2, SweepTyped
         DEF SweepInv, RunFits, Handled, Present, RunType
    <2> QED BY <2>1, <2>2
  <1>12. EndedClean(s)' /\ DeletedFits(s)'
    BY <1>1, <1>5, <1>6, <1>7 DEF EndedClean, DeletedFits
  <1> QED BY <1>7, <1>9, <1>10, <1>11, <1>12 DEF SweepInv, RunFits

\* A file cannot be read.
LEMMA LookFailsKeeps ==
  ASSUME SweepInv, NEW s \in Sweeps, NEW f \in Files, LookFails(s, f)
  PROVE  SweepInv'
  <1> DEFINE r == sweep[s]
             new == [r EXCEPT !.seen = @ \cup {f}, !.errors = @ \cup {f}]
  <1>1. /\ r.at = "walking" /\ r.old = Unset /\ f \in Walked /\ f \in Present
        /\ sweep' = [sweep EXCEPT ![s] = new]
        /\ days' = days /\ today' = today /\ written' = written
        /\ removed' = removed
    BY DEF LookFails, Look
  <1>2. sweep \in [Sweeps -> RunType] BY DEF SweepInv, RetentionTypeOK, RunType
  <1>3. r \in RunType BY <1>2
  <1>4. new \in RunType BY <1>3 DEF RunType
  <1>5. /\ new.at = r.at /\ new.dry = r.dry /\ new.cutoff = r.cutoff
        /\ new.seen = r.seen \cup {f} /\ new.deleted = r.deleted
        /\ new.errors = r.errors \cup {f} /\ new.found = r.found
        /\ new.old = r.old
    BY <1>3 DEF RunType
  <1> HIDE DEF new
  <1>6. OnlyRun(s) /\ sweep'[s] = new BY <1>1, <1>2, <1>4 DEF OnlyRun
  <1>7. /\ RetentionTypeOK'
        /\ \A t \in Sweeps : t # s => RunFits(t)'
        /\ \A g \in Files : Outlived(g)'
        /\ DeletedFits(s)
        /\ \A t \in Sweeps : sweep'[t].deleted = sweep[t].deleted
    BY <1>1, <1>5, <1>6, OtherRuns
  <1>8. written[f] # Unset /\ Present' = Present BY <1>1 DEF Present
  <1>9. AboutToUnlink(s)' /\ Begun(s)'
    BY <1>1, <1>5, <1>6 DEF SweepInv, RunFits, AboutToUnlink, Begun
  <1>10. Handled(s)'
    BY <1>1, <1>5, <1>6, <1>8 DEF SweepInv, RunFits, Handled
  <1>11. EndedClean(s)' /\ DeletedFits(s)'
    BY <1>1, <1>5, <1>6, <1>7 DEF EndedClean, DeletedFits
  <1> QED BY <1>7, <1>9, <1>10, <1>11 DEF SweepInv, RunFits

\* A directory cannot be listed: nothing is known of its files.
LEMMA ListingRefusedKeeps ==
  ASSUME SweepInv, NEW s \in Sweeps, NEW f \in Files, ListingRefused(s, f)
  PROVE  SweepInv'
  <1> DEFINE r == sweep[s]
             new == [r EXCEPT !.unlisted = @ \cup {f}]
  <1>1. /\ r.at = "walking" /\ r.old = Unset
        /\ sweep' = [sweep EXCEPT ![s] = new]
        /\ days' = days /\ today' = today /\ written' = written
        /\ removed' = removed
    BY DEF ListingRefused, Look
  <1>2. sweep \in [Sweeps -> RunType] BY DEF SweepInv, RetentionTypeOK, RunType
  <1>3. r \in RunType BY <1>2
  <1>4. new \in RunType BY <1>3 DEF RunType
  <1>5. /\ new.at = r.at /\ new.dry = r.dry /\ new.cutoff = r.cutoff
        /\ new.seen = r.seen /\ new.deleted = r.deleted
        /\ new.errors = r.errors /\ new.found = r.found /\ new.old = r.old
    BY <1>3 DEF RunType
  <1> HIDE DEF new
  <1>6. OnlyRun(s) /\ sweep'[s] = new BY <1>1, <1>2, <1>4 DEF OnlyRun
  <1>7. /\ RetentionTypeOK'
        /\ \A t \in Sweeps : t # s => RunFits(t)'
        /\ \A g \in Files : Outlived(g)'
        /\ DeletedFits(s)
        /\ \A t \in Sweeps : sweep'[t].deleted = sweep[t].deleted
    BY <1>1, <1>5, <1>6, OtherRuns
  <1>8. Present' = Present BY <1>1 DEF Present
  <1>9. AboutToUnlink(s)' /\ Begun(s)'
    BY <1>1, <1>5, <1>6 DEF SweepInv, RunFits, AboutToUnlink, Begun
  <1>10. Handled(s)'
    BY <1>1, <1>5, <1>6, <1>8 DEF SweepInv, RunFits, Handled
  <1>11. EndedClean(s)' /\ DeletedFits(s)'
    BY <1>1, <1>5, <1>6, <1>7 DEF EndedClean, DeletedFits
  <1> QED BY <1>7, <1>9, <1>10, <1>11 DEF SweepInv, RunFits

\* The walk breaks off: the run does not end clean.
LEMMA WalkAbortsKeeps ==
  ASSUME SweepInv, NEW s \in Sweeps, WalkAborts(s)
  PROVE  SweepInv'
  <1> DEFINE r == sweep[s]
             new == [r EXCEPT !.at = "aborted"]
  <1>1. /\ r.at = "walking" /\ r.old = Unset
        /\ sweep' = [sweep EXCEPT ![s] = new]
        /\ days' = days /\ today' = today /\ written' = written
        /\ removed' = removed
    BY DEF WalkAborts
  <1>2. sweep \in [Sweeps -> RunType] BY DEF SweepInv, RetentionTypeOK, RunType
  <1>3. r \in RunType BY <1>2
  <1>4. new \in RunType BY <1>3 DEF RunType
  <1>5. /\ new.at = "aborted" /\ new.dry = r.dry /\ new.cutoff = r.cutoff
        /\ new.seen = r.seen /\ new.deleted = r.deleted
        /\ new.errors = r.errors /\ new.found = r.found /\ new.old = r.old
    BY <1>3 DEF RunType
  <1> HIDE DEF new
  <1>6. OnlyRun(s) /\ sweep'[s] = new BY <1>1, <1>2, <1>4 DEF OnlyRun
  <1>7. /\ RetentionTypeOK'
        /\ \A t \in Sweeps : t # s => RunFits(t)'
        /\ \A g \in Files : Outlived(g)'
        /\ DeletedFits(s)
        /\ \A t \in Sweeps : sweep'[t].deleted = sweep[t].deleted
    BY <1>1, <1>5, <1>6, OtherRuns
  <1>8. Present' = Present BY <1>1 DEF Present
  <1>9. AboutToUnlink(s)' /\ Begun(s)'
    BY <1>1, <1>5, <1>6 DEF SweepInv, RunFits, AboutToUnlink, Begun
  <1>10. Handled(s)'
    BY <1>1, <1>5, <1>6, <1>8 DEF SweepInv, RunFits, Handled
  <1>11. EndedClean(s)' /\ DeletedFits(s)'
    BY <1>1, <1>5, <1>6, <1>7 DEF EndedClean, DeletedFits
  <1> QED BY <1>7, <1>9, <1>10, <1>11 DEF SweepInv, RunFits

\* The walk is over.
LEMMA EndKeeps ==
  ASSUME SweepInv, NEW s \in Sweeps, SweepEnds(s)
  PROVE  SweepInv'
  <1> DEFINE r == sweep[s]
             new == [r EXCEPT !.at = ExitCode(s)]
  <1>1. /\ r.at = "walking" /\ r.old = Unset
        /\ r.found \cap Present \cap Walked \subseteq r.seen \cup r.unlisted
        /\ sweep' = [sweep EXCEPT ![s] = new]
        /\ days' = days /\ today' = today /\ written' = written
        /\ removed' = removed
    BY DEF SweepEnds
  <1>2. sweep \in [Sweeps -> RunType] BY DEF SweepInv, RetentionTypeOK, RunType
  <1>3. r \in RunType BY <1>2
  <1>4. new \in RunType BY <1>3 DEF RunType, ExitCode
  <1>5. /\ new.at = ExitCode(s) /\ new.dry = r.dry /\ new.cutoff = r.cutoff
        /\ new.seen = r.seen /\ new.deleted = r.deleted
        /\ new.errors = r.errors /\ new.found = r.found /\ new.old = r.old
        /\ new.unlisted = r.unlisted
    BY <1>3 DEF RunType
  <1> HIDE DEF new
  <1>6. OnlyRun(s) /\ sweep'[s] = new BY <1>1, <1>2, <1>4 DEF OnlyRun
  <1>7. /\ RetentionTypeOK'
        /\ \A t \in Sweeps : t # s => RunFits(t)'
        /\ \A g \in Files : Outlived(g)'
        /\ DeletedFits(s)
        /\ \A t \in Sweeps : sweep'[t].deleted = sweep[t].deleted
    BY <1>1, <1>5, <1>6, OtherRuns
  <1>8. Present' = Present BY <1>1 DEF Present
  <1>9. AboutToUnlink(s)' /\ Begun(s)'
    BY <1>1, <1>5, <1>6 DEF SweepInv, RunFits, AboutToUnlink, Begun
  <1>10. Handled(s)'
    BY <1>1, <1>5, <1>6, <1>8 DEF SweepInv, RunFits, Handled
  <1>11. EndedClean(s)'
    BY <1>1, <1>5, <1>6, <1>8 DEF EndedClean, ExitCode, Walked
  <1>12. DeletedFits(s)'
    BY <1>1, <1>5, <1>6, <1>7 DEF DeletedFits, ExitCode
  <1> QED BY <1>7, <1>9, <1>10, <1>11, <1>12 DEF SweepInv, RunFits

\* A file a run deletes was in no run's result.
LEMMA UnlinkKeeps ==
  ASSUME SweepInv, NEW s \in Sweeps, Unlink(s)
  PROVE  SweepInv'
  <1> DEFINE r == sweep[s]
             f == sweep[s].old
             done == [r EXCEPT !.old = Unset, !.deleted = @ \cup {f}]
             failed == [r EXCEPT !.old = Unset, !.errors = @ \cup {f}]
  <1>1. /\ f # Unset
        /\ \/ /\ f \in Present
              /\ removed' = [removed EXCEPT ![f] = today]
              /\ sweep' = [sweep EXCEPT ![s] = done]
           \/ removed' = removed /\ sweep' = [sweep EXCEPT ![s] = failed]
        /\ days' = days /\ today' = today /\ written' = written
    BY DEF Unlink, Unlinks
  <1>2. sweep \in [Sweeps -> RunType] BY DEF SweepInv, RetentionTypeOK, RunType
  <1>3. r \in RunType /\ f \in Files BY <1>1, <1>2 DEF RunType
  <1>4. /\ f \in Walked /\ written[f] # Unset
        /\ r.at = "walking" /\ ~r.dry /\ days > 0 /\ written[f] < r.cutoff
    BY <1>1 DEF SweepInv, RunFits, AboutToUnlink
  <1>5. done \in RunType /\ failed \in RunType BY <1>3 DEF RunType
  <1>6. /\ done.at = r.at /\ done.dry = r.dry /\ done.cutoff = r.cutoff
        /\ done.seen = r.seen /\ done.deleted = r.deleted \cup {f}
        /\ done.errors = r.errors /\ done.found = r.found /\ done.old = Unset
    BY <1>3 DEF RunType
  <1>7. /\ failed.at = r.at /\ failed.dry = r.dry /\ failed.cutoff = r.cutoff
        /\ failed.seen = r.seen /\ failed.deleted = r.deleted
        /\ failed.errors = r.errors \cup {f} /\ failed.found = r.found
        /\ failed.old = Unset
    BY <1>3 DEF RunType
  <1>8. RunFits(s) BY DEF SweepInv
  <1> HIDE DEF done, failed
  <1>9. CASE removed' = removed /\ sweep' = [sweep EXCEPT ![s] = failed]
    <2>1. OnlyRun(s) /\ sweep'[s] = failed BY <1>1, <1>2, <1>5, <1>9 DEF OnlyRun
    <2>2. /\ RetentionTypeOK'
          /\ \A t \in Sweeps : t # s => RunFits(t)'
          /\ \A g \in Files : Outlived(g)'
          /\ DeletedFits(s)
          /\ \A t \in Sweeps : sweep'[t].deleted = sweep[t].deleted
      BY <1>7, <1>9, <2>1, OtherRuns
    <2>3. Present' = Present BY <1>1, <1>9 DEF Present
    <2>4. AboutToUnlink(s)' /\ Begun(s)' /\ EndedClean(s)'
      BY <1>1, <1>4, <1>7, <1>8, <2>1
         DEF RunFits, AboutToUnlink, Begun, EndedClean
    <2>5. Handled(s)' BY <1>1, <1>7, <1>8, <2>1, <2>3 DEF RunFits, Handled
    <2>6. DeletedFits(s)' BY <1>7, <1>9, <2>1, <2>2 DEF DeletedFits
    <2> QED BY <2>2, <2>4, <2>5, <2>6 DEF SweepInv, RunFits
  <1>10. CASE /\ f \in Present
              /\ removed' = [removed EXCEPT ![f] = today]
              /\ sweep' = [sweep EXCEPT ![s] = done]
    <2>1. OnlyRun(s) /\ sweep'[s] = done BY <1>1, <1>2, <1>5, <1>10 DEF OnlyRun
    <2>2. /\ removed' \in [Files -> Day \cup {Unset}] /\ today \in Int
          /\ today # Unset /\ removed'[f] = today
          /\ \A g \in Files : g # f => removed'[g] = removed[g]
      BY <1>3, <1>10, RetentionAssumption DEF SweepInv, RetentionTypeOK, Day
    <2>3. RetentionTypeOK'
      BY <2>1, <2>2 DEF SweepInv, RetentionTypeOK, OnlyRun, RunType
    <2>4. /\ Present' \subseteq Present /\ f \notin Present'
          /\ removed[f] = Unset
          /\ \A g \in Files : removed[g] # Unset => removed'[g] # Unset
      BY <1>1, <1>10, <2>2 DEF Present
    <2>5. \A t \in Sweeps : f \notin sweep[t].deleted
      BY <2>4 DEF SweepInv, RunFits, DeletedFits
    <2>6. ASSUME NEW t \in Sweeps PROVE DeletedFits(t)'
      <3>1. \A u \in Sweeps : sweep'[u].deleted =
              IF u = s THEN sweep[u].deleted \cup {f} ELSE sweep[u].deleted
        BY <1>6, <2>1 DEF OnlyRun
      <3>2. \A u \in Sweeps : sweep'[u].dry = sweep[u].dry /\ sweep'[u].at = sweep[u].at
        BY <1>6, <2>1 DEF OnlyRun
      <3>3. DeletedFits(t) /\ sweep[t].deleted \subseteq Files
        BY SweepTyped DEF SweepInv, RunFits
      <3>4. /\ sweep'[t].dry => sweep'[t].deleted = {}
            /\ sweep'[t].at = "idle" => sweep'[t].deleted = {}
        BY <1>4, <3>1, <3>2, <3>3 DEF DeletedFits
      <3>5. \A g \in sweep'[t].deleted : removed'[g] # Unset
        <4>1. sweep'[t].deleted \subseteq sweep[t].deleted \cup {f} BY <3>1
        <4>2. \A g \in sweep[t].deleted : g \in Files /\ removed[g] # Unset
          BY <3>3 DEF DeletedFits
        <4> QED BY <2>2, <2>4, <4>1, <4>2
      <3>6. \A u \in Sweeps : sweep'[t].deleted \cap sweep'[u].deleted # {} => t = u
        <4> SUFFICES ASSUME NEW u \in Sweeps, NEW g,
                            g \in sweep'[t].deleted, g \in sweep'[u].deleted
                     PROVE  t = u
          OBVIOUS
        <4>1. CASE g = f BY <2>5, <3>1, <4>1
        <4>2. CASE g # f
          <5>1. g \in sweep[t].deleted \cap sweep[u].deleted BY <3>1, <4>2
          <5> QED BY <3>3, <5>1 DEF DeletedFits
        <4> QED BY <4>1, <4>2
      <3> QED BY <3>4, <3>5, <3>6 DEF DeletedFits
    <2>7. ASSUME NEW t \in Sweeps, t # s PROVE RunFits(t)'
      <3>1. sweep'[t] = sweep[t] /\ RunFits(t) BY <2>1, <2>7
          DEF OnlyRun, SweepInv
      <3>2. AboutToUnlink(t)' /\ Begun(t)' /\ EndedClean(t)'
        BY <1>1, <2>4, <3>1 DEF RunFits, AboutToUnlink, Begun, EndedClean
      <3>3. Handled(t)' BY <1>1, <2>4, <3>1 DEF RunFits, Handled
      <3> QED BY <2>6, <3>2, <3>3 DEF RunFits
    <2>8. RunFits(s)'
      <3>1. AboutToUnlink(s)' /\ Begun(s)' /\ EndedClean(s)'
        BY <1>1, <1>4, <1>6, <1>8, <2>1
           DEF RunFits, AboutToUnlink, Begun, EndedClean
      <3>2. Handled(s)' BY <1>1, <1>6, <1>8, <2>1, <2>4 DEF RunFits, Handled
      <3> QED BY <2>6, <3>1, <3>2 DEF RunFits
    <2>9. ASSUME NEW g \in Files PROVE Outlived(g)'
      <3>1. CASE g = f
        <4>1. f \in sweep'[s].deleted BY <1>6, <2>1
        <4>2. /\ r.cutoff \in Int /\ r.cutoff <= today - days
              /\ written[f] \in Int /\ days \in Int
          BY <1>3, <1>4, <1>8, SweepTyped DEF RunFits, Begun, SweepInv
        <4>3. today - written[f] > days BY <1>4, <2>2, <4>2
        <4> QED BY <1>1, <1>4, <2>2, <3>1, <4>1, <4>3 DEF Outlived, Walked
      <3>2. CASE g # f
        <4>1. \A t \in Sweeps : sweep[t].deleted \subseteq sweep'[t].deleted
          BY <1>6, <2>1 DEF OnlyRun
        <4>2. removed'[g] = removed[g] /\ Outlived(g)
          BY <2>2, <3>2 DEF SweepInv
        <4> QED BY <1>1, <4>1, <4>2 DEF Outlived
      <3> QED BY <3>1, <3>2
    <2> QED BY <2>3, <2>7, <2>8, <2>9 DEF SweepInv
  <1> QED BY <1>1, <1>9, <1>10

\* Nothing is written and no run has begun.
LEMMA SweepInitHolds == RetentionInit => SweepInv
  <1> SUFFICES ASSUME RetentionInit PROVE SweepInv
    OBVIOUS
  <1>1. RetentionTypeOK
    BY RetentionAssumption DEF RetentionInit, RetentionTypeOK, NotStarted, Day
  <1>2. \A s \in Sweeps : /\ sweep[s].at = "idle" /\ sweep[s].old = Unset
                           /\ sweep[s].deleted = {}
    BY DEF RetentionInit, NotStarted
  <1>3. \A f \in Files : removed[f] = Unset BY DEF RetentionInit
  <1>4. ASSUME NEW s \in Sweeps PROVE RunFits(s)
    BY <1>2 DEF RunFits, AboutToUnlink, Begun, Handled, EndedClean, DeletedFits
  <1> QED BY <1>1, <1>3, <1>4 DEF SweepInv, Outlived

\* Every step of the sweeps, of the calls and of the clock keeps it.
LEMMA SweepKept == RetentionSpec => []SweepInv
  <1>1. SweepInv /\ [RetentionNext]_retentionVars => SweepInv'
    <2> SUFFICES ASSUME SweepInv, [RetentionNext]_retentionVars PROVE SweepInv'
      OBVIOUS
    <2>1. CASE DayPasses BY <2>1, DayKeeps
    <2>2. ASSUME NEW f \in Files, FileWritten(f) PROVE SweepInv'
      BY <2>2, WriteKeeps
    <2>3. ASSUME NEW s \in Sweeps, NEW dry \in BOOLEAN, SweepBegins(s, dry)
          PROVE  SweepInv'
      BY <2>3, BeginKeeps
    <2>4. ASSUME NEW s \in Sweeps, NEW f \in Files, LookAt(s, f) \/ LookFails(s, f)
          PROVE  SweepInv'
      BY <2>4, LookAtKeeps, LookFailsKeeps
    <2>5. ASSUME NEW s \in Sweeps,
                 \/ Unlink(s) \/ SweepEnds(s) \/ WalkAborts(s)
                 \/ \E f \in Files : ListingRefused(s, f)
          PROVE  SweepInv'
      BY <2>5, UnlinkKeeps, EndKeeps, ListingRefusedKeeps, WalkAbortsKeeps
    <2>6. CASE UNCHANGED retentionVars
      BY <2>6
         DEF retentionVars, SweepInv, RetentionTypeOK, RunFits, AboutToUnlink,
             Begun, Handled, EndedClean, DeletedFits, Outlived, Present
    <2> QED BY <2>1, <2>2, <2>3, <2>4, <2>5, <2>6 DEF RetentionNext
  <1> QED BY <1>1, SweepInitHolds, PTL DEF RetentionSpec

(***************************************************************************)
(* Only what has outlived the retention is removed, by one sweep and by no *)
(* dry run: for every number of files and of sweeps at once.               *)
(***************************************************************************)
THEOREM OnlyExpired == RetentionSpec => []OnlyExpiredRemoved
  <1>1. SweepInv => OnlyExpiredRemoved
    <2> SUFFICES ASSUME SweepInv PROVE OnlyExpiredRemoved
      OBVIOUS
    <2>1. ASSUME NEW f \in Files, removed[f] # Unset
          PROVE  Cardinality({s \in Sweeps : f \in sweep[s].deleted}) = 1
      <3>1. PICK s \in Sweeps : f \in sweep[s].deleted
        BY <2>1 DEF SweepInv, Outlived
      <3>2. \A t \in Sweeps : f \in sweep[t].deleted => t = s
        BY <3>1 DEF SweepInv, RunFits, DeletedFits
      <3>3. {t \in Sweeps : f \in sweep[t].deleted} = {s} BY <3>1, <3>2
      <3> QED BY <3>3, FS_Singleton
    <2> QED BY <2>1
            DEF SweepInv, OnlyExpiredRemoved, Outlived, RunFits, DeletedFits
  <1> QED BY <1>1, SweepKept, PTL

(***************************************************************************)
(* A sweep that ends clean has left no file that was there and too old     *)
(* when it began, but where it was refused the listing.                    *)
(***************************************************************************)
THEOREM CleanSweeps == RetentionSpec => []CleanSweepClears
  <1>1. SweepInv => CleanSweepClears
    <2> SUFFICES ASSUME SweepInv, NEW s \in Sweeps, sweep[s].at = "clean",
                        ~sweep[s].dry, days > 0,
                        NEW f \in sweep[s].found \ (Failures \cup sweep[s].unlisted),
                        written[f] < sweep[s].cutoff, f \in Present
                 PROVE  FALSE
      BY DEF CleanSweepClears
    <2>1. RunFits(s) /\ f \in Files BY DEF SweepInv, Present
    <2>2. f \in sweep[s].seen /\ f # Unset /\ sweep[s].old = Unset
      BY <2>1, RetentionAssumption DEF RunFits, EndedClean, Walked
    <2>3. f \notin sweep[s].errors BY <2>1 DEF RunFits, EndedClean
    <2> QED BY <2>1, <2>2, <2>3 DEF RunFits, Handled
  <1> QED BY <1>1, SweepKept, PTL

-----------------------------------------------------------------------------
(***************************************************************************)
(* UnproductiveTurns: the flags of the receptionist are those of the last  *)
(* turn, and the counter is the size of the streak.                        *)
(***************************************************************************)
InStreak ==
  {i \in DOMAIN turns :
     /\ turns[i].reply = "unproductive"
     /\ \A j \in i..Len(turns) : ~Useful(turns[j])}

LastTurn ==
  /\ hasInput <=> turns # <<>>
  /\ turns # <<>> =>
       /\ turns[Len(turns)].tool = usedTool
       /\ ~replied => turns[Len(turns)].reply = Unscored

TurnInv ==
  /\ TurnTypeOK
  /\ LastTurn
  /\ IsFiniteSet(InStreak)
  /\ CountIsStreak

TurnRecord == [reply : Replies \cup {Unscored}, tool : BOOLEAN]

\* The elements of the history, and its last one.
LEMMA TurnsTyped ==
  ASSUME TurnTypeOK
  PROVE  /\ turns \in Seq(TurnRecord) /\ Len(turns) \in Nat
         /\ DOMAIN turns = 1..Len(turns)
         /\ \A i \in DOMAIN turns : turns[i] \in TurnRecord
         /\ turns # <<>> => Len(turns) \in DOMAIN turns
  <1>1. turns \in Seq(TurnRecord) BY DEF TurnTypeOK, TurnRecord
  <1>2. DOMAIN turns = 1..Len(turns) /\ Len(turns) \in Nat BY <1>1
  <1>3. \A i \in DOMAIN turns : turns[i] \in TurnRecord
    BY <1>1, <1>2, ElementOfSeq
  <1>4. turns # <<>> => Len(turns) # 0 BY <1>1
  <1> QED BY <1>1, <1>2, <1>3, <1>4

\* A step that changes one field of the last turn leaves the others.
LEMMA LastChanges ==
  ASSUME TurnTypeOK, turns # <<>>, NEW new \in TurnRecord,
         turns' = [turns EXCEPT ![Len(turns)] = new]
  PROVE  /\ turns' \in Seq(TurnRecord) /\ Len(turns') = Len(turns)
         /\ turns' # <<>> /\ DOMAIN turns' = DOMAIN turns
         /\ turns'[Len(turns)] = new
         /\ \A i \in DOMAIN turns : i # Len(turns) => turns'[i] = turns[i]
  <1>1. /\ turns \in Seq(TurnRecord) /\ Len(turns) \in DOMAIN turns
        /\ DOMAIN turns = 1..Len(turns) /\ Len(turns) \in Nat
    BY TurnsTyped
  <1>2. turns' \in Seq(TurnRecord) /\ Len(turns') = Len(turns)
    BY <1>1
  <1> QED BY <1>1, <1>2

\* A useful last turn ends every streak.
LEMMA UsefulEnds ==
  ASSUME TurnTypeOK', turns' # <<>>, Useful(turns[Len(turns)])'
  PROVE  InStreak' = {}
  <1>1. /\ DOMAIN turns' = 1..Len(turns') /\ Len(turns') \in Nat
        /\ Len(turns') \in DOMAIN turns'
    <2>1. turns' \in Seq(TurnRecord) BY DEF TurnTypeOK, TurnRecord
    <2> QED BY <2>1
  <1>2. \A i \in DOMAIN turns' : Len(turns') \in i..Len(turns') BY <1>1
  <1> QED BY <1>2 DEF InStreak, Useful

\* A final transcript opens a turn that is in no streak and ends none.
LEMMA TranscriptKeeps ==
  ASSUME TurnInv, UserTranscript
  PROVE  TurnInv'
  <1> DEFINE n == Len(turns) + 1
             new == [reply |-> Unscored, tool |-> FALSE]
  <1>1. /\ hasInput' = TRUE /\ usedTool' = FALSE /\ replied' = FALSE
        /\ turns' = Append(turns, new)
        /\ enabled' = enabled /\ count' = count
        /\ scheduled' = scheduled /\ agentEnded' = agentEnded
    BY DEF UserTranscript, ToolForgotten
  <1>2. /\ turns \in Seq(TurnRecord) /\ Len(turns) \in Nat
        /\ DOMAIN turns = 1..Len(turns)
    BY TurnsTyped DEF TurnInv
  <1>3. new \in TurnRecord BY DEF TurnRecord
  <1>4. /\ turns' \in Seq(TurnRecord) /\ Len(turns') = n /\ turns' # <<>>
        /\ DOMAIN turns' = DOMAIN turns \cup {n}
        /\ turns'[n] = new /\ \A i \in DOMAIN turns : turns'[i] = turns[i]
    BY <1>1, <1>2, <1>3
  <1>5. new.reply = Unscored /\ new.tool = FALSE
    OBVIOUS
  <1>6. Unscored # "productive" /\ Unscored # "unproductive"
    BY UnproductiveAssumption DEF Replies
  <1> HIDE DEF new
  <1>7. InStreak' = InStreak
    <2>1. ASSUME NEW i \in DOMAIN turns
          PROVE  (\A j \in i..n : ~Useful(turns[j])') <=>
                 (\A j \in i..Len(turns) : ~Useful(turns[j]))
      <3>1. \A j \in i..Len(turns) : j \in DOMAIN turns BY <1>2
      <3>2. i..n = (i..Len(turns)) \cup {n} BY <1>2
      <3>3. ~Useful(turns'[n]) BY <1>4, <1>5, <1>6 DEF Useful
      <3>4. \A j \in i..Len(turns) : turns'[j] = turns[j] BY <1>4, <3>1
      <3> QED BY <3>2, <3>3, <3>4 DEF Useful
    <2>2. turns'[n].reply # "unproductive" BY <1>4, <1>5, <1>6
    <2> QED BY <1>4, <2>1, <2>2 DEF InStreak, Useful
  <1>8. TurnTypeOK' BY <1>1, <1>4 DEF TurnInv, TurnTypeOK, TurnRecord
  <1>9. LastTurn' BY <1>1, <1>4, <1>5 DEF LastTurn
  <1>10. CountIsStreak' BY <1>1, <1>7
      DEF TurnInv, CountIsStreak, Streak, InStreak
  <1> QED BY <1>7, <1>8, <1>9, <1>10 DEF TurnInv

\* A tool ends the streak of the turn it ran in.
LEMMA ToolsKeep ==
  ASSUME TurnInv, ToolsExecuted
  PROVE  TurnInv'
  <1>1. /\ usedTool' = TRUE /\ count' = 0 /\ Current("tool", TRUE)
        /\ enabled' = enabled /\ hasInput' = hasInput /\ replied' = replied
        /\ scheduled' = scheduled /\ agentEnded' = agentEnded
    BY DEF ToolsExecuted
  <1>2. /\ TurnTypeOK' /\ LastTurn' /\ InStreak' = {}
    <2>1. CASE turns = <<>>
      <3>1. turns' = turns BY <1>1, <2>1 DEF Current
      <3>2. TurnTypeOK' BY <1>1, <3>1 DEF TurnInv, TurnTypeOK
      <3> QED BY <1>1, <2>1, <3>1, <3>2 DEF TurnInv, LastTurn, InStreak
    <2>2. CASE turns # <<>>
      <3> DEFINE last == turns[Len(turns)]
                 new == [last EXCEPT !["tool"] = TRUE]
      <3>1. last \in TurnRecord BY <2>2, TurnsTyped DEF TurnInv
      <3>2. new \in TurnRecord /\ new.tool = TRUE /\ new.reply = last.reply
        BY <3>1 DEF TurnRecord
      <3>3. turns' = [turns EXCEPT ![Len(turns)] = new]
        BY <1>1, <2>2 DEF Current
      <3> HIDE DEF new
      <3>4. /\ turns' \in Seq(TurnRecord) /\ Len(turns') = Len(turns)
            /\ turns' # <<>> /\ turns'[Len(turns)] = new
        BY <2>2, <3>2, <3>3, LastChanges DEF TurnInv
      <3>5. TurnTypeOK' BY <1>1, <3>4 DEF TurnInv, TurnTypeOK, TurnRecord
      <3>6. LastTurn' BY <1>1, <2>2, <3>2, <3>4 DEF TurnInv, LastTurn
      <3>7. Useful(turns[Len(turns)])' BY <3>2, <3>4 DEF Useful
      <3> QED BY <3>4, <3>5, <3>6, <3>7, UsefulEnds
    <2> QED BY <2>1, <2>2
  <1>3. IsFiniteSet(InStreak)' /\ Streak' = 0
    BY <1>2, FS_EmptySet DEF Streak, InStreak
  <1>4. CountIsStreak'
    BY <1>1, <1>3, UnproductiveAssumption DEF TurnInv, CountIsStreak
  <1> QED BY <1>2, <1>3, <1>4 DEF TurnInv

\* A first reply goes to the last turn: the streak grows by it, ends or stays.
LEMMA ReplyCounts ==
  ASSUME TurnInv, NEW reply \in Replies, ~replied, hasInput,
         Current("reply", reply), usedTool' = usedTool
  PROVE  /\ turns' \in Seq(TurnRecord) /\ turns' # <<>>
         /\ turns'[Len(turns')].tool = usedTool
         /\ IsFiniteSet(InStreak)'
         /\ usedTool \/ reply = "productive" => Streak' = 0
         /\ ~usedTool /\ reply = "unproductive" => Streak' = Streak + 1
         /\ ~usedTool /\ reply = "empty" => Streak' = Streak
  <1> DEFINE n == Len(turns)
             last == turns[n]
             new == [last EXCEPT !["reply"] = reply]
  <1>1. /\ turns # <<>> /\ last.tool = usedTool /\ last.reply = Unscored
        /\ turns \in Seq(TurnRecord) /\ n \in Nat /\ DOMAIN turns = 1..n
        /\ n \in DOMAIN turns /\ last \in TurnRecord
    BY TurnsTyped DEF TurnInv, LastTurn
  <1>2. new \in TurnRecord /\ new.reply = reply /\ new.tool = usedTool
    BY <1>1 DEF TurnRecord
  <1>3. turns' = [turns EXCEPT ![n] = new] BY <1>1 DEF Current
  <1> HIDE DEF new
  <1>4. /\ turns' \in Seq(TurnRecord) /\ Len(turns') = n /\ turns' # <<>>
        /\ DOMAIN turns' = DOMAIN turns /\ turns'[n] = new
        /\ \A i \in DOMAIN turns : i # n => turns'[i] = turns[i]
    BY <1>1, <1>2, <1>3, LastChanges DEF TurnInv
  <1>5. /\ Unscored # "productive" /\ Unscored # "unproductive"
        /\ Streak = Cardinality(InStreak) /\ IsFiniteSet(InStreak)
        /\ n \notin InStreak
    BY <1>1, UnproductiveAssumption DEF Replies, TurnInv, Streak, InStreak
  <1>6. CASE usedTool \/ reply = "productive"
    <2>1. \A i \in DOMAIN turns' : n \in i..n BY <1>1, <1>4
    <2>2. Useful(turns'[n]) BY <1>2, <1>4, <1>6 DEF Useful
    <2>3. InStreak' = {} BY <1>4, <2>1, <2>2 DEF InStreak, Useful
    <2> QED BY <1>2, <1>4, <1>6, <2>3, FS_EmptySet DEF Streak, InStreak
  <1>7. CASE ~usedTool /\ reply # "productive"
    <2>1. ~Useful(turns[n]) /\ ~Useful(turns'[n])
      BY <1>1, <1>2, <1>4, <1>5, <1>7 DEF Useful
    <2>2. \A j \in DOMAIN turns : Useful(turns'[j]) <=> Useful(turns[j])
      BY <1>4, <2>1
    <2>3. \A i \in DOMAIN turns : \A j \in i..n : j \in DOMAIN turns BY <1>1
    <2>4. \A i \in DOMAIN turns : (\A j \in i..n : ~Useful(turns'[j])) <=>
                                  (\A j \in i..n : ~Useful(turns[j]))
      BY <2>2, <2>3
    <2>5. \A j \in n..n : j = n
      <3>1. n \in Nat BY <1>1
      <3> HIDE DEF n
      <3> QED BY <3>1
    <2>6. CASE reply = "unproductive"
      <3>1. InStreak' = InStreak \cup {n}
        BY <1>1, <1>2, <1>4, <2>1, <2>4, <2>5, <2>6 DEF InStreak, Useful
      <3>2. IsFiniteSet(InStreak) /\ Cardinality(InStreak \cup {n}) = Streak + 1
        BY <1>5, FS_AddElement
      <3>3. IsFiniteSet(InStreak \cup {n}) BY <1>5, FS_AddElement
      <3> QED BY <1>2, <1>4, <1>7, <2>6, <3>1, <3>2, <3>3 DEF Streak, InStreak
    <2>7. CASE reply = "empty"
      <3>1. InStreak' = InStreak
        BY <1>2, <1>4, <1>5, <2>4, <2>7 DEF InStreak, Useful
      <3> QED BY <1>2, <1>4, <1>5, <1>7, <2>7, <3>1 DEF Streak, InStreak
    <2> QED BY <1>7, <2>6, <2>7 DEF Replies
  <1> QED BY <1>6, <1>7

\* The reply is scored once, and the ending scheduled with the streak there.
LEMMA AssistantKeeps ==
  ASSUME TurnInv, NEW reply \in Replies, AssistantItem(reply)
  PROVE  TurnInv'
  <1>1. CASE replied \/ ~hasInput
    <2>1. UNCHANGED turnVars BY <1>1 DEF AssistantItem
    <2> QED BY <2>1 DEF turnVars, TurnInv, TurnTypeOK, LastTurn, InStreak,
                        CountIsStreak, Streak, Useful
  <1>2. CASE ~(replied \/ ~hasInput)
    <2>1. /\ replied' = TRUE /\ Current("reply", reply)
          /\ enabled' = enabled /\ hasInput' = hasInput /\ usedTool' = usedTool
          /\ count' = IF enabled THEN Counted(reply) ELSE count
          /\ IF enabled /\ ThresholdReached(reply) /\ ~scheduled
               THEN scheduled' = TRUE /\ agentEnded' \in BOOLEAN
               ELSE scheduled' = scheduled /\ agentEnded' = agentEnded
      BY <1>2 DEF AssistantItem
    <2>2. /\ turns' \in Seq(TurnRecord) /\ turns' # <<>>
          /\ turns'[Len(turns')].tool = usedTool
          /\ IsFiniteSet(InStreak)'
          /\ usedTool \/ reply = "productive" => Streak' = 0
          /\ ~usedTool /\ reply = "unproductive" => Streak' = Streak + 1
          /\ ~usedTool /\ reply = "empty" => Streak' = Streak
      BY <1>2, <2>1, ReplyCounts
    <2>3. /\ Streak \in Nat /\ count \in Nat /\ enabled \in BOOLEAN
          /\ usedTool \in BOOLEAN /\ Threshold \in Nat \ {0}
      BY FS_CardinalityType, UnproductiveAssumption
         DEF TurnInv, TurnTypeOK, Streak, InStreak
    <2>4. ASSUME enabled PROVE count' = Streak' /\ count' \in Nat
      <3>1. count' = Counted(reply) /\ count = Streak
        BY <2>1, <2>4 DEF TurnInv, CountIsStreak
      <3>2. CASE usedTool \/ reply = "productive"
        BY <2>2, <3>1, <3>2 DEF Counted
      <3>3. CASE ~usedTool /\ reply = "unproductive"
        <4>1. Counted(reply) = count + 1 BY <3>3 DEF Counted
        <4> QED BY <2>2, <2>3, <3>1, <3>3, <4>1
      <3>4. CASE ~usedTool /\ reply = "empty"
        <4>1. Counted(reply) = count BY <3>4 DEF Counted
        <4> QED BY <2>2, <2>3, <3>1, <3>4, <4>1
      <3> QED BY <3>2, <3>3, <3>4 DEF Replies
    <2>5. enabled /\ Streak' >= Threshold => scheduled'
      BY <2>1, <2>2, <2>3 DEF ThresholdReached, Replies, TurnInv, CountIsStreak
    <2>6. /\ scheduled' \in BOOLEAN /\ agentEnded' \in BOOLEAN
          /\ scheduled' => enabled
          /\ agentEnded' => scheduled'
      BY <2>1, <2>3 DEF TurnInv, TurnTypeOK, CountIsStreak
    <2>7. CountIsStreak' BY <2>1, <2>4, <2>5, <2>6 DEF CountIsStreak
    <2>8. TurnTypeOK'
      BY <2>1, <2>2, <2>3, <2>4, <2>6 DEF TurnInv, TurnTypeOK, TurnRecord
    <2>9. LastTurn' BY <1>2, <2>1, <2>2 DEF LastTurn
    <2> QED BY <2>2, <2>7, <2>8, <2>9 DEF TurnInv
  <1> QED BY <1>1, <1>2

\* No turn, no streak.
LEMMA TurnInitHolds == TurnInit => TurnInv
  <1> SUFFICES ASSUME TurnInit PROVE TurnInv
    OBVIOUS
  <1>1. turns = <<>> /\ InStreak = {} BY DEF TurnInit, InStreak
  <1>2. Streak = 0 /\ IsFiniteSet(InStreak)
    BY <1>1, FS_EmptySet DEF Streak, InStreak
  <1>3. LastTurn BY <1>1 DEF TurnInit, LastTurn
  <1>5. TurnTypeOK
    <2>1. turns \in Seq(TurnRecord) BY <1>1
    <2>2. 0 \in Nat OBVIOUS
    <2> QED BY <2>1, <2>2 DEF TurnInit, TurnTypeOK, TurnRecord
  <1>4. CountIsStreak
    BY <1>2, UnproductiveAssumption DEF TurnInit, CountIsStreak
  <1> QED BY <1>2, <1>3, <1>4, <1>5 DEF TurnInv

(***************************************************************************)
(* The counter is the streak, in whatever order replies, tools and         *)
(* transcripts come, for every threshold and every number of turns.        *)
(***************************************************************************)
THEOREM StreakCounted == TurnSpec => []CountIsStreak
  <1>1. TurnInv /\ [TurnNext]_turnVars => TurnInv'
    <2> SUFFICES ASSUME TurnInv, [TurnNext]_turnVars PROVE TurnInv'
      OBVIOUS
    <2>1. CASE UNCHANGED turnVars
      BY <2>1 DEF turnVars, TurnInv, TurnTypeOK, LastTurn, InStreak,
                  CountIsStreak, Streak, Useful
    <2> QED BY <2>1, TranscriptKeeps, ToolsKeep, AssistantKeeps DEF TurnNext
  <1>2. TurnInv => CountIsStreak BY DEF TurnInv
  <1> QED BY <1>1, <1>2, TurnInitHolds, PTL DEF TurnSpec

-----------------------------------------------------------------------------
(***************************************************************************)
(* Provision: whose plan each trunk and rule was created for, what a run   *)
(* has settled on, and what runs one after the other never meet.           *)
(***************************************************************************)
Trunks ==
  [id : Runs, name : {p.trunk_name : p \in Plans},
   number : {p.number : p \in Plans}, addresses : {p.addresses : p \in Plans},
   user : {p.user : p \in Plans}]

Rules ==
  [id : Runs, name : {p.dispatch_name : p \in Plans}, trunk : SUBSET Trunks,
   room_prefix : {p.room_prefix : p \in Plans},
   agent_name : {p.agent_name : p \in Plans}, config : {p.business : p \in Plans}]

RunRecord ==
  [at : {"idle", "list_trunks", "create_trunk", "list_rules", "create_rule",
         "done", "refused", "failed"},
   plan : Plans, trunk : SUBSET Trunks, rule : SUBSET Rules]

MadeTrunk(t) ==
  LET p == run[t.id].plan IN
  /\ run[t.id].at # "idle"
  /\ t.name = p.trunk_name /\ t.number = p.number
  /\ t.addresses = p.addresses /\ t.user = p.user

MadeRule(u) ==
  LET p == run[u.id].plan IN
  /\ run[u.id].at # "idle" /\ u.name = p.dispatch_name
  /\ u.room_prefix = p.room_prefix /\ u.config = p.business
  /\ u.agent_name = p.agent_name
  /\ \E t \in trunks : u.trunk = {t} /\ t.name = p.trunk_name

Settled(r) ==
  LET p == run[r].plan IN
  /\ run[r].at \in {"list_rules", "create_rule", "done"} =>
       \E t \in trunks : run[r].trunk = {t} /\ SameTrunk(p, t) /\ TrunkFits(p, t)
  /\ run[r].at = "done" =>
       \E u \in rules : /\ run[r].rule = {u} /\ u.name = p.dispatch_name
                        /\ u.trunk = run[r].trunk

Excused(r) ==
  \E s \in Runs : /\ run[s].at # "idle" /\ run[s].plan # run[r].plan
                  /\ run[s].plan.trunk_name = run[r].plan.trunk_name

InTurn ==
  /\ \A r, s \in Runs : UnderWay(r) /\ UnderWay(s) => r = s
  /\ OneOf(trunks) /\ OneOf(rules)
  /\ \A r \in Runs :
       /\ run[r].at = "create_trunk" =>
            \A t \in trunks : ~SameTrunk(run[r].plan, t)
       /\ run[r].at = "create_rule" =>
            \A u \in rules : u.name # run[r].plan.dispatch_name
       /\ run[r].at = "refused" => Excused(r)

ProvisionInv ==
  /\ run \in [Runs -> RunRecord] /\ crossed \in BOOLEAN
  /\ trunks \subseteq Trunks /\ rules \subseteq Rules
  /\ \A t \in trunks : MadeTrunk(t)
  /\ \A u \in rules : MadeRule(u)
  /\ \A r \in Runs : Settled(r)
  /\ ~crossed => InTurn

\* A run moves on and LiveKit forgets nothing: what the others made and
\* settled on stands.
LEMMA RunGoes ==
  ASSUME ProvisionInv, NEW r \in Runs, NEW new \in RunRecord,
         new.plan = run[r].plan, new.at # "idle",
         run' = [run EXCEPT ![r] = new],
         trunks \subseteq trunks', rules \subseteq rules'
  PROVE  /\ run' \in [Runs -> RunRecord] /\ run'[r] = new
         /\ \A s \in Runs : s # r => run'[s] = run[s] /\ Settled(s)'
         /\ \A s \in Runs : /\ run'[s].plan = run[s].plan
                            /\ run[s].at # "idle" => run'[s].at # "idle"
         /\ \A t \in trunks : MadeTrunk(t)'
         /\ \A u \in rules : MadeRule(u)'
  <1>1. /\ run' \in [Runs -> RunRecord] /\ run'[r] = new
        /\ \A s \in Runs : s # r => run'[s] = run[s]
    BY DEF ProvisionInv
  <1>2. \A s \in Runs : /\ run'[s].plan = run[s].plan
                        /\ run[s].at # "idle" => run'[s].at # "idle"
    BY <1>1
  <1>3. ASSUME NEW t \in trunks PROVE MadeTrunk(t)'
    <2>1. t.id \in Runs /\ MadeTrunk(t) BY DEF ProvisionInv, Trunks
    <2> QED BY <1>2, <2>1 DEF MadeTrunk
  <1>4. ASSUME NEW u \in rules PROVE MadeRule(u)'
    <2>1. u.id \in Runs /\ MadeRule(u) BY DEF ProvisionInv, Rules
    <2> QED BY <1>2, <2>1 DEF MadeRule
  <1>5. ASSUME NEW s \in Runs, s # r PROVE Settled(s)'
    <2>1. Settled(s) /\ run'[s] = run[s] BY <1>1, <1>5 DEF ProvisionInv
    <2> QED BY <2>1 DEF Settled, SameTrunk, TrunkFits
  <1> QED BY <1>1, <1>2, <1>3, <1>4, <1>5

\* Of runs one after the other only the one that moves is under way.
LEMMA StaysInTurn ==
  ASSUME ProvisionInv, NEW r \in Runs, NEW new \in RunRecord, UnderWay(r),
         new.plan = run[r].plan, new.at # "idle",
         run' = [run EXCEPT ![r] = new], InTurn,
         OneOf(trunks'), OneOf(rules'),
         new.at = "create_trunk" =>
           \A t \in trunks' : ~SameTrunk(new.plan, t),
         new.at = "create_rule" =>
           \A u \in rules' : u.name # new.plan.dispatch_name,
         new.at = "refused" => Excused(r)
  PROVE  InTurn'
  <1>1. /\ run'[r] = new /\ \A s \in Runs : s # r => run'[s] = run[s]
        /\ \A s \in Runs : /\ run'[s].plan = run[s].plan
                           /\ run[s].at # "idle" => run'[s].at # "idle"
    BY DEF ProvisionInv
  <1>2. \A s \in Runs : s # r => ~UnderWay(s) /\ ~UnderWay(s)'
    BY <1>1 DEF InTurn, UnderWay
  <1>3. \A s \in Runs : Excused(s) => Excused(s)'
    BY <1>1 DEF Excused
  <1>4. ASSUME NEW s \in Runs
        PROVE  /\ run'[s].at = "create_trunk" =>
                    \A t \in trunks' : ~SameTrunk(run'[s].plan, t)
               /\ run'[s].at = "create_rule" =>
                    \A u \in rules' : u.name # run'[s].plan.dispatch_name
               /\ run'[s].at = "refused" => Excused(s)'
    <2>1. CASE s = r BY <1>1, <1>3, <2>1
    <2>2. CASE s # r BY <1>1, <1>2, <1>3, <2>2 DEF InTurn, UnderWay
    <2> QED BY <2>1, <2>2
  <1>5. \A s, t \in Runs : UnderWay(s)' /\ UnderWay(t)' => s = t BY <1>2
  <1>6. OneOf(trunks)' /\ OneOf(rules)' BY DEF OneOf
  <1>7. \A s \in Runs : \A t \in trunks' :
          SameTrunk(run[s].plan, t)' <=> SameTrunk(run'[s].plan, t)
    BY DEF SameTrunk
  <1> QED BY <1>4, <1>5, <1>6, <1>7 DEF InTurn, SameTrunk

\* A step of a run that is under way and creates nothing.
LEMMA OnlyMoves ==
  ASSUME ProvisionInv, NEW r \in Runs, NEW new \in RunRecord, UnderWay(r),
         new.plan = run[r].plan, new.at # "idle",
         run' = [run EXCEPT ![r] = new], Settled(r)',
         UNCHANGED <<trunks, rules, crossed>>,
         ~crossed => /\ new.at = "create_trunk" =>
                          \A t \in trunks : ~SameTrunk(new.plan, t)
                     /\ new.at = "create_rule" =>
                          \A u \in rules : u.name # new.plan.dispatch_name
                     /\ new.at = "refused" => Excused(r)
  PROVE  ProvisionInv'
  <1>1. /\ run' \in [Runs -> RunRecord]
        /\ \A s \in Runs : s # r => Settled(s)'
        /\ \A t \in trunks : MadeTrunk(t)'
        /\ \A u \in rules : MadeRule(u)'
    BY RunGoes
  <1>2. ASSUME ~crossed PROVE InTurn'
    <2>1. InTurn /\ OneOf(trunks) /\ OneOf(rules)
      BY <1>2 DEF ProvisionInv, InTurn
    <2>2. OneOf(trunks') /\ OneOf(rules') BY <2>1
    <2> QED BY <1>2, <2>1, <2>2, StaysInTurn
  <1> QED BY <1>1, <1>2 DEF ProvisionInv

\* A run that goes from one step to another and settles on nothing more.
LEMMA Going ==
  ASSUME ProvisionInv, NEW r \in Runs, NEW from,
         NEW to \in {"list_trunks", "create_trunk", "list_rules", "create_rule",
                     "refused", "failed"},
         Goes(r, from, to)
  PROVE  \E new \in RunRecord :
           /\ run' = [run EXCEPT ![r] = new] /\ run[r].at = from
           /\ new.at = to /\ new.plan = run[r].plan
           /\ new.trunk = run[r].trunk /\ new.rule = run[r].rule
  <1> DEFINE new == [run[r] EXCEPT !.at = to]
  <1>1. run[r] \in RunRecord BY DEF ProvisionInv
  <1>2. /\ new \in RunRecord /\ new.at = to /\ new.plan = run[r].plan
        /\ new.trunk = run[r].trunk /\ new.rule = run[r].rule
    BY <1>1 DEF RunRecord
  <1>3. run' = [run EXCEPT ![r] = new] /\ run[r].at = from BY DEF Goes
  <1> QED BY <1>2, <1>3

\* A run begins: it is in turn when no other is under way.
LEMMA ApplyKeeps ==
  ASSUME ProvisionInv, NEW r \in Runs, Apply(r)
  PROVE  ProvisionInv'
  <1>1. PICK new \in RunRecord :
          /\ run' = [run EXCEPT ![r] = new] /\ run[r].at = "idle"
          /\ new.at = "list_trunks" /\ new.plan = run[r].plan
          /\ new.trunk = run[r].trunk /\ new.rule = run[r].rule
    BY Going DEF Apply
  <1>2. /\ trunks' = trunks /\ rules' = rules
        /\ crossed' = (crossed \/ \E s \in Runs : UnderWay(s))
    BY DEF Apply
  <1>3. /\ run' \in [Runs -> RunRecord] /\ run'[r] = new
        /\ \A s \in Runs : s # r => run'[s] = run[s] /\ Settled(s)'
        /\ \A s \in Runs : /\ run'[s].plan = run[s].plan
                           /\ run[s].at # "idle" => run'[s].at # "idle"
        /\ \A t \in trunks : MadeTrunk(t)'
        /\ \A u \in rules : MadeRule(u)'
    BY <1>1, <1>2, RunGoes
  <1>4. Settled(r)' BY <1>1, <1>3 DEF Settled
  <1>5. ASSUME ~crossed' PROVE InTurn'
    <2>1. InTurn /\ \A s \in Runs : ~UnderWay(s)
      BY <1>2, <1>5 DEF ProvisionInv
    <2>2. \A s \in Runs : UnderWay(s)' => s = r BY <1>3, <2>1 DEF UnderWay
    <2>3. OneOf(trunks)' /\ OneOf(rules)' BY <1>2, <2>1 DEF InTurn, OneOf
    <2>4. ASSUME NEW s \in Runs
          PROVE  /\ run'[s].at \notin {"create_trunk", "create_rule"}
                 /\ run'[s].at = "refused" => Excused(s)'
      <3>1. CASE s = r BY <1>1, <1>3, <3>1
      <3>2. CASE s # r
        <4>1. run'[s].at = "refused" => Excused(s) BY <1>3, <2>1, <3>2
            DEF InTurn
        <4>2. Excused(s) => Excused(s)' BY <1>3 DEF Excused
        <4> QED BY <1>3, <2>1, <3>2, <4>1, <4>2 DEF UnderWay
      <3> QED BY <3>1, <3>2
    <2> QED BY <2>2, <2>3, <2>4 DEF InTurn
  <1>6. crossed' \in BOOLEAN BY <1>2 DEF ProvisionInv
  <1> QED BY <1>2, <1>3, <1>4, <1>5, <1>6 DEF ProvisionInv

\* A trunk of the plan's name fits it, or another plan's run has left it.
LEMMA FindTrunkKeeps ==
  ASSUME ProvisionInv, NEW r \in Runs, FindTrunk(r)
  PROVE  ProvisionInv'
  <1> DEFINE p == run[r].plan
             named == {t \in trunks : SameTrunk(p, t)}
  <1>1. UNCHANGED <<trunks, rules, crossed>> BY DEF FindTrunk
  <1>2. CASE named = {} /\ Goes(r, "list_trunks", "create_trunk")
    <2>1. PICK new \in RunRecord :
            /\ run' = [run EXCEPT ![r] = new] /\ run[r].at = "list_trunks"
            /\ new.at = "create_trunk" /\ new.plan = p
      BY <1>2, Going
    <2>2. run'[r] = new /\ UnderWay(r) BY <2>1 DEF ProvisionInv, UnderWay
    <2>3. Settled(r)' BY <2>1, <2>2 DEF Settled
    <2>4. \A t \in trunks : ~SameTrunk(p, t) BY <1>2
    <2> QED BY <1>1, <2>1, <2>2, <2>3, <2>4, OnlyMoves
  <1>3. ASSUME NEW t \in named, TrunkFits(p, t), run[r].at = "list_trunks",
               run' = [run EXCEPT ![r].at = "list_rules", ![r].trunk = {t}]
        PROVE  ProvisionInv'
    <2> DEFINE built == [run[r] EXCEPT !.at = "list_rules", !.trunk = {t}]
    <2>1. run[r] \in RunRecord /\ t \in Trunks BY DEF ProvisionInv
    <2>2. PICK new \in RunRecord :
            /\ run' = [run EXCEPT ![r] = new] /\ new.at = "list_rules"
            /\ new.plan = p /\ new.trunk = {t}
      <3>1. /\ built \in RunRecord /\ built.at = "list_rules"
            /\ built.plan = p /\ built.trunk = {t}
        BY <2>1 DEF RunRecord
      <3> QED BY <1>3, <3>1
    <2>3. run'[r] = new /\ UnderWay(r) BY <1>3, <2>2 DEF ProvisionInv, UnderWay
    <2>4. Settled(r)'
      BY <1>1, <1>3, <2>2, <2>3 DEF Settled, SameTrunk, TrunkFits
    <2> QED BY <1>1, <2>2, <2>3, <2>4, OnlyMoves
  <1>4. ASSUME NEW t \in named, ~TrunkFits(p, t), Goes(r, "list_trunks", "refused")
        PROVE  ProvisionInv'
    <2>1. PICK new \in RunRecord :
            /\ run' = [run EXCEPT ![r] = new] /\ run[r].at = "list_trunks"
            /\ new.at = "refused" /\ new.plan = p
      BY <1>4, Going
    <2>2. run'[r] = new /\ UnderWay(r) BY <2>1 DEF ProvisionInv, UnderWay
    <2>3. Settled(r)' BY <2>1, <2>2 DEF Settled
    <2>4. Excused(r)
      <3>1. MadeTrunk(t) /\ t.id \in Runs BY DEF ProvisionInv, Trunks
      <3>2. run[t.id].plan # p BY <1>4, <3>1 DEF MadeTrunk, TrunkFits
      <3> QED BY <3>1, <3>2 DEF MadeTrunk, SameTrunk, Excused
    <2> QED BY <1>1, <2>1, <2>2, <2>3, <2>4, OnlyMoves
  <1> QED BY <1>2, <1>3, <1>4 DEF FindTrunk

\* A created trunk has a name none had, when the runs are in turn.
LEMMA TrunkAdded ==
  ASSUME ProvisionInv, NEW r \in Runs, NEW new \in RunRecord,
         run[r].at = "create_trunk", run' = [run EXCEPT ![r] = new],
         new.plan = run[r].plan, new.at \in {"list_rules", "failed"},
         new.at = "list_rules" => new.trunk = {TrunkOf(r)},
         trunks' = trunks \cup {TrunkOf(r)}, rules' = rules, crossed' = crossed
  PROVE  ProvisionInv'
  <1> DEFINE p == run[r].plan
  <1>1. PICK t \in Trunks :
          /\ t = TrunkOf(r) /\ t.id = r /\ t.name = p.trunk_name
          /\ t.number = p.number /\ t.addresses = p.addresses /\ t.user = p.user
    <2>1. p \in Plans BY DEF ProvisionInv, RunRecord
    <2>2. TrunkOf(r) \in Trunks BY <2>1 DEF TrunkOf, Trunks
    <2>3. /\ TrunkOf(r).id = r /\ TrunkOf(r).name = p.trunk_name
          /\ TrunkOf(r).number = p.number /\ TrunkOf(r).addresses = p.addresses
          /\ TrunkOf(r).user = p.user
      BY DEF TrunkOf
    <2> QED BY <2>2, <2>3
  <1>2. /\ run' \in [Runs -> RunRecord] /\ run'[r] = new
        /\ \A s \in Runs : s # r => run'[s] = run[s] /\ Settled(s)'
        /\ \A s \in trunks : MadeTrunk(s)'
        /\ \A u \in rules : MadeRule(u)'
    BY RunGoes
  <1>3. MadeTrunk(t)' BY <1>1, <1>2 DEF MadeTrunk
  <1>4. Settled(r)'
    BY <1>1, <1>2 DEF Settled, SameTrunk, TrunkFits
  <1>5. ASSUME ~crossed PROVE InTurn'
    <2>1. InTurn /\ UnderWay(r) BY <1>5 DEF ProvisionInv, UnderWay
    <2>2. OneOf(trunks') BY <1>1, <2>1 DEF InTurn, OneOf, SameTrunk
    <2>3. OneOf(rules') BY <2>1 DEF InTurn
    <2> QED BY <2>1, <2>2, <2>3, StaysInTurn
  <1> QED BY <1>1, <1>2, <1>3, <1>4, <1>5 DEF ProvisionInv

\* The trunk is created and its answer comes, or is lost.
LEMMA CreateTrunkKeeps ==
  ASSUME ProvisionInv, NEW r \in Runs, CreateTrunk(r) \/ TrunkAnswerLost(r)
  PROVE  ProvisionInv'
  <1>1. CASE CreateTrunk(r)
    <2> DEFINE built == [run[r] EXCEPT !.at = "list_rules", !.trunk = {TrunkOf(r)}]
    <2>1. /\ run[r].at = "create_trunk" /\ run' = [run EXCEPT ![r] = built]
          /\ trunks' = trunks \cup {TrunkOf(r)} /\ rules' = rules
          /\ crossed' = crossed
      BY <1>1 DEF CreateTrunk
    <2>2. run[r] \in RunRecord /\ run[r].plan \in Plans
      BY DEF ProvisionInv, RunRecord
    <2>3. TrunkOf(r) \in Trunks BY <2>2 DEF TrunkOf, Trunks
    <2>4. /\ built \in RunRecord /\ built.at = "list_rules"
          /\ built.plan = run[r].plan /\ built.trunk = {TrunkOf(r)}
      BY <2>2, <2>3 DEF RunRecord
    <2> HIDE DEF built
    <2> QED BY <2>1, <2>4, TrunkAdded
  <1>2. CASE TrunkAnswerLost(r)
    <2>1. PICK new \in RunRecord :
            /\ run' = [run EXCEPT ![r] = new] /\ run[r].at = "create_trunk"
            /\ new.at = "failed" /\ new.plan = run[r].plan
      BY <1>2, Going DEF TrunkAnswerLost
    <2>2. /\ trunks' = trunks \cup {TrunkOf(r)} /\ rules' = rules
          /\ crossed' = crossed
      BY <1>2 DEF TrunkAnswerLost
    <2> QED BY <2>1, <2>2, TrunkAdded
  <1> QED BY <1>1, <1>2

\* Of the runs in turn a plan's rule is always on the plan's trunk.
LEMMA FindRuleKeeps ==
  ASSUME ProvisionInv, NEW r \in Runs, FindRule(r)
  PROVE  ProvisionInv'
  <1> DEFINE p == run[r].plan
             named == {u \in rules : u.name = p.dispatch_name}
  <1>1. UNCHANGED <<trunks, rules, crossed>> BY DEF FindRule
  <1>2. CASE named = {} /\ Goes(r, "list_rules", "create_rule")
    <2>1. PICK new \in RunRecord :
            /\ run' = [run EXCEPT ![r] = new] /\ run[r].at = "list_rules"
            /\ new.at = "create_rule" /\ new.plan = p /\ new.trunk = run[r].trunk
      BY <1>2, Going
    <2>2. run'[r] = new /\ UnderWay(r) /\ Settled(r)
      BY <2>1 DEF ProvisionInv, UnderWay
    <2>3. Settled(r)' BY <1>1, <2>1, <2>2 DEF Settled, SameTrunk, TrunkFits
    <2>4. \A u \in rules : u.name # p.dispatch_name BY <1>2
    <2> QED BY <1>1, <2>1, <2>2, <2>3, <2>4, OnlyMoves
  <1>3. ASSUME NEW u \in named, u.trunk = run[r].trunk, run[r].at = "list_rules",
               run' = [run EXCEPT ![r].at = "done", ![r].rule = {u}]
        PROVE  ProvisionInv'
    <2> DEFINE built == [run[r] EXCEPT !.at = "done", !.rule = {u}]
    <2>1. run[r] \in RunRecord /\ u \in Rules BY DEF ProvisionInv
    <2>2. PICK new \in RunRecord :
            /\ run' = [run EXCEPT ![r] = new] /\ new.at = "done"
            /\ new.plan = p /\ new.rule = {u} /\ new.trunk = run[r].trunk
      <3>1. /\ built \in RunRecord /\ built.at = "done" /\ built.plan = p
            /\ built.rule = {u} /\ built.trunk = run[r].trunk
        BY <2>1 DEF RunRecord
      <3> QED BY <1>3, <3>1
    <2>3. run'[r] = new /\ UnderWay(r) /\ Settled(r)
      BY <1>3, <2>2 DEF ProvisionInv, UnderWay
    <2>4. Settled(r)'
      <3>1. PICK t \in trunks :
              run[r].trunk = {t} /\ SameTrunk(p, t) /\ TrunkFits(p, t)
        BY <1>3, <2>3 DEF Settled
      <3>2. /\ run'[r].plan = p /\ run'[r].trunk = {t} /\ run'[r].rule = {u}
            /\ u.trunk = {t}
        BY <1>3, <2>2, <2>3, <3>1
      <3>3. \E v \in trunks' : run'[r].trunk = {v} /\ SameTrunk(run'[r].plan, v)
                                /\ TrunkFits(run'[r].plan, v)
        BY <1>1, <3>1, <3>2
      <3>4. u \in rules' /\ u.name = p.dispatch_name BY <1>1
      <3> QED BY <3>2, <3>3, <3>4 DEF Settled, SameTrunk, TrunkFits
    <2> QED BY <1>1, <2>2, <2>3, <2>4, OnlyMoves
  <1>4. ASSUME NEW u \in named, u.trunk # run[r].trunk,
               Goes(r, "list_rules", "refused")
        PROVE  ProvisionInv'
    <2>1. PICK new \in RunRecord :
            /\ run' = [run EXCEPT ![r] = new] /\ run[r].at = "list_rules"
            /\ new.at = "refused" /\ new.plan = p
      BY <1>4, Going
    <2>2. run'[r] = new /\ UnderWay(r) BY <2>1 DEF ProvisionInv, UnderWay
    <2>3. Settled(r)' BY <2>1, <2>2 DEF Settled
    <2>4. ASSUME ~crossed PROVE FALSE
      <3>1. PICK t \in trunks : run[r].trunk = {t} /\ t.name = p.trunk_name
        BY <2>1 DEF ProvisionInv, Settled, SameTrunk
      <3>2. u.id \in Runs /\ MadeRule(u) /\ u.name = p.dispatch_name
        BY DEF ProvisionInv, Rules
      <3>3. PICK v \in trunks :
              u.trunk = {v} /\ v.name = run[u.id].plan.trunk_name
        BY <3>2 DEF MadeRule
      <3>4. run[u.id].plan \in Plans /\ p \in Plans
        BY <3>2 DEF ProvisionInv, RunRecord
      <3>5. v.name = t.name
        BY <3>1, <3>2, <3>3, <3>4, ProvisionAssumption DEF MadeRule
      <3>6. v = t BY <2>4, <3>5 DEF ProvisionInv, InTurn, OneOf
      <3> QED BY <1>4, <3>1, <3>3, <3>6
    <2> QED BY <1>1, <2>1, <2>2, <2>3, <2>4, OnlyMoves
  <1> QED BY <1>2, <1>3, <1>4 DEF FindRule

\* A created rule has a name none had, when the runs are in turn.
LEMMA RuleAdded ==
  ASSUME ProvisionInv, NEW r \in Runs, NEW new \in RunRecord,
         run[r].at = "create_rule", run' = [run EXCEPT ![r] = new],
         new.plan = run[r].plan, new.trunk = run[r].trunk,
         new.at \in {"done", "failed"},
         new.at = "done" => new.rule = {RuleOf(r)},
         rules' = rules \cup {RuleOf(r)}, trunks' = trunks, crossed' = crossed
  PROVE  ProvisionInv'
  <1> DEFINE p == run[r].plan
  <1>1. PICK u \in Rules :
          /\ u = RuleOf(r) /\ u.id = r /\ u.name = p.dispatch_name
          /\ u.trunk = run[r].trunk /\ u.room_prefix = p.room_prefix
          /\ u.config = p.business /\ u.agent_name = p.agent_name
    <2>1. p \in Plans /\ run[r].trunk \subseteq Trunks
      BY DEF ProvisionInv, RunRecord
    <2>2. RuleOf(r) \in Rules BY <2>1 DEF RuleOf, Rules
    <2>3. /\ RuleOf(r).id = r /\ RuleOf(r).name = p.dispatch_name
          /\ RuleOf(r).trunk = run[r].trunk
          /\ RuleOf(r).room_prefix = p.room_prefix
          /\ RuleOf(r).config = p.business /\ RuleOf(r).agent_name = p.agent_name
      BY DEF RuleOf
    <2> QED BY <2>2, <2>3
  <1>2. /\ run' \in [Runs -> RunRecord] /\ run'[r] = new
        /\ \A s \in Runs : s # r => run'[s] = run[s] /\ Settled(s)'
        /\ \A t \in trunks : MadeTrunk(t)'
        /\ \A v \in rules : MadeRule(v)'
    BY RunGoes
  <1>3. Settled(r) BY DEF ProvisionInv
  <1>4. MadeRule(u)'
    BY <1>1, <1>2, <1>3 DEF MadeRule, Settled, SameTrunk
  <1>5. Settled(r)'
    BY <1>1, <1>2, <1>3 DEF Settled, SameTrunk, TrunkFits
  <1>6. ASSUME ~crossed PROVE InTurn'
    <2>1. InTurn /\ UnderWay(r) BY <1>6 DEF ProvisionInv, UnderWay
    <2>2. OneOf(rules') BY <1>1, <2>1 DEF InTurn, OneOf
    <2>3. OneOf(trunks') BY <2>1 DEF InTurn
    <2> QED BY <2>1, <2>2, <2>3, StaysInTurn
  <1> QED BY <1>1, <1>2, <1>4, <1>5, <1>6 DEF ProvisionInv

\* The rule is created and its answer comes, or is lost.
LEMMA CreateRuleKeeps ==
  ASSUME ProvisionInv, NEW r \in Runs, CreateRule(r) \/ RuleAnswerLost(r)
  PROVE  ProvisionInv'
  <1>1. CASE CreateRule(r)
    <2> DEFINE built == [run[r] EXCEPT !.at = "done", !.rule = {RuleOf(r)}]
    <2>1. /\ run[r].at = "create_rule" /\ run' = [run EXCEPT ![r] = built]
          /\ rules' = rules \cup {RuleOf(r)} /\ trunks' = trunks
          /\ crossed' = crossed
      BY <1>1 DEF CreateRule
    <2>2. /\ run[r] \in RunRecord /\ run[r].plan \in Plans
          /\ run[r].trunk \subseteq Trunks
      BY DEF ProvisionInv, RunRecord
    <2>3. RuleOf(r) \in Rules BY <2>2 DEF RuleOf, Rules
    <2>4. /\ built \in RunRecord /\ built.at = "done"
          /\ built.plan = run[r].plan /\ built.trunk = run[r].trunk
          /\ built.rule = {RuleOf(r)}
      BY <2>2, <2>3 DEF RunRecord
    <2> HIDE DEF built
    <2> QED BY <2>1, <2>4, RuleAdded
  <1>2. CASE RuleAnswerLost(r)
    <2>1. PICK new \in RunRecord :
            /\ run' = [run EXCEPT ![r] = new] /\ run[r].at = "create_rule"
            /\ new.at = "failed" /\ new.plan = run[r].plan
            /\ new.trunk = run[r].trunk
      BY <1>2, Going DEF RuleAnswerLost
    <2>2. /\ rules' = rules \cup {RuleOf(r)} /\ trunks' = trunks
          /\ crossed' = crossed
      BY <1>2 DEF RuleAnswerLost
    <2> QED BY <2>1, <2>2, RuleAdded
  <1> QED BY <1>1, <1>2

\* A request fails and the run with it.
LEMMA LiveKitFailsKeeps ==
  ASSUME ProvisionInv, NEW r \in Runs, LiveKitFails(r)
  PROVE  ProvisionInv'
  <1>1. Goes(r, run[r].at, "failed") /\ UnderWay(r)
    BY DEF LiveKitFails, Goes
  <1>2. PICK new \in RunRecord :
          /\ run' = [run EXCEPT ![r] = new]
          /\ new.at = "failed" /\ new.plan = run[r].plan
    BY <1>1, Going
  <1>3. run'[r] = new /\ UNCHANGED <<trunks, rules, crossed>>
    BY <1>2 DEF ProvisionInv, LiveKitFails
  <1>4. Settled(r)' BY <1>2, <1>3 DEF Settled
  <1> QED BY <1>1, <1>2, <1>3, <1>4, OnlyMoves

\* LiveKit has neither trunk nor rule at first.
LEMMA ProvisionInitHolds == ProvisionInit => ProvisionInv
  <1> SUFFICES ASSUME ProvisionInit PROVE ProvisionInv
    OBVIOUS
  <1>1. trunks = {} /\ rules = {} /\ crossed = FALSE BY DEF ProvisionInit
  <1>2. run \in [Runs -> RunRecord] /\ \A r \in Runs : run[r].at = "idle"
    BY DEF ProvisionInit, RunRecord
  <1>3. InTurn BY <1>1, <1>2 DEF InTurn, UnderWay, OneOf
  <1>4. \A r \in Runs : Settled(r) BY <1>2 DEF Settled
  <1> QED BY <1>1, <1>2, <1>3, <1>4 DEF ProvisionInv

(***************************************************************************)
(* A run that is done has left the number routed as planned, but for the   *)
(* agent and the credentials of what it reused, and runs one after the     *)
(* other repeat nothing, for every number of runs and plans.               *)
(***************************************************************************)
THEOREM NumberProvisionedOnce == ProvisionSpec => []ProvisionedOnce
  <1>1. ProvisionInv /\ [ProvisionNext]_provisionVars => ProvisionInv'
    <2> SUFFICES ASSUME ProvisionInv, [ProvisionNext]_provisionVars
                 PROVE  ProvisionInv'
      OBVIOUS
    <2>1. CASE UNCHANGED provisionVars
      BY <2>1
         DEF provisionVars, ProvisionInv, MadeTrunk, MadeRule, Settled, InTurn,
             Excused, UnderWay, OneOf, SameTrunk, TrunkFits
    <2> QED BY <2>1, ApplyKeeps, FindTrunkKeeps, CreateTrunkKeeps,
               FindRuleKeeps,
               CreateRuleKeeps, LiveKitFailsKeeps DEF ProvisionNext
  <1>2. ProvisionInv => ProvisionedOnce
    <2> SUFFICES ASSUME ProvisionInv PROVE ProvisionedOnce
      OBVIOUS
    <2>1. ASSUME NEW r \in Runs, run[r].at = "done" PROVE Routed(r, run[r].plan)
      <3> DEFINE p == run[r].plan
      <3>1. PICK t \in trunks :
              run[r].trunk = {t} /\ SameTrunk(p, t) /\ TrunkFits(p, t)
        BY <2>1 DEF ProvisionInv, Settled
      <3>2. PICK u \in rules : /\ run[r].rule = {u} /\ u.name = p.dispatch_name
                               /\ u.trunk = run[r].trunk
        BY <2>1 DEF ProvisionInv, Settled
      <3>3. /\ MadeTrunk(t) /\ t.id \in Runs /\ MadeRule(u) /\ u.id \in Runs
            /\ p \in Plans /\ run[u.id].plan \in Plans
        BY DEF ProvisionInv, Trunks, Rules, RunRecord
      <3>4. /\ u.room_prefix = p.room_prefix /\ u.config = p.business
            /\ run[u.id].plan.trunk_name = p.trunk_name
        BY <3>2, <3>3, ProvisionAssumption DEF MadeRule
      <3>5. t.user = p.user \/ (p.user = NoUser /\ Differed(r, "user"))
        <4>1. p.user \in {NoUser, t.user} /\ t.name = p.trunk_name
          BY <3>1 DEF SameTrunk, TrunkFits
        <4>2. /\ run[t.id].at # "idle" /\ t.user = run[t.id].plan["user"]
              /\ run[t.id].plan.trunk_name = t.name
          BY <3>3 DEF MadeTrunk
        <4> QED BY <3>3, <4>1, <4>2 DEF Differed
      <3>6. u.agent_name = p.agent_name \/ Differed(r, "agent_name")
        <4>1. run[u.id].at # "idle" /\ u.agent_name = run[u.id].plan["agent_name"]
          BY <3>3 DEF MadeRule
        <4> QED BY <3>3, <3>4, <4>1 DEF Differed
      <3> QED BY <3>1, <3>2, <3>4, <3>5, <3>6 DEF Routed, SameTrunk, TrunkFits
    <2> QED BY <2>1 DEF ProvisionInv, InTurn, Excused, ProvisionedOnce
  <1> QED BY <1>1, <1>2, ProvisionInitHolds, PTL DEF ProvisionSpec
=============================================================================
