---------------------------- MODULE BookingProofs ----------------------------
(***************************************************************************)
(* Theorems about Booking: any number of tool calls of any number of phone *)
(* calls, any times, buffers and staff.                                    *)
(***************************************************************************)
EXTENDS Booking, FiniteSetTheorems, SequenceTheorems, TLAPS

(***************************************************************************)
(* The inductive invariant.  A tool call between its look and its write,   *)
(* or whose write may still land, is clear of everything it has not met:   *)
(* of the planned appointments, of the contacts of its caller, and of the  *)
(* cancellations of the appointment it moves; and any two of them have     *)
(* met, since the later one's look fell between the other's look and       *)
(* write.                                                                  *)
(***************************************************************************)
Met(r, q) == {r, q} \in together

\* A tool call has looked at its slot and may still write it.
Looked(r) == at[r] \in {"contact", "create", "write"} \/ r \in loose

\* A tool call may still create its contact.
Creating(r) ==
  at[r] = "create" \/ (r \in loose /\ crm /\ contact[r] = None)

Places(r) == job[r].kind \in {"book", "reschedule"}

\* A tool call has been shown an appointment it may still change.
Holds(r) ==
  /\ at[r] \in {"look", "write"} \/ r \in loose
  /\ job[r].kind \in {"reschedule", "cancel"}

\* Where a tool call is agrees with what it was asked for.
JobFits(r) ==
  /\ at[r] = "idle" <=> job[r] = None
  /\ at[r] # "idle" =>
       /\ job[r].kind # "cancel" => job[r].slot \in Slots
       /\ IF job[r].kind \in {"reschedule", "cancel"}
          THEN crm /\ job[r].target \in Requests
          ELSE job[r].target = None
  /\ at[r] = "look" => Places(r)
  /\ at[r] \in {"identify", "fetch"} => job[r].kind \in {"reschedule", "cancel"}
  /\ at[r] \in {"query", "offer", "alternates", "reset"} =>
       job[r].kind \in {"check", "book"}
  /\ at[r] \in {"contact", "create"} => job[r].kind = "book" /\ crm
  /\ at[r] # "idle" /\ job[r].kind = "book" =>
       (at[r] \in {"look", "contact", "create"} => contact[r] = None)
  /\ at[r] = "idle" => contact[r] = None
  /\ at[r] = "write" => job[r].kind # "check"
  /\ r \in loose => at[r] = "done" /\ job[r].kind # "check"
  /\ at[r] = "write" /\ crm => contact[r] # None
  /\ at[r] = "fetch" => contact[r] # None

\* The records of a tool call are its caller's, or of people whose name and
\* number read alike, and so is its target.
RecordFits(r) ==
  /\ meeting[r] # None =>
       /\ at[r] \in {"answer", "done"} /\ r \notin loose
       /\ meeting[r].contact # None =>
            Alike(meeting[r].contact.person, Person(r))
  /\ contact[r] # None => Alike(contact[r].person, Person(r))
  /\ Holds(r) =>
       /\ meeting[job[r].target] # None /\ contact[r] # None
       /\ meeting[job[r].target].contact = contact[r]

\* Two tool calls under way have met.
AllMet == \A r, q \in InFlight : r # q => Met(r, q)

\* What overlaps the slot a tool call has looked at was placed by one it met.
SlotClear(r) ==
  Looked(r) /\ Places(r) =>
    \A e \in Planned :
      e # job[r].target /\ Overlaps(job[r].slot, meeting[e].slot) =>
        Met(r, meeting[e].placed)

\* A contact that the number of its caller would find.
Finds(r, k) == k.plain /\ TailOf[k.person] = TailOf[Person(r)]

\* The contacts found by the number of its caller are by tool calls it met.
ContactClear(r) == Creating(r) => \A k \in contacts : Finds(r, k) => Met(r, k.by)

\* The appointment to be moved is planned, but for a cancellation met.
MoveClear(r) ==
  Holds(r) /\ job[r].kind = "reschedule" =>
    \/ meeting[job[r].target].planned
    \/ \E q \in Requests : Met(r, q) /\ job[q] # None /\ job[q].kind = "cancel"

BookingInv ==
  /\ BookingTypeOK
  /\ \A r \in Requests : JobFits(r)
  /\ \A r \in Requests : RecordFits(r)
  /\ AllMet
  /\ \A r \in Requests : SlotClear(r)
  /\ \A r \in Requests : ContactClear(r)
  /\ \A r \in Requests : MoveClear(r)
  /\ NoDoubleBookingInTurn
  /\ OneContactInTurn

-----------------------------------------------------------------------------
(***************************************************************************)
(* The offers.                                                             *)
(***************************************************************************)
\* Nearer is a strict order on any times, with the earlier one first.
LEMMA NearerOrders ==
  ASSUME NEW p \in Int, NEW s \in Int, NEW t \in Int, NEW u \in Int
  PROVE  /\ ~Nearer(s, s, p)
         /\ s # t => Nearer(s, t, p) \/ Nearer(t, s, p)
         /\ Nearer(u, s, p) /\ Nearer(s, t, p) => Nearer(u, t, p)
  BY DEF Nearer, Distance

\* find_slots returns candidates, and no more than it may: each one has a
\* number of nearer candidates of its own, below the bound.
LEMMA FewFound ==
  ASSUME NEW busy, NEW p \in Slots
  PROVE  /\ FindSlots(busy, p) \in SUBSET Slots
         /\ Cardinality(FindSlots(busy, p)) <= MaxOffered
  <1> DEFINE C == Candidates(busy)
             N(s) == {u \in C : Nearer(u, s, p)}
             F == FindSlots(busy, p)
             rank == [s \in F |-> Cardinality(N(s))]
  <1>1. C \in SUBSET Slots /\ IsFiniteSet(Slots) /\ Slots \subseteq Int /\ p \in Int
    BY BookingAssumption DEF Candidates
  <1>2. IsFiniteSet(C) BY <1>1, FS_Subset
  <1>3. \A s \in C : IsFiniteSet(N(s)) /\ Cardinality(N(s)) \in Nat
    <2> TAKE s \in C
    <2>1. N(s) \in SUBSET C OBVIOUS
    <2>2. IsFiniteSet(N(s)) BY <1>2, <2>1, FS_Subset
    <2> QED BY <2>2, FS_CardinalityType
  <1>4. F \in SUBSET C /\ \A s \in F : Cardinality(N(s)) < MaxOffered
    BY DEF FindSlots
  <1>5. ASSUME NEW s \in C, NEW t \in C, Nearer(s, t, p)
        PROVE  Cardinality(N(s)) # Cardinality(N(t))
    <2>1. s \in N(t) /\ s \notin N(s) BY <1>1, <1>5, NearerOrders
    <2>2. N(s) \in SUBSET N(t) BY <1>1, <1>5, NearerOrders
    <2>3. N(s) # N(t) BY <2>1
    <2>4. IsFiniteSet(N(t)) BY <1>3
    <2> HIDE DEF N
    <2> QED BY <2>2, <2>3, <2>4, FS_Subset
  <1>6. ASSUME NEW s \in F, NEW t \in F, s # t
        PROVE  Cardinality(N(s)) # Cardinality(N(t))
    <2>1. Nearer(s, t, p) \/ Nearer(t, s, p) BY <1>1, <1>4, <1>6, NearerOrders
    <2>2. s \in C /\ t \in C BY <1>4
    <2> HIDE DEF N, C, F
    <2> QED BY <1>5, <2>1, <2>2
  <1>7. MaxOffered \in Nat BY BookingAssumption
  <1>8. \A s \in F : Cardinality(N(s)) \in 0..(MaxOffered - 1)
    <2> HIDE DEF N, C, F
    <2> QED BY <1>3, <1>4, <1>7
  <1>9. rank \in Injection(F, 0..(MaxOffered - 1))
    <2> HIDE DEF N, C, F
    <2> QED BY <1>6, <1>8 DEF Injection, IsInjective
  <1>10. /\ IsFiniteSet(0..(MaxOffered - 1))
         /\ Cardinality(0..(MaxOffered - 1)) = MaxOffered
    BY <1>7, FS_Interval
  <1>11. Cardinality(F) <= MaxOffered
    <2> HIDE DEF rank, F
    <2> QED BY <1>9, <1>10, FS_Injection
  <1> QED BY <1>1, <1>4, <1>11

\* The offers of one call: so many batches, each of so many times.
Offers(batches) ==
  /\ batches \in Seq(SUBSET Slots)
  /\ Len(batches) \in 1..MaxBatches
  /\ \A i \in 1..Len(batches) : Cardinality(batches[i]) <= MaxOffered

\* The deque takes a batch more and drops the oldest when it is full.
LEMMA RecordedOffers ==
  ASSUME NEW batches, Offers(batches), NEW batch \in SUBSET Slots,
         Cardinality(batch) <= MaxOffered
  PROVE  Offers(Recorded(batches, batch))
  <1> DEFINE longer == Append(batches, batch)
  <1>1. /\ batches \in Seq(SUBSET Slots) /\ Len(batches) \in 1..MaxBatches
        /\ MaxBatches \in Nat \ {0}
    BY BookingAssumption DEF Offers
  <1>2. /\ longer \in Seq(SUBSET Slots) /\ Len(longer) = Len(batches) + 1
        /\ \A i \in 1..Len(longer) : Cardinality(longer[i]) <= MaxOffered
    BY <1>1, AppendProperties DEF Offers
  <1> HIDE DEF longer
  <1>3. CASE Len(longer) > MaxBatches
    <2>1. /\ Tail(longer) \in Seq(SUBSET Slots)
          /\ Len(Tail(longer)) = Len(longer) - 1
          /\ \A i \in 1..Len(Tail(longer)) : Tail(longer)[i] = longer[i + 1]
      BY <1>1, <1>2, HeadTailProperties
    <2>2. \A i \in 1..Len(Tail(longer)) : Cardinality(Tail(longer)[i]) <= MaxOffered
      BY <1>1, <1>2, <2>1
    <2>3. Len(Tail(longer)) \in 1..MaxBatches BY <1>1, <1>2, <1>3, <2>1
    <2>4. Recorded(batches, batch) = Tail(longer)
      BY <1>3 DEF Recorded, longer
    <2> QED BY <2>1, <2>2, <2>3, <2>4 DEF Offers
  <1>4. CASE ~(Len(longer) > MaxBatches)
    <2>1. Recorded(batches, batch) = longer BY <1>4 DEF Recorded, longer
    <2>2. Len(longer) \in 1..MaxBatches BY <1>1, <1>2, <1>4
    <2> QED BY <1>2, <2>1, <2>2 DEF Offers
  <1> QED BY <1>3, <1>4

\* One batch alone, that of the first check or of the alternatives.
LEMMA SingleOffer ==
  ASSUME NEW batch \in SUBSET Slots, Cardinality(batch) <= MaxOffered
  PROVE  Offers(<<batch>>)
  <1>1. MaxBatches \in Nat \ {0} BY BookingAssumption
  <1>2. /\ <<batch>> \in Seq(SUBSET Slots)
        /\ Len(<<batch>>) = 1 /\ <<batch>>[1] = batch
    OBVIOUS
  <1>3. \A i \in 1..Len(<<batch>>) : Cardinality(<<batch>>[i]) <= MaxOffered
    BY <1>2
  <1> QED BY <1>1, <1>2, <1>3 DEF Offers

-----------------------------------------------------------------------------
(***************************************************************************)
(* A step of one tool call.                                                *)
(***************************************************************************)
\* What a step of the tool call r leaves of the others, and of the facts.
OnlyMoves(r) ==
  /\ crm' = crm /\ caller' = caller
  /\ \A d \in Requests \ {r} :
       /\ at'[d] = at[d] /\ job'[d] = job[d] /\ contact'[d] = contact[d]
       /\ d \in loose' <=> d \in loose
  /\ job[r] # None => job'[r] = job[r]
  /\ together \subseteq together'
  /\ r \in InFlight' => r \in InFlight \/ Meets(r)

\* Who has met has met for good, and both ways.
LEMMA MetStays ==
  ASSUME together \subseteq together', NEW r, NEW q
  PROVE  Met(r, q) => Met(r, q)'
  BY DEF Met

\* The pair has no order.
LEMMA MetBothWays ==
  ASSUME NEW r, NEW q
  PROVE  Met(r, q) <=> Met(q, r)
  <1>1. {r, q} = {q, r} OBVIOUS
  <1> QED BY <1>1 DEF Met

\* The tool calls under way met each other as the later one looked.
LEMMA AllMetKept ==
  ASSUME BookingTypeOK, BookingTypeOK', AllMet, NEW r \in Requests, OnlyMoves(r)
  PROVE  AllMet'
  <1> SUFFICES ASSUME NEW d \in InFlight', NEW q \in InFlight', d # q
               PROVE  Met(d, q)'
    BY DEF AllMet
  <1>1. d \in Requests /\ q \in Requests BY DEF InFlight, BookingTypeOK
  <1>2. \A x \in Requests \ {r} : x \in InFlight' => x \in InFlight
    BY DEF OnlyMoves, InFlight
  <1>3. CASE d \in InFlight /\ q \in InFlight
    <2>1. Met(d, q) BY <1>3 DEF AllMet
    <2> QED BY <2>1, MetStays DEF OnlyMoves
  <1>4. CASE d = r /\ r \notin InFlight
    <2>1. q \in InFlight \ {r} BY <1>1, <1>2, <1>4
    <2>2. Meets(r) BY <1>4 DEF OnlyMoves
    <2> QED BY <1>4, <2>1, <2>2 DEF Meets, Met
  <1>5. CASE q = r /\ r \notin InFlight
    <2>1. d \in InFlight \ {r} BY <1>1, <1>2, <1>5
    <2>2. Meets(r) BY <1>5 DEF OnlyMoves
    <2>3. {r, d} \in together' BY <2>1, <2>2 DEF Meets
    <2>4. {r, d} = {d, q} BY <1>5
    <2> QED BY <2>3, <2>4 DEF Met
  <1> QED BY <1>1, <1>2, <1>3, <1>4, <1>5

\* A tool call that does not move keeps what is known of it.
LEMMA OthersKept ==
  ASSUME BookingInv, NEW r \in Requests, OnlyMoves(r), NEW d \in Requests, d # r,
         meeting' = meeting
  PROVE  /\ JobFits(d)' /\ RecordFits(d)' /\ SlotClear(d)' /\ MoveClear(d)'
         /\ contacts' = contacts => ContactClear(d)'
  <1>1. /\ at'[d] = at[d] /\ job'[d] = job[d] /\ contact'[d] = contact[d]
        /\ d \in loose' <=> d \in loose
        /\ crm' = crm /\ caller' = caller
        /\ together \subseteq together'
    BY DEF OnlyMoves
  <1>2. /\ JobFits(d) /\ RecordFits(d) /\ SlotClear(d)
        /\ ContactClear(d) /\ MoveClear(d)
    BY DEF BookingInv
  <1>3. JobFits(d)' BY <1>1, <1>2 DEF JobFits, Places
  <1>4. RecordFits(d)' BY <1>1, <1>2 DEF RecordFits, Holds, Person
  <1>5. SlotClear(d)'
    BY <1>1, <1>2, MetStays DEF SlotClear, Looked, Places, Planned, Overlaps
  <1>6. contacts' = contacts => ContactClear(d)'
    BY <1>1, <1>2, MetStays DEF ContactClear, Creating, Finds, Person
  <1>7. MoveClear(d)'
    <2>1. ASSUME NEW q \in Requests, Met(d, q), job[q] # None,
                 job[q].kind = "cancel"
          PROVE  Met(d, q)' /\ job'[q] # None /\ job'[q].kind = "cancel"
      <3>1. job'[q] = job[q] BY <2>1 DEF OnlyMoves
      <3> QED BY <1>1, <2>1, <3>1, MetStays
    <2> QED BY <1>1, <1>2, <2>1 DEF MoveClear, Holds
  <1> QED BY <1>3, <1>4, <1>5, <1>6, <1>7

\* A step that writes nothing keeps the invariant if the tool call that
\* takes it keeps what is known of itself.
LEMMA StepKeeps ==
  ASSUME BookingInv, BookingTypeOK', NEW r \in Requests, OnlyMoves(r),
         contacts' = contacts, meeting' = meeting,
         JobFits(r)', RecordFits(r)', SlotClear(r)', ContactClear(r)', MoveClear(r)'
  PROVE  BookingInv'
  <1>1. AllMet' BY AllMetKept DEF BookingInv
  <1>2. \A d \in Requests :
          /\ JobFits(d)' /\ RecordFits(d)' /\ SlotClear(d)'
          /\ ContactClear(d)' /\ MoveClear(d)'
    BY OthersKept
  <1>3. NoDoubleBookingInTurn' /\ OneContactInTurn'
    BY
       DEF BookingInv, OnlyMoves, NoDoubleBookingInTurn, OneContactInTurn,
           Planned,
           Overlaps
  <1> QED BY <1>1, <1>2, <1>3 DEF BookingInv

-----------------------------------------------------------------------------
(***************************************************************************)
(* The steps that write nothing.                                           *)
(***************************************************************************)
\* The tool call is on its way to an answer and can write nothing more.
LEMMA QuietKeeps ==
  ASSUME BookingInv, NEW r \in Requests,
         NEW label \in {"offer", "reset", "alternates", "done"},
         at[r] \notin {"idle", "done"}, at[r] = "answer" => label = "done",
         label # "done" => job[r].kind \in {"check", "book"},
         at' = [at EXCEPT ![r] = label],
         UNCHANGED <<crm, caller, job, contact, contacts, meeting, staff, loose,
                     together>>,
         offered' \in [Calls -> Seq(SUBSET Slots)],
         \A c \in Calls : Offers(offered'[c]),
         seen' \in [Requests -> SUBSET (Slots \cup StaffTimes)],
         details' \in [Calls -> Requests \cup {None}]
  PROVE  BookingInv'
  <1>1. BookingTypeOK /\ JobFits(r) /\ RecordFits(r) BY DEF BookingInv
  <1>2. BookingTypeOK' BY <1>1 DEF BookingTypeOK, Offers
  <1>3. /\ at'[r] = label /\ r \notin loose' /\ at[r] # "done"
        /\ \A d \in Requests \ {r} : at'[d] = at[d]
    BY <1>1 DEF BookingTypeOK, JobFits
  <1>4. OnlyMoves(r) BY <1>3 DEF OnlyMoves, InFlight
  <1>5. JobFits(r)' BY <1>1, <1>3 DEF JobFits, Places
  <1>6. RecordFits(r)' BY <1>1, <1>3 DEF RecordFits, Holds, Person
  <1>7. SlotClear(r)' /\ ContactClear(r)' /\ MoveClear(r)'
    BY <1>3 DEF SlotClear, Looked, ContactClear, Creating, MoveClear, Holds
  <1> QED BY <1>2, <1>4, <1>5, <1>6, <1>7, StepKeeps

\* A tool is called: nothing is known of it yet but its arguments.
LEMMA AskedKeeps ==
  ASSUME BookingInv, NEW r \in Requests, NEW kind \in Kinds,
         NEW slot \in Slots \cup {None}, NEW target \in Requests \cup {None},
         NEW label \in {"query", "look", "identify", "done"},
         Asked(r, kind, slot, target), at' = [at EXCEPT ![r] = label],
         label = "query" => kind = "check", label = "look" => kind = "book",
         label = "identify" => kind \in {"reschedule", "cancel"},
         kind # "cancel" => slot \in Slots,
         IF kind \in {"reschedule", "cancel"} THEN crm /\ target \in Requests
                                             ELSE target = None
  PROVE  BookingInv'
  <1> DEFINE made == [kind |-> kind, slot |-> slot, target |-> target]
  <1>1. /\ BookingTypeOK /\ JobFits(r) /\ RecordFits(r) /\ at[r] = "idle"
        /\ job' = [job EXCEPT ![r] = made]
        /\ UNCHANGED <<crm, caller, contact, contacts, meeting, staff, loose,
                       together, offered, seen, details>>
    BY DEF BookingInv, Asked, server
  <1>2. /\ made \in Job /\ made # None /\ made.kind = kind /\ made.slot = slot
        /\ made.target = target
    BY BookingAssumption DEF Job
  <1> HIDE DEF made
  <1>3. /\ at'[r] = label /\ job'[r] = made /\ r \notin loose' /\ job[r] = None
        /\ contact[r] = None /\ meeting[r] = None
        /\ \A d \in Requests \ {r} : at'[d] = at[d] /\ job'[d] = job[d]
    BY <1>1 DEF BookingTypeOK, JobFits, RecordFits
  <1>4. BookingTypeOK' BY <1>1, <1>2 DEF BookingTypeOK
  <1>5. OnlyMoves(r)
    BY <1>1, <1>2, <1>3 DEF OnlyMoves, InFlight
  <1>6. JobFits(r)' BY <1>1, <1>2, <1>3 DEF JobFits, Places
  <1>7. ~Holds(r)' /\ ~Looked(r)' /\ ~Creating(r)'
    BY <1>2, <1>3 DEF Holds, Looked, Creating
  <1>8. RecordFits(r)' BY <1>1, <1>3, <1>7 DEF RecordFits
  <1>9. SlotClear(r)' /\ ContactClear(r)' /\ MoveClear(r)'
    BY <1>7 DEF SlotClear, ContactClear, MoveClear
  <1> QED BY <1>1, <1>4, <1>5, <1>6, <1>8, <1>9, StepKeeps

\* What the types say of the functions an action does not touch.
LEMMA SameOffers ==
  ASSUME BookingInv, offered' = offered, seen' = seen, details' = details
  PROVE  /\ offered' \in [Calls -> Seq(SUBSET Slots)]
         /\ \A c \in Calls : Offers(offered'[c])
         /\ seen' \in [Requests -> SUBSET (Slots \cup StaffTimes)]
         /\ details' \in [Calls -> Requests \cup {None}]
  BY DEF BookingInv, BookingTypeOK, Offers

\* A tool call ends with a word of trouble, a refusal or what it found.
LEMMA AnswerKeeps ==
  ASSUME BookingInv, NEW r \in Requests, NEW words, Answers(r, words),
         at[r] \notin {"idle", "done"},
         UNCHANGED <<crm, caller, job, contact, contacts, meeting, staff, loose,
                     together, offered, seen, details>>
  PROVE  BookingInv'
  BY SameOffers, QuietKeeps DEF Answers

\* The four tools are called, or refuse at once.
LEMMA ToolsKeep ==
  ASSUME BookingInv, NEW r \in Requests,
         \/ CheckAvailability(r) \/ BookAppointment(r)
         \/ RescheduleAppointment(r) \/ CancelAppointment(r)
  PROVE  BookingInv'
  <1>1. CASE CheckAvailability(r)
    BY <1>1, AskedKeeps DEF CheckAvailability, Moves, Kinds
  <1>2. CASE BookAppointment(r)
    <2>1. PICK s \in Slots, label \in {"look", "done"} :
            Asked(r, "book", s, None) /\ at' = [at EXCEPT ![r] = label]
      BY <1>2 DEF BookAppointment, Moves, Answers
    <2> QED BY <2>1, AskedKeeps DEF Kinds
  <1>3. CASE RescheduleAppointment(r)
    <2>1. PICK s \in Slots, e \in Requests, label \in {"identify", "done"} :
            /\ crm /\ Asked(r, "reschedule", s, e)
            /\ at' = [at EXCEPT ![r] = label]
      BY <1>3 DEF RescheduleAppointment, Moves, Answers
    <2> QED BY <2>1, AskedKeeps DEF Kinds
  <1>4. CASE CancelAppointment(r)
    <2>1. PICK e \in Requests :
            /\ crm /\ Asked(r, "cancel", None, e)
            /\ at' = [at EXCEPT ![r] = "identify"]
      BY <1>4 DEF CancelAppointment, Moves
    <2> QED BY <2>1, AskedKeeps DEF Kinds
  <1> QED BY <1>1, <1>2, <1>3, <1>4

\* The queries of a window see times of the receptionist's and the staff's;
\* the offers made from them are slots.
LEMMA WindowsKeep ==
  ASSUME BookingInv, NEW r \in Requests,
         QueryWindow(r) \/ QueryFails(r) \/ OfferSlots(r) \/ OfferAlternates(r)
  PROVE  BookingInv'
  <1>1. CASE QueryWindow(r)
    <2>1. PICK label \in {"offer", "reset"} : at' = [at EXCEPT ![r] = label]
      BY <1>1 DEF QueryWindow, Moves
    <2>2. Busy({}) \in SUBSET (Slots \cup StaffTimes)
      <3>1. \A e \in Planned : meeting[e] \in Meeting
        BY DEF Planned, BookingInv, BookingTypeOK
      <3>2. \A e \in Planned : meeting[e].slot \in Slots BY <3>1 DEF Meeting
      <3> QED BY <3>2 DEF Busy, BookingInv, BookingTypeOK
    <2>3. seen' \in [Requests -> SUBSET (Slots \cup StaffTimes)]
      BY <1>1, <2>2 DEF QueryWindow, BookingInv, BookingTypeOK
    <2>4. /\ offered' = offered /\ details' = details
          /\ at[r] \notin {"idle", "done", "answer"}
          /\ job[r].kind \in {"check", "book"}
          /\ UNCHANGED <<crm, caller, job, contact, contacts, meeting, staff, loose,
                         together>>
      BY <1>1 DEF QueryWindow, server, BookingInv, JobFits
    <2>5. /\ offered' \in [Calls -> Seq(SUBSET Slots)]
          /\ \A c \in Calls : Offers(offered'[c])
          /\ details' \in [Calls -> Requests \cup {None}]
      BY <2>4 DEF BookingInv, BookingTypeOK, Offers
    <2> QED BY <2>1, <2>3, <2>4, <2>5, QuietKeeps
  <1>2. CASE QueryFails(r)
    BY <1>2, AnswerKeeps DEF QueryFails, Fails, server
  <1>3. CASE OfferSlots(r) \/ OfferAlternates(r)
    <2> DEFINE found == FindSlots(seen[r], job[r].slot)
    <2>1. /\ CallOf[r] \in Calls /\ job[r].slot \in Slots
          /\ at[r] \in {"offer", "reset", "alternates"}
      BY <1>3, BookingAssumption
         DEF OfferSlots, OfferAlternates, BookingInv, JobFits
    <2>2. /\ found \in SUBSET Slots /\ Cardinality(found) <= MaxOffered
          /\ {} \in SUBSET Slots /\ Cardinality({}) <= MaxOffered
      <3>1. found \in SUBSET Slots /\ Cardinality(found) <= MaxOffered
        BY <2>1, FewFound
      <3>2. Cardinality({}) = 0 BY FS_EmptySet
      <3>3. MaxOffered \in Nat BY BookingAssumption
      <3> QED BY <3>1, <3>2, <3>3
    <2> HIDE DEF found
    <2>3. /\ offered \in [Calls -> Seq(SUBSET Slots)]
          /\ \A c \in Calls : Offers(offered[c])
      BY DEF BookingInv, BookingTypeOK, Offers
    <2>4. /\ at' = [at EXCEPT ![r] = "done"]
          /\ UNCHANGED <<crm, caller, job, contact, contacts, meeting, staff, loose,
                         together, seen, details>>
      BY <1>3 DEF OfferSlots, OfferAlternates, Answers, server
    <2>5. \/ offered' = offered
          \/ offered' = [offered EXCEPT ![CallOf[r]] =
                            Recorded(offered[CallOf[r]], found)]
          \/ offered' = [offered EXCEPT ![CallOf[r]] = <<found>>]
          \/ offered' = [offered EXCEPT ![CallOf[r]] = <<{}>>]
      BY <1>3, <2>1, <2>3 DEF OfferSlots, OfferAlternates, Reset, found
    <2>6. /\ Offers(Recorded(offered[CallOf[r]], found))
          /\ Offers(<<found>>) /\ Offers(<<{}>>)
      BY <2>1, <2>2, <2>3, RecordedOffers, SingleOffer
    <2>7. /\ offered' \in [Calls -> Seq(SUBSET Slots)]
          /\ \A c \in Calls : Offers(offered'[c])
      BY <2>1, <2>3, <2>5, <2>6 DEF Offers
    <2>8. /\ seen' \in [Requests -> SUBSET (Slots \cup StaffTimes)]
          /\ details' \in [Calls -> Requests \cup {None}]
      BY <2>4 DEF BookingInv, BookingTypeOK
    <2> QED BY <2>1, <2>4, <2>7, <2>8, QuietKeeps
  <1> QED BY <1>1, <1>2, <1>3

\* An overlap of the calendar's is one of the CRM's widened look too.
LEMMA WidenedOverlaps ==
  ASSUME NEW s \in Int, NEW t \in Int, Overlaps(s, t)
  PROVE  OverlapsBuffered(s, t)
  BY BookingAssumption DEF Overlaps, OverlapsBuffered

\* The look finds the slot taken, fails, or leaves it clear of everything
\* that is planned at that moment; the tool calls under way then are met.
LEMMA LookKeeps ==
  ASSUME BookingInv, NEW r \in Requests, LookAtSlot(r)
  PROVE  BookingInv'
  <1>1. /\ BookingTypeOK /\ JobFits(r) /\ RecordFits(r) /\ MoveClear(r)
        /\ at[r] = "look" /\ Places(r) /\ r \notin loose
        /\ UNCHANGED <<crm, caller, offered, job, seen, contact, contacts, meeting,
                       staff, loose, details>>
    BY DEF BookingInv, JobFits, LookAtSlot, server
  <1>2. CASE Answers(r, "taken") \/ Fails(r)
    <2>1. UNCHANGED together
      BY <1>1, <1>2 DEF LookAtSlot, Fails, Answers, Moves, BookingTypeOK
    <2> QED BY <1>1, <1>2, <2>1, AnswerKeeps DEF Fails
  <1>3. CASE /\ Taken(r) /\ job[r].kind = "book" /\ Moves(r, "alternates")
             /\ UNCHANGED together
    <2>1. /\ offered' \in [Calls -> Seq(SUBSET Slots)]
          /\ \A c \in Calls : Offers(offered'[c])
          /\ seen' \in [Requests -> SUBSET (Slots \cup StaffTimes)]
          /\ details' \in [Calls -> Requests \cup {None}]
      BY <1>1, SameOffers
    <2> QED BY <1>1, <1>3, <2>1, QuietKeeps DEF Moves
  <1>4. CASE /\ ~Taken(r) /\ Meets(r)
             /\ Moves(r, IF crm /\ job[r].kind = "book" THEN "contact" ELSE "write")
    <2>1. PICK label \in {"contact", "write"} :
            /\ at' = [at EXCEPT ![r] = label]
            /\ label = "contact" <=> crm /\ job[r].kind = "book"
      BY <1>4 DEF Moves
    <2>2. at'[r] = label /\ \A d \in Requests \ {r} : at'[d] = at[d]
      BY <1>1, <2>1 DEF BookingTypeOK
    <2>3. BookingTypeOK' BY <1>1, <2>1 DEF BookingTypeOK
    <2>4. OnlyMoves(r) BY <1>1, <1>4, <2>2 DEF OnlyMoves, Meets
    <2>5. job[r].kind = "reschedule" => Holds(r) BY <1>1 DEF Holds
    <2>6. JobFits(r)'
      BY <1>1, <2>1, <2>2, <2>5 DEF JobFits, RecordFits, Places
    <2>7. RecordFits(r)' BY <1>1, <2>2 DEF RecordFits, Holds, Person
    <2>8. SlotClear(r)'
      <3> SUFFICES ASSUME NEW e \in Planned, e # job[r].target,
                          Overlaps(job[r].slot, meeting[e].slot)
                   PROVE  FALSE
        BY <1>1 DEF SlotClear, Planned, Places, Overlaps
      <3>1. meeting[e].slot \in Busy({job[r].target}) BY DEF Busy
      <3>2. job[r].slot \in Int /\ meeting[e].slot \in Int
        <4>1. meeting[e] \in Meeting BY <1>1 DEF Planned, BookingTypeOK
        <4>2. meeting[e].slot \in Slots BY <4>1 DEF Meeting
        <4>3. job[r].slot \in Slots BY <1>1 DEF JobFits, Places
        <4> QED BY <4>2, <4>3, BookingAssumption
      <3> QED BY <1>4, <3>1, <3>2, WidenedOverlaps DEF Taken
    <2>9. ContactClear(r)' BY <1>1, <2>2 DEF ContactClear, Creating
    <2>10. MoveClear(r)'
      <3> SUFFICES ASSUME job[r].kind = "reschedule"
                   PROVE  \/ meeting[job[r].target].planned
                          \/ \E q \in Requests : /\ Met(r, q)' /\ job[q] # None
                                                /\ job[q].kind = "cancel"
        BY <1>1 DEF MoveClear
      <3>1. \A q \in Requests : Met(r, q) => Met(r, q)'
        BY <2>4, MetStays DEF OnlyMoves
      <3> QED BY <1>1, <2>5, <3>1 DEF MoveClear
    <2> QED BY <1>1, <2>3, <2>4, <2>6, <2>7, <2>8, <2>9, <2>10, StepKeeps
  <1> QED BY <1>2, <1>3, <1>4 DEF LookAtSlot

\* The contact is found, is to be created as there is none, or the tool
\* gives up.
LEMMA EnsureKeeps ==
  ASSUME BookingInv, NEW r \in Requests, EnsureContact(r)
  PROVE  BookingInv'
  <1>1. /\ BookingTypeOK /\ JobFits(r) /\ RecordFits(r) /\ SlotClear(r)
        /\ at[r] = "contact" /\ r \notin loose /\ job[r].kind = "book" /\ crm
        /\ meeting[r] = None /\ Looked(r) /\ r \in InFlight
        /\ UNCHANGED <<crm, caller, offered, job, seen, contacts, meeting, staff,
                       loose, details, together>>
    BY
       DEF BookingInv, JobFits, RecordFits, EnsureContact, server, Looked,
           InFlight
  <1>2. CASE Answers(r, "identity") \/ Fails(r)
    <2>1. UNCHANGED contact
      <3>1. at'[r] = "done" BY <1>1, <1>2 DEF Answers, Fails, BookingTypeOK
      <3>2. ~Moves(r, "write") BY <1>1, <3>1 DEF Moves, BookingTypeOK
      <3> QED BY <3>2 DEF EnsureContact
    <2> QED BY <1>1, <1>2, <2>1, AnswerKeeps DEF Fails
  <1>3. ASSUME NEW k \in ContactsOf(Person(r)),
               contact' = [contact EXCEPT ![r] = k], Moves(r, "write")
        PROVE  BookingInv'
    <2>1. /\ k \in contacts /\ k \in Contact /\ k # None
          /\ Alike(k.person, Person(r))
      BY <1>1, <1>3, BookingAssumption
         DEF ContactsOf, ContactsForPhone, Alike, BookingTypeOK
    <2>2. /\ at'[r] = "write" /\ contact'[r] = k
          /\ \A d \in Requests \ {r} : at'[d] = at[d] /\ contact'[d] = contact[d]
      BY <1>1, <1>3 DEF BookingTypeOK, Moves
    <2>3. BookingTypeOK' BY <1>1, <1>3, <2>1 DEF BookingTypeOK, Moves
    <2>4. OnlyMoves(r) BY <1>1, <2>2 DEF OnlyMoves
    <2>5. JobFits(r)' BY <1>1, <2>1, <2>2 DEF JobFits, Places
    <2>6. RecordFits(r)' BY <1>1, <2>1, <2>2 DEF RecordFits, Holds, Person
    <2>7. SlotClear(r)'
      BY <1>1 DEF SlotClear, Places, Planned, Overlaps, Met
    <2>8. ContactClear(r)' /\ MoveClear(r)'
      BY <1>1, <2>2 DEF ContactClear, Creating, MoveClear
    <2> QED BY <1>1, <2>3, <2>4, <2>5, <2>6, <2>7, <2>8, StepKeeps
  <1>4. CASE /\ ContactsForPhone(Person(r)) = {} /\ Moves(r, "create")
             /\ UNCHANGED contact
    <2>1. at'[r] = "create" /\ \A d \in Requests \ {r} : at'[d] = at[d]
      BY <1>1, <1>4 DEF BookingTypeOK, Moves
    <2>2. BookingTypeOK' BY <1>1, <1>4 DEF BookingTypeOK, Moves
    <2>3. OnlyMoves(r) BY <1>1, <1>4, <2>1 DEF OnlyMoves
    <2>4. JobFits(r)' BY <1>1, <1>4, <2>1 DEF JobFits, Places
    <2>5. RecordFits(r)' BY <1>1, <1>4, <2>1 DEF RecordFits, Holds, Person
    <2>6. SlotClear(r)'
      BY <1>1 DEF SlotClear, Places, Planned, Overlaps, Met
    <2>7. ContactClear(r)'
      BY <1>1, <1>4 DEF ContactClear, ContactsForPhone, Finds, Person
    <2>8. MoveClear(r)' BY <1>1 DEF MoveClear
    <2> QED BY <1>1, <1>4, <2>2, <2>3, <2>4, <2>5, <2>6, <2>7, <2>8, StepKeeps
  <1> QED BY <1>2, <1>3, <1>4 DEF EnsureContact

\* find_contact: the one contact found by the caller's name and number.
LEMMA IdentifyKeeps ==
  ASSUME BookingInv, NEW r \in Requests, Identify(r)
  PROVE  BookingInv'
  <1> DEFINE found == ContactsOf(Person(r))
             one == CHOOSE k \in found : TRUE
  <1>1. /\ BookingTypeOK /\ JobFits(r) /\ RecordFits(r)
        /\ at[r] = "identify" /\ r \notin loose /\ meeting[r] = None
        /\ job[r].kind \in {"reschedule", "cancel"}
        /\ UNCHANGED <<crm, caller, offered, job, seen, contacts, meeting, staff,
                       loose, details, together>>
    BY DEF BookingInv, JobFits, RecordFits, Identify, server
  <1>2. CASE (Answers(r, "no match") \/ Fails(r)) /\ UNCHANGED contact
    BY <1>1, <1>2, AnswerKeeps DEF Fails
  <1>3. CASE /\ Cardinality(found) = 1 /\ Moves(r, "fetch")
             /\ contact' = [contact EXCEPT ![r] = one]
    <2>1. found # {} BY <1>3, FS_EmptySet
    <2>2. one \in found BY <2>1
    <2> HIDE DEF one
    <2>3. one \in Contact /\ one # None /\ Alike(one.person, Person(r))
      BY <1>1, <2>2, BookingAssumption
         DEF ContactsOf, ContactsForPhone, Alike, BookingTypeOK
    <2>4. /\ at'[r] = "fetch" /\ contact'[r] = one
          /\ \A d \in Requests \ {r} : at'[d] = at[d] /\ contact'[d] = contact[d]
      BY <1>1, <1>3 DEF BookingTypeOK, Moves
    <2>5. BookingTypeOK' BY <1>1, <1>3, <2>3 DEF BookingTypeOK, Moves
    <2>6. OnlyMoves(r) BY <1>1, <2>4 DEF OnlyMoves, InFlight
    <2>7. JobFits(r)' BY <1>1, <2>3, <2>4 DEF JobFits, Places
    <2>8. ~Holds(r)' /\ ~Looked(r)' /\ ~Creating(r)'
      BY <1>1, <2>4 DEF Holds, Looked, Creating
    <2>9. RecordFits(r)' BY <1>1, <2>3, <2>4, <2>8 DEF RecordFits, Person
    <2>10. SlotClear(r)' /\ ContactClear(r)' /\ MoveClear(r)'
      BY <2>8 DEF SlotClear, ContactClear, MoveClear
    <2> QED BY <1>1, <2>5, <2>6, <2>7, <2>9, <2>10, StepKeeps
  <1> QED BY <1>2, <1>3 DEF Identify

\* The appointment is the caller's and planned at that moment; the tool
\* calls under way then are met.
LEMMA FetchKeeps ==
  ASSUME BookingInv, NEW r \in Requests, FetchAppointment(r)
  PROVE  BookingInv'
  <1>1. /\ BookingTypeOK /\ JobFits(r) /\ RecordFits(r)
        /\ at[r] = "fetch" /\ r \notin loose /\ meeting[r] = None
        /\ job[r].kind \in {"reschedule", "cancel"}
        /\ UNCHANGED <<crm, caller, offered, job, seen, contact, contacts, meeting,
                       staff, loose, details>>
    BY DEF BookingInv, JobFits, RecordFits, FetchAppointment, server
  <1>2. CASE Fails(r) /\ UNCHANGED together
    BY <1>1, <1>2, AnswerKeeps DEF Fails
  <1>3. CASE /\ MayChange(r) /\ StillPlanned(r) /\ Meets(r)
             /\ Moves(r, IF job[r].kind = "cancel" THEN "write" ELSE "look")
    <2>1. PICK label \in {"look", "write"} :
            /\ at' = [at EXCEPT ![r] = label]
            /\ label = "write" <=> job[r].kind = "cancel"
      BY <1>3 DEF Moves
    <2>2. at'[r] = label /\ \A d \in Requests \ {r} : at'[d] = at[d]
      BY <1>1, <2>1 DEF BookingTypeOK
    <2>3. BookingTypeOK' BY <1>1, <2>1 DEF BookingTypeOK
    <2>4. OnlyMoves(r) BY <1>1, <1>3, <2>2 DEF OnlyMoves, Meets
    <2>5. JobFits(r)' BY <1>1, <2>1, <2>2 DEF JobFits, Places
    <2>6. RecordFits(r)'
      BY <1>1, <1>3 DEF RecordFits, Holds, Person, MayChange, JobFits
    <2>7. SlotClear(r)' BY <1>1, <2>1, <2>2 DEF SlotClear, Looked, Places
    <2>8. ContactClear(r)' BY <1>1, <2>2 DEF ContactClear, Creating
    <2>9. MoveClear(r)' BY <1>1, <1>3 DEF MoveClear, StillPlanned
    <2> QED BY <1>1, <2>3, <2>4, <2>5, <2>6, <2>7, <2>8, <2>9, StepKeeps
  <1> QED BY <1>2, <1>3 DEF FetchAppointment

\* What a tool call gives up on may still be under way, and is then as
\* clear of the others as before.
LEMMA GivesUpKeeps ==
  ASSUME BookingInv, NEW r \in Requests, Fails(r), at[r] \in {"create", "write"},
         loose' \in {loose, loose \cup {r}},
         UNCHANGED <<crm, caller, offered, job, seen, contact, contacts, meeting,
                     staff, details, together>>
  PROVE  BookingInv'
  <1>1. /\ BookingTypeOK /\ JobFits(r) /\ RecordFits(r) /\ SlotClear(r)
        /\ ContactClear(r) /\ MoveClear(r)
        /\ r \notin loose /\ meeting[r] = None /\ Looked(r) /\ r \in InFlight
    BY DEF BookingInv, JobFits, RecordFits, Looked, InFlight
  <1>2. at'[r] = "done" /\ \A d \in Requests \ {r} : at'[d] = at[d]
    BY <1>1 DEF Fails, Answers, BookingTypeOK
  <1>3. BookingTypeOK' BY <1>1 DEF BookingTypeOK, Fails, Answers
  <1>4. OnlyMoves(r) BY <1>1, <1>2 DEF OnlyMoves
  <1>5. JobFits(r)' BY <1>1, <1>2 DEF JobFits, Places
  <1>6. Holds(r)' => Holds(r) BY <1>1, <1>2 DEF Holds, JobFits
  <1>7. RecordFits(r)' BY <1>1, <1>2, <1>6 DEF RecordFits, Person
  <1>8. SlotClear(r)' BY <1>1 DEF SlotClear, Places, Planned, Overlaps, Met
  <1>9. Creating(r)' => Creating(r) BY <1>1, <1>2 DEF Creating, JobFits
  <1>10. ContactClear(r)' BY <1>1, <1>9 DEF ContactClear, Finds, Person, Met
  <1>11. MoveClear(r)' BY <1>1, <1>6 DEF MoveClear, Met
  <1> QED BY <1>3, <1>4, <1>5, <1>7, <1>8, <1>10, <1>11, StepKeeps

\* The answer is told or lost.
LEMMA ConfirmKeeps ==
  ASSUME BookingInv, NEW r \in Requests, Confirm(r)
  PROVE  BookingInv'
  <1>1. /\ at' = [at EXCEPT ![r] = "done"] /\ at[r] = "answer"
        /\ details' = details \/ details' = [details EXCEPT ![CallOf[r]] = r]
        /\ UNCHANGED <<crm, caller, offered, job, seen, contact, contacts, meeting,
                       staff, loose, together>>
    BY DEF Confirm, Answers, Fails, server
  <1>2. /\ details' \in [Calls -> Requests \cup {None}]
        /\ seen' \in [Requests -> SUBSET (Slots \cup StaffTimes)]
    BY <1>1 DEF BookingInv, BookingTypeOK
  <1>3. /\ offered' \in [Calls -> Seq(SUBSET Slots)]
        /\ \A c \in Calls : Offers(offered'[c])
    BY <1>1 DEF BookingInv, BookingTypeOK, Offers
  <1> QED BY <1>1, <1>2, <1>3, QuietKeeps

\* What the staff take is no concern of the tool calls' facts.
LEMMA StaffKeeps ==
  ASSUME BookingInv, UNCHANGED bookingVars \/ StaffBooks
  PROVE  BookingInv'
  <1>1. /\ staff' \subseteq StaffTimes
        /\ UNCHANGED <<crm, caller, offered, job, at, seen, contact, contacts,
                       meeting, loose, details, together>>
    BY DEF StaffBooks, bookingVars, BookingInv, BookingTypeOK
  <1>2. BookingTypeOK' BY <1>1 DEF BookingInv, BookingTypeOK
  <1>3. AllMet' BY <1>1 DEF BookingInv, AllMet, InFlight, Met
  <1>4. ASSUME NEW d \in Requests
        PROVE  /\ JobFits(d)' /\ RecordFits(d)' /\ SlotClear(d)'
               /\ ContactClear(d)' /\ MoveClear(d)'
    <2>1. /\ JobFits(d) /\ RecordFits(d) /\ SlotClear(d)
          /\ ContactClear(d) /\ MoveClear(d)
      BY DEF BookingInv
    <2>2. JobFits(d)' /\ RecordFits(d)'
      BY <1>1, <2>1 DEF JobFits, RecordFits, Places, Holds, Person
    <2>3. SlotClear(d)' /\ ContactClear(d)'
      BY <1>1, <2>1 DEF SlotClear, Looked, Places, Planned, Overlaps, Met,
         ContactClear, Creating, Finds, Person
    <2>4. MoveClear(d)' BY <1>1, <2>1 DEF MoveClear, Holds, Met
    <2> QED BY <2>2, <2>3, <2>4
  <1>5. NoDoubleBookingInTurn' /\ OneContactInTurn'
    BY <1>1 DEF BookingInv, NoDoubleBookingInTurn, OneContactInTurn, Planned,
       Overlaps
  <1> QED BY <1>2, <1>3, <1>4, <1>5 DEF BookingInv

-----------------------------------------------------------------------------
(***************************************************************************)
(* The steps that write.                                                   *)
(***************************************************************************)
\* A contact is created by a tool call that had found none for the number:
\* those the number finds by now are by calls it met.
LEMMA ContactAdded ==
  ASSUME BookingInv, BookingTypeOK', NEW r \in Requests, OnlyMoves(r), Creating(r),
         ~Creating(r)', NEW plain \in BOOLEAN,
         contacts' = contacts \cup {NewContact(r, plain)},
         meeting' = meeting, together' = together,
         JobFits(r)', RecordFits(r)', SlotClear(r)', MoveClear(r)'
  PROVE  BookingInv'
  <1>1. AllMet' BY AllMetKept DEF BookingInv
  <1>2. \A d \in Requests :
          /\ JobFits(d)' /\ RecordFits(d)' /\ SlotClear(d)' /\ MoveClear(d)'
    BY OthersKept
  <1>3. /\ NewContact(r, plain).person = Person(r)
        /\ NewContact(r, plain).by = r
        /\ NewContact(r, plain).plain = plain
    BY DEF NewContact
  <1>4. ASSUME NEW d \in Requests, Creating(d)', NEW k \in contacts', Finds(d, k)'
        PROVE  Met(d, k.by)'
    <2>1. d # r BY <1>4
    <2>2. Creating(d) /\ Finds(d, k)
      BY <1>4, <2>1 DEF OnlyMoves, Creating, Finds, Person
    <2>3. CASE k \in contacts
      <3>1. Met(d, k.by) BY <2>2, <2>3 DEF BookingInv, ContactClear
      <3> QED BY <3>1 DEF Met
    <2>4. CASE k = NewContact(r, plain)
      <3>1. d \in InFlight /\ r \in InFlight BY <2>2 DEF Creating, InFlight
      <3>2. Met(d, r) BY <2>1, <3>1 DEF BookingInv, AllMet
      <3> QED BY <1>3, <2>4, <3>2 DEF Met
    <2> QED BY <1>4, <2>3, <2>4
  <1>5. ASSUME NEW d \in Requests
        PROVE  ContactClear(d)'
    BY <1>4 DEF ContactClear
  <1>6. \A k \in contacts : Finds(r, k) => Met(r, k.by) /\ Met(k.by, r)
    BY MetBothWays DEF BookingInv, ContactClear
  <1>7. OneContactInTurn'
    <2> SUFFICES ASSUME NEW k \in contacts', NEW l \in contacts', k # l,
                        k.plain, l.plain, TailOf[k.person] = TailOf[l.person]
                 PROVE  {k.by, l.by} \in together'
      BY DEF OneContactInTurn
    <2>1. CASE k \in contacts /\ l \in contacts
      BY <2>1 DEF BookingInv, OneContactInTurn
    <2>2. CASE k = NewContact(r, plain) /\ l \in contacts
      BY <1>3, <1>6, <2>2 DEF Finds, Met
    <2>3. CASE l = NewContact(r, plain) /\ k \in contacts
      BY <1>3, <1>6, <2>3 DEF Finds, Met
    <2> QED BY <2>1, <2>2, <2>3
  <1>8. NoDoubleBookingInTurn'
    BY DEF BookingInv, NoDoubleBookingInTurn, Planned, Overlaps
  <1> QED BY <1>1, <1>2, <1>5, <1>7, <1>8 DEF BookingInv

\* POST Contact is answered, fails, or is lost with the contact created.
LEMMA CreateKeeps ==
  ASSUME BookingInv, NEW r \in Requests, CreateContact(r)
  PROVE  BookingInv'
  <1>1. /\ BookingTypeOK /\ JobFits(r) /\ RecordFits(r) /\ SlotClear(r)
        /\ at[r] = "create" /\ r \notin loose /\ meeting[r] = None
        /\ job[r].kind = "book" /\ crm /\ Looked(r) /\ r \in InFlight /\ Creating(r)
        /\ UNCHANGED <<crm, caller, offered, job, seen, meeting, staff, details,
                       together>>
    BY DEF BookingInv, JobFits, RecordFits, CreateContact, Looked, InFlight,
       Creating
  <1>2. CASE /\ Fails(r) /\ loose' \in {loose, loose \cup {r}}
             /\ UNCHANGED <<contact, contacts>>
    BY <1>1, <1>2, GivesUpKeeps
  <1>3. ASSUME NEW plain \in BOOLEAN
        PROVE  /\ NewContact(r, plain) \in Contact /\ NewContact(r, plain) # None
               /\ Alike(NewContact(r, plain).person, Person(r))
    <2>1. Person(r) \in Callers
      BY <1>1, BookingAssumption DEF Person, BookingTypeOK
    <2> QED BY <2>1, BookingAssumption DEF NewContact, Contact, Alike
  <1>4. ASSUME NEW plain \in BOOLEAN, loose' = loose,
               contacts' = contacts \cup {NewContact(r, plain)},
               Fails(r), contact' = contact
        PROVE  BookingInv'
    <2>1. at'[r] = "done" /\ \A d \in Requests \ {r} : at'[d] = at[d]
      BY <1>1, <1>4 DEF Fails, Answers, BookingTypeOK
    <2>2. BookingTypeOK' BY <1>1, <1>3, <1>4 DEF BookingTypeOK, Fails, Answers
    <2>3. OnlyMoves(r) BY <1>1, <1>4, <2>1 DEF OnlyMoves
    <2>4. JobFits(r)' BY <1>1, <1>4, <2>1 DEF JobFits, Places
    <2>5. ~Holds(r)' /\ ~Looked(r)' /\ ~Creating(r)'
      BY <1>1, <1>4, <2>1 DEF Holds, Looked, Creating
    <2>6. RecordFits(r)' BY <1>1, <1>4, <2>5 DEF RecordFits, Person
    <2>7. SlotClear(r)' /\ MoveClear(r)' BY <2>5 DEF SlotClear, MoveClear
    <2> QED BY <1>1, <1>4, <2>2, <2>3, <2>4, <2>5, <2>6, <2>7, ContactAdded
  <1>5. ASSUME NEW plain \in BOOLEAN, loose' = loose,
               contacts' = contacts \cup {NewContact(r, plain)},
               contact' = [contact EXCEPT ![r] = NewContact(r, plain)],
               Moves(r, "write")
        PROVE  BookingInv'
    <2> DEFINE new == NewContact(r, plain)
    <2>0. /\ new \in Contact /\ new # None /\ Alike(new.person, Person(r))
          /\ contact' = [contact EXCEPT ![r] = new]
          /\ contacts' = contacts \cup {new}
      BY <1>3, <1>5
    <2> HIDE DEF new
    <2>1. /\ at'[r] = "write" /\ contact'[r] = new
          /\ \A d \in Requests \ {r} : at'[d] = at[d] /\ contact'[d] = contact[d]
      BY <1>1, <1>5, <2>0 DEF Moves, BookingTypeOK
    <2>2. BookingTypeOK' BY <1>1, <1>5, <2>0 DEF BookingTypeOK, Moves
    <2>3. OnlyMoves(r) BY <1>1, <1>5, <2>1 DEF OnlyMoves
    <2>4. JobFits(r)' BY <1>1, <2>0, <1>5, <2>1 DEF JobFits, Places
    <2>5. ~Holds(r)' /\ ~Creating(r)'
      BY <1>1, <1>5, <2>1 DEF Holds, Creating
    <2>6. RecordFits(r)' BY <1>1, <2>0, <2>1, <2>5 DEF RecordFits, Person
    <2>7. SlotClear(r)' BY <1>1 DEF SlotClear, Places, Planned, Overlaps, Met
    <2>8. MoveClear(r)' BY <2>5 DEF MoveClear
    <2> QED BY <1>1, <1>5, <2>2, <2>3, <2>4, <2>5, <2>6, <2>7, <2>8,
               ContactAdded
  <1> QED BY <1>2, <1>4, <1>5 DEF CreateContact

\* The next thing a tool call does, or its late thread, is the write.
Writes(r) == at[r] = "write" \/ (r \in loose /\ ~(crm /\ contact[r] = None))

\* What a write changes: the booking's own appointment, which was not there,
\* or the target's time and who placed it, or its status.
Written(r, e) ==
  \/ /\ job[r].kind = "book" /\ e = r /\ meeting[e] = None
     /\ meeting'[e].slot = job[r].slot /\ meeting'[e].contact = contact[r]
     /\ meeting'[e].planned /\ meeting'[e].placed = r
  \/ /\ job[r].kind \in {"reschedule", "cancel"} /\ e = job[r].target
     /\ e # r /\ meeting[e] # None
     /\ meeting'[e].contact = meeting[e].contact
     /\ IF job[r].kind = "reschedule"
        THEN /\ meeting'[e].slot = job[r].slot /\ meeting'[e].placed = r
             /\ meeting'[e].planned = meeting[e].planned
        ELSE /\ meeting'[e].slot = meeting[e].slot /\ ~meeting'[e].planned
             /\ meeting'[e].placed = meeting[e].placed

\* Effect writes one appointment, as Written says.
LEMMA EffectWrites ==
  ASSUME BookingInv, NEW r \in Requests, Writes(r), Effect(r)
  PROVE  /\ meeting' \in [Requests -> Meeting \cup {None}]
         /\ \E e \in Requests :
              /\ Written(r, e) /\ meeting'[e] # None
              /\ \A d \in Requests \ {e} : meeting'[d] = meeting[d]
  <1>1. /\ BookingTypeOK /\ JobFits(r) /\ RecordFits(r) /\ meeting[r] = None
        /\ job[r].kind \in {"book", "reschedule", "cancel"}
        /\ job[r] \in Job /\ contact[r] \in Contact \cup {None}
    <2>1. BookingTypeOK /\ JobFits(r) /\ RecordFits(r) BY DEF BookingInv
    <2>2. at[r] \in {"write", "done"} /\ meeting[r] = None /\ job[r] # None
      BY <2>1 DEF Writes, JobFits, RecordFits
    <2>3. job[r] \in Job /\ contact[r] \in Contact \cup {None}
      BY <2>1, <2>2 DEF BookingTypeOK
    <2>4. job[r].kind \in Kinds /\ job[r].kind # "check"
      BY <2>1, <2>3 DEF Writes, JobFits, Job
    <2> QED BY <2>1, <2>2, <2>3, <2>4 DEF Kinds
  <1>2. CASE job[r].kind = "book"
    <2> DEFINE new == [slot |-> job[r].slot, contact |-> contact[r],
                       planned |-> TRUE, placed |-> r]
    <2>1. meeting' = [meeting EXCEPT ![r] = new] BY <1>2 DEF Effect
    <2>2. job[r].slot \in Slots BY <1>1, <1>2 DEF JobFits, Writes
    <2>3. /\ new \in Meeting /\ new.slot = job[r].slot /\ new.contact = contact[r]
          /\ new.planned /\ new.placed = r /\ new # None
      <3>1. /\ new \in Meeting /\ new.slot = job[r].slot /\ new.contact = contact[r]
            /\ new.planned /\ new.placed = r
        BY <1>1, <2>2 DEF Meeting
      <3> HIDE DEF new
      <3>2. new # None BY <3>1, BookingAssumption
      <3> QED BY <3>1, <3>2
    <2> HIDE DEF new
    <2>4. /\ meeting' \in [Requests -> Meeting \cup {None}] /\ meeting'[r] = new
          /\ \A d \in Requests \ {r} : meeting'[d] = meeting[d]
      BY <1>1, <2>1, <2>3 DEF BookingTypeOK
    <2>5. Written(r, r) BY <1>1, <1>2, <2>3, <2>4 DEF Written
    <2> QED BY <2>3, <2>4, <2>5
  <1>3. CASE job[r].kind \in {"reschedule", "cancel"}
    <2> DEFINE e == job[r].target
               m == meeting[e]
               moved == [m EXCEPT !.slot = job[r].slot, !.placed = r]
               dropped == [m EXCEPT !.planned = FALSE]
    <2>1. Holds(r) BY <1>3 DEF Holds, Writes
    <2>2. e \in Requests /\ m # None /\ job[r] # None /\ e # r
      BY <1>1, <1>3, <2>1 DEF RecordFits, JobFits, Writes
    <2>3. m \in Meeting BY <1>1, <2>2 DEF BookingTypeOK
    <2>4. CASE job[r].kind = "reschedule"
      <3>1. meeting' = [meeting EXCEPT ![e] = moved]
        BY <1>1, <2>2, <2>3, <2>4 DEF Effect, BookingTypeOK, Meeting
      <3>2. job[r].slot \in Slots BY <1>1, <2>4 DEF JobFits, Writes
      <3>3. /\ moved \in Meeting /\ moved.slot = job[r].slot /\ moved.placed = r
            /\ moved.contact = m.contact /\ moved.planned = m.planned
            /\ moved # None
        BY <2>3, <3>2, BookingAssumption DEF Meeting
      <3> HIDE DEF moved, e
      <3>4. /\ meeting' \in [Requests -> Meeting \cup {None}]
            /\ meeting'[e] = moved
            /\ \A d \in Requests \ {e} : meeting'[d] = meeting[d]
        BY <1>1, <2>2, <3>1, <3>3 DEF BookingTypeOK
      <3>5. Written(r, e) BY <2>2, <2>4, <3>3, <3>4 DEF Written, e
      <3> QED BY <2>2, <3>3, <3>4, <3>5
    <2>5. CASE job[r].kind = "cancel"
      <3>1. meeting' = [meeting EXCEPT ![e] = dropped]
        BY <1>1, <2>2, <2>3, <2>5 DEF Effect, BookingTypeOK, Meeting
      <3>2. /\ dropped \in Meeting /\ dropped.slot = m.slot
            /\ dropped.placed = m.placed
            /\ dropped.contact = m.contact /\ ~dropped.planned
            /\ dropped # None
        BY <2>3, BookingAssumption DEF Meeting
      <3> HIDE DEF dropped, e
      <3>3. /\ meeting' \in [Requests -> Meeting \cup {None}]
            /\ meeting'[e] = dropped
            /\ \A d \in Requests \ {e} : meeting'[d] = meeting[d]
        BY <1>1, <2>2, <3>1, <3>2 DEF BookingTypeOK
      <3>4. Written(r, e) BY <2>2, <2>5, <3>2, <3>3 DEF Written, e
      <3> QED BY <2>2, <3>2, <3>3, <3>4
    <2> QED BY <1>3, <2>4, <2>5
  <1> QED BY <1>1, <1>2, <1>3

\* Two planned appointments after a write: a pair with the one written
\* overlaps only if the tool call that wrote it met the other's.
LEMMA WriteClear ==
  ASSUME BookingInv, NEW r \in Requests, Writes(r),
         NEW w \in Requests, Written(r, w),
         meeting' \in [Requests -> Meeting \cup {None}],
         \A d \in Requests \ {w} : meeting'[d] = meeting[d],
         together' = together
  PROVE  /\ NoDoubleBookingInTurn'
         /\ \A e \in Planned' \ {w} :
              e \in Planned /\ meeting'[e] = meeting[e]
         /\ w \in Planned' =>
              \/ meeting'[w].placed = r
              \/ job[r].kind = "cancel"
         /\ job[r].kind = "cancel" => w \notin Planned'
  <1>1. /\ JobFits(r) /\ RecordFits(r) /\ SlotClear(r) /\ NoDoubleBookingInTurn
        /\ Looked(r)
    BY DEF BookingInv, Writes, Looked
  <1>2. \A e \in Planned' \ {w} : e \in Planned /\ meeting'[e] = meeting[e]
    BY DEF Planned
  <1>3. job[r].kind = "cancel" => w \notin Planned'
    BY DEF Written, Planned
  <1>4. w \in Planned' /\ job[r].kind # "cancel" => meeting'[w].placed = r
    BY DEF Written
  <1>5. ASSUME w \in Planned', NEW e \in Planned' \ {w},
               Overlaps(meeting[e].slot, meeting'[w].slot)
        PROVE  Met(r, meeting[e].placed) /\ meeting'[w].placed = r
    <2>1. Places(r) /\ meeting'[w].slot = job[r].slot /\ meeting'[w].placed = r
      BY <1>3, <1>5 DEF Written, Places
    <2>2. e \in Planned /\ e # job[r].target
      <3>1. e \in Planned /\ e \in Requests BY <1>2, <1>5 DEF Planned
      <3>2. at[r] # "idle" BY <1>1 DEF Writes, JobFits
      <3>3. CASE job[r].kind = "book"
        BY <1>1, <3>1, <3>2, <3>3, BookingAssumption DEF JobFits
      <3>4. CASE job[r].kind = "reschedule"
        BY <1>5, <3>1, <3>4 DEF Written
      <3> QED BY <2>1, <3>1, <3>3, <3>4 DEF Places
    <2>3. Overlaps(job[r].slot, meeting[e].slot)
      BY <1>5, <2>1 DEF Overlaps
    <2> QED BY <1>1, <2>1, <2>2, <2>3 DEF SlotClear
  <1>6. NoDoubleBookingInTurn'
    <2> SUFFICES ASSUME NEW e \in Planned', NEW f \in Planned', e # f,
                        Overlaps(meeting'[e].slot, meeting'[f].slot)
                 PROVE  Met(meeting'[e].placed, meeting'[f].placed)
      BY DEF NoDoubleBookingInTurn, Met, Overlaps
    <2>1. CASE e # w /\ f # w
      BY <1>1, <1>2, <2>1 DEF NoDoubleBookingInTurn, Met
    <2>2. CASE f = w
      <3>1. meeting'[e] = meeting[e] BY <1>2, <2>2
      <3>2. Met(r, meeting[e].placed) /\ meeting'[w].placed = r
        BY <1>5, <2>2, <3>1
      <3> QED BY <2>2, <3>1, <3>2, MetBothWays
    <2>3. CASE e = w
      <3>1. meeting'[f] = meeting[f] BY <1>2, <2>3
      <3>2. Overlaps(meeting[f].slot, meeting'[w].slot)
        BY <2>3, <3>1 DEF Overlaps
      <3>3. Met(r, meeting[f].placed) /\ meeting'[w].placed = r
        BY <1>5, <2>3, <3>2
      <3> QED BY <2>3, <3>1, <3>3
    <2> QED BY <2>1, <2>2, <2>3
  <1> QED BY <1>2, <1>3, <1>4, <1>6

\* A write, in time or late, keeps everything that is known.
LEMMA EffectKeeps ==
  ASSUME BookingInv, NEW r \in Requests, Writes(r), Effect(r),
         NEW label \in {"answer", "done"}, at' = [at EXCEPT ![r] = label],
         loose' = loose \ {r},
         UNCHANGED <<crm, caller, offered, job, seen, contact, contacts, staff,
                     details, together>>
  PROVE  BookingInv'
  <1>1. /\ BookingTypeOK /\ JobFits(r) /\ RecordFits(r) BY DEF BookingInv
  <1>2. meeting' \in [Requests -> Meeting \cup {None}] BY EffectWrites
  <1>3. PICK w \in Requests :
          /\ Written(r, w) /\ meeting'[w] # None
          /\ \A d \in Requests \ {w} : meeting'[d] = meeting[d]
    BY EffectWrites
  <1>4. BookingTypeOK' BY <1>1, <1>2 DEF BookingTypeOK
  <1>5. /\ at'[r] = label /\ r \notin loose' /\ r \in InFlight
        /\ at[r] \in {"write", "done"}
        /\ \A d \in Requests \ {r} :
             at'[d] = at[d] /\ (d \in loose' <=> d \in loose)
    BY <1>1 DEF BookingTypeOK, Writes, InFlight, JobFits
  <1>6. OnlyMoves(r) BY <1>5 DEF OnlyMoves
  <1>7. AllMet' BY <1>1, <1>4, <1>6, AllMetKept DEF BookingInv
  <1>8. /\ NoDoubleBookingInTurn'
        /\ \A e \in Planned' \ {w} : e \in Planned /\ meeting'[e] = meeting[e]
        /\ w \in Planned' => meeting'[w].placed = r \/ job[r].kind = "cancel"
        /\ job[r].kind = "cancel" => w \notin Planned'
    BY <1>2, <1>3, WriteClear
  <1>9. OneContactInTurn' BY DEF BookingInv, OneContactInTurn
  <1>10. JobFits(r)' BY <1>1, <1>5 DEF JobFits, Places
  <1>11. ~Holds(r)' /\ ~Looked(r)' /\ ~Creating(r)'
    BY <1>5 DEF Holds, Looked, Creating
  <1>12. RecordFits(r)'
    <2>1. meeting'[r] # None /\ meeting'[r].contact # None =>
            Alike(meeting'[r].contact.person, Person(r))
      <3>1. meeting[r] = None BY <1>1, <1>5 DEF RecordFits, Writes, JobFits
      <3>2. CASE w = r BY <1>1, <1>3, <3>2 DEF Written, RecordFits
      <3>3. CASE w # r BY <1>3, <3>1, <3>3
      <3> QED BY <3>2, <3>3
    <2> QED BY <1>1, <1>5, <1>11, <2>1 DEF RecordFits, Person
  <1>13. SlotClear(r)' /\ ContactClear(r)' /\ MoveClear(r)'
    BY <1>11 DEF SlotClear, ContactClear, MoveClear
  <1>14. ASSUME NEW d \in Requests, d # r
         PROVE  /\ JobFits(d)' /\ RecordFits(d)' /\ SlotClear(d)'
                /\ ContactClear(d)' /\ MoveClear(d)'
    <2>1. /\ JobFits(d) /\ RecordFits(d) /\ SlotClear(d)
          /\ ContactClear(d) /\ MoveClear(d)
      BY DEF BookingInv
    <2>2. JobFits(d)' BY <1>5, <1>14, <2>1 DEF JobFits, Places
    <2>3. /\ Holds(d)' <=> Holds(d)
          /\ Looked(d)' <=> Looked(d)
          /\ Creating(d)' <=> Creating(d)
          /\ Places(d)' <=> Places(d)
      BY <1>5, <1>14 DEF Holds, Looked, Creating, Places
    <2>4. RecordFits(d)'
      <3>1. meeting'[d] # None =>
              /\ at'[d] \in {"answer", "done"} /\ d \notin loose'
              /\ meeting'[d].contact # None =>
                   Alike(meeting'[d].contact.person, Person(d))
        <4>1. CASE d = w
          <5>1. meeting[d] # None /\ meeting'[d].contact = meeting[d].contact
            BY <1>3, <1>14, <4>1 DEF Written
          <5> QED BY <1>5, <1>14, <2>1, <5>1 DEF RecordFits
        <4>2. CASE d # w BY <1>3, <1>5, <1>14, <2>1, <4>2 DEF RecordFits
        <4> QED BY <4>1, <4>2
      <3>2. Holds(d) =>
              /\ meeting'[job[d].target] # None /\ contact[d] # None
              /\ meeting'[job[d].target].contact = contact[d]
        <4> SUFFICES ASSUME Holds(d)
                     PROVE  /\ meeting'[job[d].target] # None
                            /\ contact[d] # None
                            /\ meeting'[job[d].target].contact = contact[d]
          OBVIOUS
        <4> DEFINE t == job[d].target
        <4>1. /\ meeting[t] # None /\ contact[d] # None
              /\ meeting[t].contact = contact[d]
          BY <2>1 DEF RecordFits
        <4>2. t \in Requests BY <2>1 DEF JobFits, Holds
        <4>3. CASE t = w
          BY <1>3, <4>1, <4>3 DEF Written
        <4>4. CASE t # w BY <1>3, <4>1, <4>2, <4>4
        <4> QED BY <4>1, <4>3, <4>4
      <3> QED BY <2>1, <2>3, <3>1, <3>2 DEF RecordFits, Person
    <2>5. SlotClear(d)'
      <3> SUFFICES ASSUME Looked(d), Places(d), NEW e \in Planned',
                          e # job[d].target, Overlaps(job[d].slot, meeting'[e].slot)
                   PROVE  Met(d, meeting'[e].placed)
        BY <2>3 DEF SlotClear, Overlaps, Met
      <3>1. CASE e # w
        BY <1>8, <2>1, <3>1 DEF SlotClear
      <3>2. CASE e = w
        <4>1. meeting'[e].placed = r BY <1>8, <3>2
        <4>2. d \in InFlight BY DEF Looked, InFlight
        <4>3. Met(d, r) BY <1>5, <1>14, <4>2 DEF BookingInv, AllMet
        <4> QED BY <4>1, <4>3
      <3> QED BY <3>1, <3>2
    <2>6. ContactClear(d)'
      BY <2>1, <2>3 DEF ContactClear, Finds, Person, Met
    <2>7. MoveClear(d)'
      <3> SUFFICES ASSUME Holds(d), job[d].kind = "reschedule"
                   PROVE  \/ meeting'[job[d].target].planned
                          \/ \E q \in Requests : /\ Met(d, q) /\ job[q] # None
                                                /\ job[q].kind = "cancel"
        BY <2>3 DEF MoveClear, Met
      <3> DEFINE t == job[d].target
      <3>1. t \in Requests /\ meeting[t] # None
        BY <2>1 DEF JobFits, RecordFits, Holds
      <3>2. CASE t # w \/ meeting'[t].planned = meeting[t].planned
        <4>1. meeting'[t].planned = meeting[t].planned BY <1>3, <3>1, <3>2
        <4> QED BY <2>1, <4>1 DEF MoveClear
      <3>3. CASE t = w /\ job[r].kind = "cancel"
        <4>1. d \in InFlight BY DEF Holds, InFlight
        <4>2. Met(d, r) BY <1>5, <1>14, <4>1 DEF BookingInv, AllMet
        <4>3. job[r] # None BY <1>1, <1>5 DEF JobFits
        <4> QED BY <3>3, <4>2, <4>3
      <3>4. t = w /\ job[r].kind # "cancel" =>
              meeting'[t].planned = meeting[t].planned
        BY <1>3, <3>1 DEF Written
      <3> QED BY <3>2, <3>3, <3>4
    <2> QED BY <2>2, <2>4, <2>5, <2>6, <2>7
  <1>15. \A d \in Requests :
           /\ JobFits(d)' /\ RecordFits(d)' /\ SlotClear(d)'
           /\ ContactClear(d)' /\ MoveClear(d)'
    BY <1>10, <1>12, <1>13, <1>14
  <1> QED BY <1>4, <1>7, <1>8, <1>9, <1>15 DEF BookingInv

\* The write lands, fails, or lands after the tool call gave up on it.
LEMMA WritesKeep ==
  ASSUME BookingInv, NEW r \in Requests,
         WriteLands(r) \/ WriteFails(r) \/ LateWrite(r)
  PROVE  BookingInv'
  <1>1. CASE WriteLands(r)
    <2>1. /\ Writes(r) /\ Effect(r) /\ at' = [at EXCEPT ![r] = "answer"]
          /\ UNCHANGED <<crm, caller, offered, job, seen, contact, contacts, staff,
                         details, together>>
      BY <1>1 DEF WriteLands, Writes, Moves
    <2>2. loose' = loose /\ r \notin loose
      BY <1>1 DEF WriteLands, BookingInv, JobFits
    <2>3. loose' = loose \ {r} BY <2>2
    <2> QED BY <2>1, <2>3, EffectKeeps
  <1>2. CASE WriteFails(r)
    BY <1>2, GivesUpKeeps DEF WriteFails, server
  <1>3. CASE LateWrite(r)
    <2>1. /\ BookingTypeOK /\ JobFits(r) /\ RecordFits(r) /\ SlotClear(r)
          /\ r \in loose /\ at[r] = "done" /\ loose' = loose \ {r}
          /\ at' = at /\ at = [at EXCEPT ![r] = "done"]
          /\ UNCHANGED <<crm, caller, offered, job, seen, contact, staff,
                         details, together>>
      BY <1>3 DEF LateWrite, BookingInv, BookingTypeOK, JobFits
    <2>2. CASE ~(crm /\ contact[r] = None)
      <3>1. Writes(r) /\ Effect(r) /\ contacts' = contacts
        BY <1>3, <2>1, <2>2 DEF LateWrite, Writes
      <3> QED BY <2>1, <3>1, EffectKeeps
    <2>3. CASE crm /\ contact[r] = None
      <3>1. PICK plain \in BOOLEAN :
              /\ Creating(r) /\ meeting' = meeting
              /\ contacts' = contacts \cup {NewContact(r, plain)}
        BY <1>3, <2>1, <2>3 DEF LateWrite, Creating
      <3>2. NewContact(r, plain) \in Contact
        <4>1. Person(r) \in Callers
          BY <2>1, BookingAssumption DEF Person, BookingTypeOK
        <4> QED BY <4>1 DEF NewContact, Contact
      <3>3. BookingTypeOK' BY <2>1, <3>1, <3>2 DEF BookingTypeOK
      <3>4. OnlyMoves(r) BY <2>1 DEF OnlyMoves, InFlight
      <3>5. JobFits(r)' BY <2>1 DEF JobFits, Places
      <3>6. ~Holds(r)' /\ ~Looked(r)' /\ ~Creating(r)'
        BY <2>1 DEF Holds, Looked, Creating
      <3>7. RecordFits(r)' BY <2>1, <3>1, <3>6 DEF RecordFits, Person
      <3>8. SlotClear(r)' /\ MoveClear(r)' BY <3>6 DEF SlotClear, MoveClear
      <3> QED BY <2>1, <3>1, <3>3, <3>4, <3>5, <3>6, <3>7, <3>8, ContactAdded
    <2> QED BY <2>2, <2>3
  <1> QED BY <1>1, <1>2, <1>3

-----------------------------------------------------------------------------
\* Nothing is known, asked or written at first.
LEMMA BookingInitHolds == BookingInit => BookingInv
  <1> SUFFICES ASSUME BookingInit PROVE BookingInv
    OBVIOUS
  <1>1. BookingTypeOK
    <2>1. PICK s \in Slots : offered = [c \in Calls |-> <<FindSlots({}, s)>>]
      BY DEF BookingInit
    <2>2. Offers(<<FindSlots({}, s)>>) BY FewFound, SingleOffer
    <2>3. /\ offered \in [Calls -> Seq(SUBSET Slots)]
          /\ \A c \in Calls : Offers(offered[c])
      BY <2>1, <2>2 DEF Offers
    <2> QED BY <2>3 DEF BookingInit, BookingTypeOK, Offers
  <1>2. ASSUME NEW r \in Requests
        PROVE  /\ JobFits(r) /\ RecordFits(r) /\ SlotClear(r)
               /\ ContactClear(r) /\ MoveClear(r)
    <2>1. /\ at[r] = "idle" /\ job[r] = None /\ contact[r] = None
          /\ meeting[r] = None /\ r \notin loose
      BY DEF BookingInit
    <2> QED BY <2>1 DEF JobFits, RecordFits, SlotClear, ContactClear, MoveClear,
            Holds, Looked, Creating
  <1>3. AllMet BY DEF AllMet, InFlight, BookingInit
  <1>4. NoDoubleBookingInTurn /\ OneContactInTurn
    BY DEF BookingInit, NoDoubleBookingInTurn, OneContactInTurn, Planned
  <1> QED BY <1>1, <1>2, <1>3, <1>4 DEF BookingInv

\* Every step of every tool call, and of the staff, keeps it.
LEMMA BookingStep == BookingInv /\ [BookingNext]_bookingVars => BookingInv'
  <1> SUFFICES ASSUME BookingInv, [BookingNext]_bookingVars PROVE BookingInv'
    OBVIOUS
  <1>1. CASE UNCHANGED bookingVars \/ StaffBooks BY <1>1, StaffKeeps
  <1>2. ASSUME NEW r \in Requests,
               \/ CheckAvailability(r) \/ BookAppointment(r)
               \/ RescheduleAppointment(r) \/ CancelAppointment(r)
               \/ QueryWindow(r) \/ QueryFails(r) \/ OfferSlots(r)
               \/ OfferAlternates(r) \/ LookAtSlot(r) \/ EnsureContact(r)
        PROVE  BookingInv'
    BY <1>2, ToolsKeep, WindowsKeep, LookKeeps, EnsureKeeps
  <1>3. ASSUME NEW r \in Requests,
               \/ CreateContact(r) \/ Identify(r) \/ FetchAppointment(r)
               \/ WriteLands(r) \/ WriteFails(r) \/ LateWrite(r) \/ Confirm(r)
        PROVE  BookingInv'
    BY <1>3, CreateKeeps, IdentifyKeeps, FetchKeeps, WritesKeep, ConfirmKeeps
  <1> QED BY <1>1, <1>2, <1>3 DEF BookingNext

\* So it holds throughout.
LEMMA BookingKept == BookingSpec => []BookingInv
  BY BookingInitHolds, BookingStep, PTL DEF BookingSpec

(***************************************************************************)
(* The types, and the bounds of the offers: the deque never holds more     *)
(* than its batches, and a batch never more than _MAX_SLOTS_RETURNED       *)
(* times, whatever is busy.                                                *)
(***************************************************************************)
THEOREM BookingTypeCorrect == BookingSpec => []BookingTypeOK
  <1>1. BookingInv => BookingTypeOK BY DEF BookingInv
  <1> QED BY <1>1, BookingKept, PTL

(***************************************************************************)
(* Overlapping appointments were placed by tool calls that ran into each   *)
(* other, for any durations, buffers, moves, cancellations, late writes.   *)
(***************************************************************************)
THEOREM NoDoubleBooking == BookingSpec => []NoDoubleBookingInTurn
  <1>1. BookingInv => NoDoubleBookingInTurn BY DEF BookingInv
  <1> QED BY <1>1, BookingKept, PTL

(***************************************************************************)
(* Two contacts found by one number were created by bookings that ran into *)
(* each other, those whose tool call had given up included, whatever names *)
(* the callers give and however their numbers end.                         *)
(***************************************************************************)
THEOREM OneContact == BookingSpec => []OneContactInTurn
  <1>1. BookingInv => OneContactInTurn BY DEF BookingInv
  <1> QED BY <1>1, BookingKept, PTL

-----------------------------------------------------------------------------
\* Appointments change by the writes of tool calls alone.
LEMMA OnlyWritesChange ==
  ASSUME BookingInv, [BookingNext]_bookingVars
  PROVE  \/ meeting' = meeting
         \/ /\ together' = together /\ job' = job
            /\ \E r \in Requests : Writes(r) /\ Effect(r)
  <1>1. CASE UNCHANGED bookingVars \/ StaffBooks
    BY <1>1 DEF bookingVars, StaffBooks
  <1>2. ASSUME NEW r \in Requests,
               \/ CheckAvailability(r) \/ BookAppointment(r)
               \/ RescheduleAppointment(r) \/ CancelAppointment(r)
        PROVE  meeting' = meeting
    BY <1>2 DEF CheckAvailability, BookAppointment, RescheduleAppointment,
       CancelAppointment, Asked, server
  <1>3. ASSUME NEW r \in Requests,
               \/ QueryWindow(r) \/ QueryFails(r) \/ OfferSlots(r)
               \/ OfferAlternates(r) \/ LookAtSlot(r) \/ EnsureContact(r)
               \/ CreateContact(r) \/ Identify(r) \/ FetchAppointment(r)
               \/ WriteFails(r) \/ Confirm(r)
        PROVE  meeting' = meeting
    BY <1>3
       DEF QueryWindow, QueryFails, OfferSlots, OfferAlternates, LookAtSlot,
       EnsureContact, CreateContact, Identify, FetchAppointment, WriteFails,
       Confirm, server
  <1>4. ASSUME NEW r \in Requests, WriteLands(r) \/ LateWrite(r)
        PROVE  \/ meeting' = meeting
               \/ Writes(r) /\ Effect(r) /\ together' = together /\ job' = job
    BY <1>4 DEF WriteLands, LateWrite, Writes
  <1> QED BY <1>1, <1>2, <1>3, <1>4 DEF BookingNext

(***************************************************************************)
(* What is moved or cancelled is the caller's own, or that of one whose    *)
(* name and last seven digits are the caller's, however long the tool call *)
(* waited between its look at the appointment and its write.               *)
(***************************************************************************)
THEOREM OwnAppointments == BookingSpec => OnlyOwnChanged
  <1> DEFINE Own ==
        \A e \in Requests :
          meeting[e] # None /\ meeting'[e] # meeting[e] =>
            \E r \in Requests : /\ job[r] # None
                               /\ job[r].target = e
                               /\ Alike(Person(r), Person(e))
  <1>1. BookingInv /\ [BookingNext]_bookingVars => [Own]_bookingVars
    <2> SUFFICES ASSUME BookingInv, [BookingNext]_bookingVars,
                        NEW e \in Requests, meeting[e] # None,
                        meeting'[e] # meeting[e]
                 PROVE  \E r \in Requests :
                          /\ job[r] # None
                          /\ job[r].target = e
                          /\ Alike(Person(r), Person(e))
      OBVIOUS
    <2>1. PICK r \in Requests : Writes(r) /\ Effect(r) BY OnlyWritesChange
    <2>2. PICK w \in Requests :
            /\ Written(r, w) /\ \A d \in Requests \ {w} : meeting'[d] = meeting[d]
      BY <2>1, EffectWrites
    <2>3. e = w BY <2>2
    <2>4. job[r].kind \in {"reschedule", "cancel"} /\ job[r].target = e
      BY <2>2, <2>3 DEF Written
    <2>5. Holds(r) BY <2>1, <2>4 DEF Holds, Writes
    <2>6. /\ contact[r] # None /\ meeting[e].contact = contact[r]
          /\ Alike(contact[r].person, Person(r))
      BY <2>4, <2>5 DEF BookingInv, RecordFits
    <2>7. Alike(meeting[e].contact.person, Person(e))
      BY <2>6 DEF BookingInv, RecordFits
    <2>8. job[r] # None BY <2>1 DEF BookingInv, JobFits, Writes
    <2>9. Alike(Person(r), Person(e)) BY <2>6, <2>7 DEF Alike
    <2> QED BY <2>4, <2>8, <2>9
  <1> QED BY <1>1, BookingKept, PTL DEF BookingSpec, OnlyOwnChanged

(***************************************************************************)
(* What is moved is planned, or was cancelled by a tool call that ran into *)
(* the one that moves it.                                                  *)
(***************************************************************************)
THEOREM MovesPlanned == BookingSpec => MovedWhilePlanned
  <1> DEFINE Moved ==
        \A e \in Requests :
          meeting[e] # None /\ meeting'[e].placed # meeting[e].placed =>
            \/ meeting[e].planned
            \/ \E q \in Requests : /\ {meeting'[e].placed, q} \in together
                                  /\ job[q].kind = "cancel"
  <1>1. BookingInv /\ [BookingNext]_bookingVars => [Moved]_bookingVars
    <2> SUFFICES ASSUME BookingInv, [BookingNext]_bookingVars,
                        NEW e \in Requests, meeting[e] # None,
                        meeting'[e].placed # meeting[e].placed
                 PROVE  \/ meeting[e].planned
                        \/ \E q \in Requests :
                             /\ {meeting'[e].placed, q} \in together
                             /\ job[q].kind = "cancel"
      OBVIOUS
    <2>1. PICK r \in Requests : Writes(r) /\ Effect(r) BY OnlyWritesChange
    <2>2. PICK w \in Requests :
            /\ Written(r, w) /\ \A d \in Requests \ {w} : meeting'[d] = meeting[d]
      BY <2>1, EffectWrites
    <2>3. e = w BY <2>2
    <2>4. job[r].kind = "reschedule" /\ job[r].target = e /\ meeting'[e].placed = r
      BY <2>2, <2>3 DEF Written
    <2>5. Holds(r) BY <2>1, <2>4 DEF Holds, Writes
    <2> QED BY <2>4, <2>5 DEF BookingInv, MoveClear, Met
  <1> QED BY <1>1, BookingKept, PTL DEF BookingSpec, MovedWhilePlanned
=============================================================================
