------------------------------- MODULE Booking -------------------------------
(***************************************************************************)
(* Appointments in receptionist/agent.py: check_availability,              *)
(* book_appointment, reschedule_appointment and cancel_appointment, over   *)
(* the calendar (receptionist/booking) or the CRM (receptionist/crm).      *)
(* Tool calls of one model reply run concurrently, calls run in processes  *)
(* of their own, and all share the calendar with the staff.                *)
(*                                                                         *)
(* Slots are the grid times that fit the business hours and the booking    *)
(* window; every appointment is Duration long.  A request posted to the    *)
(* server may take effect after the tool has given up on it: the calendar  *)
(* client's thread goes on when wait_for ends.                             *)
(***************************************************************************)
EXTENDS Integers, FiniteSets, Sequences

CONSTANTS
  Requests,     \* the tool calls
  Calls,
  CallOf,       \* the phone call each tool call belongs to
  Callers,      \* the people who may call
  NameOf,       \* the name each of them gives, as _normal_text leaves it
  TailOf,       \* the last seven digits of the number each of them gives
  Slots,
  Duration,
  BufferBefore, \* how far buffer_placement widens an appointment
  BufferAfter,
  MaxBatches,   \* maxlen of _offered_slot_batches
  MaxOffered,   \* _MAX_SLOTS_RETURNED
  StaffTimes,   \* bound: when the staff make appointments of their own
  None

Kinds == {"check", "book", "reschedule", "cancel"}
Job == [kind : Kinds, slot : Slots \cup {None}, target : Requests \cup {None}]

\* plain: the number was stored with no separator in its last seven digits.
Contact == [person : Callers, by : Requests, plain : BOOLEAN]
Meeting == [slot : Slots, contact : Contact \cup {None}, planned : BOOLEAN,
            placed : Requests]

ASSUME BookingAssumption ==
  /\ CallOf \in [Requests -> Calls]
  /\ Slots \subseteq Int /\ StaffTimes \subseteq Int
  /\ Duration \in Nat \ {0}
  /\ BufferBefore \in Nat /\ BufferAfter \in Nat
  /\ MaxBatches \in Nat \ {0} /\ MaxOffered \in Nat
  /\ IsFiniteSet(Slots)
  /\ None \notin Requests \cup Slots \cup Job \cup Contact \cup Meeting

VARIABLES
  crm,      \* the backend: the CRM, or the calendar
  caller,   \* who is on each call
  offered,  \* _offered_slot_batches of each call
  job,      \* what each tool call was asked for
  at,       \* where each tool call is
  seen,     \* the busy times a query has returned
  contact,  \* the CRM contact each tool call has found or created
  told,     \* what each tool call has answered
  contacts, \* the CRM's contacts
  meeting,  \* the appointment each booking has made
  staff,    \* the times the staff have taken
  loose,    \* writes still under way although their tool call has ended
  details,  \* appointment_details of each call: the tool call they tell of
  together  \* history: pairs of tool calls between whose look at the
            \* calendar and whose write another one's look fell

bookingVars == <<crm, caller, offered, job, at, seen, contact, told,
                 contacts, meeting, staff, loose, details, together>>
server == <<contacts, meeting, staff>>

Person(r) == caller[CallOf[r]]

-----------------------------------------------------------------------------
(***************************************************************************)
(* Times.                                                                  *)
(***************************************************************************)
Overlaps(s, t) == s < t + Duration /\ t < s + Duration

\* Whether a new appointment at s meets a busy one at t, widened.
OverlapsBuffered(s, t) ==
  s < t + Duration + BufferAfter /\ t - BufferBefore < s + Duration

Planned == {r \in Requests : meeting[r] # None /\ meeting[r].planned}

\* free_busy and busy_appointments: what is taken, but for the appointment
\* that is to be moved.
Busy(except) == staff \cup {meeting[r].slot : r \in Planned \ except}

Candidates(busy) == {s \in Slots : \A t \in busy : ~OverlapsBuffered(s, t)}

Distance(s, t) == IF s < t THEN t - s ELSE s - t

\* find_slots: the nearest candidates, the earlier of two as near.
Nearer(u, s, preferred) ==
  \/ Distance(u, preferred) < Distance(s, preferred)
  \/ Distance(u, preferred) = Distance(s, preferred) /\ u < s

FindSlots(busy, preferred) ==
  {s \in Candidates(busy) :
     Cardinality({u \in Candidates(busy) : Nearer(u, s, preferred)})
       < MaxOffered}

-----------------------------------------------------------------------------
(***************************************************************************)
(* The offers of a call.                                                   *)
(***************************************************************************)
Recorded(batches, batch) ==
  LET longer == Append(batches, batch)
  IN  IF Len(longer) > MaxBatches THEN Tail(longer) ELSE longer

Reset(batches, batch) == <<batch>>

WasOffered(c, s) == \E i \in 1..Len(offered[c]) : s \in offered[c][i]

\* Each call as it is after its first check_availability.
BookingInit ==
  /\ crm \in BOOLEAN
  /\ caller \in [Calls -> Callers]
  /\ \E s \in Slots : offered = [c \in Calls |-> <<FindSlots({}, s)>>]
  /\ job = [r \in Requests |-> None]
  /\ at = [r \in Requests |-> "idle"]
  /\ seen = [r \in Requests |-> {}]
  /\ contact = [r \in Requests |-> None]
  /\ told = [r \in Requests |-> None]
  /\ contacts = {}
  /\ meeting = [r \in Requests |-> None]
  /\ staff = {}
  /\ loose = {}
  /\ details = [c \in Calls |-> None]
  /\ together = {}

Moves(r, label) == at' = [at EXCEPT ![r] = label] /\ UNCHANGED told

Answers(r, words) ==
  /\ at' = [at EXCEPT ![r] = "done"]
  /\ told' = [told EXCEPT ![r] = words]

\* Every request to the server may fail or time out; the tools catch it.
Fails(r) == Answers(r, "trouble")

-----------------------------------------------------------------------------
(***************************************************************************)
(* The tools are called.  Calls refused for their arguments (no date in    *)
(* the window, no usable email address, not confirmed) change nothing and  *)
(* are left out.                                                           *)
(***************************************************************************)
Asked(r, kind, slot, target) ==
  /\ at[r] = "idle"
  /\ job' = [job EXCEPT ![r] = [kind |-> kind, slot |-> slot, target |-> target]]
  /\ UNCHANGED <<crm, caller, offered, seen, contact, server, loose, details,
                 together>>

CheckAvailability(r) ==
  \E s \in Slots : Asked(r, "check", s, None) /\ Moves(r, "query")

BookAppointment(r) ==
  \E s \in Slots :
    /\ Asked(r, "book", s, None)
    /\ IF WasOffered(CallOf[r], s) THEN Moves(r, "look") ELSE Answers(r, "check first")

RescheduleAppointment(r) ==
  \E s \in Slots, e \in Requests \ {r} :
    /\ crm
    /\ Asked(r, "reschedule", s, e)
    /\ IF WasOffered(CallOf[r], s) THEN Moves(r, "identify") ELSE Answers(r, "check first")

CancelAppointment(r) ==
  \E e \in Requests \ {r} :
    crm /\ Asked(r, "cancel", None, e) /\ Moves(r, "identify")

-----------------------------------------------------------------------------
(***************************************************************************)
(* Queries of a whole window: what is busy when the server looks, and the  *)
(* offers made from it when the answer is there.                           *)
(***************************************************************************)
QueryWindow(r) ==
  /\ at[r] \in {"query", "alternates"}
  /\ seen' = [seen EXCEPT ![r] = Busy({})]
  /\ Moves(r, IF at[r] = "query" THEN "offer" ELSE "reset")
  /\ UNCHANGED <<crm, caller, offered, job, contact, server, loose, details,
                 together>>

QueryFails(r) ==
  /\ at[r] = "query"
  /\ Fails(r)
  /\ UNCHANGED <<crm, caller, offered, job, seen, contact, server, loose,
                 details, together>>

OfferSlots(r) ==
  /\ at[r] = "offer"
  /\ LET slots == FindSlots(seen[r], job[r].slot)
     IN  IF slots = {}
         THEN Answers(r, "none") /\ UNCHANGED offered
         ELSE /\ Answers(r, "offered")
              /\ offered' = [offered EXCEPT ![CallOf[r]] = Recorded(@, slots)]
  /\ UNCHANGED <<crm, caller, job, seen, contact, server, loose, details,
                 together>>

\* The alternatives to a time just taken replace the offers; none are found
\* if the query fails.
OfferAlternates(r) ==
  /\ \/ /\ at[r] = "reset"
        /\ offered' = [offered EXCEPT
                         ![CallOf[r]] = Reset(@, FindSlots(seen[r], job[r].slot))]
     \/ /\ at[r] = "alternates"
        /\ offered' = [offered EXCEPT ![CallOf[r]] = Reset(@, {})]
  /\ Answers(r, "taken")
  /\ UNCHANGED <<crm, caller, job, seen, contact, server, loose, details,
                 together>>

-----------------------------------------------------------------------------
(***************************************************************************)
(* The look at the one slot, just before it is written.                    *)
(***************************************************************************)
\* Between the look at the calendar, or at the appointment, and the write.
InFlight ==
  {r \in Requests : \/ at[r] \in {"contact", "create", "write"}
                    \/ at[r] = "look" /\ job[r].kind = "reschedule"} \cup loose

Meets(r) == together' = together \cup {{r, q} : q \in InFlight \ {r}}

\* Mutant: what was free when it was offered is taken to be free.
AsOffered(r) == FALSE

\* The calendar is asked for the slot alone, the CRM for its surroundings.
Taken(r) ==
  \E t \in Busy({job[r].target}) :
    IF crm THEN OverlapsBuffered(job[r].slot, t) ELSE Overlaps(job[r].slot, t)

LookAtSlot(r) ==
  /\ at[r] = "look"
  /\ \/ /\ Taken(r) /\ job[r].kind = "book"
        /\ IF crm THEN Answers(r, "taken") ELSE Moves(r, "alternates")
        /\ UNCHANGED together
     \/ /\ ~Taken(r)
        /\ Moves(r, IF crm /\ job[r].kind = "book" THEN "contact" ELSE "write")
        /\ Meets(r)
     \/ Fails(r) /\ UNCHANGED together
  /\ UNCHANGED <<crm, caller, offered, job, seen, contact, server, loose,
                 details>>

-----------------------------------------------------------------------------
(***************************************************************************)
(* The CRM's contacts.  A number is stored as it was given and looked up   *)
(* by the server with its last seven digits in one run, so one stored with *)
(* separators among them is not found.                                     *)
(***************************************************************************)
\* Mutant: no contact is ever found.
NeverFound(person) == {}

\* _contacts_for_phone.
ContactsForPhone(person) ==
  {k \in contacts : k.plain /\ TailOf[k.person] = TailOf[person]}

ContactsOf(person) ==
  {k \in ContactsForPhone(person) : NameOf[k.person] = NameOf[person]}

\* ensure_contact: a name of one word is refused as well as a number that is
\* another contact's.
EnsureContact(r) ==
  /\ at[r] = "contact"
  /\ \/ \E k \in ContactsOf(Person(r)) :
          contact' = [contact EXCEPT ![r] = k] /\ Moves(r, "write")
     \/ /\ ContactsOf(Person(r)) = {}
        /\ \/ ContactsForPhone(Person(r)) = {} /\ Moves(r, "create")
           \/ Answers(r, "identity")
        /\ UNCHANGED contact
     \/ Fails(r) /\ UNCHANGED contact
  /\ UNCHANGED <<crm, caller, offered, job, seen, server, loose, details,
                 together>>

NewContact(r, plain) == [person |-> Person(r), by |-> r, plain |-> plain]

CreateContact(r) ==
  /\ at[r] = "create"
  /\ \/ \E plain \in BOOLEAN :
          /\ contacts' = contacts \cup {NewContact(r, plain)}
          /\ \/ /\ contact' = [contact EXCEPT ![r] = NewContact(r, plain)]
                /\ Moves(r, "write")
             \/ Fails(r) /\ UNCHANGED contact
          /\ UNCHANGED loose
     \/ /\ Fails(r)
        /\ loose' \in {loose, loose \cup {r}}
        /\ UNCHANGED <<contact, contacts>>
  /\ UNCHANGED <<crm, caller, offered, job, seen, meeting, staff, details,
                 together>>

\* find_contact: name and number must match one contact.
Identify(r) ==
  /\ at[r] = "identify"
  /\ LET found == ContactsOf(Person(r))
     IN  \/ /\ Cardinality(found) = 1
            /\ contact' = [contact EXCEPT ![r] = CHOOSE k \in found : TRUE]
            /\ Moves(r, "fetch")
         \/ found = {} /\ Answers(r, "no match") /\ UNCHANGED contact
         \/ Fails(r) /\ UNCHANGED contact
  /\ UNCHANGED <<crm, caller, offered, job, seen, server, loose, details,
                 together>>

\* Mutant: the appointment is looked up by its identifier alone.
ByIdentifier(r) == meeting[job[r].target] # None

\* appointment_for_contact, and only planned appointments change.
MayChange(r) ==
  LET m == meeting[job[r].target]
  IN  m # None /\ m.contact = contact[r]

\* Mutant: the status is not looked at.
AnyStatus(r) == TRUE

StillPlanned(r) == meeting[job[r].target].planned

FetchAppointment(r) ==
  /\ at[r] = "fetch"
  /\ \/ /\ MayChange(r) /\ StillPlanned(r)
        /\ Moves(r, IF job[r].kind = "cancel" THEN "write" ELSE "look")
        /\ Meets(r)
     \/ Fails(r) /\ UNCHANGED together
  /\ UNCHANGED <<crm, caller, offered, job, seen, contact, server, loose,
                 details>>

-----------------------------------------------------------------------------
(***************************************************************************)
(* The write: events.insert, POST Meeting or PUT Meeting.                  *)
(***************************************************************************)
Effect(r) ==
  LET j == job[r]
  IN  meeting' =
        CASE j.kind = "book" ->
               [meeting EXCEPT ![r] = [slot |-> j.slot, contact |-> contact[r],
                                       planned |-> TRUE, placed |-> r]]
          [] j.kind = "reschedule" ->
               [meeting EXCEPT ![j.target].slot = j.slot, ![j.target].placed = r]
          [] j.kind = "cancel" ->
               [meeting EXCEPT ![j.target].planned = FALSE]

WriteLands(r) ==
  /\ at[r] = "write"
  /\ Effect(r)
  /\ Moves(r, "answer")
  /\ UNCHANGED <<crm, caller, offered, job, seen, contact, contacts, staff,
                 loose, details, together>>

\* The write fails, or the tool gives up on it.
WriteFails(r) ==
  /\ at[r] = "write"
  /\ Fails(r)
  /\ loose' \in {loose, loose \cup {r}}
  /\ UNCHANGED <<crm, caller, offered, job, seen, contact, server, details,
                 together>>

\* What a tool call gave up on takes effect all the same: its contact, if
\* that is what it was creating, or its appointment.
LateWrite(r) ==
  /\ r \in loose
  /\ IF crm /\ contact[r] = None
     THEN /\ \E plain \in BOOLEAN :
                contacts' = contacts \cup {NewContact(r, plain)}
          /\ UNCHANGED meeting
     ELSE Effect(r) /\ UNCHANGED contacts
  /\ loose' = loose \ {r}
  /\ UNCHANGED <<crm, caller, offered, job, at, seen, contact, told, staff,
                 details, together>>

\* The answer brings the appointment to the lifecycle and the caller, or is
\* lost.
Confirm(r) ==
  /\ at[r] = "answer"
  /\ \/ Answers(r, "confirmed") /\ details' = [details EXCEPT ![CallOf[r]] = r]
     \/ Fails(r) /\ UNCHANGED details
  /\ UNCHANGED <<crm, caller, offered, job, seen, contact, server, loose,
                 together>>

StaffBooks ==
  /\ \E t \in StaffTimes \ staff : staff' = staff \cup {t}
  /\ UNCHANGED <<crm, caller, offered, job, at, seen, contact, told, contacts,
                 meeting, loose, details, together>>

-----------------------------------------------------------------------------
BookingNext ==
  \/ \E r \in Requests :
       \/ CheckAvailability(r) \/ BookAppointment(r)
       \/ RescheduleAppointment(r) \/ CancelAppointment(r)
       \/ QueryWindow(r) \/ QueryFails(r) \/ OfferSlots(r) \/ OfferAlternates(r)
       \/ LookAtSlot(r)
       \/ EnsureContact(r) \/ CreateContact(r)
       \/ Identify(r) \/ FetchAppointment(r)
       \/ WriteLands(r) \/ WriteFails(r) \/ LateWrite(r) \/ Confirm(r)
  \/ StaffBooks

BookingSpec == BookingInit /\ [][BookingNext]_bookingVars

-----------------------------------------------------------------------------
BookingTypeOK ==
  /\ crm \in BOOLEAN
  /\ caller \in [Calls -> Callers]
  /\ offered \in [Calls -> Seq(SUBSET Slots)]
  /\ \A c \in Calls : /\ Len(offered[c]) \in 1..MaxBatches
                      /\ \A i \in 1..Len(offered[c]) :
                           Cardinality(offered[c][i]) <= MaxOffered
  /\ job \in [Requests -> Job \cup {None}]
  /\ at \in [Requests -> {"idle", "query", "offer", "look", "alternates", "reset",
                          "identify", "fetch", "contact", "create", "write",
                          "answer", "done"}]
  /\ seen \in [Requests -> SUBSET (Slots \cup StaffTimes)]
  /\ contact \in [Requests -> Contact \cup {None}]
  /\ contacts \subseteq Contact
  /\ meeting \in [Requests -> Meeting \cup {None}]
  /\ staff \subseteq StaffTimes
  /\ loose \subseteq Requests
  /\ details \in [Calls -> Requests \cup {None}]

(***************************************************************************)
(* Two appointments the receptionist has made overlap only if the tool     *)
(* calls that placed them ran into each other between look and write: the  *)
(* last-second look catches every other race, those of moved appointments  *)
(* and of writes whose tool call gave up included.                         *)
(***************************************************************************)
NoDoubleBookingInTurn ==
  \A e, f \in Planned :
    e # f /\ Overlaps(meeting[e].slot, meeting[f].slot) =>
      {meeting[e].placed, meeting[f].placed} \in together

(***************************************************************************)
(* Two CRM contacts have numbers that end alike, so that their owners are  *)
(* refused by find_contact or taken for each other's, only if two bookings *)
(* ran into each other or one of the numbers was stored with separators:   *)
(* ensure_contact turns away a name that the number does not belong to.    *)
(***************************************************************************)
OneContactInTurn ==
  \A k, l \in contacts :
    /\ k # l /\ k.plain /\ l.plain
    /\ TailOf[k.person] = TailOf[l.person]
    => {k.by, l.by} \in together

\* People the tools cannot tell apart: numbers are compared by their ends.
Alike(p, q) == NameOf[p] = NameOf[q] /\ TailOf[p] = TailOf[q]

(***************************************************************************)
(* An appointment is moved or cancelled only for a caller whose name and   *)
(* last seven digits are those of the one it was made for ("Never reveal   *)
(* ... unless both match one CRM contact"), across the awaits between      *)
(* find_contact, the look at the appointment and the write.                *)
(***************************************************************************)
OnlyOwnChanged ==
  [][\A e \in Requests :
       meeting[e] # None /\ meeting'[e] # meeting[e] =>
         \E r \in Requests : /\ job[r] # None
                            /\ job[r].target = e
                            /\ Alike(Person(r), Person(e))]_bookingVars

(***************************************************************************)
(* Only planned appointments are moved, unless a cancellation and the move *)
(* ran into each other: a caller is not told the new time of an            *)
(* appointment that had been cancelled before.                             *)
(***************************************************************************)
MovedWhilePlanned ==
  [][\A e \in Requests :
       meeting[e] # None /\ meeting'[e].placed # meeting[e].placed =>
         \/ meeting[e].planned
         \/ \E q \in Requests : /\ {meeting'[e].placed, q} \in together
                               /\ job[q].kind = "cancel"]_bookingVars
=============================================================================
