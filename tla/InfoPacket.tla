------------------------------ MODULE InfoPacket ------------------------------
(***************************************************************************)
(* The consent gate of the send_info_packet tool (receptionist/agent.py):  *)
(* a call with the caller's consent arms the address and asks for it to be *)
(* read back, a second call on the same address with                       *)
(* destination_confirmed sends the packet.                                 *)
(*                                                                         *)
(* The model chooses the arguments of every call, and may make several at  *)
(* once; the email service is external.  Calls that fail a check before    *)
(* the gate (channel, address, packet, configuration) change nothing and   *)
(* are left out.                                                           *)
(***************************************************************************)
EXTENDS Naturals, Sequences, FiniteSets

CONSTANTS
  Addresses,   \* the valid email addresses, normalized
  MaxCalls,    \* bound: the calls of the tool
  NoAddress

ASSUME InfoPacketAssumption ==
  /\ NoAddress \notin Addresses
  /\ MaxCalls \in Nat

VARIABLES
  armed,    \* _pending_packet_destination
  packets,    \* the calls so far: the address, consent and fate of each
  log,        \* metadata.info_packets: what was recorded, with the address
  readBacks,  \* history: how often each address was handed back for read-back
  collided    \* history: a confirmed call began while another was sending

packetVars == <<armed, packets, log, readBacks, collided>>

Fates == {"refused", "read_back", "sending", "sent", "failed"}

PacketInit ==
  /\ armed = NoAddress
  /\ packets = <<>>
  /\ log = <<>>
  /\ readBacks = [a \in Addresses |-> 0]
  /\ collided = FALSE

Sending == {i \in DOMAIN packets : packets[i].fate = "sending"}

Call(a, fate) ==
  /\ Len(packets) < MaxCalls
  /\ packets' = Append(packets, [to |-> a, fate |-> fate])

IsConfirming(a, confirmed) == confirmed /\ armed = a

\* Not confirming and without consent: ask for it.
AskConsent(a, confirmed) ==
  /\ ~IsConfirming(a, confirmed)
  /\ Call(a, "refused")
  /\ UNCHANGED <<armed, log, readBacks, collided>>

\* With consent the address, new or corrected, is armed and handed back.
ArmReadBack(a, confirmed) ==
  /\ ~IsConfirming(a, confirmed)
  /\ Call(a, "read_back")
  /\ armed' = a
  /\ readBacks' = [readBacks EXCEPT ![a] = @ + 1]
  /\ UNCHANGED <<log, collided>>

\* The confirmed call goes on to send_info_packet_email and awaits it.
SendConfirmed(a, confirmed) ==
  /\ IsConfirming(a, confirmed)
  /\ Call(a, "sending")
  /\ collided' = (collided \/ Sending # {})
  /\ UNCHANGED <<armed, log, readBacks>>

Settles(i, fate) ==
  /\ packets[i].fate = "sending"
  /\ packets' = [packets EXCEPT ![i].fate = fate]
  /\ log' = Append(log, [to |-> packets[i].to, fate |-> fate])
  /\ UNCHANGED <<readBacks, collided>>

\* Mutant: the address stays armed after the packet is sent.
StaysArmed == armed

AfterSent == NoAddress

PacketSent(i) == Settles(i, "sent") /\ armed' = AfterSent

\* The email failed after its retries; the address stays armed.
PacketFailed(i) == Settles(i, "failed") /\ UNCHANGED armed

-----------------------------------------------------------------------------
PacketNext ==
  \/ \E a \in Addresses, confirmed \in BOOLEAN :
        \/ AskConsent(a, confirmed)
        \/ ArmReadBack(a, confirmed)
        \/ SendConfirmed(a, confirmed)
  \/ \E i \in DOMAIN packets : PacketSent(i) \/ PacketFailed(i)

PacketSpec == PacketInit /\ [][PacketNext]_packetVars

-----------------------------------------------------------------------------
PacketTypeOK ==
  /\ armed \in Addresses \cup {NoAddress}
  /\ packets \in Seq([to : Addresses, fate : Fates])
  /\ log \in Seq([to : Addresses, fate : {"sent", "failed"}])
  /\ readBacks \in [Addresses -> Nat]
  /\ collided \in BOOLEAN

(***************************************************************************)
(* Nothing is sent, or tried to be sent, to an address the caller has not  *)
(* heard read back since the last packet went there: between two packets   *)
(* that were sent to one address lies a read-back of its own, as long as   *)
(* no two confirmed calls were under way together (the comment above       *)
(* clearing the gate: "a stale confirmation can't trigger an accidental    *)
(* duplicate send").  And the record of the call lists what became of      *)
(* each.                                                                   *)
(***************************************************************************)
SentTo(a) == {i \in DOMAIN packets : packets[i] = [to |-> a, fate |-> "sent"]}

TriedTo(a) == {i \in DOMAIN packets :
                 packets[i].to = a /\ packets[i].fate \in {"sending", "sent", "failed"}}

SendsReadBack ==
  \A a \in Addresses :
    /\ TriedTo(a) # {} => readBacks[a] > 0
    /\ ~collided => Cardinality(SentTo(a)) <= readBacks[a]
=============================================================================
