------------------------------- MODULE MCParts -------------------------------
(***************************************************************************)
(* The parts that share no variable with another: of a conversation the    *)
(* messages and info packets under way, the unproductive turns and the     *)
(* recoveries, and beside the calls the retention sweep and the            *)
(* provisioning of the number.  A behaviour here exercises one of them and *)
(* leaves the others as they begin.                                        *)
(***************************************************************************)
EXTENDS Dispatch, InfoPacket, UnproductiveTurns, RealtimeRecovery, Retention,
        Provision, TLC

\* Messages are interchangeable, and so are addresses and sweeps.
PartSymmetry ==
  Permutations(Messages) \cup Permutations(Addresses) \cup Permutations(Sweeps)

\* A file channel with a webhook, in either order; two of a kind; email only.
TestLayouts ==
  {<<"webhook", "file", "email">>, <<"file", "webhook">>,
   <<"webhook", "webhook">>, <<"file", "file">>, <<"email">>}

\* A plan, its number changed, its security changed, its agent changed, and
\* the same business in other letters: trunk names and room prefixes are
\* lower-cased, rule names and metadata are not.
TestPlans ==
  LET Plan(business, number, user, agent) ==
        [business |-> business, trunk_name |-> "netelip-clinic-inbound",
         dispatch_name |-> "Netelip " \o business, room_prefix |-> "netelip-clinic-",
         number |-> number, addresses |-> {"host"}, user |-> user,
         agent_name |-> agent]
  IN {Plan("clinic", "+571", NoUser, "receptionist"),
      Plan("clinic", "+572", NoUser, "receptionist"),
      Plan("clinic", "+571", "user", "receptionist"),
      Plan("clinic", "+571", NoUser, "concierge"),
      Plan("Clinic", "+571", NoUser, "receptionist")}

VARIABLE part   \* the part this behaviour exercises

PartInit ==
  /\ part \in {"messages", "packets", "turns", "recovery", "sweep", "netelip"}
  /\ DispatchInit /\ PacketInit /\ TurnInit /\ RecoveryInit
  /\ RetentionInit /\ ProvisionInit
  \* What the other parts begin with makes no difference.
  /\ part # "messages" => layout = <<"email">>
  /\ part # "turns" => ~enabled
  /\ part # "sweep" => days = 0
  /\ part # "netelip" => \A r \in Runs : run[r].plan = CHOOSE p \in Plans : TRUE

partVars == <<dispatchVars, packetVars, turnVars, recoveryVars, retentionVars,
              provisionVars, part>>

MessageStep ==
  /\ part = "messages" /\ DispatchNext
  /\ UNCHANGED <<packetVars, turnVars, recoveryVars, retentionVars, provisionVars, part>>

PacketStep ==
  /\ part = "packets" /\ PacketNext
  /\ UNCHANGED <<dispatchVars, turnVars, recoveryVars, retentionVars, provisionVars, part>>

TurnStep ==
  /\ part = "turns" /\ TurnNext
  /\ UNCHANGED <<dispatchVars, packetVars, recoveryVars, retentionVars, provisionVars, part>>

RecoveryStep ==
  /\ part = "recovery" /\ RecoveryNext
  /\ UNCHANGED <<dispatchVars, packetVars, turnVars, retentionVars, provisionVars, part>>

SweepStep ==
  /\ part = "sweep" /\ RetentionNext
  /\ UNCHANGED <<dispatchVars, packetVars, turnVars, recoveryVars, provisionVars, part>>

NetelipStep ==
  /\ part = "netelip" /\ ProvisionNext
  /\ UNCHANGED <<dispatchVars, packetVars, turnVars, recoveryVars, retentionVars, part>>

PartNext ==
  MessageStep \/ PacketStep \/ TurnStep \/ RecoveryStep \/ SweepStep \/ NetelipStep

PartSpec == PartInit /\ [][PartNext]_partVars
=============================================================================
