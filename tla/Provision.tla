------------------------------- MODULE Provision -------------------------------
(***************************************************************************)
(* netelip apply (receptionist/telephony/netelip.py): look for the plan's  *)
(* inbound trunk by its name, reuse or create it, then the same for the    *)
(* dispatch rule.  LiveKit keeps both and does not make names unique; a    *)
(* request may fail, or be carried out with its answer lost, and a run     *)
(* that fails is simply run again.                                         *)
(***************************************************************************)
EXTENDS FiniteSets

CONSTANTS
  Runs,   \* the times the command is run
  Plans,  \* the plans: business, names, number, addresses, user and agent
  NoUser  \* a plan without SIP credentials

\* The names and the room prefix are made from the business: the rule's from
\* it as it is, the others from it in lower case.
ASSUME ProvisionAssumption ==
  \A p, q \in Plans :
    p.dispatch_name = q.dispatch_name =>
      /\ p.business = q.business /\ p.room_prefix = q.room_prefix
      /\ p.trunk_name = q.trunk_name

VARIABLES
  trunks,   \* LiveKit's inbound trunks
  rules,    \* LiveKit's dispatch rules
  run,      \* each run: its step, its plan, the trunk and rule it settled on
  crossed   \* history: two runs were under way at once

provisionVars == <<trunks, rules, run, crossed>>

UnderWay(r) == run[r].at \in {"list_trunks", "create_trunk", "list_rules", "create_rule"}

ProvisionInit ==
  /\ trunks = {} /\ rules = {}
  /\ run \in [Runs -> {[at |-> "idle", plan |-> p, trunk |-> {}, rule |-> {}] : p \in Plans}]
  /\ crossed = FALSE

Goes(r, from, to) == run[r].at = from /\ run' = [run EXCEPT ![r].at = to]

Apply(r) ==
  /\ Goes(r, "idle", "list_trunks")
  /\ crossed' = (crossed \/ \E s \in Runs : UnderWay(s))
  /\ UNCHANGED <<trunks, rules>>

\* Mutant: a trunk with another number is not the one looked for.
NamedAndNumbered(p, t) == t.name = p.trunk_name /\ t.number = p.number

SameTrunk(p, t) == t.name = p.trunk_name

\* The password cannot be read back, and a trunk with credentials fits a
\* plan without.
TrunkFits(p, t) ==
  t.number = p.number /\ t.addresses = p.addresses /\ p.user \in {NoUser, t.user}

\* The first trunk of that name in LiveKit's list, in whatever order.
FindTrunk(r) ==
  LET p == run[r].plan
      named == {t \in trunks : SameTrunk(p, t)} IN
  /\ \/ named = {} /\ Goes(r, "list_trunks", "create_trunk")
     \/ \E t \in named :
          \/ /\ TrunkFits(p, t) /\ run[r].at = "list_trunks"
             /\ run' = [run EXCEPT ![r].at = "list_rules", ![r].trunk = {t}]
          \/ ~TrunkFits(p, t) /\ Goes(r, "list_trunks", "refused")
  /\ UNCHANGED <<trunks, rules, crossed>>

TrunkOf(r) ==
  [id |-> r, name |-> run[r].plan.trunk_name, number |-> run[r].plan.number,
   addresses |-> run[r].plan.addresses, user |-> run[r].plan.user]

CreateTrunk(r) ==
  /\ run[r].at = "create_trunk"
  /\ trunks' = trunks \cup {TrunkOf(r)}
  /\ run' = [run EXCEPT ![r].at = "list_rules", ![r].trunk = {TrunkOf(r)}]
  /\ UNCHANGED <<rules, crossed>>

TrunkAnswerLost(r) ==
  /\ Goes(r, "create_trunk", "failed")
  /\ trunks' = trunks \cup {TrunkOf(r)}
  /\ UNCHANGED <<rules, crossed>>

\* A rule of that name is reused when it takes calls from the trunk; its
\* room prefix, agent and metadata are not compared.
FindRule(r) ==
  LET named == {u \in rules : u.name = run[r].plan.dispatch_name} IN
  /\ \/ named = {} /\ Goes(r, "list_rules", "create_rule")
     \/ \E u \in named :
          \/ /\ u.trunk = run[r].trunk /\ run[r].at = "list_rules"
             /\ run' = [run EXCEPT ![r].at = "done", ![r].rule = {u}]
          \/ u.trunk # run[r].trunk /\ Goes(r, "list_rules", "refused")
  /\ UNCHANGED <<trunks, rules, crossed>>

RuleOf(r) ==
  [id |-> r, name |-> run[r].plan.dispatch_name, trunk |-> run[r].trunk,
   room_prefix |-> run[r].plan.room_prefix, agent_name |-> run[r].plan.agent_name,
   config |-> run[r].plan.business]

CreateRule(r) ==
  /\ run[r].at = "create_rule"
  /\ rules' = rules \cup {RuleOf(r)}
  /\ run' = [run EXCEPT ![r].at = "done", ![r].rule = {RuleOf(r)}]
  /\ UNCHANGED <<trunks, crossed>>

RuleAnswerLost(r) ==
  /\ Goes(r, "create_rule", "failed")
  /\ rules' = rules \cup {RuleOf(r)}
  /\ UNCHANGED <<trunks, crossed>>

LiveKitFails(r) ==
  /\ UnderWay(r)
  /\ run' = [run EXCEPT ![r].at = "failed"]
  /\ UNCHANGED <<trunks, rules, crossed>>

-----------------------------------------------------------------------------
ProvisionNext ==
  \E r \in Runs :
    \/ Apply(r) \/ FindTrunk(r) \/ CreateTrunk(r) \/ TrunkAnswerLost(r)
    \/ FindRule(r) \/ CreateRule(r) \/ RuleAnswerLost(r) \/ LiveKitFails(r)

ProvisionSpec == ProvisionInit /\ [][ProvisionNext]_provisionVars

-----------------------------------------------------------------------------
OneOf(S) == \A x, y \in S : x.name = y.name => x = y

\* Another plan for the same trunk has been applied that differs in a field.
Differed(r, field) ==
  \E s \in Runs : /\ run[s].at # "idle"
                   /\ run[s].plan.trunk_name = run[r].plan.trunk_name
                   /\ run[s].plan[field] # run[r].plan[field]

\* What a run that is done has left: the plan's trunk, and on that very trunk
\* a rule that starts the plan's rooms with the plan's business.  What is not
\* compared, the agent and credentials the plan has none of, is as planned
\* unless a plan that had it otherwise was applied.
Routed(r, p) ==
  \E t \in trunks, u \in rules :
    /\ run[r].trunk = {t} /\ run[r].rule = {u}
    /\ t.name = p.trunk_name /\ t.number = p.number
    /\ t.addresses = p.addresses
    /\ t.user = p.user \/ (p.user = NoUser /\ Differed(r, "user"))
    /\ u.name = p.dispatch_name /\ u.trunk = {t}
    /\ u.room_prefix = p.room_prefix /\ u.config = p.business
    /\ u.agent_name = p.agent_name \/ Differed(r, "agent_name")

(***************************************************************************)
(* Whatever runs did before and meanwhile, one that reports the number as  *)
(* provisioned has left it routed as planned, but for the agent and the    *)
(* credentials of another plan's trunk or rule it reused.  And the command *)
(* is idempotent ("La operacion es idempotente", netelip-livekit-setup.md):*)
(* run one after the other it repeats nothing, though runs break off or    *)
(* lose an answer on the way: a name has one trunk and one rule, and a     *)
(* plan is refused only for what another plan left under its name.         *)
(***************************************************************************)
ProvisionedOnce ==
  /\ \A r \in Runs : run[r].at = "done" => Routed(r, run[r].plan)
  /\ ~crossed =>
       /\ OneOf(trunks) /\ OneOf(rules)
       /\ \A r \in Runs : run[r].at = "refused" =>
            \E s \in Runs : /\ run[s].at # "idle"
                            /\ run[s].plan # run[r].plan
                            /\ run[s].plan.trunk_name = run[r].plan.trunk_name
=============================================================================
