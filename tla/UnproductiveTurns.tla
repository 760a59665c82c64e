--------------------------- MODULE UnproductiveTurns ---------------------------
(***************************************************************************)
(* The counter of unproductive turns of the Receptionist (receptionist/    *)
(* agent.py) and the ending it triggers: three handlers of session events, *)
(* the final transcript of what the caller said, a tool that ran, and an   *)
(* item added to the conversation.  Each handler runs to its end; the      *)
(* events come in any order the realtime service sends them.               *)
(***************************************************************************)
EXTENDS Naturals, Sequences, FiniteSets

CONSTANTS
  Threshold,   \* unproductive_turn_threshold
  MaxTurns,    \* bound: the final transcripts of a call
  Unscored     \* a turn whose first reply has not come, or was scored at nothing

\* What a reply of the agent is to the counter: it contains one of the
\* configured phrases, it does not, or it has no text.
Replies == {"unproductive", "productive", "empty"}

ASSUME UnproductiveAssumption ==
  /\ Threshold \in Nat \ {0}
  /\ MaxTurns \in Nat
  /\ Unscored \notin Replies

VARIABLES
  enabled,      \* unproductive_hangup_enabled
  count,        \* _consecutive_unproductive_turns
  hasInput,     \* _current_turn_has_user_input
  usedTool,     \* _current_turn_used_tool
  replied,      \* _current_turn_assistant_replied
  scheduled,    \* _unproductive_end_scheduled
  agentEnded,   \* record_agent_ended and the goodbye task follow
  turns         \* history: what each turn heard, the first reply and the tools

turnVars == <<enabled, count, hasInput, usedTool, replied, scheduled, agentEnded,
              turns>>

TurnInit ==
  /\ enabled \in BOOLEAN
  /\ count = 0
  /\ hasInput = FALSE
  /\ usedTool = FALSE
  /\ replied = FALSE
  /\ scheduled = FALSE
  /\ agentEnded = FALSE
  /\ turns = <<>>

\* Mutant: the tool of the last turn counts for this one too.
ToolRemembered == usedTool

ToolForgotten == FALSE

\* _on_user_input_transcribed, for a final transcript.
UserTranscript ==
  /\ Len(turns) < MaxTurns
  /\ hasInput' = TRUE
  /\ usedTool' = ToolForgotten
  /\ replied' = FALSE
  /\ turns' = Append(turns, [reply |-> Unscored, tool |-> FALSE])
  /\ UNCHANGED <<enabled, count, scheduled, agentEnded>>

Current(field, value) ==
  turns' = IF turns = <<>> THEN turns
           ELSE [turns EXCEPT ![Len(turns)] = [@ EXCEPT ![field] = value]]

\* _on_function_tools_executed.
ToolsExecuted ==
  /\ usedTool' = TRUE
  /\ count' = 0
  /\ Current("tool", TRUE)
  /\ UNCHANGED <<enabled, hasInput, replied, scheduled, agentEnded>>

Counted(reply) ==
  IF usedTool \/ reply = "productive" THEN 0
  ELSE IF reply = "unproductive" THEN count + 1
  ELSE count

ThresholdReached(reply) ==
  ~usedTool /\ reply = "unproductive" /\ count + 1 >= Threshold

(***************************************************************************)
(* _on_conversation_item_added, for an item of the assistant's: only the   *)
(* first after a transcript is scored, empty or not.  The job context is   *)
(* there or not; without it nothing is recorded and the flag stays set.    *)
(***************************************************************************)
AssistantItem(reply) ==
  /\ IF replied \/ ~hasInput
       THEN UNCHANGED turnVars
       ELSE /\ replied' = TRUE
            /\ Current("reply", reply)
            /\ count' = IF enabled THEN Counted(reply) ELSE count
            /\ IF enabled /\ ThresholdReached(reply) /\ ~scheduled
                 THEN scheduled' = TRUE /\ agentEnded' \in BOOLEAN
                 ELSE UNCHANGED <<scheduled, agentEnded>>
            /\ UNCHANGED <<enabled, hasInput, usedTool>>

-----------------------------------------------------------------------------
TurnNext ==
  \/ UserTranscript
  \/ ToolsExecuted
  \/ \E reply \in Replies : AssistantItem(reply)

TurnSpec == TurnInit /\ [][TurnNext]_turnVars

-----------------------------------------------------------------------------
TurnTypeOK ==
  /\ enabled \in BOOLEAN /\ hasInput \in BOOLEAN /\ usedTool \in BOOLEAN
  /\ replied \in BOOLEAN /\ scheduled \in BOOLEAN /\ agentEnded \in BOOLEAN
  /\ count \in Nat
  /\ turns \in Seq([reply : Replies \cup {Unscored}, tool : BOOLEAN])

(***************************************************************************)
(* The streak as the configuration describes it: the unproductive turns    *)
(* after the last turn in which the agent said something useful or ran a   *)
(* tool, whether the tool ran before or after the reply.  Turns without a  *)
(* reply, or whose first reply has no text, neither add to it nor break it.*)
(***************************************************************************)
Useful(t) == t.tool \/ t.reply = "productive"

Streak ==
  Cardinality({i \in DOMAIN turns :
     /\ turns[i].reply = "unproductive"
     /\ \A j \in i..Len(turns) : ~Useful(turns[j])})

(***************************************************************************)
(* The counter is the streak at every moment, in whatever order replies,   *)
(* tools and transcripts arrive; the ending is scheduled as soon as the    *)
(* streak has reached the threshold, and only where the feature is on.     *)
(***************************************************************************)
CountIsStreak ==
  /\ enabled => count = Streak
  /\ enabled /\ Streak >= Threshold => scheduled
  /\ scheduled => enabled
  /\ agentEnded => scheduled
=============================================================================
