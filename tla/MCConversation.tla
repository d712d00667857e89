--------------------------- MODULE MCConversation ---------------------------
(* Conversation with a handful of messages. *)
EXTENDS Conversation, TLC

CONSTANTS m1, m2, m3

MCNode == {m1, m2, m3}
MCVoices == {m3}
MCGlobals == {"clear"}
MCCommands == {"stop_node", "clear_branch", "clear_tree"}

\* stopped is history that no action and no property of this run reads.
MCView == <<treeVars, queueVars, slotVars, taskVars, clearing, convVars, boundVars>>
=============================================================================
