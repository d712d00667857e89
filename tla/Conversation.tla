----------------------------- MODULE Conversation -----------------------------
(***************************************************************************)
(* The conversation around the tree of TreeQueue: the handler calls that   *)
(* add messages to it (messaging/handler.py), voice notes waiting for      *)
(* their transcription (messaging/platforms), the commands that stop and   *)
(* clear it (messaging/commands.py), the mapping from messages to trees    *)
(* (trees/repository.py, trees/queue_manager.py), what is kept of it in    *)
(* the store (messaging/session.py) and a restart from that                *)
(* (api/app.py).                                                           *)
(*                                                                         *)
(* The handler calls of different messages interleave at every await, as   *)
(* discord.py runs each event in a task of its own.  nodes is now the      *)
(* _nodes of the tree object, which outlives its removal from the manager: *)
(* a run that took hold of it goes on with it.  A message whose target is  *)
(* in no tree opens another conversation and is left out.                  *)
(***************************************************************************)
EXTENDS TreeQueue

CONSTANTS Voices,       \* the messages that are voice notes
          Globals,      \* the global commands that are issued: "stop", "clear"
          MaxCommands,  \* bound on the commands that stop or clear
          MaxRestarts   \* bound on restarts

ASSUME ConversationAssumption ==
    /\ Voices \subseteq Node
    /\ Globals \subseteq {"stop", "clear"}
    /\ MaxCommands \in Nat /\ MaxRestarts \in Nat

VARIABLES
    mapped,      \* the message ids in TreeRepository._node_to_tree; Root is one of them iff
                 \* the manager has the tree
    statusIds,   \* the messages whose status message is registered too, there and in the store
    adopted,     \* the runs whose _process_node_impl found the tree
    call,        \* where the handling of each message is
    found,       \* the message it replies to, while it is handled
    pending,     \* the voice notes in _pending_voice
    revoked,     \* the voice notes whose /clear was answered "Voice note cancelled."
    global,      \* what the global command under way waits for
    told,        \* the nodes whose cancellation it has still to show and save
    store,       \* SessionStore: the tree, its sessions and the mapping
    cleared,     \* the messages that were taken out of the tree by a /clear
    late,        \* a message joined while a global /clear was at work
    commands, restarts   \* counters

convVars  == <<mapped, statusIds, adopted, call, found, pending, revoked, global, told, store>>
boundVars == <<cleared, late, commands, restarts>>
allVars   == <<vars, convVars, boundVars>>

CallState   == {"none", "transcribing", "sending", "over"}
GlobalState == {"none", "stop", "clear", "deleting"}
StoreState  == [tree : [Node -> MessageState \cup {"absent"}],
                session : SUBSET Node, map : SUBSET Node]

ConversationTypeOK ==
    /\ TypeOK
    /\ mapped \subseteq Node /\ adopted \subseteq Node
    /\ statusIds \in [manager : SUBSET Node, store : SUBSET Node]
    /\ call \in [Node -> CallState] /\ found \in [Node -> Node \cup {NoNode}]
    /\ pending \subseteq Voices /\ revoked \subseteq Voices
    /\ global \in GlobalState /\ told \subseteq Node
    /\ store \in StoreState
    /\ cleared \subseteq Node /\ late \in BOOLEAN
    /\ commands \in 0..MaxCommands /\ restarts \in 0..MaxRestarts

EmptyStore == [tree |-> [n \in Node |-> "absent"], session |-> {}, map |-> {}]

ConversationInit ==
    /\ Init
    /\ mapped = {} /\ adopted = {} /\ statusIds = [manager |-> {}, store |-> {}]
    /\ call = [n \in Node |-> "none"] /\ found = [n \in Node |-> NoNode]
    /\ pending = {} /\ revoked = {}
    /\ global = "none" /\ told = {}
    /\ store = EmptyStore
    /\ cleared = {} /\ late = FALSE
    /\ commands = 0 /\ restarts = 0

------------------------------------------------------------------------------
(* The store.                                                              *)

InStore == {n \in Node : store.tree[n] # "absent"}

\* save_tree(tree.to_dict()): the tree as this step leaves it, and its mappings.
Save(map) ==
    store' = [tree    |-> [n \in Node |-> IF n \in nodes' THEN state'[n] ELSE "absent"],
              session |-> session' \cap nodes',
              map     |-> map \cup nodes']

SaveIf(changed) == IF changed THEN Save(store.map) ELSE UNCHANGED store

------------------------------------------------------------------------------
(* A message on its way into the tree.                                     *)

\* What m may reply to: nothing, for the message that opens the conversation.
Targets(m) == IF m = Root THEN {NoNode} ELSE mapped

Begun(m, c) ==
    /\ call[m] = "none"
    /\ call' = [call EXCEPT ![m] = c]
    /\ \E p \in Targets(m) : found' = [found EXCEPT ![m] = p]

Over(m) == /\ call' = [call EXCEPT ![m] = "over"]
           /\ found' = [found EXCEPT ![m] = NoNode]

Known(p) == p \in mapped \cup {NoNode}

\* A text message: its target is looked up, and the status message is sent.
Receive(m) ==
    /\ m \notin Voices
    /\ Begun(m, "sending")
    /\ UNCHANGED <<vars, mapped, statusIds, adopted, pending, revoked, global, told, store, boundVars>>

\* A voice note, registered as pending before it is transcribed in a thread.
Record(m) ==
    /\ m \in Voices
    /\ Begun(m, "transcribing")
    /\ pending' = pending \cup {m}
    /\ UNCHANGED <<vars, mapped, statusIds, adopted, revoked, global, told, store, boundVars>>

\* Mutant: the transcription is handled whether or not it is still wanted.
TranscribedUnchecked(m) ==
    /\ call[m] = "transcribing"
    /\ pending' = pending \ {m}
    /\ IF Known(found[m])
       THEN call' = [call EXCEPT ![m] = "sending"] /\ UNCHANGED found
       ELSE Over(m)
    /\ UNCHANGED <<vars, mapped, statusIds, adopted, revoked, global, told, store, boundVars>>

\* The transcription returns: the note is taken if it is still pending, and only
\* now its target is looked up (with its target gone it opens another conversation).
Transcribed(m) ==
    /\ call[m] = "transcribing"
    /\ pending' = pending \ {m}
    /\ IF m \in pending /\ Known(found[m])
       THEN call' = [call EXCEPT ![m] = "sending"] /\ UNCHANGED found
       ELSE Over(m)
    /\ UNCHANGED <<vars, mapped, statusIds, adopted, revoked, global, told, store, boundVars>>

\* The transcription or the status message fails.
CallFails(m) ==
    /\ call[m] \in {"transcribing", "sending"}
    /\ Over(m)
    /\ UNCHANGED <<vars, mapped, statusIds, adopted, pending, revoked, global, told, store,
                   boundVars>>

\* create_tree or add_to_tree, then the message and its status message are registered,
\* save_tree and enqueue.
Enter(m) ==
    /\ IF found[m] = NoNode THEN NewConversation ELSE Reply(m, found[m])
    /\ mapped' = mapped \cup {m}
    /\ statusIds' = [manager |-> statusIds.manager \cup {m}, store |-> statusIds.store \cup {m}]
    /\ Save(store.map)
    /\ late' = (late \/ global \in {"clear", "deleting"})

\* Mutant: the parent found before the await is trusted after it.
JoinUnchecked(m) ==
    /\ call[m] = "sending"
    /\ Over(m)
    /\ Enter(m)
    /\ UNCHANGED <<adopted, pending, revoked, global, told, cleared, commands, restarts>>

\* The status message is out.  add_to_tree raises when the parent has left the
\* tree meanwhile.
Join(m) ==
    /\ call[m] = "sending"
    /\ Over(m)
    /\ IF Known(found[m])
       THEN Enter(m)
       ELSE UNCHANGED <<vars, mapped, statusIds, store, late>>
    /\ UNCHANGED <<adopted, pending, revoked, global, told, cleared, commands, restarts>>

------------------------------------------------------------------------------
(* The run of a node, which works on the tree it found when it started.    *)

runFrame == <<mapped, statusIds, call, found, pending, revoked, global, told, boundVars>>

\* mark_node_error asks the manager for the tree once more.
FailNode(n) == IF n \in adopted \cap mapped THEN MarkNodeError(n) ELSE state

Begin(n) ==
    /\ task[n] = "created" /\ n \notin cancelReq /\ state[n] # "error"
    /\ task' = [task EXCEPT ![n] = "running"]
    /\ adopted' = adopted \cup ({n} \cap mapped)
    /\ state' = IF n \in mapped THEN UpdateState(n, "in_progress") ELSE state
    /\ UNCHANGED <<nodes, parent, session, queueVars, slotVars, cancelReq, clearing,
                   stopped, store, runFrame>>

\* No session is to be had: the node fails, its replies go on waiting.
Refused(n) ==
    /\ Running(n) /\ n \notin session
    /\ state' = IF n \in adopted THEN UpdateState(n, "error") ELSE state
    /\ task' = [task EXCEPT ![n] = "cleanup"]
    /\ UNCHANGED <<nodes, parent, session, queueVars, slotVars, cancelReq, clearing,
                   stopped, adopted, store, runFrame>>

\* The CLI's session id is kept in the node, if the tree still has it, and saved.
SessionSeen(n) ==
    /\ Running(n) /\ n \notin session
    /\ session' = session \cup {n}
    /\ state' = IF n \in adopted THEN UpdateState(n, "in_progress") ELSE state
    /\ UNCHANGED <<nodes, parent, queueVars, slotVars, taskVars, clearing, stopped>>
    /\ SaveIf(n \in adopted)
    /\ UNCHANGED <<adopted, runFrame>>

ErrorShown(n) ==
    /\ Running(n)
    /\ state' = FailNode(n)
    /\ UNCHANGED <<nodes, parent, session, queueVars, slotVars, taskVars, clearing,
                   stopped, adopted, store, runFrame>>

\* Mutant: the completion is not saved.
EndsUnsaved(n, code) ==
    /\ Running(n)
    /\ state' = LET failed == IF code = 0 THEN state ELSE FailNode(n)
                IN  IF n \in session \cap nodes \cap adopted
                    THEN [failed EXCEPT ![n] = "completed"] ELSE failed
    /\ task' = [task EXCEPT ![n] = "cleanup"]
    /\ UNCHANGED <<nodes, parent, session, queueVars, slotVars, cancelReq, clearing,
                   stopped, store, adopted, runFrame>>

\* The process exits: "complete", after an error when the code is not 0.
Ends(n, code) ==
    /\ Running(n)
    /\ state' = LET failed == IF code = 0 THEN state ELSE FailNode(n)
                IN  IF n \in session \cap nodes \cap adopted
                    THEN [failed EXCEPT ![n] = "completed"] ELSE failed
    /\ task' = [task EXCEPT ![n] = "cleanup"]
    /\ UNCHANGED <<nodes, parent, session, queueVars, slotVars, cancelReq, clearing, stopped>>
    /\ SaveIf(n \in session \cap adopted)
    /\ UNCHANGED <<adopted, runFrame>>

Raises(n) ==
    /\ Running(n)
    /\ state' = FailNode(n)
    /\ task' = [task EXCEPT ![n] = "cleanup"]
    /\ UNCHANGED <<nodes, parent, session, queueVars, slotVars, cancelReq, clearing,
                   stopped, adopted, store, runFrame>>

Interrupted(n) ==
    /\ task[n] = "running" /\ n \in cancelReq
    /\ state' = IF n \in adopted THEN UpdateState(n, "error") ELSE state
    /\ task' = [task EXCEPT ![n] = "cleanup"]
    /\ cancelReq' = cancelReq \ {n}
    /\ UNCHANGED <<nodes, parent, session, queueVars, slotVars, clearing, stopped,
                   adopted, store, runFrame>>

\* The steps that are the tree's alone.
TreeOnly(n) ==
    /\ NeverRuns(n) \/ Skip(n) \/ Finish(n)
    /\ UNCHANGED <<adopted, store, runFrame>>

------------------------------------------------------------------------------
(* The commands in reply to a message.                                     *)

NewCommand == commands < MaxCommands /\ commands' = commands + 1

cmdFrame == <<statusIds, adopted, call, found, pending, revoked, global, told, late, restarts>>

\* "/stop": the node is cancelled, and its tree saved in the same step.
StopReply(n) ==
    /\ n \in mapped /\ NewCommand
    /\ StopNode(n)
    /\ Save(store.map)
    /\ UNCHANGED <<mapped, cleared, cmdFrame>>

\* "/clear" of a message that is in no tree: a pending voice note is cancelled.
CancelVoice(m) ==
    /\ m \in pending
    /\ pending' = pending \ {m}
    /\ revoked' = revoked \cup {m}
    /\ UNCHANGED <<vars, mapped, statusIds, adopted, call, found, global, told, store, boundVars>>

\* "/clear" of a message of the tree, up to the deletion of the messages.
ClearReply(b) ==
    /\ b \in mapped /\ NewCommand
    /\ ClearBranch(b)
    /\ SaveIf(\E n \in get_descendants(b) : state[n] \notin Terminal)
    /\ UNCHANGED <<mapped, cleared, cmdFrame>>

\* Mutant: the nodes leave the tree and keep their mapping.
RemoveClearedKeepsMapping(b) ==
    /\ b \in clearing /\ b # Root
    /\ RemoveBranch(b)
    /\ UNCHANGED <<mapped, commands, cmdFrame>>
    /\ IF b \in mapped THEN Save(store.map) /\ cleared' = cleared \cup get_descendants(b)
                       ELSE UNCHANGED <<store, cleared>>

\* After it: the branch leaves the tree, the mapping and the store.  Only the ids of its
\* messages leave the mapping; those of their status messages stay, in memory and in the
\* store, and lead to no message any more (find_node_by_status_message).
RemoveCleared(b) ==
    /\ b \in clearing /\ b # Root
    /\ IF b \in mapped
       THEN /\ RemoveBranch(b)
            /\ mapped' = mapped \ get_descendants(b)
            /\ Save(store.map \ get_descendants(b))
            /\ cleared' = cleared \cup get_descendants(b)
       ELSE /\ clearing' = clearing \ {b}
            /\ UNCHANGED <<treeVars, queueVars, slotVars, taskVars, stopped, mapped, store,
                           cleared>>
    /\ UNCHANGED <<commands, cmdFrame>>

\* Mutant: the tree is forgotten without a look at what joined it meanwhile.
ForgetWithoutCancel ==
    /\ Root \in clearing
    /\ clearing' = clearing \ {Root}
    /\ UNCHANGED <<treeVars, queueVars, slotVars, taskVars, stopped, commands, cmdFrame>>
    /\ IF Root \in mapped
       THEN /\ mapped' = {}
            /\ store' = [EmptyStore EXCEPT !.map = store.map \ nodes]
            /\ cleared' = cleared \cup nodes
       ELSE UNCHANGED <<mapped, store, cleared>>

\* The branch was the whole tree: what joined it meanwhile is cancelled, and the
\* manager and the store forget it.
ForgetCleared ==
    /\ Root \in clearing
    /\ clearing' = clearing \ {Root}
    /\ IF Root \in mapped
       THEN /\ CancelTree
            /\ mapped' = {}
            /\ store' = [EmptyStore EXCEPT !.map = store.map \ nodes]
            /\ cleared' = cleared \cup nodes
            /\ UNCHANGED nodes
       ELSE UNCHANGED <<treeVars, queueVars, slotVars, taskVars, stopped, mapped, store,
                        cleared>>
    /\ UNCHANGED <<commands, cmdFrame>>

------------------------------------------------------------------------------
(* The global commands and the restart.                                    *)

globalFrame == <<adopted, call, found, pending, revoked, restarts>>

\* stop_all_tasks: cancel_all, and then the CLI sessions are stopped.
GlobalCancel ==
    /\ global = "none" /\ NewCommand
    /\ global' \in Globals
    /\ IF Root \in mapped
       THEN CancelTree /\ told' = CancelledByTree /\ UNCHANGED <<nodes, clearing>>
       ELSE UNCHANGED <<vars, told>>
    /\ UNCHANGED <<mapped, statusIds, store, cleared, late, globalFrame>>

\* Its end: the cancelled nodes are shown and saved; /clear goes on to delete.
GlobalStopped ==
    /\ global \in {"stop", "clear"}
    /\ global' = IF global = "stop" THEN "none" ELSE "deleting"
    /\ told' = {}
    /\ UNCHANGED <<vars, mapped, statusIds, cleared, late, commands, globalFrame>>
    /\ SaveIf(told \cap mapped # {})

\* The messages are deleted: clear_all, and a new manager.
GlobalCleared ==
    /\ global = "deleting"
    /\ global' = "none"
    /\ store' = EmptyStore
    /\ mapped' = {} /\ statusIds' = [manager |-> {}, store |-> {}]
    /\ cleared' = cleared \cup mapped
    /\ UNCHANGED <<vars, told, late, commands, globalFrame>>

\* Mutant: a node that was running comes back as it was.
RestoredAsSaved(n) == IF store.tree[n] = "absent" THEN state[n] ELSE store.tree[n]

\* cleanup_stale_nodes: what was not over is lost.
Restored(n) == IF store.tree[n] \in {"pending", "in_progress"} THEN "error"
               ELSE IF store.tree[n] = "absent" THEN state[n] ELSE store.tree[n]

\* The process ends and is started again.  A crash that loses the last changes of
\* the store is a restart at the time of its last write.
Restart ==
    /\ restarts < MaxRestarts
    /\ restarts' = restarts + 1
    /\ nodes' = InStore
    /\ state' = [n \in Node |-> Restored(n)]
    /\ session' = store.session
    /\ mapped' = IF InStore = {} THEN {} ELSE store.map
    /\ statusIds' = [statusIds EXCEPT !.manager = IF InStore = {} THEN {} ELSE statusIds.store]
    /\ queue' = {} /\ isProcessing' = FALSE /\ currentNode' = NoNode /\ currentTask' = NoNode
    /\ task' = [n \in Node |-> "none"] /\ cancelReq' = {} /\ clearing' = {}
    /\ call' = [m \in Node |-> IF call[m] \in {"transcribing", "sending"}
                               THEN "over" ELSE call[m]]
    /\ found' = [m \in Node |-> NoNode]
    /\ adopted' = {} /\ pending' = {} /\ global' = "none" /\ told' = {}
    /\ IF \E n \in InStore : store.tree[n] \notin Terminal
       THEN Save(mapped') ELSE UNCHANGED store
    /\ UNCHANGED <<parent, ticket, stopped, revoked, cleared, late, commands>>

------------------------------------------------------------------------------
RunStep(n) ==
    \/ Begin(n) \/ Refused(n) \/ SessionSeen(n) \/ ErrorShown(n)
    \/ \E code \in {0, 1} : Ends(n, code)
    \/ Raises(n) \/ Interrupted(n) \/ TreeOnly(n)

ConversationNext ==
    \/ \E m \in Node :
         \/ Receive(m) \/ Record(m) \/ Transcribed(m) \/ CallFails(m) \/ Join(m)
         \/ RunStep(m)
         \/ StopReply(m) \/ CancelVoice(m) \/ ClearReply(m) \/ RemoveCleared(m)
    \/ ForgetCleared
    \/ GlobalCancel \/ GlobalStopped \/ GlobalCleared
    \/ Restart

ConversationSpec == ConversationInit /\ [][ConversationNext]_allVars

------------------------------------------------------------------------------
(* Safety.                                                                 *)

\* What a restart would bring back is what the conversation shows: the same
\* messages, their sessions, and as completed exactly those that completed.
RestartAgrees ==
    Root \in mapped =>
        /\ InStore = nodes
        /\ store.session = session \cap nodes
        /\ \A n \in nodes : store.tree[n] = "completed" <=> state[n] = "completed"

\* The mapping, in memory and in the store, has the ids of just the messages of the tree,
\* and of their status messages at least: a reply to either is never lost.  It may also
\* have status messages of messages that /clear removed, over a restart too, but of no
\* others; and a message that a global /clear removed and a late run saved again comes
\* back without its status message.
MappingAgrees ==
    Root \in mapped =>
        /\ mapped = nodes /\ store.map = nodes
        /\ \A ids \in {statusIds.manager, statusIds.store} :
              nodes \ cleared \subseteq ids /\ ids \subseteq nodes \cup cleared

\* A message taken out by /clear stays out: no run that was still ending, no save,
\* no late reply and no restart brings it back, unless a message joined the
\* conversation while a global /clear was at work (its run saves the tree again).
ClearedStaysCleared ==
    ~late => cleared \cap (InStore \cup mapped) = {}

\* A conversation that is cleared has no run left that nobody can stop.
NoRunOutlivesTree ==
    Root \notin mapped /\ ~late => \A n \in Node : ~Running(n)

\* A message shown as waiting waits in the queue or is being started, and one shown
\* as working has a run (but for a run that ended without ever naming a session).
NoGhost ==
    Root \in mapped => \A n \in nodes :
        /\ state[n] = "pending" => n \in queue \cup Live
        /\ state[n] = "in_progress" => n \in Live \/ (task[n] = "done" /\ n \notin session)

\* A voice note whose cancellation was confirmed is never run.
CancelledVoiceNeverRuns ==
    \A m \in revoked : task[m] = "none" /\ m \notin queue /\ call[m] # "sending"

------------------------------------------------------------------------------
(* The inductive invariants behind them.                                   *)

\* A message that has not joined the tree has no ticket, and so no place in the queue and
\* no task; a voice note that waits, or was revoked, has not joined and is on no way to.
\* Only the root opens the conversation.
CallInv ==
    /\ \A n \in Node : ticket[n] = 0 => task[n] = "none" /\ n \notin queue
    /\ \A n \in Node : call[n] # "over" => ticket[n] = 0
    /\ \A m \in revoked \cup pending : ticket[m] = 0 /\ call[m] \in {"transcribing", "over"}
    /\ revoked \cap pending = {}
    /\ \A m \in Node : call[m] \in {"transcribing", "sending"} /\ found[m] = NoNode => m = Root

\* The store has the tree as the manager has it or, once the manager has forgotten it,
\* not at all or as its last run knew it.
MappingInv ==
    /\ IF Root \in mapped THEN mapped = nodes /\ InStore = nodes ELSE mapped = {}
    /\ store.map = InStore
    /\ InStore \in {{}, nodes}
    /\ nodes # {} => Root \in nodes
    /\ \A n \in nodes : ticket[n] # 0
    /\ parent[Root] = NoNode

\* The status messages in the mapping are those of the tree, or of what was removed from it.
StatusInv ==
    /\ Root \notin mapped => nodes \subseteq cleared
    /\ InStore \ cleared \subseteq statusIds.store /\ statusIds.store \subseteq InStore \cup cleared
    /\ Root \in mapped => nodes \ cleared \subseteq statusIds.manager
    /\ statusIds.manager \subseteq nodes \cup cleared

\* A completed node is neither waiting nor running nor about to, and a run has the tree in
\* hand as long as the tree has its node.
RunInv ==
    /\ \A n \in queue : task[n] = "none"
    /\ \A n \in Node : state[n] = "completed" =>
          ticket[n] # 0 /\ n \notin queue /\ task[n] \notin {"created", "running"}
    /\ Root \in mapped => \A n \in nodes : task[n] = "running" => n \in adopted

\* So no step but the last of a run, which saves the tree, changes what counts.
SavedInv == RestartAgrees /\ store.session \subseteq InStore

\* Unless a message joins while a global /clear is at work, one task is alive at a time, and
\* it is the one that a command would cancel; once the tree is being discarded, it has been
\* asked to stop and nothing waits.  (A global /stop lets two runs overlap.)
Going == Root \in mapped /\ global = "none"

OneRunInv ==
    /\ ticket[Root] = 0 => \A n \in Node : ticket[n] = 0
    /\ global # "stop"
    /\ ~late => IF Going
                THEN Live \subseteq {currentTask} /\ (Live # {} => isProcessing)
                ELSE /\ Live \subseteq {currentTask} /\ queue = {}
                     /\ \A n \in Live : n \in cancelReq \/ task[n] = "cleanup"

\* So a discarded tree is not saved again.
ClearedInv ==
    /\ \A n \in cleared : ticket[n] # 0
    /\ ClearedStaysCleared
    /\ ~late /\ Root \notin mapped => InStore = {}

\* The task that a command cancels is that of the node it stops, so that a task cancelled
\* before its first step belongs to a node shown as failed; and a run has left a state
\* behind, other than waiting, before it cleans up.
GhostInv ==
    /\ NoGhost
    /\ \A n \in Node : ticket[n] = 0 => state[n] = "pending"
    /\ currentNode # NoNode => ticket[currentNode] # 0
    /\ currentNode \in nodes /\ currentTask \in Live => currentTask = currentNode
    /\ \A n \in cancelReq : task[n] # "none"
    /\ \A n \in nodes \cap cancelReq : task[n] = "created" => state[n] = "error"
    /\ Root \in mapped => \A n \in nodes :
         /\ task[n] \in {"running", "cleanup"} => state[n] # "pending"
         /\ task[n] = "cleanup" /\ n \in session => state[n] # "in_progress"

==============================================================================
