------------------------------ MODULE TreeQueue ------------------------------
(***************************************************************************)
(* One conversation tree of the messaging bot: its nodes, its FIFO queue,  *)
(* the asyncio tasks that run the nodes, and the commands that cancel or   *)
(* remove them (messaging/trees/*.py, driven by messaging/handler.py and   *)
(* messaging/commands.py).                                                 *)
(*                                                                         *)
(* Everything runs on one event loop, and no critical section under a tree *)
(* lock or the manager lock suspends, so those locks are never contended:  *)
(* an atomic step is the code between two suspension points.  In           *)
(* particular the finally block of process_node and the _process_next it   *)
(* calls are one step, and so is the body of every cancel_* method.        *)
(***************************************************************************)
EXTENDS Naturals, FiniteSets

CONSTANTS Node,       \* the messages that may join the tree
          Root,       \* the message that opens the conversation
          NoNode,     \* Python's None where a node id is expected
          Commands    \* the user commands that are issued

Command == {"stop_all", "stop_node", "clear_branch", "clear_tree"}

ASSUME TreeAssumption ==
    /\ IsFiniteSet(Node)
    /\ Root \in Node
    /\ NoNode \notin Node
    /\ Commands \subseteq Command

VARIABLES
    nodes,          \* MessageTree._nodes, {} before create_tree and after remove_tree
    parent,         \* MessageNode.parent_id
    state,          \* MessageNode.state
    session,        \* the nodes whose session_id is set
    queue,          \* _SnapshotQueue: the waiting nodes ...
    ticket,         \* ... and the order in which nodes were submitted (0: not yet)
    isProcessing,   \* MessageTree._is_processing
    currentNode,    \* MessageTree._current_node_id
    currentTask,    \* MessageTree._current_task, named by the node it runs
    task,           \* where each node's process_node coroutine is
    cancelReq,      \* Task.cancel() was called and CancelledError not yet thrown
    clearing,       \* branches whose /clear is deleting messages
    stopped         \* nodes a command reported as cancelled

treeVars  == <<nodes, parent, state, session>>
slotVars  == <<isProcessing, currentNode, currentTask>>
taskVars  == <<task, cancelReq>>
queueVars == <<queue, ticket>>
vars == <<treeVars, queueVars, slotVars, taskVars, clearing, stopped>>

MessageState == {"pending", "in_progress", "completed", "error"}
Terminal     == {"completed", "error"}

(***************************************************************************)
(* A process_node task: created by create_task but not yet stepped, inside *)
(* the processor (the Claude subprocess), inside the remove_session of its *)
(* finally block, or done().                                               *)
(***************************************************************************)
TaskState == {"none", "created", "running", "cleanup", "done"}
Live      == {n \in Node : task[n] \in {"created", "running", "cleanup"}}

TypeOK ==
    /\ nodes \subseteq Node
    /\ parent \in [Node -> Node \cup {NoNode}]
    /\ state \in [Node -> MessageState]
    /\ session \subseteq Node
    /\ queue \subseteq Node
    /\ ticket \in [Node -> Nat]
    /\ isProcessing \in BOOLEAN
    /\ currentNode \in Node \cup {NoNode}
    /\ currentTask \in Node \cup {NoNode}
    /\ task \in [Node -> TaskState]
    /\ cancelReq \subseteq Node
    /\ clearing \subseteq Node
    /\ stopped \subseteq Node

Init ==
    /\ nodes = {}
    /\ parent = [n \in Node |-> NoNode]
    /\ state = [n \in Node |-> "pending"]
    /\ session = {}
    /\ queue = {}
    /\ ticket = [n \in Node |-> 0]
    /\ isProcessing = FALSE
    /\ currentNode = NoNode
    /\ currentTask = NoNode
    /\ task = [n \in Node |-> "none"]
    /\ cancelReq = {}
    /\ clearing = {}
    /\ stopped = {}

------------------------------------------------------------------------------
(* The shape of the tree.                                                  *)

Children(S) == {n \in nodes : parent[n] \in S}

\* The least set that holds b and the children, among P, of its members.
Closure(b, P) ==
    {n \in P \cup {b} : \A S \in SUBSET (P \cup {b}) :
                            (b \in S /\ Children(S) \cap P \subseteq S) => n \in S}

get_descendants(b) == Closure(b, nodes)

get_pending_children(b) ==
    Closure(b, {n \in nodes : state[n] = "pending"}) \ {b}

\* Mutant: cancellation writes a state the enumeration does not have.
SetErrorAsCancelled(S) == [n \in Node |-> IF n \in S THEN "cancelled" ELSE state[n]]

SetError(S) == [n \in Node |-> IF n \in S THEN "error" ELSE state[n]]

\* update_state: a node that is no longer in the tree is left alone.
UpdateState(n, s) == IF n \in nodes THEN [state EXCEPT ![n] = s] ELSE state

\* mark_node_error with propagate_to_children.
MarkNodeError(n) ==
    IF n \in nodes THEN SetError({n} \cup get_pending_children(n)) ELSE state

------------------------------------------------------------------------------
(* The queue and the processing slot.                                      *)

NextTicket == Cardinality({n \in Node : ticket[n] # 0}) + 1

\* Mutant: pop from the wrong end.
IsNewest(n) == n \in queue /\ \A m \in queue : ticket[n] >= ticket[m]

\* get_nowait: n is the head of the deque.
IsHead(n) == n \in queue /\ \A m \in queue : ticket[n] <= ticket[m]

\* set_processing_state(n, True) and create_task, when the node still exists.
StartTask(n, in, tasks) ==
    /\ isProcessing' = TRUE
    /\ currentNode' = n
    /\ IF n \in in
       THEN /\ task' = [tasks EXCEPT ![n] = "created"]
            /\ currentTask' = n
       ELSE /\ task' = tasks
            /\ UNCHANGED currentTask

\* Mutant: an empty queue is taken for an idle tree.
EnqueueIfOthersWait(n, in) ==
    /\ ticket' = [ticket EXCEPT ![n] = NextTicket]
    /\ IF queue # {}
       THEN queue' = queue \cup {n} /\ UNCHANGED <<slotVars, task>>
       ELSE StartTask(n, in, task) /\ UNCHANGED queue

\* enqueue_and_start, in a tree whose nodes are in.
EnqueueAndStart(n, in) ==
    /\ ticket' = [ticket EXCEPT ![n] = NextTicket]
    /\ IF isProcessing
       THEN queue' = queue \cup {n} /\ UNCHANGED <<slotVars, task>>
       ELSE StartTask(n, in, task) /\ UNCHANGED queue

\* clear_current_node, then _process_next, as the last step of a task.
ProcessNext(tasks) ==
    /\ \/ /\ queue = {}
          /\ isProcessing' = FALSE
          /\ currentNode' = NoNode
          /\ task' = tasks
          /\ UNCHANGED <<queue, currentTask>>
       \/ \E n \in queue :
          /\ IsHead(n)
          /\ queue' = queue \ {n}
          /\ StartTask(n, nodes, tasks)
    /\ UNCHANGED ticket

\* Mutant: the node is marked and its task is left running.
CancelNothing == cancelReq

\* cancel_current_task: nothing happens when the task is done.
CancelCurrent ==
    IF currentTask \in Live THEN cancelReq \cup {currentTask} ELSE cancelReq

------------------------------------------------------------------------------
(* Messages: a new conversation, and a reply to a message of the tree.     *)

NewConversation ==
    /\ ticket[Root] = 0
    /\ nodes' = {Root}
    /\ EnqueueAndStart(Root, {Root})
    /\ UNCHANGED <<parent, state, session, cancelReq, clearing, stopped>>

Reply(n, p) ==
    /\ ticket[n] = 0 /\ n # Root
    /\ p \in nodes
    /\ nodes' = nodes \cup {n}
    /\ parent' = [parent EXCEPT ![n] = p]
    /\ EnqueueAndStart(n, nodes \cup {n})
    /\ UNCHANGED <<state, session, cancelReq, clearing, stopped>>

------------------------------------------------------------------------------
(* The steps of the task that runs node n.                                 *)

\* Cancelled before its first step: the coroutine never runs, so neither does
\* its finally block.
NeverRuns(n) ==
    /\ task[n] = "created" /\ n \in cancelReq
    /\ task' = [task EXCEPT ![n] = "done"]
    /\ cancelReq' = cancelReq \ {n}
    /\ UNCHANGED <<treeVars, queueVars, slotVars, clearing, stopped>>

\* Mutant: a skipped node does not look at the queue.
SkipAndStop(n) ==
    /\ task[n] = "created" /\ n \notin cancelReq
    /\ state[n] = "error"
    /\ task' = [task EXCEPT ![n] = "done"]
    /\ UNCHANGED <<treeVars, queueVars, slotVars, cancelReq, clearing, stopped>>

\* A node that failed while it waited (its parent failed) is skipped.
Skip(n) ==
    /\ task[n] = "created" /\ n \notin cancelReq
    /\ state[n] = "error"
    /\ ProcessNext([task EXCEPT ![n] = "done"])
    /\ UNCHANGED <<treeVars, cancelReq, clearing, stopped>>

Start(n) ==
    /\ task[n] = "created" /\ n \notin cancelReq
    /\ state[n] # "error"
    /\ task' = [task EXCEPT ![n] = "running"]
    /\ state' = UpdateState(n, "in_progress")
    /\ UNCHANGED <<nodes, parent, session, queueVars, slotVars, cancelReq,
                   clearing, stopped>>

Running(n) == task[n] = "running" /\ n \notin cancelReq

\* The CLI prints its session id: it reaches the node once.
SessionInfo(n) ==
    /\ Running(n)
    /\ n \in nodes \ session
    /\ session' = session \cup {n}
    /\ state' = UpdateState(n, "in_progress")
    /\ UNCHANGED <<nodes, parent, queueVars, slotVars, taskVars, clearing, stopped>>

\* An error event (the CLI's own, or its stderr) while the stream goes on.
ErrorEvent(n) ==
    /\ Running(n)
    /\ state' = MarkNodeError(n)
    /\ UNCHANGED <<nodes, parent, session, queueVars, slotVars, taskVars,
                   clearing, stopped>>

\* The last event: the exit code is parsed as "complete", preceded by "error"
\* when it is not 0.  Only a node with a session is marked completed.
Exit(n, code) ==
    /\ Running(n)
    /\ state' = LET failed == IF code = 0 THEN state ELSE MarkNodeError(n)
                IN  IF n \in session \cap nodes
                    THEN [failed EXCEPT ![n] = "completed"] ELSE failed
    /\ task' = [task EXCEPT ![n] = "cleanup"]
    /\ UNCHANGED <<nodes, parent, session, queueVars, slotVars, cancelReq,
                   clearing, stopped>>

\* start_task raises.
Raise(n) ==
    /\ Running(n)
    /\ state' = MarkNodeError(n)
    /\ task' = [task EXCEPT ![n] = "cleanup"]
    /\ UNCHANGED <<nodes, parent, session, queueVars, slotVars, cancelReq,
                   clearing, stopped>>

\* Mutant: a cancelled task hands over before its session is removed.
CancelledHandsOver(n) ==
    /\ task[n] = "running" /\ n \in cancelReq
    /\ state' = UpdateState(n, "error")
    /\ ProcessNext([task EXCEPT ![n] = "cleanup"])
    /\ cancelReq' = cancelReq \ {n}
    /\ UNCHANGED <<nodes, parent, session, clearing, stopped>>

\* CancelledError is thrown into the processor, which stops the subprocess,
\* marks the node and swallows the exception.
Cancelled(n) ==
    /\ task[n] = "running" /\ n \in cancelReq
    /\ state' = UpdateState(n, "error")
    /\ task' = [task EXCEPT ![n] = "cleanup"]
    /\ cancelReq' = cancelReq \ {n}
    /\ UNCHANGED <<nodes, parent, session, queueVars, slotVars, clearing, stopped>>

\* remove_session returned or was cancelled: process_node's finally block.
Finish(n) ==
    /\ task[n] = "cleanup"
    /\ ProcessNext([task EXCEPT ![n] = "done"])
    /\ cancelReq' = cancelReq \ {n}
    /\ UNCHANGED <<treeVars, clearing, stopped>>

------------------------------------------------------------------------------
(* The commands.                                                           *)

\* What cancel_tree does to the tree, and the nodes it returns.
ActiveNodes ==
    {n \in nodes : state[n] \in {"pending", "in_progress"}} \cup (queue \cap nodes)

CancelledByTree ==
    (queue \cap nodes)
      \cup {n \in nodes : n = currentNode /\ currentTask \in Live
                          /\ state[n] \notin Terminal}

\* Mutant: the flags are reset and the queue is not drained.
CancelTreeWithoutDrain ==
    /\ cancelReq' = CancelCurrent
    /\ state' = SetError(ActiveNodes)
    /\ isProcessing' = FALSE
    /\ currentNode' = NoNode
    /\ stopped' = stopped \cup CancelledByTree
    /\ UNCHANGED <<parent, session, queueVars, currentTask, task>>

CancelTree ==
    /\ cancelReq' = CancelCurrent
    /\ state' = SetError(ActiveNodes)
    /\ queue' = {}
    /\ isProcessing' = FALSE
    /\ currentNode' = NoNode
    /\ stopped' = stopped \cup CancelledByTree
    /\ UNCHANGED <<parent, session, ticket, currentTask, task>>

\* "/stop" on its own: cancel_all.
StopAll ==
    /\ "stop_all" \in Commands
    /\ nodes # {}
    /\ CancelTree
    /\ UNCHANGED <<nodes, clearing>>

\* "/stop" in reply to a message: cancel_node.
StopNode(n) ==
    /\ "stop_node" \in Commands
    /\ n \in nodes /\ state[n] \notin Terminal
    /\ cancelReq' = IF currentNode = n THEN CancelCurrent ELSE cancelReq
    /\ queue' = queue \ {n}
    /\ state' = SetError({n})
    /\ stopped' = stopped \cup {n}
    /\ UNCHANGED <<nodes, parent, session, ticket, slotVars, task, clearing>>

\* "/clear" in reply to a message, first half: cancel_branch; the command then
\* waits for the messages of the branch to be deleted.
ClearBranch(b) ==
    /\ (IF b = Root THEN "clear_tree" ELSE "clear_branch") \in Commands
    /\ b \in nodes
    /\ LET hit == {n \in get_descendants(b) : state[n] \notin Terminal}
       IN  /\ cancelReq' = IF currentNode \in hit THEN CancelCurrent ELSE cancelReq
           /\ queue' = queue \ (hit \ {currentNode})
           /\ state' = SetError(hit)
           /\ stopped' = stopped \cup hit
    /\ clearing' = clearing \cup {b}
    /\ UNCHANGED <<nodes, parent, session, ticket, slotVars, task>>

\* Second half: remove_branch.  The nodes leave the tree but not the queue.
RemoveBranch(b) ==
    /\ b \in clearing /\ b # Root
    /\ nodes' = IF b \in nodes THEN nodes \ get_descendants(b) ELSE nodes
    /\ clearing' = clearing \ {b}
    /\ UNCHANGED <<parent, state, session, queueVars, slotVars, taskVars, stopped>>

RemoveTree ==
    /\ Root \in clearing
    /\ clearing' = clearing \ {Root}
    /\ \/ /\ Root \in nodes
          /\ CancelTree
          /\ nodes' = {}
       \/ /\ Root \notin nodes
          /\ UNCHANGED <<treeVars, queueVars, slotVars, taskVars, stopped>>

------------------------------------------------------------------------------
TaskStep(n) ==
    \/ NeverRuns(n)
    \/ Skip(n)
    \/ Start(n)
    \/ \E code \in {0, 1} : Exit(n, code)
    \/ Raise(n)
    \/ Cancelled(n)
    \/ Finish(n)

Next ==
    \/ NewConversation
    \/ \E n, p \in Node : Reply(n, p)
    \/ \E n \in Node :
         \/ TaskStep(n)
         \/ SessionInfo(n)
         \/ ErrorEvent(n)
         \/ StopNode(n)
         \/ ClearBranch(n)
         \/ RemoveBranch(n)
    \/ StopAll
    \/ RemoveTree

Spec == Init /\ [][Next]_vars

\* The event loop runs every ready task, and the CLI subprocess of a running
\* task ends at last.
FairSpec == Spec /\ \A n \in Node : WF_vars(TaskStep(n))

------------------------------------------------------------------------------
(* Safety.                                                                 *)

\* Two tasks of one conversation never exist at the same time: is_processing and
\* the queue serialise the Claude runs of a tree.
OneAtATime == \A m, n \in Live : m = n

\* The flag that enqueue_and_start trusts is never down while a task is live or
\* a message waits (a message that waits with the flag down waits for ever).
BusyWhileLive == (Live # {} /\ nodes # {}) => isProcessing
BusyWhileWaiting == queue # {} => isProcessing

\* No overtaking: whatever cancellations and removals happen, no node is started
\* while one that was submitted before it still waits.
Fifo == \A m \in queue, n \in Node :
            task[n] # "none" => ticket[n] < ticket[m]

\* A waiting node has been submitted and was never started: no message is run
\* twice, and a finished one does not come back through the queue.
WaitingIsFresh == \A n \in queue : task[n] = "none" /\ ticket[n] # 0

\* What /stop or /clear reported as cancelled is never shown as completed or
\* running afterwards, although the cancelled task still has steps to take.
StoppedForGood == \A n \in stopped : state[n] = "error"

\* The queue of a tree is a serial server of requests.
SQ == INSTANCE SerialQueue WITH
          Request <- Node,
          order   <- ticket,
          waiting <- queue,
          active  <- Live \cup (IF isProcessing THEN {currentNode} ELSE {})
SerialSpec == SQ!Spec

------------------------------------------------------------------------------
(* The inductive invariants behind them.                                   *)

QueueInv ==
    /\ BusyWhileWaiting
    /\ WaitingIsFresh
    /\ Fifo
    /\ \A n \in Node : ticket[n] < NextTicket
    /\ \A m, n \in Node : ticket[m] = ticket[n] /\ ticket[m] # 0 => m = n
    /\ \A n \in Node : task[n] # "none" \/ n \in nodes => ticket[n] # 0

\* Holds as long as nothing resets is_processing under a live task.
SlotInv ==
    /\ \A n \in Live : nodes # {} =>
           isProcessing /\ currentNode = n /\ currentTask = n
    /\ OneAtATime
    /\ nodes = {} => queue = {} /\ ~isProcessing
    /\ nodes # {} => Root \in nodes
    /\ parent[Root] = NoNode
    /\ \A n \in Node : ticket[Root] = 0 => task[n] = "none"
    /\ currentNode \notin queue
    /\ currentNode # NoNode => ticket[currentNode] # 0

\* A stopped node has no step left that could show it again.
StoppedInv ==
    \A n \in stopped :
        /\ state[n] = "error"
        /\ n \notin queue
        /\ ticket[n] # 0
        /\ task[n] = "running" => n \in cancelReq

------------------------------------------------------------------------------
(* Liveness.                                                               *)

\* Every submitted message is served: it leaves the queue, and its task ends.
EverySubmissionEnds ==
    \A n \in Node : ticket[n] # 0 ~> (n \notin queue /\ n \notin Live)

==============================================================================
