------------------------ MODULE Conversation_proofs ------------------------
(***************************************************************************)
(* What Conversation guarantees for every set of messages and voice notes, *)
(* and whatever commands are issued: first the tree queue by itself, then  *)
(* the conversation around it, which takes the tree's steps.               *)
(***************************************************************************)
EXTENDS Conversation, FiniteSetTheorems, TLAPS

USE TreeAssumption

------------------------------------------------------------------------------
(* The tree: type correctness.                                             *)

LEMMA InitType == Init => TypeOK
<1> SUFFICES ASSUME Init PROVE TypeOK
  OBVIOUS
<1>1. state \in [Node -> MessageState] /\ task \in [Node -> TaskState]
  BY DEF Init, TaskState, MessageState
<1>2. ticket \in [Node -> Nat] /\ parent \in [Node -> Node \cup {NoNode}]
  BY DEF Init
<1> QED BY <1>1, <1>2 DEF Init, TypeOK

\* Tickets are natural numbers: only finitely many nodes have one.
LEMMA NextTicketType == NextTicket \in Nat \ {0}
<1> DEFINE S == {n \in Node : ticket[n] # 0}
<1>1. IsFiniteSet(S)
  BY FS_Subset, S \subseteq Node
<1>2. Cardinality(S) \in Nat
  BY <1>1, FS_CardinalityType
<1> QED BY <1>2 DEF NextTicket

\* The helpers that write states return states.
LEMMA StateHelpersType ==
    ASSUME TypeOK
    PROVE  /\ \A S : SetError(S) \in [Node -> MessageState]
           /\ \A n : MarkNodeError(n) \in [Node -> MessageState]
           /\ \A n \in Node, s \in MessageState :
                  UpdateState(n, s) \in [Node -> MessageState]
<1>1. \A S : SetError(S) \in [Node -> MessageState]
  BY DEF SetError, TypeOK, MessageState
<1> QED BY <1>1 DEF MarkNodeError, UpdateState, TypeOK

LEMMA CancelCurrentType == TypeOK => CancelCurrent \subseteq Node
  BY DEF CancelCurrent, Live, TypeOK

LEMMA StartTaskType ==
    ASSUME TypeOK, NEW n \in Node, NEW in,
           NEW tasks \in [Node -> TaskState], StartTask(n, in, tasks)
    PROVE  /\ isProcessing' \in BOOLEAN
           /\ currentNode' \in Node \cup {NoNode}
           /\ currentTask' \in Node \cup {NoNode}
           /\ task' \in [Node -> TaskState]
  BY DEF StartTask, TypeOK, TaskState

LEMMA EnqueueType ==
    ASSUME TypeOK, NEW n \in Node, NEW in, EnqueueAndStart(n, in)
    PROVE  /\ queue' \subseteq Node
           /\ ticket' \in [Node -> Nat]
           /\ isProcessing' \in BOOLEAN
           /\ currentNode' \in Node \cup {NoNode}
           /\ currentTask' \in Node \cup {NoNode}
           /\ task' \in [Node -> TaskState]
<1>1. ticket' \in [Node -> Nat]
  BY NextTicketType DEF EnqueueAndStart, TypeOK
<1>2. CASE isProcessing
  BY <1>1, <1>2 DEF EnqueueAndStart, TypeOK, slotVars
<1>3. CASE ~isProcessing
  <2>1. task \in [Node -> TaskState]
    BY DEF TypeOK
  <2>2. StartTask(n, in, task) /\ queue' = queue
    BY <1>3 DEF EnqueueAndStart
  <2> QED BY <1>1, <2>1, <2>2, StartTaskType DEF TypeOK
<1> QED BY <1>2, <1>3

LEMMA ProcessNextType ==
    ASSUME TypeOK, NEW tasks \in [Node -> TaskState], ProcessNext(tasks)
    PROVE  /\ queue' \subseteq Node
           /\ ticket' \in [Node -> Nat]
           /\ isProcessing' \in BOOLEAN
           /\ currentNode' \in Node \cup {NoNode}
           /\ currentTask' \in Node \cup {NoNode}
           /\ task' \in [Node -> TaskState]
<1>1. CASE queue = {}
  BY <1>1 DEF ProcessNext, TypeOK
<1>2. ASSUME NEW n \in queue, queue' = queue \ {n}, StartTask(n, nodes, tasks)
      PROVE  /\ queue' \subseteq Node
             /\ isProcessing' \in BOOLEAN
             /\ currentNode' \in Node \cup {NoNode}
             /\ currentTask' \in Node \cup {NoNode}
             /\ task' \in [Node -> TaskState]
  <2>1. n \in Node
    BY DEF TypeOK
  <2> QED BY <1>2, <2>1, StartTaskType DEF TypeOK
<1>3. ticket' \in [Node -> Nat]
  BY DEF ProcessNext, TypeOK
<1> QED BY <1>1, <1>2, <1>3 DEF ProcessNext

LEMMA NextType == TypeOK /\ [Next]_vars => TypeOK'
<1> SUFFICES ASSUME TypeOK, [Next]_vars PROVE TypeOK'
  OBVIOUS
<1> USE DEF treeVars, slotVars, taskVars, queueVars
<1>1. CASE NewConversation
  BY <1>1, EnqueueType DEF NewConversation, TypeOK
<1>2. ASSUME NEW n \in Node, NEW p \in Node, Reply(n, p) PROVE TypeOK'
  BY <1>2, EnqueueType DEF Reply, TypeOK
<1>3. ASSUME NEW n \in Node, NeverRuns(n) PROVE TypeOK'
  BY <1>3 DEF NeverRuns, TypeOK, TaskState
<1>4. ASSUME NEW n \in Node, Skip(n) PROVE TypeOK'
  <2>1. [task EXCEPT ![n] = "done"] \in [Node -> TaskState]
    BY DEF TypeOK, TaskState
  <2> QED BY <1>4, <2>1, ProcessNextType DEF Skip, TypeOK
<1>5. ASSUME NEW n \in Node, Start(n) PROVE TypeOK'
  BY <1>5, StateHelpersType DEF Start, TypeOK, TaskState, MessageState
<1>6. ASSUME NEW n \in Node, NEW code \in {0, 1}, Exit(n, code) PROVE TypeOK'
  BY <1>6, StateHelpersType DEF Exit, TypeOK, TaskState, MessageState
<1>7. ASSUME NEW n \in Node, Raise(n) PROVE TypeOK'
  BY <1>7, StateHelpersType DEF Raise, TypeOK, TaskState
<1>8. ASSUME NEW n \in Node, Cancelled(n) PROVE TypeOK'
  BY <1>8, StateHelpersType DEF Cancelled, TypeOK, TaskState, MessageState
<1>9. ASSUME NEW n \in Node, Finish(n) PROVE TypeOK'
  <2>1. [task EXCEPT ![n] = "done"] \in [Node -> TaskState]
    BY DEF TypeOK, TaskState
  <2> QED BY <1>9, <2>1, ProcessNextType DEF Finish, TypeOK
<1>10. ASSUME NEW n \in Node, SessionInfo(n) PROVE TypeOK'
  BY <1>10, StateHelpersType DEF SessionInfo, TypeOK, MessageState
<1>11. ASSUME NEW n \in Node, ErrorEvent(n) PROVE TypeOK'
  BY <1>11, StateHelpersType DEF ErrorEvent, TypeOK
<1>12. ASSUME CancelTree, nodes' \subseteq Node, clearing' \subseteq Node
       PROVE  TypeOK'
  <2>1. cancelReq' \subseteq Node /\ state' \in [Node -> MessageState]
    BY <1>12, StateHelpersType, CancelCurrentType DEF CancelTree
  <2>2. stopped' \subseteq Node
    BY <1>12 DEF CancelTree, CancelledByTree, TypeOK
  <2> QED BY <1>12, <2>1, <2>2 DEF CancelTree, TypeOK
<1>13. ASSUME NEW n \in Node, StopNode(n) PROVE TypeOK'
  <2>1. cancelReq' \subseteq Node /\ state' \in [Node -> MessageState]
    BY <1>13, StateHelpersType, CancelCurrentType DEF StopNode, TypeOK
  <2> QED BY <1>13, <2>1 DEF StopNode, TypeOK
<1>14. ASSUME NEW b \in Node, ClearBranch(b) PROVE TypeOK'
  <2>1. get_descendants(b) \subseteq Node
    BY DEF get_descendants, Closure, TypeOK
  <2>2. cancelReq' \subseteq Node /\ state' \in [Node -> MessageState]
    BY <1>14, StateHelpersType, CancelCurrentType DEF ClearBranch, TypeOK
  <2>3. queue' \subseteq Node /\ stopped' \subseteq Node /\ clearing' \subseteq Node
    BY <1>14, <2>1 DEF ClearBranch, TypeOK
  <2> QED BY <1>14, <2>2, <2>3 DEF ClearBranch, TypeOK
<1>15. ASSUME NEW b \in Node, RemoveBranch(b) PROVE TypeOK'
  BY <1>15 DEF RemoveBranch, TypeOK
<1>16. CASE StopAll
  BY <1>12, <1>16 DEF StopAll, TypeOK
<1>17. CASE RemoveTree
  <2>1. CASE Root \in nodes
    BY <1>12, <1>17, <2>1 DEF RemoveTree, TypeOK
  <2>2. CASE Root \notin nodes
    BY <1>17, <2>2 DEF RemoveTree, TypeOK
  <2> QED BY <2>1, <2>2
<1>18. CASE UNCHANGED vars
  BY <1>18 DEF vars, TypeOK
<1> QED
  BY <1>1, <1>2, <1>3, <1>4, <1>5, <1>6, <1>7, <1>8, <1>9, <1>10, <1>11,
     <1>13, <1>14, <1>15, <1>16, <1>17, <1>18 DEF Next, TaskStep

\* Every variable of a tree keeps its type, whatever commands are issued.
THEOREM TypeCorrect == Spec => []TypeOK
  BY InitType, NextType, PTL DEF Spec

------------------------------------------------------------------------------
(* The queue, under every command.                                         *)

\* A ticket handed out raises the next one.
LEMMA NextTicketGrows ==
    ASSUME TypeOK, NEW n \in Node, ticket[n] = 0,
           ticket' = [ticket EXCEPT ![n] = NextTicket]
    PROVE  NextTicket' = NextTicket + 1
<1> DEFINE S == {m \in Node : ticket[m] # 0}
<1>1. IsFiniteSet(S)
  BY FS_Subset, S \subseteq Node
<1>2. {m \in Node : ticket'[m] # 0} = S \cup {n}
  BY NextTicketType DEF TypeOK
<1>3. n \notin S
  OBVIOUS
<1>4. Cardinality(S \cup {n}) = Cardinality(S) + 1
  BY <1>1, <1>3, FS_AddElement
<1> QED BY <1>2, <1>4 DEF NextTicket

LEMMA EnqueueKeepsQueue ==
    ASSUME TypeOK, QueueInv, NEW n \in Node, NEW in, ticket[n] = 0,
           EnqueueAndStart(n, in), nodes' \subseteq nodes \cup {n}
    PROVE  QueueInv'
<1>1. NextTicket \in Nat \ {0} /\ NextTicket' = NextTicket + 1
  BY NextTicketType, NextTicketGrows DEF EnqueueAndStart
<1>2. ticket'[n] = NextTicket /\ \A m \in Node \ {n} : ticket'[m] = ticket[m]
  BY DEF EnqueueAndStart, TypeOK
<1>3. ticket \in [Node -> Nat] /\ queue \subseteq Node
  BY DEF TypeOK
<1>4. /\ \A m \in Node : ticket'[m] < NextTicket'
      /\ \A m, k \in Node : ticket'[m] = ticket'[k] /\ ticket'[m] # 0 => m = k
  BY <1>1, <1>2, <1>3 DEF QueueInv
<1>5. task[n] = "none" /\ n \notin queue
  BY DEF QueueInv, WaitingIsFresh
<1>6. CASE isProcessing
  <2>1. queue' = queue \cup {n} /\ task' = task /\ isProcessing'
    BY <1>6 DEF EnqueueAndStart, slotVars
  <2>2. BusyWhileWaiting' /\ WaitingIsFresh'
    BY <1>1, <1>2, <1>3, <1>5, <2>1 DEF QueueInv, BusyWhileWaiting, WaitingIsFresh
  <2>3. Fifo'
    BY <1>1, <1>2, <1>3, <1>5, <2>1 DEF QueueInv, Fifo
  <2>4. \A m \in Node : task'[m] # "none" \/ m \in nodes' => ticket'[m] # 0
    BY <1>1, <1>2, <2>1 DEF QueueInv
  <2> QED BY <1>4, <2>2, <2>3, <2>4 DEF QueueInv
<1>7. CASE ~isProcessing
  <2>1. queue = {} /\ queue' = {}
    BY <1>7 DEF EnqueueAndStart, QueueInv, BusyWhileWaiting
  <2>2. \A m \in Node \ {n} : task'[m] = task[m]
    BY <1>7 DEF EnqueueAndStart, StartTask, TypeOK
  <2>3. \A m \in Node : task'[m] # "none" \/ m \in nodes' => ticket'[m] # 0
    BY <1>1, <1>2, <2>2 DEF QueueInv
  <2> QED BY <1>4, <2>1, <2>3 DEF QueueInv, BusyWhileWaiting, WaitingIsFresh, Fifo
<1> QED BY <1>6, <1>7

LEMMA ProcessNextKeepsQueue ==
    ASSUME TypeOK, QueueInv, NEW n \in Node, task[n] # "none",
           ProcessNext([task EXCEPT ![n] = "done"]), nodes' = nodes
    PROVE  QueueInv'
<1>1. ticket' = ticket /\ NextTicket' = NextTicket
  BY DEF ProcessNext, NextTicket
<1>2. ticket \in [Node -> Nat] /\ queue \subseteq Node /\ task \in [Node -> TaskState]
  BY DEF TypeOK
<1>3. CASE queue = {}
  <2>1. queue' = {} /\ task' = [task EXCEPT ![n] = "done"]
    BY <1>3 DEF ProcessNext
  <2> QED BY <1>1, <1>2, <2>1 DEF QueueInv, BusyWhileWaiting, WaitingIsFresh, Fifo
<1>4. ASSUME NEW k \in queue, IsHead(k), queue' = queue \ {k},
             StartTask(k, nodes, [task EXCEPT ![n] = "done"])
      PROVE  QueueInv'
  <2>1. isProcessing' /\ \A m \in Node \ {k, n} : task'[m] = task[m]
    BY <1>2, <1>4 DEF StartTask
  <2>2. n \notin queue
    BY DEF QueueInv, WaitingIsFresh
  <2>3. \A m \in queue' : ticket[k] < ticket[m]
    BY <1>2, <1>4 DEF IsHead, QueueInv, WaitingIsFresh
  <2>4. \A m \in queue', j \in Node : task'[j] # "none" => ticket[j] < ticket[m]
    <3> SUFFICES ASSUME NEW m \in queue', NEW j \in Node, task'[j] # "none"
                 PROVE  ticket[j] < ticket[m]
      OBVIOUS
    <3>1. m \in queue
      BY <1>4
    <3> QED BY <2>1, <2>3, <3>1 DEF QueueInv, Fifo
  <2>5. \A m \in Node : task'[m] # "none" \/ m \in nodes' => ticket'[m] # 0
    BY <1>1, <1>2, <2>1 DEF QueueInv, WaitingIsFresh
  <2>6. \A m \in queue' : task'[m] = "none" /\ ticket'[m] # 0
    BY <1>1, <1>2, <1>4, <2>1, <2>2 DEF QueueInv, WaitingIsFresh
  <2> QED
    BY <1>1, <2>1, <2>4, <2>5, <2>6 DEF QueueInv, BusyWhileWaiting, WaitingIsFresh, Fifo
<1> QED BY <1>3, <1>4 DEF ProcessNext

\* Every other step starts nothing and only takes nodes out of the queue.
LEMMA OthersKeepQueue ==
    ASSUME TypeOK, QueueInv, ticket' = ticket, queue' \subseteq queue,
           nodes' \subseteq nodes,
           queue' = {} \/ isProcessing' = isProcessing,
           \A n \in Node : task'[n] = "none" <=> task[n] = "none"
    PROVE  QueueInv'
<1>1. NextTicket' = NextTicket
  BY DEF NextTicket
<1>2. BusyWhileWaiting'
  BY DEF QueueInv, BusyWhileWaiting
<1>3. WaitingIsFresh' /\ Fifo'
  BY DEF QueueInv, WaitingIsFresh, Fifo, TypeOK
<1> QED BY <1>1, <1>2, <1>3 DEF QueueInv

LEMMA NextKeepsQueue == TypeOK /\ QueueInv /\ [Next]_vars => QueueInv'
<1> SUFFICES ASSUME TypeOK, QueueInv, [Next]_vars PROVE QueueInv'
  OBVIOUS
<1> USE DEF treeVars, slotVars, taskVars, queueVars
<1>1. CASE NewConversation
  BY <1>1, EnqueueKeepsQueue DEF NewConversation
<1>2. ASSUME NEW n \in Node, NEW p \in Node, Reply(n, p) PROVE QueueInv'
  BY <1>2, EnqueueKeepsQueue DEF Reply
<1>3. ASSUME NEW n \in Node, NeverRuns(n) PROVE QueueInv'
  BY <1>3, OthersKeepQueue DEF NeverRuns, TypeOK
<1>4. ASSUME NEW n \in Node, Skip(n) PROVE QueueInv'
  BY <1>4, ProcessNextKeepsQueue DEF Skip
<1>5. ASSUME NEW n \in Node, Start(n) PROVE QueueInv'
  BY <1>5, OthersKeepQueue DEF Start, TypeOK
<1>6. ASSUME NEW n \in Node, NEW code \in {0, 1}, Exit(n, code) PROVE QueueInv'
  BY <1>6, OthersKeepQueue DEF Exit, Running, TypeOK
<1>7. ASSUME NEW n \in Node, Raise(n) PROVE QueueInv'
  BY <1>7, OthersKeepQueue DEF Raise, Running, TypeOK
<1>8. ASSUME NEW n \in Node, Cancelled(n) PROVE QueueInv'
  BY <1>8, OthersKeepQueue DEF Cancelled, TypeOK
<1>9. ASSUME NEW n \in Node, Finish(n) PROVE QueueInv'
  BY <1>9, ProcessNextKeepsQueue DEF Finish
<1>10. ASSUME NEW n \in Node, SessionInfo(n) PROVE QueueInv'
  BY <1>10, OthersKeepQueue DEF SessionInfo
<1>11. ASSUME NEW n \in Node, ErrorEvent(n) PROVE QueueInv'
  BY <1>11, OthersKeepQueue DEF ErrorEvent
<1>12. ASSUME NEW n \in Node, StopNode(n) PROVE QueueInv'
  BY <1>12, OthersKeepQueue DEF StopNode
<1>13. ASSUME NEW b \in Node, ClearBranch(b) PROVE QueueInv'
  BY <1>13, OthersKeepQueue DEF ClearBranch
<1>14. ASSUME NEW b \in Node, RemoveBranch(b) PROVE QueueInv'
  BY <1>14, OthersKeepQueue DEF RemoveBranch
<1>15. CASE StopAll
  BY <1>15, OthersKeepQueue DEF StopAll, CancelTree
<1>16. CASE RemoveTree
  BY <1>16, OthersKeepQueue DEF RemoveTree, CancelTree
<1>17. CASE UNCHANGED vars
  BY <1>17, OthersKeepQueue DEF vars
<1> QED
  BY <1>1, <1>2, <1>3, <1>4, <1>5, <1>6, <1>7, <1>8, <1>9, <1>10, <1>11,
     <1>12, <1>13, <1>14, <1>15, <1>16, <1>17 DEF Next, TaskStep

LEMMA InitQueue == Init => QueueInv
<1> SUFFICES ASSUME Init PROVE QueueInv
  OBVIOUS
<1>1. NextTicket > 0
  BY NextTicketType
<1> QED
  BY <1>1 DEF Init, QueueInv, BusyWhileWaiting, WaitingIsFresh, Fifo

LEMMA QueueInvariant == Spec => []QueueInv
  BY TypeCorrect, InitQueue, NextKeepsQueue, PTL DEF Spec

\* Messages of a conversation are started in the order in which they were
\* submitted, each at most once, and a message that waits always finds the tree
\* marked as busy: whatever is stopped, cleared or fails in between.
THEOREM FirstComeFirstServed ==
    Spec => [](Fifo /\ WaitingIsFresh /\ BusyWhileWaiting)
<1>1. QueueInv => Fifo /\ WaitingIsFresh /\ BusyWhileWaiting
  BY DEF QueueInv
<1> QED BY <1>1, QueueInvariant, PTL

\* While messages wait, the conversation is marked as busy: the run that is to hand the
\* slot to them has not done so, even under the global "/stop" (cancel_tree).
THEOREM WaitingFindTheTreeBusy == Spec => []BusyWhileWaiting
<1>1. QueueInv => BusyWhileWaiting
  BY DEF QueueInv
<1> QED BY <1>1, QueueInvariant, PTL

------------------------------------------------------------------------------
(* One run at a time, when no global "/stop" is issued.                    *)

\* Clearing a branch keeps the root.
LEMMA RootStays ==
    ASSUME TypeOK, parent[Root] = NoNode, Root \in nodes,
           NEW b \in nodes, b # Root
    PROVE  Root \notin get_descendants(b)
<1> DEFINE S == nodes \ {Root}
<1>1. S \in SUBSET (nodes \cup {b}) /\ b \in S
  OBVIOUS
<1>2. S \subseteq Node /\ NoNode \notin S
  BY DEF TypeOK
<1>3. Children(S) \cap nodes \subseteq S
  BY <1>2 DEF Children
<1> QED BY <1>1, <1>3 DEF get_descendants, Closure

LEMMA EnqueueKeepsSlot ==
    ASSUME TypeOK, QueueInv, SlotInv, NEW n \in Node, NEW in, ticket[n] = 0,
           EnqueueAndStart(n, in), n \in in, nodes' = in, Root \in in,
           nodes # {} \/ n = Root, parent'[Root] = NoNode
    PROVE  SlotInv'
<1>1. ticket'[n] # 0 /\ \A m \in Node : ticket[m] # 0 => ticket'[m] # 0
  BY NextTicketType DEF EnqueueAndStart, TypeOK
<1>2. task[n] = "none" /\ n \notin queue /\ n \notin nodes
  BY DEF QueueInv, WaitingIsFresh
<1>3. ticket'[Root] # 0
  BY <1>1 DEF SlotInv, QueueInv
<1>4. currentNode # n
  BY DEF SlotInv
<1>5. CASE isProcessing
  <2>1. /\ queue' = queue \cup {n} /\ task' = task /\ isProcessing' = isProcessing
        /\ currentNode' = currentNode /\ currentTask' = currentTask
    BY <1>5 DEF EnqueueAndStart, slotVars
  <2>2. nodes # {}
    BY <1>5 DEF SlotInv
  <2>3. currentNode # NoNode => ticket'[currentNode] # 0
    BY <1>1 DEF SlotInv, TypeOK
  <2> QED BY <1>3, <1>4, <2>1, <2>2, <2>3 DEF SlotInv, Live, OneAtATime
<1>6. CASE ~isProcessing
  <2>1. Live = {}
    BY <1>6 DEF SlotInv, Live
  <2>2. /\ queue' = queue /\ isProcessing' /\ currentNode' = n /\ currentTask' = n
        /\ task' = [task EXCEPT ![n] = "created"]
    BY <1>6 DEF EnqueueAndStart, StartTask
  <2>3. Live' = {n}
    BY <2>1, <2>2 DEF Live, TypeOK
  <2>4. nodes' # {} /\ parent'[Root] = NoNode /\ Root \in nodes'
    OBVIOUS
  <2>5. currentNode' \notin queue' /\ ticket'[currentNode'] # 0
    BY <1>1, <1>2, <2>2
  <2> QED BY <1>3, <2>2, <2>3, <2>4, <2>5 DEF SlotInv, OneAtATime
<1> QED BY <1>5, <1>6

LEMMA ProcessNextKeepsSlot ==
    ASSUME TypeOK, QueueInv, SlotInv, NEW n \in Live,
           ProcessNext([task EXCEPT ![n] = "done"]), nodes' = nodes, parent' = parent
    PROVE  SlotInv'
<1>1. ticket' = ticket /\ ticket[Root] # 0 /\ task \in [Node -> TaskState]
  BY DEF ProcessNext, SlotInv, Live, TypeOK
<1>2. Live = {n} /\ n \in Node
  BY DEF SlotInv, OneAtATime, Live
<1>3. CASE queue = {}
  <2>1. /\ queue' = {} /\ ~isProcessing' /\ currentNode' = NoNode
        /\ task' = [task EXCEPT ![n] = "done"]
    BY <1>3 DEF ProcessNext
  <2>2. Live' = {}
    BY <1>1, <1>2, <2>1 DEF Live
  <2> QED BY <1>1, <2>1, <2>2 DEF SlotInv, OneAtATime
<1>4. ASSUME NEW k \in queue, IsHead(k), queue' = queue \ {k},
             StartTask(k, nodes, [task EXCEPT ![n] = "done"])
      PROVE  SlotInv'
  <2>1. k \in Node /\ ticket[k] # 0 /\ nodes # {}
    BY DEF TypeOK, QueueInv, WaitingIsFresh, SlotInv
  <2>2. isProcessing' /\ currentNode' = k /\ k \notin queue'
    BY <1>4 DEF StartTask
  <2>3. CASE k \in nodes
    <3>1. task' = [[task EXCEPT ![n] = "done"] EXCEPT ![k] = "created"]
          /\ currentTask' = k
      BY <1>4, <2>3 DEF StartTask
    <3>2. Live' = {k}
      BY <1>1, <1>2, <2>1, <3>1 DEF Live
    <3> QED BY <1>1, <2>1, <2>2, <3>1, <3>2 DEF SlotInv, OneAtATime
  <2>4. CASE k \notin nodes
    <3>1. task' = [task EXCEPT ![n] = "done"]
      BY <1>4, <2>4 DEF StartTask
    <3>2. Live' = {}
      BY <1>1, <1>2, <3>1 DEF Live
    <3> QED BY <1>1, <2>1, <2>2, <3>2 DEF SlotInv, OneAtATime
  <2> QED BY <2>3, <2>4
<1> QED BY <1>3, <1>4 DEF ProcessNext

\* Every other step starts nothing.
LEMMA OthersKeepSlot ==
    ASSUME TypeOK, SlotInv, ticket' = ticket, queue' \subseteq queue,
           parent' = parent, Live' \subseteq Live,
           UNCHANGED slotVars, nodes' = nodes,
           \A n \in Node : task'[n] = "none" <=> task[n] = "none"
    PROVE  SlotInv'
  BY DEF SlotInv, OneAtATime, slotVars

LEMMA NextKeepsSlot ==
    ASSUME "stop_all" \notin Commands
    PROVE  TypeOK /\ QueueInv /\ SlotInv /\ [Next]_vars => SlotInv'
<1> SUFFICES ASSUME TypeOK, QueueInv, SlotInv, [Next]_vars PROVE SlotInv'
  OBVIOUS
<1> USE DEF treeVars, taskVars, queueVars
<1>1. CASE NewConversation
  BY <1>1, EnqueueKeepsSlot DEF NewConversation, SlotInv
<1>2. ASSUME NEW n \in Node, NEW p \in Node, Reply(n, p) PROVE SlotInv'
  <2>1. parent'[Root] = NoNode /\ nodes' = nodes \cup {n} /\ Root \in nodes
    BY <1>2 DEF Reply, SlotInv, TypeOK
  <2> QED BY <1>2, <2>1, EnqueueKeepsSlot DEF Reply
<1>3. ASSUME NEW n \in Node, NeverRuns(n) PROVE SlotInv'
  <2>1. Live' \subseteq Live
    BY <1>3 DEF NeverRuns, Live, TypeOK
  <2> QED BY <1>3, <2>1, OthersKeepSlot DEF NeverRuns, TypeOK
<1>4. ASSUME NEW n \in Node, Skip(n) PROVE SlotInv'
  BY <1>4, ProcessNextKeepsSlot DEF Skip, Live
<1>5. ASSUME NEW n \in Node, Start(n) PROVE SlotInv'
  <2>1. Live' \subseteq Live
    BY <1>5 DEF Start, Live, TypeOK
  <2> QED BY <1>5, <2>1, OthersKeepSlot DEF Start, TypeOK
<1>6. ASSUME NEW n \in Node, NEW code \in {0, 1}, Exit(n, code) PROVE SlotInv'
  <2>1. Live' \subseteq Live
    BY <1>6 DEF Exit, Running, Live, TypeOK
  <2> QED BY <1>6, <2>1, OthersKeepSlot DEF Exit, Running, TypeOK
<1>7. ASSUME NEW n \in Node, Raise(n) PROVE SlotInv'
  <2>1. Live' \subseteq Live
    BY <1>7 DEF Raise, Running, Live, TypeOK
  <2> QED BY <1>7, <2>1, OthersKeepSlot DEF Raise, Running, TypeOK
<1>8. ASSUME NEW n \in Node, Cancelled(n) PROVE SlotInv'
  <2>1. Live' \subseteq Live
    BY <1>8 DEF Cancelled, Live, TypeOK
  <2> QED BY <1>8, <2>1, OthersKeepSlot DEF Cancelled, TypeOK
<1>9. ASSUME NEW n \in Node, Finish(n) PROVE SlotInv'
  BY <1>9, ProcessNextKeepsSlot DEF Finish, Live
<1>10. ASSUME NEW n \in Node, SessionInfo(n) PROVE SlotInv'
  BY <1>10, OthersKeepSlot DEF SessionInfo, Live
<1>11. ASSUME NEW n \in Node, ErrorEvent(n) PROVE SlotInv'
  BY <1>11, OthersKeepSlot DEF ErrorEvent, Live
<1>12. ASSUME NEW n \in Node, StopNode(n) PROVE SlotInv'
  BY <1>12, OthersKeepSlot DEF StopNode, Live
<1>13. ASSUME NEW b \in Node, ClearBranch(b) PROVE SlotInv'
  BY <1>13, OthersKeepSlot DEF ClearBranch, Live
<1>14. ASSUME NEW b \in Node, RemoveBranch(b) PROVE SlotInv'
  <2>1. CASE b \in nodes
    <3>1. Root \in nodes /\ Root \notin get_descendants(b)
      BY <1>14, <2>1, RootStays DEF RemoveBranch, SlotInv
    <3>2. Root \in nodes' /\ nodes' \subseteq nodes
      BY <1>14, <2>1, <3>1 DEF RemoveBranch
    <3> QED BY <1>14, <3>2 DEF RemoveBranch, SlotInv, Live, OneAtATime, slotVars
  <2>2. CASE b \notin nodes
    BY <1>14, <2>2, OthersKeepSlot DEF RemoveBranch, Live
  <2> QED BY <2>1, <2>2
<1>15. CASE StopAll
  BY <1>15 DEF StopAll
<1>16. CASE RemoveTree
  <2>1. CASE Root \in nodes
    BY <1>16, <2>1 DEF RemoveTree, CancelTree, SlotInv, Live, OneAtATime
  <2>2. CASE Root \notin nodes
    BY <1>16, <2>2, OthersKeepSlot DEF RemoveTree, Live
  <2> QED BY <2>1, <2>2
<1>17. CASE UNCHANGED vars
  BY <1>17, OthersKeepSlot DEF vars, Live
<1> QED
  BY <1>1, <1>2, <1>3, <1>4, <1>5, <1>6, <1>7, <1>8, <1>9, <1>10, <1>11,
     <1>12, <1>13, <1>14, <1>15, <1>16, <1>17 DEF Next, TaskStep

LEMMA InitSlot == Init => SlotInv
  BY DEF Init, SlotInv, OneAtATime, Live

LEMMA SlotInvariant ==
    ASSUME "stop_all" \notin Commands PROVE Spec => []SlotInv
  BY TypeCorrect, QueueInvariant, InitSlot, NextKeepsSlot, PTL DEF Spec

\* While nobody issues the global "/stop", a conversation never has two tasks,
\* and the tree is marked as busy whenever it has one.
THEOREM SerialRuns ==
    ASSUME "stop_all" \notin Commands
    PROVE  Spec => [](OneAtATime /\ BusyWhileLive)
<1>1. SlotInv => OneAtATime /\ BusyWhileLive
  BY DEF SlotInv, BusyWhileLive
<1> QED BY <1>1, SlotInvariant, PTL

------------------------------------------------------------------------------
(* A stopped node stays stopped, when no global "/stop" is issued.         *)

\* A step that marks no new node as stopped, that writes nothing but "error" on
\* a stopped one, and that starts only nodes that waited.
LEMMA OthersKeepStopped ==
    ASSUME TypeOK, StoppedInv, stopped' = stopped,
           \A n \in Node : ticket[n] # 0 => ticket'[n] # 0 /\ (n \in queue' => n \in queue),
           \A n \in stopped : state'[n] = "error",
           \A n \in stopped : task'[n] = "running" =>
               task[n] = "running" /\ (n \in cancelReq => n \in cancelReq')
    PROVE  StoppedInv'
  BY DEF StoppedInv, TypeOK

LEMMA EnqueueKeepsStopped ==
    ASSUME TypeOK, StoppedInv, NEW n \in Node, NEW in, ticket[n] = 0,
           EnqueueAndStart(n, in), UNCHANGED <<state, cancelReq, stopped>>
    PROVE  StoppedInv'
<1>1. \A m \in Node : ticket[m] # 0 => ticket'[m] # 0
  BY NextTicketType DEF EnqueueAndStart, TypeOK
<1>2. queue' \subseteq queue \cup {n}
  BY DEF EnqueueAndStart
<1>3. \A m \in Node : task'[m] = "running" => task[m] = "running"
  BY DEF EnqueueAndStart, StartTask, TypeOK
<1> QED BY <1>1, <1>2, <1>3, OthersKeepStopped DEF StoppedInv, TypeOK

LEMMA ProcessNextKeepsStopped ==
    ASSUME TypeOK, StoppedInv, NEW n \in Node,
           ProcessNext([task EXCEPT ![n] = "done"]), UNCHANGED <<state, stopped>>,
           cancelReq \subseteq cancelReq' \cup {n}
    PROVE  StoppedInv'
<1>1. ticket' = ticket /\ queue' \subseteq queue
  BY DEF ProcessNext
<1>2. \A m \in Node : task'[m] = "running" => task[m] = "running" /\ m # n
  BY DEF ProcessNext, StartTask, TypeOK
<1> QED BY <1>1, <1>2, OthersKeepStopped DEF StoppedInv, TypeOK

\* A running node of the tree is the one that a command cancels.
LEMMA RunningIsCurrent ==
    ASSUME SlotInv, NEW n \in Node, n \in nodes, task[n] = "running"
    PROVE  currentNode = n /\ n \in CancelCurrent
  BY DEF SlotInv, Live, CancelCurrent

LEMMA NextKeepsStopped ==
    ASSUME "stop_all" \notin Commands
    PROVE  TypeOK /\ QueueInv /\ SlotInv /\ StoppedInv /\ [Next]_vars => StoppedInv'
<1> SUFFICES ASSUME TypeOK, QueueInv, SlotInv, StoppedInv, [Next]_vars
             PROVE  StoppedInv'
  OBVIOUS
<1> USE DEF treeVars, taskVars, queueVars
<1>a. \A n \in stopped : state[n] = "error" /\ n \in Node
  BY DEF StoppedInv, TypeOK
<1>b. cancelReq \subseteq CancelCurrent
  BY DEF CancelCurrent
<1>c. \A n \in Node : \A m \in stopped : MarkNodeError(n)[m] = "error"
  BY <1>a DEF MarkNodeError, SetError
<1>1. CASE NewConversation
  BY <1>1, EnqueueKeepsStopped DEF NewConversation
<1>2. ASSUME NEW n \in Node, NEW p \in Node, Reply(n, p) PROVE StoppedInv'
  BY <1>2, EnqueueKeepsStopped DEF Reply
<1>3. ASSUME NEW n \in Node, NeverRuns(n) PROVE StoppedInv'
  BY <1>3, <1>a, OthersKeepStopped DEF NeverRuns, TypeOK
<1>4. ASSUME NEW n \in Node, Skip(n) PROVE StoppedInv'
  BY <1>4, ProcessNextKeepsStopped DEF Skip
<1>5. ASSUME NEW n \in Node, Start(n) PROVE StoppedInv'
  <2>1. n \notin stopped
    BY <1>5, <1>a DEF Start
  <2> QED BY <1>5, <1>a, <2>1, OthersKeepStopped DEF Start, UpdateState, TypeOK
<1>6. ASSUME NEW n \in Node, Running(n), stopped' = stopped, cancelReq' = cancelReq,
             UNCHANGED queueVars,
             \A m \in stopped : m # n => state'[m] = "error",
             \A m \in Node : task'[m] = "running" => task[m] = "running"
      PROVE  StoppedInv'
  <2>1. n \notin stopped
    BY <1>6 DEF Running, StoppedInv
  <2> QED BY <1>6, <1>a, <2>1, OthersKeepStopped
<1>7. ASSUME NEW n \in Node, NEW code \in {0, 1}, Exit(n, code) PROVE StoppedInv'
  <2>1. \A m \in stopped : m # n => state'[m] = "error"
    BY <1>7, <1>a, <1>c, StateHelpersType DEF Exit, TypeOK
  <2> QED BY <1>6, <1>7, <2>1 DEF Exit, TypeOK
<1>8. ASSUME NEW n \in Node, Raise(n) PROVE StoppedInv'
  BY <1>6, <1>8, <1>c DEF Raise, TypeOK
<1>9. ASSUME NEW n \in Node, SessionInfo(n) PROVE StoppedInv'
  BY <1>6, <1>9, <1>a DEF SessionInfo, UpdateState, TypeOK
<1>10. ASSUME NEW n \in Node, ErrorEvent(n) PROVE StoppedInv'
  BY <1>6, <1>10, <1>c DEF ErrorEvent, TypeOK
<1>11. ASSUME NEW n \in Node, Cancelled(n) PROVE StoppedInv'
  BY <1>11, <1>a, OthersKeepStopped DEF Cancelled, UpdateState, TypeOK
<1>12. ASSUME NEW n \in Node, Finish(n) PROVE StoppedInv'
  BY <1>12, ProcessNextKeepsStopped DEF Finish
<1>13. ASSUME NEW n \in Node, StopNode(n) PROVE StoppedInv'
  <2>1. cancelReq \subseteq cancelReq' /\ (task[n] = "running" => n \in cancelReq')
    BY <1>13, <1>b, RunningIsCurrent DEF StopNode
  <2>2. ticket[n] # 0
    BY <1>13 DEF StopNode, QueueInv
  <2> QED BY <1>13, <1>a, <2>1, <2>2 DEF StopNode, StoppedInv, SetError
<1>14. ASSUME NEW b \in Node, ClearBranch(b) PROVE StoppedInv'
  <2> DEFINE hit == {n \in get_descendants(b) : state[n] \notin Terminal}
  <2>1. hit \subseteq nodes /\ hit \subseteq Node
    BY <1>14 DEF get_descendants, Closure, ClearBranch, TypeOK
  <2>2. cancelReq \subseteq cancelReq'
        /\ \A n \in hit : task[n] = "running" => n \in cancelReq'
    BY <1>14, <1>b, <2>1, RunningIsCurrent DEF ClearBranch
  <2>3. \A n \in hit : ticket[n] # 0 /\ n \notin queue'
    BY <1>14, <2>1 DEF ClearBranch, QueueInv, SlotInv
  <2> QED
    BY <1>14, <1>a, <2>1, <2>2, <2>3 DEF ClearBranch, StoppedInv, SetError
<1>15. ASSUME NEW b \in Node, RemoveBranch(b) PROVE StoppedInv'
  BY <1>15, <1>a, OthersKeepStopped DEF RemoveBranch
<1>16. CASE StopAll
  BY <1>16 DEF StopAll
<1>17. CASE RemoveTree
  <2>1. CASE Root \in nodes
    <3>1. CancelTree
      BY <1>17, <2>1 DEF RemoveTree
    <3>2. \A n \in CancelledByTree :
            /\ n \in Node /\ n \in ActiveNodes /\ ticket[n] # 0
            /\ task[n] = "running" => n \in cancelReq'
      BY <3>1, RunningIsCurrent
         DEF CancelTree, CancelledByTree, ActiveNodes, TypeOK, QueueInv,
             Terminal, MessageState
    <3>3. cancelReq \subseteq cancelReq'
      BY <1>b, <3>1 DEF CancelTree
    <3> QED BY <1>a, <3>1, <3>2, <3>3 DEF CancelTree, StoppedInv, SetError
  <2>2. CASE Root \notin nodes
    BY <1>17, <1>a, <2>2, OthersKeepStopped DEF RemoveTree
  <2> QED BY <2>1, <2>2
<1>18. CASE UNCHANGED vars
  BY <1>18, <1>a, OthersKeepStopped DEF vars
<1> QED
  BY <1>1, <1>2, <1>3, <1>4, <1>5, <1>7, <1>8, <1>9, <1>10, <1>11,
     <1>12, <1>13, <1>14, <1>15, <1>16, <1>17, <1>18 DEF Next, TaskStep

\* What "/stop" in reply to a message, or "/clear", reported as cancelled is
\* never shown as running or completed afterwards, as long as nobody issues the
\* global "/stop".
THEOREM StoppedStaysStopped ==
    ASSUME "stop_all" \notin Commands
    PROVE  Spec => []StoppedForGood
<1>1. Init => StoppedInv
  BY DEF Init, StoppedInv
<1>2. StoppedInv => StoppedForGood
  BY DEF StoppedInv, StoppedForGood
<1> QED
  BY <1>1, <1>2, TypeCorrect, QueueInvariant, SlotInvariant, NextKeepsStopped, PTL
     DEF Spec

------------------------------------------------------------------------------
(* The tree queue implements the serial queue.                             *)

Busy == Live \cup (IF isProcessing THEN {currentNode} ELSE {})

\* A step that keeps the busy node and only takes nodes out of the queue.
LEMMA StutterOrWithdraw ==
    ASSUME TypeOK, ticket' = ticket, queue' \subseteq queue, Busy' = Busy
    PROVE  [SQ!Next]_(SQ!svars)
  BY DEF SQ!Next, SQ!Withdraw, SQ!svars, Busy

LEMMA EnqueueSubmits ==
    ASSUME TypeOK, QueueInv, SlotInv, NEW n \in Node, NEW in, ticket[n] = 0,
           EnqueueAndStart(n, in), n \in in, nodes # {} \/ Live = {}
    PROVE  SQ!Submit(n)
<1>1. /\ ticket' = [ticket EXCEPT ![n] = ticket'[n]]
      /\ \A m \in Node : ticket[m] < ticket'[n]
  BY NextTicketType DEF EnqueueAndStart, QueueInv, TypeOK
<1>2. CASE isProcessing
  <2>1. Busy # {} /\ Busy' = Busy /\ queue' = queue \cup {n}
    BY <1>2 DEF EnqueueAndStart, slotVars, Busy, Live
  <2> QED BY <1>1, <2>1 DEF SQ!Submit, Busy
<1>3. CASE ~isProcessing
  <2>1. Busy = {}
    BY <1>3 DEF SlotInv, Live, Busy
  <2>2. Busy' = {n} /\ queue' = queue
    <3>1. Live = {}
      BY <2>1 DEF Busy
    <3>2. /\ queue' = queue /\ isProcessing' /\ currentNode' = n
          /\ task' = [task EXCEPT ![n] = "created"]
      BY <1>3 DEF EnqueueAndStart, StartTask
    <3>3. Live' = {n}
      BY <3>1, <3>2 DEF Live, TypeOK
    <3> QED BY <3>2, <3>3 DEF Busy
  <2> QED BY <1>1, <2>1, <2>2 DEF SQ!Submit, Busy
<1> QED BY <1>2, <1>3

LEMMA ProcessNextAdvances ==
    ASSUME TypeOK, QueueInv, SlotInv, NEW n \in Live,
           ProcessNext([task EXCEPT ![n] = "done"])
    PROVE  SQ!Advance
<1>1. Live = {n} /\ Busy # {}
  BY DEF SlotInv, OneAtATime, Busy
<1>2. ticket' = ticket
  BY DEF ProcessNext
<1>3. CASE queue = {}
  <2>1. queue' = queue /\ Busy' = {}
    BY <1>1, <1>3 DEF ProcessNext, Live, Busy, TypeOK
  <2> QED BY <1>1, <1>2, <1>3, <2>1 DEF SQ!Advance, Busy
<1>4. ASSUME NEW k \in queue, IsHead(k), queue' = queue \ {k},
             StartTask(k, nodes, [task EXCEPT ![n] = "done"])
      PROVE  SQ!Advance
  <2>1. Live' \subseteq {k}
    BY <1>1, <1>4 DEF StartTask, Live, TypeOK
  <2>2. Busy' = {k}
    BY <1>4, <2>1 DEF StartTask, Busy
  <2> QED BY <1>1, <1>2, <1>4, <2>2 DEF SQ!Advance, Busy, IsHead
<1> QED BY <1>3, <1>4 DEF ProcessNext

\* Without the global "/stop", every step of a conversation is a step of a
\* serial queue: requests are served one at a time and in order.
THEOREM ImplementsSerialQueue ==
    ASSUME "stop_all" \notin Commands
    PROVE  Spec => SerialSpec
<1>1. Init => SQ!Init
  BY DEF Init, SQ!Init, Live
<1>2. TypeOK /\ QueueInv /\ SlotInv /\ [Next]_vars => [SQ!Next]_(SQ!svars)
  <2> SUFFICES ASSUME TypeOK, QueueInv, SlotInv, [Next]_vars
               PROVE  [SQ!Next]_(SQ!svars)
    OBVIOUS
  <2> USE DEF treeVars, taskVars, queueVars, slotVars
  <2>1. CASE NewConversation
    <3>1. Live = {}
      BY <2>1 DEF NewConversation, SlotInv, Live
    <3> QED BY <2>1, <3>1, EnqueueSubmits DEF NewConversation, SQ!Next
  <2>2. ASSUME NEW n \in Node, NEW p \in Node, Reply(n, p)
        PROVE  [SQ!Next]_(SQ!svars)
    BY <2>2, EnqueueSubmits DEF Reply, SQ!Next
  <2>3. ASSUME NEW n \in Node, NeverRuns(n) PROVE [SQ!Next]_(SQ!svars)
    <3>1. Live = {n} /\ Live' = {}
      BY <2>3 DEF NeverRuns, SlotInv, OneAtATime, Live, TypeOK
    <3>2. CASE nodes # {}
      BY <2>3, <3>1, <3>2, StutterOrWithdraw DEF NeverRuns, SlotInv, Busy
    <3>3. CASE nodes = {}
      BY <2>3, <3>1, <3>3 DEF NeverRuns, SlotInv, SQ!Next, SQ!Advance
    <3> QED BY <3>2, <3>3
  <2>4. ASSUME NEW n \in Node, Skip(n) PROVE [SQ!Next]_(SQ!svars)
    BY <2>4, ProcessNextAdvances DEF Skip, Live, SQ!Next
  <2>5. ASSUME NEW n \in Node, Start(n) PROVE [SQ!Next]_(SQ!svars)
    BY <2>5, StutterOrWithdraw DEF Start, Busy, Live, TypeOK
  <2>6. ASSUME NEW n \in Node, NEW code \in {0, 1}, Exit(n, code)
        PROVE  [SQ!Next]_(SQ!svars)
    BY <2>6, StutterOrWithdraw DEF Exit, Running, Busy, Live, TypeOK
  <2>7. ASSUME NEW n \in Node, Raise(n) PROVE [SQ!Next]_(SQ!svars)
    BY <2>7, StutterOrWithdraw DEF Raise, Running, Busy, Live, TypeOK
  <2>8. ASSUME NEW n \in Node, Cancelled(n) PROVE [SQ!Next]_(SQ!svars)
    BY <2>8, StutterOrWithdraw DEF Cancelled, Busy, Live, TypeOK
  <2>9. ASSUME NEW n \in Node, Finish(n) PROVE [SQ!Next]_(SQ!svars)
    BY <2>9, ProcessNextAdvances DEF Finish, Live, SQ!Next
  <2>10. ASSUME NEW n \in Node, SessionInfo(n) \/ ErrorEvent(n) \/ StopNode(n)
         PROVE  [SQ!Next]_(SQ!svars)
    BY <2>10, StutterOrWithdraw DEF SessionInfo, ErrorEvent, StopNode, Busy, Live
  <2>11. ASSUME NEW b \in Node, ClearBranch(b) \/ RemoveBranch(b)
         PROVE  [SQ!Next]_(SQ!svars)
    BY <2>11, StutterOrWithdraw DEF ClearBranch, RemoveBranch, Busy, Live
  <2>12. CASE StopAll
    BY <2>12 DEF StopAll
  <2>13. CASE RemoveTree
    <3>1. CASE Root \in nodes
      <4>1. ticket' = ticket /\ queue' = {} /\ Busy' = Live
        BY <2>13, <3>1 DEF RemoveTree, CancelTree, Busy, Live
      <4>2. Live = {} \/ Live = Busy
        BY <3>1 DEF SlotInv, Busy
      <4> QED BY <4>1, <4>2 DEF SQ!Next, SQ!Close, Busy
    <3>2. CASE Root \notin nodes
      BY <2>13, <3>2, StutterOrWithdraw DEF RemoveTree, Busy, Live
    <3> QED BY <3>1, <3>2
  <2>14. CASE UNCHANGED vars
    BY <2>14, StutterOrWithdraw DEF vars, Busy, Live
  <2> QED
    BY <2>1, <2>2, <2>3, <2>4, <2>5, <2>6, <2>7, <2>8, <2>9, <2>10, <2>11,
       <2>12, <2>13, <2>14 DEF Next, TaskStep
<1> QED
  BY <1>1, <1>2, TypeCorrect, QueueInvariant, SlotInvariant, PTL
     DEF Spec, SerialSpec, SQ!Spec

USE ConversationAssumption

------------------------------------------------------------------------------
(* The conversation: type correctness.                                     *)

\* What a save leaves in the store.
LEMMA SaveFacts ==
    ASSUME NEW map, Save(map), map \subseteq Node, nodes' \subseteq Node,
           session' \subseteq Node, state' \in [Node -> MessageState]
    PROVE  /\ store' \in StoreState
           /\ InStore' = nodes'
           /\ store'.session = session' \cap nodes'
           /\ store'.map = map \cup nodes'
           /\ \A n \in nodes' : store'.tree[n] = state'[n]
<1>1. "absent" \notin MessageState
  BY DEF MessageState
<1>2. store'.tree = [n \in Node |-> IF n \in nodes' THEN state'[n] ELSE "absent"]
  BY DEF Save
<1>3. store'.tree \in [Node -> MessageState \cup {"absent"}]
  BY <1>2
<1>4. InStore' = nodes'
  BY <1>1, <1>2 DEF InStore
<1> QED BY <1>2, <1>3, <1>4 DEF Save, StoreState

LEMMA StoreParts ==
    ConversationTypeOK => /\ store.map \subseteq Node /\ store.session \subseteq Node
                          /\ store.tree \in [Node -> MessageState \cup {"absent"}]
                          /\ InStore \subseteq Node
  BY DEF ConversationTypeOK, StoreState, InStore

LEMMA SaveIfType ==
    ASSUME ConversationTypeOK, NEW c, SaveIf(c), nodes' \subseteq Node,
           session' \subseteq Node, state' \in [Node -> MessageState]
    PROVE  store' \in StoreState
<1>1. CASE c
  BY <1>1, SaveFacts, StoreParts DEF SaveIf
<1>2. CASE ~c
  BY <1>2 DEF SaveIf, ConversationTypeOK
<1> QED BY <1>1, <1>2

LEMMA CancelTreeType ==
    ASSUME TypeOK, CancelTree, nodes' \subseteq Node, clearing' \subseteq Node
    PROVE  TypeOK'
<1>1. cancelReq' \subseteq Node /\ state' \in [Node -> MessageState]
  BY StateHelpersType, CancelCurrentType DEF CancelTree
<1>2. stopped' \subseteq Node /\ CancelledByTree \subseteq Node
  BY DEF CancelTree, CancelledByTree, TypeOK
<1> QED BY <1>1, <1>2 DEF CancelTree, TypeOK, queueVars

LEMMA EmptyStoreType == EmptyStore \in StoreState
  BY DEF EmptyStore, StoreState

LEMMA ConversationInitType == ConversationInit => ConversationTypeOK
<1> SUFFICES ASSUME ConversationInit PROVE ConversationTypeOK
  OBVIOUS
<1>1. TypeOK
  BY InitType DEF ConversationInit
<1>2. call \in [Node -> CallState] /\ found \in [Node -> Node \cup {NoNode}]
  BY DEF ConversationInit, CallState
<1>3. store \in StoreState /\ global \in GlobalState
  BY EmptyStoreType DEF ConversationInit, GlobalState
<1>4. commands \in 0..MaxCommands /\ restarts \in 0..MaxRestarts
  BY DEF ConversationInit
<1>5. statusIds \in [manager : SUBSET Node, store : SUBSET Node]
  BY DEF ConversationInit
<1> QED BY <1>1, <1>2, <1>3, <1>4, <1>5 DEF ConversationInit, ConversationTypeOK

\* Where the handling of a message is said to be changes to a known place.
LEMMA CallTypes ==
    ASSUME ConversationTypeOK, NEW m \in Node
    PROVE  /\ Over(m) => call' \in [Node -> CallState] /\ found' \in [Node -> Node \cup {NoNode}]
           /\ \A c \in CallState : Begun(m, c) =>
                 call' \in [Node -> CallState] /\ found' \in [Node -> Node \cup {NoNode}]
  BY DEF Over, Begun, Targets, ConversationTypeOK, CallState

LEMMA FailNodeType ==
    TypeOK => \A n : FailNode(n) \in [Node -> MessageState]
  BY StateHelpersType DEF FailNode, TypeOK

LEMMA EnterType ==
    ASSUME ConversationTypeOK, NEW m \in Node, call[m] = "sending", Enter(m)
    PROVE  /\ TypeOK' /\ mapped' \subseteq Node /\ store' \in StoreState /\ late' \in BOOLEAN
           /\ statusIds' \in [manager : SUBSET Node, store : SUBSET Node]
<1>1. TypeOK'
  <2>1. NewConversation \/ \E p \in Node : Reply(m, p)
    BY DEF Enter, ConversationTypeOK
  <2> QED BY <2>1, NextType DEF Next, ConversationTypeOK
<1>2. nodes' \subseteq Node /\ session' \subseteq Node /\ state' \in [Node -> MessageState]
  BY <1>1 DEF TypeOK
<1>3. statusIds' \in [manager : SUBSET Node, store : SUBSET Node]
  BY DEF Enter, ConversationTypeOK
<1> QED BY <1>1, <1>2, <1>3, SaveFacts, StoreParts DEF Enter, ConversationTypeOK

LEMMA RunStepType ==
    ASSUME ConversationTypeOK, NEW n \in Node, RunStep(n)
    PROVE  ConversationTypeOK'
<1> USE DEF runFrame, boundVars
<1> TypeOK
  BY DEF ConversationTypeOK
<1>1. CASE Begin(n)
  <2>1. TypeOK'
    BY <1>1, StateHelpersType DEF Begin, TypeOK, TaskState, MessageState, queueVars, slotVars
  <2> QED BY <1>1, <2>1 DEF Begin, ConversationTypeOK
<1>2. CASE Refused(n)
  <2>1. TypeOK'
    BY <1>2, StateHelpersType DEF Refused, TypeOK, TaskState, MessageState, queueVars, slotVars
  <2> QED BY <1>2, <2>1 DEF Refused, ConversationTypeOK
<1>3. CASE SessionSeen(n)
  <2>1. TypeOK'
    BY <1>3, StateHelpersType
    DEF SessionSeen, TypeOK, MessageState, queueVars, slotVars, taskVars
  <2>2. store' \in StoreState
    BY <1>3, <2>1, SaveIfType DEF SessionSeen, TypeOK
  <2> QED BY <1>3, <2>1, <2>2 DEF SessionSeen, ConversationTypeOK
<1>4. CASE ErrorShown(n)
  <2>1. TypeOK'
    BY <1>4, FailNodeType DEF ErrorShown, TypeOK, queueVars, slotVars, taskVars
  <2> QED BY <1>4, <2>1 DEF ErrorShown, ConversationTypeOK
<1>5. ASSUME NEW code \in {0, 1}, Ends(n, code) PROVE ConversationTypeOK'
  <2>1. state' \in [Node -> MessageState]
    BY <1>5, FailNodeType DEF Ends, TypeOK, MessageState
  <2>2. TypeOK'
    BY <1>5, <2>1 DEF Ends, TypeOK, TaskState, queueVars, slotVars
  <2>3. store' \in StoreState
    BY <1>5, <2>2, SaveIfType DEF Ends, TypeOK
  <2> QED BY <1>5, <2>2, <2>3 DEF Ends, ConversationTypeOK
<1>6. CASE Raises(n)
  <2>1. TypeOK'
    BY <1>6, FailNodeType DEF Raises, TypeOK, TaskState, queueVars, slotVars
  <2> QED BY <1>6, <2>1 DEF Raises, ConversationTypeOK
<1>7. CASE Interrupted(n)
  <2>1. TypeOK'
    BY <1>7, StateHelpersType
    DEF Interrupted, TypeOK, TaskState, MessageState, queueVars, slotVars
  <2> QED BY <1>7, <2>1 DEF Interrupted, ConversationTypeOK
<1>8. CASE TreeOnly(n)
  <2>1. TypeOK'
    BY <1>8, NextType DEF TreeOnly, Next, TaskStep
  <2> QED BY <1>8, <2>1 DEF TreeOnly, ConversationTypeOK
<1> QED BY <1>1, <1>2, <1>3, <1>4, <1>5, <1>6, <1>7, <1>8 DEF RunStep

LEMMA CommandType ==
    ASSUME ConversationTypeOK, NEW m \in Node,
           StopReply(m) \/ CancelVoice(m) \/ ClearReply(m) \/ RemoveCleared(m)
    PROVE  ConversationTypeOK'
<1> USE DEF cmdFrame, boundVars
<1> TypeOK
  BY DEF ConversationTypeOK
<1>1. CASE StopReply(m)
  <2>1. TypeOK'
    BY <1>1, NextType DEF StopReply, Next
  <2>2. store' \in StoreState
    BY <1>1, <2>1, SaveFacts, StoreParts DEF StopReply, TypeOK
  <2> QED BY <1>1, <2>1, <2>2 DEF StopReply, NewCommand, ConversationTypeOK
<1>2. CASE CancelVoice(m)
  <2>1. TypeOK'
    BY <1>2, NextType DEF CancelVoice
  <2> QED BY <1>2, <2>1 DEF CancelVoice, ConversationTypeOK
<1>3. CASE ClearReply(m)
  <2>1. TypeOK'
    BY <1>3, NextType DEF ClearReply, Next
  <2>2. store' \in StoreState
    BY <1>3, <2>1, SaveIfType DEF ClearReply, TypeOK
  <2> QED BY <1>3, <2>1, <2>2 DEF ClearReply, NewCommand, ConversationTypeOK
<1>4. CASE RemoveCleared(m)
  <2>1. CASE m \in mapped
    <3>1. TypeOK' /\ get_descendants(m) \subseteq Node
      BY <1>4, <2>1, NextType DEF RemoveCleared, Next, get_descendants, Closure, TypeOK
    <3>2. store' \in StoreState
      BY <1>4, <2>1, <3>1, SaveFacts, StoreParts DEF RemoveCleared, TypeOK
    <3> QED BY <1>4, <2>1, <3>1, <3>2 DEF RemoveCleared, ConversationTypeOK
  <2>2. CASE m \notin mapped
    <3>1. TypeOK'
      BY <1>4, <2>2
      DEF RemoveCleared, TypeOK, treeVars, queueVars, slotVars, taskVars
    <3> QED BY <1>4, <2>2, <3>1 DEF RemoveCleared, ConversationTypeOK
  <2> QED BY <2>1, <2>2
<1> QED BY <1>1, <1>2, <1>3, <1>4

LEMMA GlobalType ==
    ASSUME ConversationTypeOK,
           ForgetCleared \/ GlobalCancel \/ GlobalStopped \/ GlobalCleared
    PROVE  ConversationTypeOK'
<1> USE DEF cmdFrame, globalFrame, boundVars
<1> TypeOK
  BY DEF ConversationTypeOK
<1>1. CASE ForgetCleared
  <2>1. TypeOK'
    <3>1. CASE Root \in mapped
      BY <1>1, <3>1, CancelTreeType DEF ForgetCleared, TypeOK
    <3>2. CASE Root \notin mapped
      BY <1>1, <3>2
      DEF ForgetCleared, TypeOK, treeVars, queueVars, slotVars, taskVars
    <3> QED BY <3>1, <3>2
  <2>2. mapped' \subseteq Node /\ cleared' \subseteq Node
    BY <1>1 DEF ForgetCleared, ConversationTypeOK, TypeOK
  <2>3. store' \in StoreState
    BY <1>1, StoreParts, EmptyStoreType DEF ForgetCleared, EmptyStore, StoreState, ConversationTypeOK
  <2> QED BY <1>1, <2>1, <2>2, <2>3 DEF ForgetCleared, ConversationTypeOK
<1>2. CASE GlobalCancel
  <2>1. TypeOK' /\ told' \subseteq Node
    <3>1. CASE Root \in mapped
      BY <1>2, <3>1, CancelTreeType DEF GlobalCancel, CancelledByTree, TypeOK
    <3>2. CASE Root \notin mapped
      BY <1>2, <3>2, NextType DEF GlobalCancel, ConversationTypeOK
    <3> QED BY <3>1, <3>2
  <2> QED BY <1>2, <2>1 DEF GlobalCancel, NewCommand, GlobalState, ConversationTypeOK
<1>3. CASE GlobalStopped
  <2>1. TypeOK'
    BY <1>3, NextType DEF GlobalStopped
  <2>2. store' \in StoreState
    BY <1>3, <2>1, SaveIfType DEF GlobalStopped, TypeOK
  <2> QED BY <1>3, <2>1, <2>2 DEF GlobalStopped, GlobalState, ConversationTypeOK
<1>4. CASE GlobalCleared
  <2>1. TypeOK'
    BY <1>4, NextType DEF GlobalCleared
  <2>2. statusIds' \in [manager : SUBSET Node, store : SUBSET Node]
    BY <1>4 DEF GlobalCleared
  <2> QED
    BY <1>4, <2>1, <2>2, EmptyStoreType DEF GlobalCleared, GlobalState, ConversationTypeOK
<1> QED BY <1>1, <1>2, <1>3, <1>4

LEMMA RestartType == ConversationTypeOK /\ Restart => ConversationTypeOK'
<1> SUFFICES ASSUME ConversationTypeOK, Restart PROVE ConversationTypeOK'
  OBVIOUS
<1>1. state' \in [Node -> MessageState]
  BY StoreParts DEF Restart, Restored, ConversationTypeOK, TypeOK, MessageState
<1>2. TypeOK'
  BY <1>1, StoreParts DEF Restart, ConversationTypeOK, TypeOK, TaskState
<1>3. mapped' \subseteq Node
  BY StoreParts DEF Restart
<1>4. store' \in StoreState
  <2>1. CASE \E n \in InStore : store.tree[n] \notin Terminal
    BY <1>2, <1>3, <2>1, SaveFacts DEF Restart, TypeOK
  <2>2. CASE ~ \E n \in InStore : store.tree[n] \notin Terminal
    BY <2>2 DEF Restart, ConversationTypeOK
  <2> QED BY <2>1, <2>2
<1>5. call' \in [Node -> CallState] /\ found' \in [Node -> Node \cup {NoNode}]
  BY DEF Restart, ConversationTypeOK, CallState
<1>6. statusIds' \in [manager : SUBSET Node, store : SUBSET Node]
  BY DEF Restart, ConversationTypeOK
<1> QED
  BY <1>2, <1>3, <1>4, <1>5, <1>6 DEF Restart, ConversationTypeOK, GlobalState, boundVars

LEMMA ConversationNextType ==
    ConversationTypeOK /\ [ConversationNext]_allVars => ConversationTypeOK'
<1> SUFFICES ASSUME ConversationTypeOK, [ConversationNext]_allVars
             PROVE  ConversationTypeOK'
  OBVIOUS
<1> USE DEF boundVars
<1> TypeOK
  BY DEF ConversationTypeOK
<1>1. ASSUME NEW m \in Node, Receive(m) PROVE ConversationTypeOK'
  <2>1. TypeOK'
    BY <1>1, NextType DEF Receive
  <2> QED BY <1>1, <2>1, CallTypes DEF Receive, CallState, ConversationTypeOK
<1>2. ASSUME NEW m \in Node, Record(m) PROVE ConversationTypeOK'
  <2>1. TypeOK'
    BY <1>2, NextType DEF Record
  <2> QED BY <1>2, <2>1, CallTypes DEF Record, CallState, ConversationTypeOK
<1>3. ASSUME NEW m \in Node, Transcribed(m) PROVE ConversationTypeOK'
  <2>1. TypeOK'
    BY <1>3, NextType DEF Transcribed
  <2>2. call' \in [Node -> CallState] /\ found' \in [Node -> Node \cup {NoNode}]
    BY <1>3, CallTypes DEF Transcribed, CallState, ConversationTypeOK
  <2> QED BY <1>3, <2>1, <2>2 DEF Transcribed, ConversationTypeOK
<1>4. ASSUME NEW m \in Node, CallFails(m) PROVE ConversationTypeOK'
  <2>1. TypeOK'
    BY <1>4, NextType DEF CallFails
  <2> QED BY <1>4, <2>1, CallTypes DEF CallFails, ConversationTypeOK
<1>5. ASSUME NEW m \in Node, Join(m) PROVE ConversationTypeOK'
  <2>1. CASE Known(found[m])
    BY <1>5, <2>1, EnterType, CallTypes DEF Join, ConversationTypeOK
  <2>2. CASE ~Known(found[m])
    <3>1. TypeOK'
      BY <1>5, <2>2, NextType DEF Join
    <3> QED BY <1>5, <2>2, <3>1, CallTypes DEF Join, ConversationTypeOK
  <2> QED BY <2>1, <2>2
<1>6. CASE UNCHANGED allVars
  <2>1. TypeOK'
    BY <1>6, NextType DEF allVars
  <2> QED BY <1>6, <2>1 DEF allVars, convVars, ConversationTypeOK
<1> QED
  BY <1>1, <1>2, <1>3, <1>4, <1>5, <1>6, RunStepType, CommandType, GlobalType, RestartType
  DEF ConversationNext

\* Every variable of a conversation, of its store and of the calls on their way keeps its
\* type, whatever commands are issued and however often it is restarted.
THEOREM ConversationTypes == ConversationSpec => []ConversationTypeOK
  BY ConversationInitType, ConversationNextType, PTL DEF ConversationSpec

------------------------------------------------------------------------------
(* Voice notes.                                                            *)

\* What most steps do: nothing is submitted, nothing starts but what was submitted.
StartsNothingNew ==
    /\ ticket' = ticket /\ queue' \subseteq queue
    /\ \A n \in Node : ticket[n] = 0 => task'[n] = "none"

LEMMA ProcessNextStartsNothingNew ==
    ASSUME TypeOK, CallInv, NEW n \in Node, task[n] # "none",
           ProcessNext([task EXCEPT ![n] = "done"])
    PROVE  StartsNothingNew
<1>1. ticket' = ticket /\ queue' \subseteq queue
  BY DEF ProcessNext
<1>2. ASSUME NEW k \in Node, ticket[k] = 0 PROVE task'[k] = "none"
  <2>1. k # n /\ task[k] = "none" /\ k \notin queue
    BY <1>2 DEF CallInv
  <2> QED BY <2>1 DEF ProcessNext, StartTask, TypeOK
<1> QED BY <1>1, <1>2 DEF StartsNothingNew

\* The steps of runs, of commands and of a restart.
LEMMA OthersStartNothingNew ==
    ASSUME ConversationTypeOK, CallInv,
           \/ \E n \in Node : RunStep(n) \/ StopReply(n) \/ ClearReply(n) \/ RemoveCleared(n)
           \/ ForgetCleared \/ GlobalCancel \/ GlobalStopped \/ GlobalCleared \/ Restart
    PROVE  StartsNothingNew
<1> USE DEF treeVars, queueVars, slotVars, taskVars
<1> TypeOK
  BY DEF ConversationTypeOK
<1>0. ASSUME UNCHANGED <<queue, ticket, task>> PROVE StartsNothingNew
  BY <1>0 DEF StartsNothingNew, CallInv
<1>1. ASSUME NEW n \in Node, TreeOnly(n) PROVE StartsNothingNew
  <2>1. CASE NeverRuns(n)
    BY <2>1 DEF NeverRuns, StartsNothingNew, CallInv, TypeOK
  <2>2. CASE Skip(n)
    BY <2>2, ProcessNextStartsNothingNew DEF Skip
  <2>3. CASE Finish(n)
    BY <2>3, ProcessNextStartsNothingNew DEF Finish
  <2> QED BY <1>1, <2>1, <2>2, <2>3 DEF TreeOnly
<1>2. ASSUME NEW n \in Node, NEW code \in {0, 1},
             Begin(n) \/ Refused(n) \/ Ends(n, code) \/ Raises(n) \/ Interrupted(n)
      PROVE  StartsNothingNew
  <2>1. ticket' = ticket /\ queue' = queue /\ task[n] # "none"
        /\ \A k \in Node \ {n} : task'[k] = task[k]
    BY <1>2 DEF Begin, Refused, Ends, Raises, Interrupted, Running, TypeOK
  <2> QED BY <2>1 DEF StartsNothingNew, CallInv
<1>3. ASSUME NEW n \in Node, SessionSeen(n) \/ ErrorShown(n) PROVE StartsNothingNew
  BY <1>0, <1>3 DEF SessionSeen, ErrorShown
<1>4. ASSUME NEW n \in Node, StopReply(n) \/ ClearReply(n) PROVE StartsNothingNew
  <2>1. ticket' = ticket /\ queue' \subseteq queue /\ task' = task
    BY <1>4 DEF StopReply, StopNode, ClearReply, ClearBranch
  <2> QED BY <2>1 DEF StartsNothingNew, CallInv
<1>5. ASSUME NEW n \in Node, RemoveCleared(n) PROVE StartsNothingNew
  BY <1>0, <1>5 DEF RemoveCleared, RemoveBranch
<1>6. CASE ForgetCleared \/ GlobalCancel
  <2>1. ticket' = ticket /\ queue' \subseteq queue /\ task' = task
    BY <1>6 DEF ForgetCleared, GlobalCancel, CancelTree, vars
  <2> QED BY <2>1 DEF StartsNothingNew, CallInv
<1>7. CASE GlobalStopped \/ GlobalCleared
  BY <1>0, <1>7 DEF GlobalStopped, GlobalCleared, vars
<1>8. CASE Restart
  BY <1>8 DEF Restart, StartsNothingNew
<1> QED BY <1>1, <1>2, <1>3, <1>4, <1>5, <1>6, <1>7, <1>8 DEF RunStep

LEMMA CallInit == ConversationInit => CallInv
  BY DEF ConversationInit, Init, CallInv

LEMMA CallNext ==
    ConversationTypeOK /\ CallInv /\ [ConversationNext]_allVars => CallInv'
<1> SUFFICES ASSUME ConversationTypeOK, CallInv, [ConversationNext]_allVars
             PROVE  CallInv'
  OBVIOUS
<1> USE DEF queueVars, taskVars
<1> /\ TypeOK /\ call \in [Node -> CallState] /\ found \in [Node -> Node \cup {NoNode}]
    /\ mapped \subseteq Node /\ pending \subseteq Node /\ revoked \subseteq Node
  BY DEF ConversationTypeOK
<1>0. ASSUME StartsNothingNew, UNCHANGED <<call, found, pending, revoked>> PROVE CallInv'
  BY <1>0 DEF StartsNothingNew, CallInv
<1>1. ASSUME NEW m \in Node, Receive(m) \/ Record(m) PROVE CallInv'
  <2>1. UNCHANGED <<queue, ticket, task, revoked>> /\ pending' \subseteq pending \cup {m}
    BY <1>1 DEF Receive, Record, vars
  <2>2. /\ call[m] = "none" /\ m \notin revoked \cup pending /\ ticket[m] = 0
        /\ \A n \in Node \ {m} : call'[n] = call[n] /\ found'[n] = found[n]
        /\ found'[m] = NoNode => m = Root
    BY <1>1 DEF Receive, Record, Begun, Targets, CallInv
  <2>3. \/ call'[m] = "sending" /\ pending' = pending
        \/ call'[m] = "transcribing"
    BY <1>1 DEF Receive, Record, Begun
  <2> QED BY <2>1, <2>2, <2>3 DEF CallInv
<1>2. ASSUME NEW m \in Node, Transcribed(m) PROVE CallInv'
  <2>1. UNCHANGED <<queue, ticket, task, revoked>> /\ pending' = pending \ {m}
    BY <1>2 DEF Transcribed, vars
  <2>2. /\ \/ m \in pending /\ call'[m] = "sending" /\ found' = found
           \/ call'[m] = "over"
        /\ \A n \in Node \ {m} : call'[n] = call[n] /\ found'[n] = found[n]
    BY <1>2 DEF Transcribed, Over
  <2>3. call[m] = "transcribing" /\ ticket[m] = 0 /\ m \notin pending'
    BY <1>2, <2>1 DEF Transcribed, CallInv
  <2> QED BY <2>1, <2>2, <2>3 DEF CallInv
<1>3. ASSUME NEW m \in Node, CallFails(m) PROVE CallInv'
  BY <1>3 DEF CallFails, Over, CallInv, vars
<1>4. ASSUME NEW m \in Node, Join(m) PROVE CallInv'
  <2>1. call[m] = "sending" /\ call' = [call EXCEPT ![m] = "over"]
        /\ UNCHANGED <<pending, revoked>>
    BY <1>4 DEF Join, Over
  <2>2. m \notin revoked \cup pending
    BY <2>1 DEF CallInv
  <2>3. CASE Known(found[m])
    <3>1. ticket[m] = 0
      BY <2>1 DEF CallInv
    <3>2. /\ ticket' = [ticket EXCEPT ![m] = NextTicket]
          /\ queue' \subseteq queue \cup {m}
          /\ \A n \in Node \ {m} : task'[n] = task[n]
      BY <1>4, <2>1, <2>3
      DEF CallInv, Join, Enter, NewConversation, Reply, EnqueueAndStart, StartTask, TypeOK
    <3>3. found' = [found EXCEPT ![m] = NoNode]
      BY <1>4 DEF Join, Over
    <3> QED BY <2>1, <2>2, <3>2, <3>3, NextTicketType DEF CallInv, TypeOK
  <2>4. CASE ~Known(found[m])
    BY <1>4, <2>1, <2>2, <2>4 DEF Join, Over, CallInv, vars
  <2> QED BY <2>3, <2>4
<1>5. ASSUME NEW m \in Node, CancelVoice(m) PROVE CallInv'
  BY <1>5 DEF CancelVoice, CallInv, vars
<1>6. CASE Restart
  <2>1. StartsNothingNew
    BY <1>6, OthersStartNothingNew
  <2>2. pending' = {} /\ revoked' = revoked
    BY <1>6 DEF Restart
  <2>3. \A m \in Node : /\ call'[m] \notin {"transcribing", "sending"}
                        /\ call'[m] # "over" => call[m] # "over"
                        /\ call[m] \in {"transcribing", "over"} => call'[m] = "over"
    BY <1>6 DEF Restart
  <2> QED BY <2>1, <2>2, <2>3 DEF StartsNothingNew, CallInv
<1>7. ASSUME NEW n \in Node, RunStep(n) PROVE CallInv'
  <2>1. UNCHANGED <<call, found, pending, revoked>>
    BY <1>7
    DEF RunStep, Begin, Refused, SessionSeen, ErrorShown, Ends, Raises, Interrupted,
        TreeOnly, runFrame
  <2> QED BY <1>0, <1>7, <2>1, OthersStartNothingNew
<1>8. ASSUME NEW n \in Node, StopReply(n) \/ ClearReply(n) \/ RemoveCleared(n) PROVE CallInv'
  <2>1. UNCHANGED <<call, found, pending, revoked>>
    BY <1>8 DEF StopReply, ClearReply, RemoveCleared, cmdFrame
  <2> QED BY <1>0, <1>8, <2>1, OthersStartNothingNew
<1>9. CASE ForgetCleared \/ GlobalCancel \/ GlobalStopped \/ GlobalCleared
  <2>1. UNCHANGED <<call, found, pending, revoked>>
    BY <1>9 DEF ForgetCleared, GlobalCancel, GlobalStopped, GlobalCleared, cmdFrame, globalFrame
  <2> QED BY <1>0, <1>9, <2>1, OthersStartNothingNew
<1>10. CASE UNCHANGED allVars
  BY <1>10 DEF allVars, vars, convVars, CallInv
<1> QED
  BY <1>1, <1>2, <1>3, <1>4, <1>5, <1>6, <1>7, <1>8, <1>9, <1>10 DEF ConversationNext

\* A voice note whose cancellation was confirmed is never run, however the transcription,
\* the "/clear" and a restart interleave (_on_telegram_voice, _handle_voice_note).
THEOREM CancelledVoicesNeverRun == ConversationSpec => []CancelledVoiceNeverRuns
<1>1. CallInv /\ ConversationTypeOK => CancelledVoiceNeverRuns
  BY DEF CallInv, CancelledVoiceNeverRuns, ConversationTypeOK
<1> QED
  BY <1>1, ConversationTypes, CallInit, CallNext, PTL DEF ConversationSpec

------------------------------------------------------------------------------
(* The tree, its mapping and the store.                                    *)

\* Most steps leave the shape of the tree alone, whether or not they save it.
SameShape ==
    /\ UNCHANGED <<nodes, parent, ticket, mapped, statusIds, cleared>>
    /\ store' = store \/ Save(store.map)

LEMMA SameShapeKeepsMapping ==
    ASSUME ConversationTypeOK, ConversationTypeOK', MappingInv, SameShape
    PROVE  MappingInv'
<1>1. CASE store' = store
  BY <1>1 DEF SameShape, MappingInv, InStore
<1>2. CASE Save(store.map)
  <2>1. InStore' = nodes' /\ store'.map = store.map \cup nodes'
    BY <1>2, SaveFacts, StoreParts DEF ConversationTypeOK, TypeOK
  <2>2. store.map \subseteq nodes
    BY DEF MappingInv
  <2>3. store'.map = InStore'
    BY <2>1, <2>2 DEF SameShape
  <2> QED BY <2>1, <2>3 DEF SameShape, MappingInv
<1> QED BY <1>1, <1>2 DEF SameShape

LEMMA SameShapeKeepsStatus ==
    ASSUME ConversationTypeOK, ConversationTypeOK', MappingInv, StatusInv, SameShape
    PROVE  StatusInv'
<1>1. CASE store' = store
  BY <1>1 DEF SameShape, StatusInv, InStore
<1>2. CASE Save(store.map)
  <2>1. InStore' = nodes
    BY <1>2, SaveFacts, StoreParts DEF ConversationTypeOK, TypeOK, SameShape
  <2>2. InStore \subseteq nodes /\ (Root \in mapped => InStore = nodes)
    BY DEF MappingInv
  <2> QED BY <2>1, <2>2 DEF SameShape, StatusInv
<1> QED BY <1>1, <1>2 DEF SameShape

LEMMA RunStepKeepsShape ==
    ASSUME NEW n \in Node, RunStep(n)
    PROVE  SameShape
<1> USE DEF runFrame, boundVars, queueVars
<1>1. CASE SessionSeen(n)
  BY <1>1 DEF SessionSeen, SaveIf, SameShape
<1>2. ASSUME NEW code \in {0, 1}, Ends(n, code) PROVE SameShape
  BY <1>2 DEF Ends, SaveIf, SameShape
<1>3. CASE TreeOnly(n)
  BY <1>3 DEF TreeOnly, NeverRuns, Skip, Finish, ProcessNext, treeVars, SameShape
<1>4. CASE Begin(n) \/ Refused(n) \/ ErrorShown(n) \/ Raises(n) \/ Interrupted(n)
  BY <1>4 DEF Begin, Refused, ErrorShown, Raises, Interrupted, SameShape
<1> QED BY <1>1, <1>2, <1>3, <1>4 DEF RunStep

LEMMA MappingInit == ConversationInit => MappingInv
  BY DEF ConversationInit, Init, MappingInv, EmptyStore, InStore

LEMMA EnterKeepsMapping ==
    ASSUME ConversationTypeOK, ConversationTypeOK', CallInv, MappingInv,
           NEW m \in Node, call[m] = "sending", Known(found[m]), Enter(m)
    PROVE  MappingInv'
<1>1. /\ InStore' = nodes' /\ store'.map = store.map \cup nodes'
  BY SaveFacts, StoreParts DEF Enter, ConversationTypeOK, TypeOK
<1>2. /\ ticket'[m] # 0 /\ \A n \in Node : ticket[n] # 0 => ticket'[n] # 0
  BY NextTicketType
  DEF Enter, NewConversation, Reply, EnqueueAndStart, CallInv, ConversationTypeOK, TypeOK
<1>3. CASE found[m] = NoNode
  <2>1. m = Root /\ ticket[Root] = 0
    BY <1>3 DEF CallInv
  <2>2. nodes = {} /\ mapped = {} /\ store.map = {}
    BY <2>1 DEF MappingInv
  <2>3. nodes' = {Root} /\ mapped' = {Root} /\ parent' = parent
    BY <1>3, <2>1, <2>2 DEF Enter, NewConversation
  <2> QED BY <1>1, <1>2, <2>1, <2>2, <2>3 DEF MappingInv
<1>4. CASE found[m] # NoNode
  <2>1. Reply(m, found[m])
    BY <1>4 DEF Enter
  <2>2. Root \in mapped /\ mapped = nodes /\ store.map = nodes /\ nodes \subseteq Node
    BY <1>4 DEF Known, MappingInv, ConversationTypeOK, TypeOK
  <2>3. nodes' = nodes \cup {m} /\ mapped' = mapped \cup {m} /\ parent'[Root] = NoNode
    BY <2>1 DEF Enter, Reply, MappingInv, ConversationTypeOK, TypeOK
  <2> QED BY <1>1, <1>2, <2>2, <2>3 DEF MappingInv
<1> QED BY <1>3, <1>4

LEMMA RemoveKeepsMapping ==
    ASSUME ConversationTypeOK, ConversationTypeOK', MappingInv,
           NEW b \in Node, RemoveCleared(b)
    PROVE  MappingInv'
<1>1. CASE b \in mapped
  <2>1. Root \in mapped /\ mapped = nodes /\ store.map = nodes /\ nodes \subseteq Node
    BY <1>1 DEF MappingInv, ConversationTypeOK, TypeOK
  <2>2. b # Root /\ Root \notin get_descendants(b)
    BY <1>1, <2>1, RootStays DEF RemoveCleared, MappingInv, ConversationTypeOK
  <2>3. nodes' = nodes \ get_descendants(b) /\ mapped' = nodes'
        /\ parent' = parent /\ ticket' = ticket
    BY <1>1, <2>1 DEF RemoveCleared, RemoveBranch, queueVars
  <2>4. Save(nodes') /\ nodes' \subseteq Node
    BY <1>1, <2>1, <2>3 DEF RemoveCleared
  <2>5. InStore' = nodes' /\ store'.map = nodes'
    <3>1. session' \subseteq Node /\ state' \in [Node -> MessageState]
      BY DEF ConversationTypeOK, TypeOK
    <3>2. InStore' = nodes' /\ store'.map = nodes' \cup nodes'
      BY <2>4, <3>1, SaveFacts
    <3> QED BY <3>2
  <2> QED BY <2>1, <2>2, <2>3, <2>5 DEF MappingInv
<1>2. CASE b \notin mapped
  BY <1>2, SameShapeKeepsMapping DEF RemoveCleared, SameShape, treeVars, queueVars, cmdFrame
<1> QED BY <1>1, <1>2

LEMMA RestartKeepsMapping ==
    ASSUME ConversationTypeOK, ConversationTypeOK', MappingInv, Restart
    PROVE  MappingInv'
<1>1. nodes' = InStore /\ parent' = parent /\ ticket' = ticket /\ mapped' = InStore
  BY DEF Restart, MappingInv
<1>2. InStore' = InStore /\ store'.map = InStore
  <2>1. CASE store' = store
    BY <2>1 DEF InStore, MappingInv
  <2>2. CASE Save(mapped')
    <3>1. /\ mapped' \subseteq Node /\ nodes' \subseteq Node
          /\ session' \subseteq Node /\ state' \in [Node -> MessageState]
      BY DEF ConversationTypeOK, TypeOK
    <3>2. InStore' = nodes' /\ store'.map = mapped' \cup nodes'
      BY <2>2, <3>1, SaveFacts
    <3> QED BY <1>1, <3>2
  <2> QED BY <2>1, <2>2 DEF Restart
<1>3. InStore # {} => Root \in InStore /\ \A n \in InStore : ticket[n] # 0
  BY DEF MappingInv
<1> QED BY <1>1, <1>2, <1>3 DEF MappingInv

LEMMA ForgetKeepsMapping ==
    ASSUME ConversationTypeOK, ConversationTypeOK', MappingInv,
           ForgetCleared \/ GlobalCleared
    PROVE  MappingInv'
<1>1. CASE Root \notin mapped /\ ForgetCleared
  BY <1>1, SameShapeKeepsMapping DEF ForgetCleared, SameShape, treeVars, queueVars, cmdFrame
<1>2. CASE Root \in mapped \/ GlobalCleared
  <2>1. UNCHANGED <<nodes, parent, ticket>> /\ mapped' = {}
    BY <1>2
    DEF ForgetCleared, CancelTree, GlobalCleared, vars, treeVars, queueVars
  <2>2. store'.tree = EmptyStore.tree /\ store'.map = {}
    <3>1. CASE GlobalCleared
      BY <3>1 DEF GlobalCleared, EmptyStore
    <3>2. CASE Root \in mapped /\ ForgetCleared
      BY <3>2 DEF ForgetCleared, EmptyStore, MappingInv
    <3> QED BY <1>2, <3>1, <3>2
  <2>3. InStore' = {}
    BY <2>2 DEF InStore, EmptyStore
  <2> QED BY <2>1, <2>2, <2>3 DEF MappingInv
<1> QED BY <1>1, <1>2

LEMMA MappingNext ==
    ConversationTypeOK /\ CallInv /\ MappingInv /\ [ConversationNext]_allVars => MappingInv'
<1> SUFFICES ASSUME ConversationTypeOK, CallInv, MappingInv, [ConversationNext]_allVars
             PROVE  MappingInv'
  OBVIOUS
<1>0. ConversationTypeOK'
  BY ConversationNextType
<1> USE DEF vars, treeVars, queueVars, boundVars, cmdFrame, globalFrame
<1>1. ASSUME NEW m \in Node, Join(m) PROVE MappingInv'
  <2>1. CASE Known(found[m])
    BY <1>0, <1>1, <2>1, EnterKeepsMapping DEF Join
  <2>2. CASE ~Known(found[m])
    BY <1>0, <1>1, <2>2, SameShapeKeepsMapping DEF Join, SameShape
  <2> QED BY <2>1, <2>2
<1>2. ASSUME NEW m \in Node,
             Receive(m) \/ Record(m) \/ Transcribed(m) \/ CallFails(m) \/ CancelVoice(m)
      PROVE  MappingInv'
  BY <1>0, <1>2, SameShapeKeepsMapping
  DEF Receive, Record, Transcribed, CallFails, CancelVoice, SameShape
<1>3. ASSUME NEW n \in Node, RunStep(n) PROVE MappingInv'
  BY <1>0, <1>3, SameShapeKeepsMapping, RunStepKeepsShape
<1>4. ASSUME NEW n \in Node, StopReply(n) \/ ClearReply(n) PROVE MappingInv'
  BY <1>0, <1>4, SameShapeKeepsMapping
  DEF StopReply, StopNode, ClearReply, ClearBranch, SaveIf, SameShape
<1>5. ASSUME NEW n \in Node, RemoveCleared(n) PROVE MappingInv'
  BY <1>0, <1>5, RemoveKeepsMapping
<1>6. CASE GlobalCancel \/ GlobalStopped
  BY <1>0, <1>6, SameShapeKeepsMapping
  DEF GlobalCancel, CancelTree, GlobalStopped, SaveIf, SameShape
<1>7. CASE ForgetCleared \/ GlobalCleared
  BY <1>0, <1>7, ForgetKeepsMapping
<1>8. CASE Restart
  BY <1>0, <1>8, RestartKeepsMapping
<1>9. CASE UNCHANGED allVars
  BY <1>0, <1>9, SameShapeKeepsMapping DEF allVars, convVars, SameShape
<1> QED
  BY <1>1, <1>2, <1>3, <1>4, <1>5, <1>6, <1>7, <1>8, <1>9 DEF ConversationNext

LEMMA StatusInit == ConversationInit => StatusInv
  BY DEF ConversationInit, Init, StatusInv, EmptyStore, InStore

\* A message enters with its status message.
LEMMA EnterKeepsStatus ==
    ASSUME ConversationTypeOK, ConversationTypeOK', CallInv, MappingInv, MappingInv', StatusInv,
           NEW m \in Node, call[m] = "sending", Known(found[m]), Enter(m), cleared' = cleared
    PROVE  StatusInv'
<1>1. InStore' = nodes'
  BY SaveFacts, StoreParts DEF Enter, ConversationTypeOK, TypeOK
<1>2. statusIds'.manager = statusIds.manager \cup {m} /\ statusIds'.store = statusIds.store \cup {m}
  BY DEF Enter
<1>3. CASE found[m] = NoNode
  <2>1. m = Root /\ ticket[Root] = 0
    BY <1>3 DEF CallInv
  <2>2. nodes = {} /\ mapped = {} /\ InStore = {}
    BY <2>1 DEF MappingInv
  <2>3. nodes' = {Root} /\ mapped' = {Root}
    BY <1>3, <2>1, <2>2 DEF Enter, NewConversation
  <2>4. statusIds.store \subseteq cleared /\ cleared' = cleared
    BY <2>2 DEF StatusInv
  <2>5. statusIds.manager \subseteq cleared
    BY <2>2 DEF StatusInv
  <2> QED BY <1>1, <1>2, <2>1, <2>2, <2>3, <2>4, <2>5 DEF StatusInv
<1>4. CASE found[m] # NoNode
  <2>1. Root \in mapped /\ InStore = nodes
    BY <1>4 DEF Known, MappingInv, ConversationTypeOK, TypeOK
  <2>2. nodes' = nodes \cup {m} /\ mapped' = mapped \cup {m}
    BY <1>4 DEF Enter, Reply
  <2> QED BY <1>1, <1>2, <2>1, <2>2 DEF StatusInv
<1> QED BY <1>3, <1>4

\* What leaves the tree is counted as cleared, and its status messages stay.
LEMMA RemoveKeepsStatus ==
    ASSUME ConversationTypeOK, ConversationTypeOK', MappingInv, MappingInv', StatusInv,
           NEW b \in Node, RemoveCleared(b)
    PROVE  StatusInv'
<1>1. CASE b \in mapped
  <2>1. Root \in mapped /\ mapped = nodes /\ InStore = nodes
    BY <1>1 DEF MappingInv
  <2>2. /\ nodes' = nodes \ get_descendants(b) /\ statusIds' = statusIds
        /\ mapped' = nodes' /\ cleared' = cleared \cup get_descendants(b)
    BY <1>1, <2>1 DEF RemoveCleared, RemoveBranch, cmdFrame
  <2>3. Root \in mapped'
    BY <1>1, <2>1, <2>2, RootStays DEF RemoveCleared, MappingInv, ConversationTypeOK
  <2>4. InStore' = nodes'
    BY <2>3 DEF MappingInv
  <2> QED BY <2>1, <2>2, <2>3, <2>4 DEF StatusInv
<1>2. CASE b \notin mapped
  BY <1>2, SameShapeKeepsStatus DEF RemoveCleared, SameShape, treeVars, queueVars, cmdFrame
<1> QED BY <1>1, <1>2

LEMMA RestartKeepsStatus ==
    ASSUME ConversationTypeOK, ConversationTypeOK', MappingInv, MappingInv', StatusInv, Restart
    PROVE  StatusInv'
<1>1. /\ nodes' = InStore /\ mapped' = InStore /\ cleared' = cleared
      /\ statusIds'.store = statusIds.store
      /\ statusIds'.manager = IF InStore = {} THEN {} ELSE statusIds.store
  BY DEF Restart, MappingInv, ConversationTypeOK
<1>2. InStore' = InStore
  <2>1. CASE store' = store
    BY <2>1 DEF InStore
  <2>2. CASE Save(mapped')
    <3>1. /\ mapped' \subseteq Node /\ nodes' \subseteq Node
          /\ session' \subseteq Node /\ state' \in [Node -> MessageState]
      BY DEF ConversationTypeOK, TypeOK
    <3> QED BY <1>1, <2>2, <3>1, SaveFacts
  <2> QED BY <2>1, <2>2 DEF Restart
<1>3. Root \notin mapped' => InStore = {}
  BY <1>1 DEF MappingInv
<1>4. /\ InStore \ cleared \subseteq statusIds'.store /\ statusIds'.store \subseteq InStore \cup cleared
      /\ statusIds'.manager \subseteq InStore \cup cleared
      /\ InStore # {} => InStore \ cleared \subseteq statusIds'.manager
  BY <1>1 DEF StatusInv
<1> QED BY <1>1, <1>2, <1>3, <1>4 DEF StatusInv

LEMMA ForgetKeepsStatus ==
    ASSUME ConversationTypeOK, ConversationTypeOK', MappingInv, MappingInv', StatusInv,
           ForgetCleared \/ GlobalCleared
    PROVE  StatusInv'
<1>1. CASE Root \notin mapped /\ ForgetCleared
  BY <1>1, SameShapeKeepsStatus DEF ForgetCleared, SameShape, treeVars, queueVars, cmdFrame
<1>2. CASE Root \in mapped /\ ForgetCleared
  <2>1. /\ nodes' = nodes /\ mapped' = {} /\ cleared' = cleared \cup nodes
        /\ statusIds' = statusIds /\ InStore = nodes
    BY <1>2 DEF ForgetCleared, cmdFrame, MappingInv
  <2>2. InStore' = {}
    BY <1>2 DEF ForgetCleared, InStore, EmptyStore
  <2> QED BY <2>1, <2>2 DEF StatusInv
<1>3. CASE GlobalCleared
  <2>1. /\ nodes' = nodes /\ mapped' = {} /\ cleared' = cleared \cup mapped
        /\ statusIds'.store = {} /\ statusIds'.manager = {}
    BY <1>3 DEF GlobalCleared, vars, treeVars
  <2>2. InStore' = {}
    BY <1>3 DEF GlobalCleared, InStore, EmptyStore
  <2>3. Root \in mapped => mapped = nodes
    BY DEF MappingInv
  <2> QED BY <2>1, <2>2, <2>3 DEF StatusInv
<1> QED BY <1>1, <1>2, <1>3

LEMMA StatusNext ==
    ConversationTypeOK /\ CallInv /\ MappingInv /\ StatusInv /\ [ConversationNext]_allVars
        => StatusInv'
<1> SUFFICES ASSUME ConversationTypeOK, CallInv, MappingInv, StatusInv,
                    [ConversationNext]_allVars
             PROVE  StatusInv'
  OBVIOUS
<1>0. ConversationTypeOK' /\ MappingInv'
  BY ConversationNextType, MappingNext
<1> USE DEF vars, treeVars, queueVars, boundVars, cmdFrame, globalFrame
<1>1. ASSUME NEW m \in Node, Join(m) PROVE StatusInv'
  <2>1. CASE Known(found[m])
    BY <1>0, <1>1, <2>1, EnterKeepsStatus DEF Join
  <2>2. CASE ~Known(found[m])
    BY <1>0, <1>1, <2>2, SameShapeKeepsStatus DEF Join, SameShape
  <2> QED BY <2>1, <2>2
<1>2. ASSUME NEW m \in Node,
             Receive(m) \/ Record(m) \/ Transcribed(m) \/ CallFails(m) \/ CancelVoice(m)
      PROVE  StatusInv'
  BY <1>0, <1>2, SameShapeKeepsStatus
  DEF Receive, Record, Transcribed, CallFails, CancelVoice, SameShape
<1>3. ASSUME NEW n \in Node, RunStep(n) PROVE StatusInv'
  BY <1>0, <1>3, SameShapeKeepsStatus, RunStepKeepsShape
<1>4. ASSUME NEW n \in Node, StopReply(n) \/ ClearReply(n) PROVE StatusInv'
  BY <1>0, <1>4, SameShapeKeepsStatus
  DEF StopReply, StopNode, ClearReply, ClearBranch, SaveIf, SameShape
<1>5. ASSUME NEW n \in Node, RemoveCleared(n) PROVE StatusInv'
  BY <1>0, <1>5, RemoveKeepsStatus
<1>6. CASE GlobalCancel \/ GlobalStopped
  BY <1>0, <1>6, SameShapeKeepsStatus
  DEF GlobalCancel, CancelTree, GlobalStopped, SaveIf, SameShape
<1>7. CASE ForgetCleared \/ GlobalCleared
  BY <1>0, <1>7, ForgetKeepsStatus
<1>8. CASE Restart
  BY <1>0, <1>8, RestartKeepsStatus
<1>9. CASE UNCHANGED allVars
  BY <1>0, <1>9, SameShapeKeepsStatus DEF allVars, convVars, SameShape
<1> QED
  BY <1>1, <1>2, <1>3, <1>4, <1>5, <1>6, <1>7, <1>8, <1>9 DEF ConversationNext

LEMMA ConversationInvariants ==
    ConversationSpec => [](ConversationTypeOK /\ CallInv /\ MappingInv)
  BY ConversationInitType, ConversationNextType, CallInit, CallNext, MappingInit, MappingNext,
     PTL DEF ConversationSpec

\* The mapping, in memory and in the store, has the ids of just the messages of the tree, and
\* of their status messages at least (_handle_message_impl), so that a reply to either finds
\* its tree; the ids it has besides are status messages of messages a /clear removed.
THEOREM MappingsAgree == ConversationSpec => []MappingAgrees
<1>1. MappingInv /\ StatusInv => MappingAgrees
  BY DEF MappingInv, StatusInv, MappingAgrees
<1>2. ConversationSpec => []StatusInv
  BY ConversationInvariants, StatusInit, StatusNext, PTL DEF ConversationSpec
<1> QED BY <1>1, <1>2, ConversationInvariants, PTL


------------------------------------------------------------------------------
(* The runs, and what is saved of them.                                    *)

Todo == {"created", "running"}

SameCompleted == \A n \in Node : state'[n] = "completed" <=> state[n] = "completed"

LEMMA ErrorsKeepCompleted ==
    ASSUME TypeOK
    PROVE  /\ \A S : (\A n \in S : n \in Node => state[n] # "completed") /\ state' = SetError(S)
                     => SameCompleted
           /\ \A n \in Node : state[n] # "completed" /\ state' = FailNode(n) => SameCompleted
           /\ \A n \in Node : \A s \in {"in_progress", "error"} :
                 state[n] # "completed" /\ state' = UpdateState(n, s) => SameCompleted
<1>1. ASSUME NEW S, \A n \in S : n \in Node => state[n] # "completed", state' = SetError(S)
      PROVE  SameCompleted
  BY <1>1 DEF SetError, SameCompleted
<1>2. ASSUME NEW n \in Node, state[n] # "completed", state' = FailNode(n)
      PROVE  SameCompleted
  <2>1. \A k \in get_pending_children(n) : state[k] # "completed"
    BY DEF get_pending_children, Closure
  <2> QED BY <1>1, <1>2, <2>1 DEF FailNode, MarkNodeError, SameCompleted
<1>3. ASSUME NEW n \in Node, NEW s \in {"in_progress", "error"},
             state[n] # "completed", state' = UpdateState(n, s)
      PROVE  SameCompleted
  BY <1>3 DEF UpdateState, SameCompleted, TypeOK
<1> QED BY <1>1, <1>2, <1>3

\* After a save the store agrees with the tree, whatever happened before it.
LEMMA SaveMakesSavedInv ==
    ASSUME ConversationTypeOK', NEW map, Save(map), map \subseteq Node
    PROVE  SavedInv'
<1>1. /\ InStore' = nodes' /\ store'.session = session' \cap nodes'
      /\ \A n \in nodes' : store'.tree[n] = state'[n]
  BY SaveFacts DEF ConversationTypeOK, TypeOK
<1> QED BY <1>1 DEF SavedInv, RestartAgrees

LEMMA UnsavedKeepsSavedInv ==
    ASSUME ConversationTypeOK, SavedInv, UNCHANGED <<nodes, store>>, SameCompleted,
           Root \in mapped' => Root \in mapped /\ session' \cap nodes = session \cap nodes
    PROVE  SavedInv'
  BY DEF SavedInv, RestartAgrees, InStore, SameCompleted, ConversationTypeOK, TypeOK

LEMMA OthersKeepRunInv ==
    ASSUME ConversationTypeOK, CallInv, MappingInv, RunInv,
           ticket' = ticket, nodes' \subseteq nodes, adopted \subseteq adopted',
           Root \in mapped' => Root \in mapped,
           \A n \in queue' : n \in queue /\ task'[n] = task[n],
           \A n \in Node : task'[n] \in Todo => n \in queue \/ task[n] \in Todo,
           \A n \in Node : task'[n] = "running" /\ task[n] # "running"
                           => n \in adopted' \/ n \notin mapped,
           \A n \in Node : state'[n] = "completed" /\ state[n] # "completed"
                           => task[n] = "running" /\ task'[n] = "cleanup"
    PROVE  RunInv'
<1>1. \A n \in queue' : task'[n] = "none"
  BY DEF RunInv
<1>2. ASSUME NEW n \in Node, state'[n] = "completed"
      PROVE  ticket'[n] # 0 /\ n \notin queue' /\ task'[n] \notin {"created", "running"}
  <2>1. CASE state[n] = "completed"
    BY <2>1 DEF RunInv, Todo
  <2>2. CASE state[n] # "completed"
    BY <1>2, <2>2 DEF RunInv, CallInv
  <2> QED BY <2>1, <2>2
<1>3. ASSUME Root \in mapped', NEW n \in nodes', task'[n] = "running"
      PROVE  n \in adopted'
  <2>1. Root \in mapped /\ n \in nodes /\ n \in mapped /\ n \in Node
    BY <1>3 DEF MappingInv, ConversationTypeOK
  <2> QED BY <1>3, <2>1 DEF RunInv
<1> QED BY <1>1, <1>2, <1>3 DEF RunInv

\* The last step of a task hands over to a node that waited.
LEMMA ProcessNextHandsOver ==
    ASSUME TypeOK, RunInv, NEW n \in Node, task[n] # "none",
           ProcessNext([task EXCEPT ![n] = "done"])
    PROVE  /\ ticket' = ticket
           /\ \A k \in queue' : k \in queue /\ task'[k] = task[k]
           /\ \A k \in Node : task'[k] \in Todo => k \in queue \/ task[k] \in Todo
           /\ \A k \in Node : task'[k] = "running" => task[k] = "running"
<1>1. n \notin queue
  BY DEF RunInv
<1>2. CASE queue = {}
  BY <1>2 DEF ProcessNext, TypeOK, Todo
<1>3. ASSUME NEW h \in queue, queue' = queue \ {h}, StartTask(h, nodes, [task EXCEPT ![n] = "done"]),
             ticket' = ticket
      PROVE  /\ \A k \in queue' : k \in queue /\ task'[k] = task[k]
             /\ \A k \in Node : task'[k] \in Todo => k \in queue \/ task[k] \in Todo
             /\ \A k \in Node : task'[k] = "running" => task[k] = "running"
  BY <1>1, <1>3 DEF StartTask, TypeOK, Todo
<1> QED BY <1>2, <1>3 DEF ProcessNext

LEMMA RunStepKeepsRuns ==
    ASSUME ConversationTypeOK, ConversationTypeOK', CallInv, MappingInv, RunInv, SavedInv,
           NEW n \in Node, RunStep(n)
    PROVE  RunInv' /\ SavedInv'
<1> USE DEF runFrame, queueVars, taskVars, treeVars
<1> TypeOK
  BY DEF ConversationTypeOK
<1>1. CASE Begin(n) \/ Refused(n) \/ ErrorShown(n) \/ Raises(n) \/ Interrupted(n)
  <2>1. task[n] \in Todo /\ state[n] # "completed"
    BY <1>1 DEF Begin, Refused, ErrorShown, Raises, Interrupted, Running, RunInv, Todo
  <2>2. state' = state \/ state' = FailNode(n)
        \/ \E s \in {"in_progress", "error"} : state' = UpdateState(n, s)
    BY <1>1 DEF Begin, Refused, ErrorShown, Raises, Interrupted
  <2>3. SameCompleted
    BY <2>1, <2>2, ErrorsKeepCompleted DEF SameCompleted
  <2>4. UNCHANGED <<nodes, session, mapped, store, ticket, queue>> /\ adopted \subseteq adopted'
    BY <1>1 DEF Begin, Refused, ErrorShown, Raises, Interrupted
  <2>5. /\ \A k \in Node \ {n} : task'[k] = task[k]
        /\ task'[n] = "running" => task[n] = "running" \/ n \in adopted' \/ n \notin mapped
        /\ task'[n] # "created" \/ task[n] = "created"
    BY <1>1 DEF Begin, Refused, ErrorShown, Raises, Interrupted, Running, TypeOK
  <2>6. n \notin queue
    BY <2>1 DEF RunInv, Todo
  <2>7. /\ \A k \in queue' : k \in queue /\ task'[k] = task[k]
        /\ \A k \in Node : task'[k] \in Todo => k \in queue \/ task[k] \in Todo
        /\ \A k \in Node : task'[k] = "running" /\ task[k] # "running"
                           => k \in adopted' \/ k \notin mapped
    BY <2>1, <2>4, <2>5, <2>6 DEF TypeOK
  <2>8. \A k \in Node : ~(state'[k] = "completed" /\ state[k] # "completed")
    BY <2>3 DEF SameCompleted
  <2>9. RunInv'
    BY <2>4, <2>7, <2>8, OthersKeepRunInv
  <2> QED BY <2>3, <2>4, <2>9, UnsavedKeepsSavedInv
<1>2. CASE SessionSeen(n)
  <2>1. task[n] = "running" /\ state[n] # "completed"
    BY <1>2 DEF SessionSeen, Running, RunInv
  <2>2. SameCompleted
    BY <1>2, <2>1, ErrorsKeepCompleted DEF SessionSeen, SameCompleted
  <2>3. UNCHANGED <<nodes, mapped, ticket, queue, task, adopted>>
    BY <1>2 DEF SessionSeen
  <2>4. RunInv'
    BY <2>2, <2>3 DEF RunInv, SameCompleted
  <2>5. CASE n \in adopted
    <3>1. Save(store.map)
      BY <1>2, <2>5 DEF SessionSeen, SaveIf
    <3> QED BY <2>4, <3>1, SaveMakesSavedInv, StoreParts
  <2>6. CASE n \notin adopted
    <3>1. store' = store /\ session' = session \cup {n}
      BY <1>2, <2>6 DEF SessionSeen, SaveIf
    <3>2. Root \in mapped => n \notin nodes
      BY <2>1, <2>6 DEF RunInv
    <3>3. Root \in mapped => session' \cap nodes = session \cap nodes
      BY <3>1, <3>2
    <3> QED BY <2>2, <2>3, <2>4, <3>1, <3>3, UnsavedKeepsSavedInv
  <2> QED BY <2>4, <2>5, <2>6
<1>3. ASSUME NEW code \in {0, 1}, Ends(n, code) PROVE RunInv' /\ SavedInv'
  <2> DEFINE failed == IF code = 0 THEN state ELSE FailNode(n)
  <2>1. task[n] = "running" /\ state[n] # "completed" /\ n \notin queue
    BY <1>3 DEF Ends, Running, RunInv
  <2>2. \A k \in Node : failed[k] = "completed" <=> state[k] = "completed"
    <3>1. \A k \in get_pending_children(n) : state[k] # "completed"
      BY DEF get_pending_children, Closure
    <3> QED BY <2>1, <3>1 DEF FailNode, MarkNodeError, SetError
  <2>3. UNCHANGED <<nodes, session, mapped, ticket, queue, adopted>>
        /\ task' = [task EXCEPT ![n] = "cleanup"]
    BY <1>3 DEF Ends
  <2>4. failed \in [Node -> MessageState]
    BY FailNodeType DEF TypeOK
  <2>5. state' = IF n \in session \cap nodes \cap adopted
                 THEN [failed EXCEPT ![n] = "completed"] ELSE failed
    BY <1>3 DEF Ends
  <2>6. \A k \in Node \ {n} : state'[k] = "completed" <=> state[k] = "completed"
    BY <2>2, <2>4, <2>5
  <2>7. /\ \A k \in queue' : k \in queue /\ task'[k] = task[k]
        /\ \A k \in Node : task'[k] \in Todo => k \in queue \/ task[k] \in Todo
        /\ \A k \in Node : task'[k] = "running" => task[k] = "running"
        /\ task'[n] = "cleanup"
    BY <2>1, <2>3 DEF Todo, TypeOK
  <2>8. RunInv'
    BY <2>1, <2>3, <2>6, <2>7, OthersKeepRunInv
  <2>9. CASE n \in session \cap adopted
    BY <1>3, <2>8, <2>9, SaveMakesSavedInv, StoreParts DEF Ends, SaveIf
  <2>10. CASE n \notin session \cap adopted
    <3>1. store' = store /\ SameCompleted
      BY <1>3, <2>2, <2>5, <2>10 DEF Ends, SaveIf, SameCompleted
    <3> QED BY <2>3, <2>8, <3>1, UnsavedKeepsSavedInv
  <2> QED BY <2>9, <2>10
<1>4. CASE TreeOnly(n)
  <2>1. UNCHANGED <<nodes, state, session, mapped, store, adopted>>
    BY <1>4 DEF TreeOnly, NeverRuns, Skip, Finish
  <2>2. SameCompleted
    BY <2>1 DEF SameCompleted
  <2>3. /\ ticket' = ticket
        /\ \A k \in queue' : k \in queue /\ task'[k] = task[k]
        /\ \A k \in Node : task'[k] \in Todo => k \in queue \/ task[k] \in Todo
        /\ \A k \in Node : task'[k] = "running" => task[k] = "running"
    <3>1. CASE NeverRuns(n)
      BY <3>1 DEF NeverRuns, RunInv, TypeOK, Todo
    <3>2. CASE Skip(n)
      BY <3>2, ProcessNextHandsOver DEF Skip
    <3>3. CASE Finish(n)
      BY <3>3, ProcessNextHandsOver DEF Finish
    <3> QED BY <1>4, <3>1, <3>2, <3>3 DEF TreeOnly
  <2>4. RunInv'
    BY <2>1, <2>3, OthersKeepRunInv
  <2> QED BY <2>1, <2>2, <2>4, UnsavedKeepsSavedInv
<1> QED BY <1>1, <1>2, <1>3, <1>4 DEF RunStep

\* A command changes no run but by asking for its cancellation.
LEMMA CommandsKeepRunInv ==
    ASSUME ConversationTypeOK, CallInv, MappingInv, RunInv,
           UNCHANGED <<task, ticket, adopted>>, queue' \subseteq queue, nodes' \subseteq nodes,
           Root \in mapped' => Root \in mapped, SameCompleted
    PROVE  RunInv'
  BY OthersKeepRunInv DEF SameCompleted

LEMMA CommandKeepsRuns ==
    ASSUME ConversationTypeOK, ConversationTypeOK', CallInv, MappingInv, RunInv, SavedInv,
           NEW n \in Node, StopReply(n) \/ ClearReply(n) \/ RemoveCleared(n)
    PROVE  RunInv' /\ SavedInv'
<1> USE DEF queueVars, taskVars, treeVars, slotVars, cmdFrame
<1> TypeOK
  BY DEF ConversationTypeOK
<1>1. CASE StopReply(n)
  <2>1. UNCHANGED <<task, ticket, adopted, nodes, mapped>> /\ queue' \subseteq queue
    BY <1>1 DEF StopReply, StopNode
  <2>2. SameCompleted
    BY <1>1, ErrorsKeepCompleted DEF StopReply, StopNode, Terminal
  <2>3. RunInv'
    BY <2>1, <2>2, CommandsKeepRunInv
  <2>4. Save(store.map)
    BY <1>1 DEF StopReply
  <2> QED BY <2>3, <2>4, SaveMakesSavedInv, StoreParts
<1>2. CASE ClearReply(n)
  <2>1. UNCHANGED <<task, ticket, adopted, nodes, mapped, session>> /\ queue' \subseteq queue
    BY <1>2 DEF ClearReply, ClearBranch
  <2>2. SameCompleted
    <3> DEFINE hit == {k \in get_descendants(n) : state[k] \notin Terminal}
    <3>1. \A k \in hit : state[k] # "completed"
      BY DEF Terminal
    <3>2. state' = SetError(hit)
      BY <1>2 DEF ClearReply, ClearBranch
    <3> HIDE DEF hit
    <3> QED BY <3>1, <3>2, ErrorsKeepCompleted
  <2>3. RunInv'
    BY <2>1, <2>2, CommandsKeepRunInv
  <2>4. CASE Save(store.map)
    BY <2>3, <2>4, SaveMakesSavedInv, StoreParts
  <2>5. CASE UNCHANGED store
    BY <2>1, <2>2, <2>3, <2>5, UnsavedKeepsSavedInv
  <2> QED BY <1>2, <2>4, <2>5 DEF ClearReply, SaveIf
<1>3. CASE RemoveCleared(n)
  <2>1. UNCHANGED <<task, ticket, adopted, session, state, queue>> /\ nodes' \subseteq nodes
        /\ (Root \in mapped' => Root \in mapped)
    BY <1>3 DEF RemoveCleared, RemoveBranch
  <2>2. SameCompleted
    BY <2>1 DEF SameCompleted
  <2>3. RunInv'
    BY <2>1, <2>2, CommandsKeepRunInv
  <2>4. CASE n \in mapped
    <3>1. Save(store.map \ get_descendants(n))
      BY <1>3, <2>4 DEF RemoveCleared
    <3>2. store.map \ get_descendants(n) \subseteq Node
      BY StoreParts
    <3> QED BY <2>3, <3>1, <3>2, SaveMakesSavedInv
  <2>5. CASE n \notin mapped
    <3>1. UNCHANGED <<nodes, mapped, store>>
      BY <1>3, <2>5 DEF RemoveCleared
    <3> QED BY <2>1, <2>2, <2>3, <3>1, UnsavedKeepsSavedInv
  <2> QED BY <2>4, <2>5
<1> QED BY <1>1, <1>2, <1>3

LEMMA CancelTreeKeepsCompleted ==
    ASSUME ConversationTypeOK, RunInv, CancelTree
    PROVE  SameCompleted /\ queue' = {} /\ UNCHANGED <<task, ticket, session>>
<1>1. \A n \in ActiveNodes : n \in Node => state[n] # "completed"
  BY DEF ActiveNodes, RunInv
<1>2. state' = SetError(ActiveNodes)
  BY DEF CancelTree
<1>3. SameCompleted
  BY <1>1, <1>2, ErrorsKeepCompleted DEF ConversationTypeOK
<1> QED BY <1>3 DEF CancelTree

\* With the tree forgotten there is nothing to agree about.
LEMMA ForgottenMakesSavedInv ==
    ASSUME mapped' = {}, store'.session = {} PROVE SavedInv'
  BY DEF SavedInv, RestartAgrees

LEMMA GlobalKeepsRuns ==
    ASSUME ConversationTypeOK, ConversationTypeOK', CallInv, MappingInv, RunInv, SavedInv,
           ForgetCleared \/ GlobalCancel \/ GlobalStopped \/ GlobalCleared
    PROVE  RunInv' /\ SavedInv'
<1> USE DEF queueVars, taskVars, treeVars, slotVars, cmdFrame, globalFrame
<1>1. UNCHANGED <<task, ticket, session, adopted, nodes>> /\ SameCompleted
      /\ queue' \subseteq queue /\ (Root \in mapped' => Root \in mapped)
  <2>1. CASE CancelTree
    <3>1. SameCompleted /\ queue' = {} /\ UNCHANGED <<task, ticket, session>>
      BY <2>1, CancelTreeKeepsCompleted
    <3>2. UNCHANGED <<adopted, nodes>> /\ (Root \in mapped' => Root \in mapped)
      BY DEF ForgetCleared, GlobalCancel, GlobalStopped, GlobalCleared, vars
    <3> QED BY <3>1, <3>2
  <2>2. CASE UNCHANGED <<task, ticket, session, queue, state>>
    <3>1. UNCHANGED <<adopted, nodes>> /\ (Root \in mapped' => Root \in mapped)
      BY DEF ForgetCleared, GlobalCancel, GlobalStopped, GlobalCleared, vars
    <3> QED BY <2>2, <3>1 DEF SameCompleted
  <2> QED BY <2>1, <2>2
          DEF ForgetCleared, GlobalCancel, GlobalStopped, GlobalCleared, vars
<1>2. RunInv'
  BY <1>1, CommandsKeepRunInv
<1>3. CASE mapped' = {} /\ store'.session = {}
  BY <1>2, <1>3, ForgottenMakesSavedInv
<1>4. CASE Save(store.map)
  BY <1>2, <1>4, SaveMakesSavedInv, StoreParts
<1>5. CASE UNCHANGED store /\ (Root \in mapped' => Root \in mapped)
  BY <1>1, <1>2, <1>5, UnsavedKeepsSavedInv
<1>6. ForgetCleared => \/ mapped' = {} /\ store'.session = {}
                       \/ UNCHANGED <<mapped, store>>
  BY DEF ForgetCleared, EmptyStore
<1>7. GlobalCleared => mapped' = {} /\ store'.session = {}
  BY DEF GlobalCleared, EmptyStore
<1>8. GlobalCancel \/ GlobalStopped => UNCHANGED store \/ Save(store.map)
  BY DEF GlobalCancel, GlobalStopped, SaveIf
<1> QED BY <1>1, <1>2, <1>3, <1>4, <1>5, <1>6, <1>7, <1>8

LEMMA EnterKeepsRuns ==
    ASSUME ConversationTypeOK, ConversationTypeOK', CallInv, MappingInv, RunInv,
           NEW m \in Node, call[m] = "sending", Known(found[m]), Enter(m), adopted' = adopted
    PROVE  RunInv' /\ SavedInv'
<1> TypeOK
  BY DEF ConversationTypeOK
<1>1. ticket[m] = 0 /\ task[m] = "none" /\ m \notin queue /\ state[m] # "completed"
  BY DEF CallInv, RunInv
<1>2. state' = state /\ ticket' = [ticket EXCEPT ![m] = NextTicket]
  BY DEF CallInv, Enter, NewConversation, Reply, EnqueueAndStart
<1>3. /\ \A n \in Node \ {m} : task'[n] = task[n]
      /\ task'[m] \in {"none", "created"}
      /\ queue' \subseteq queue \cup {m}
      /\ m \in queue' => task'[m] = "none"
  BY <1>1
  DEF CallInv, Enter, NewConversation, Reply, EnqueueAndStart, StartTask, TypeOK
<1>4. ASSUME NEW n \in nodes', task'[n] = "running", Root \in mapped'
      PROVE  n \in adopted'
  <2>1. n # m /\ n \in Node /\ task[n] = "running"
    BY <1>3, <1>4 DEF ConversationTypeOK, TypeOK
  <2>2. n \in nodes /\ Root \in mapped
    BY <1>4, <2>1
    DEF CallInv, MappingInv, Known, Enter, NewConversation, Reply, ConversationTypeOK
  <2> QED BY <2>1, <2>2 DEF RunInv
<1>5. \A n \in Node : state'[n] = "completed" =>
          ticket'[n] # 0 /\ n \notin queue' /\ task'[n] \notin {"created", "running"}
  BY <1>1, <1>2, <1>3 DEF RunInv, TypeOK
<1>6. \A n \in queue' : task'[n] = "none"
  BY <1>1, <1>3 DEF RunInv, TypeOK
<1>7. RunInv'
  BY <1>4, <1>5, <1>6 DEF RunInv
<1>8. Save(store.map)
  BY DEF Enter
<1> QED BY <1>7, <1>8, SaveMakesSavedInv, StoreParts

LEMMA RestartKeepsRuns ==
    ASSUME ConversationTypeOK, ConversationTypeOK', MappingInv, RunInv, SavedInv, Restart
    PROVE  RunInv' /\ SavedInv'
<1> TypeOK /\ InStore \subseteq Node /\ store.map \subseteq Node
  BY StoreParts DEF ConversationTypeOK
<1>1. /\ queue' = {} /\ ticket' = ticket /\ nodes' = InStore /\ session' = store.session
      /\ \A n \in Node : task'[n] = "none"
      /\ state' = [n \in Node |-> Restored(n)]
  BY DEF Restart
<1>2. \A n \in InStore : state'[n] = "completed" <=> store.tree[n] = "completed"
  BY <1>1 DEF Restored, InStore
<1>3. ASSUME NEW n \in Node, state'[n] = "completed" PROVE ticket'[n] # 0
  <2>1. CASE n \in InStore
    BY <1>1, <2>1 DEF MappingInv
  <2>2. CASE n \notin InStore
    BY <1>1, <1>3, <2>2 DEF Restored, InStore, RunInv
  <2> QED BY <2>1, <2>2
<1>4. RunInv'
  BY <1>1, <1>3 DEF RunInv, TypeOK, ConversationTypeOK
<1>5. CASE Save(mapped')
  <2>1. mapped' \subseteq Node
    BY DEF ConversationTypeOK
  <2> QED BY <1>4, <1>5, <2>1, SaveMakesSavedInv
<1>6. CASE UNCHANGED store
  BY <1>1, <1>2, <1>4, <1>6 DEF SavedInv, RestartAgrees, InStore
<1> QED BY <1>5, <1>6 DEF Restart

LEMMA RunInit == ConversationInit => RunInv /\ SavedInv
  BY DEF ConversationInit, Init, RunInv, SavedInv, RestartAgrees, EmptyStore

LEMMA RunNext ==
    ConversationTypeOK /\ CallInv /\ MappingInv /\ RunInv /\ SavedInv
      /\ [ConversationNext]_allVars => RunInv' /\ SavedInv'
<1> SUFFICES ASSUME ConversationTypeOK, CallInv, MappingInv, RunInv, SavedInv,
                    [ConversationNext]_allVars
             PROVE  RunInv' /\ SavedInv'
  OBVIOUS
<1>0. ConversationTypeOK'
  BY ConversationNextType
<1>1. ASSUME UNCHANGED <<vars, mapped, adopted, store>> PROVE RunInv' /\ SavedInv'
  BY <1>1 DEF vars, treeVars, queueVars, taskVars, RunInv, SavedInv, RestartAgrees, InStore
<1>2. ASSUME NEW m \in Node, Join(m) PROVE RunInv' /\ SavedInv'
  BY <1>0, <1>1, <1>2, EnterKeepsRuns DEF Join
<1>3. ASSUME NEW m \in Node,
             Receive(m) \/ Record(m) \/ Transcribed(m) \/ CallFails(m) \/ CancelVoice(m)
      PROVE  RunInv' /\ SavedInv'
  BY <1>1, <1>3 DEF Receive, Record, Transcribed, CallFails, CancelVoice
<1>4. CASE UNCHANGED allVars
  BY <1>1, <1>4 DEF allVars, convVars
<1> QED
  BY <1>0, <1>2, <1>3, <1>4, RunStepKeepsRuns, CommandKeepsRuns, GlobalKeepsRuns,
     RestartKeepsRuns DEF ConversationNext

\* What a restart would bring back is what the conversation shows, at every moment: no step
\* that changes the messages of the tree, a session or a completion goes without its
\* save_tree (_handle_message_impl, _handle_session_info, "complete", remove_branch).
THEOREM RestartsAgree == ConversationSpec => []RestartAgrees
<1>1. SavedInv => RestartAgrees
  BY DEF SavedInv
<1>2. ConversationInit => ConversationTypeOK /\ CallInv /\ MappingInv /\ RunInv /\ SavedInv
  BY ConversationInitType, CallInit, MappingInit, RunInit
<1> QED
  BY <1>1, <1>2, ConversationNextType, CallNext, MappingNext, RunNext, PTL
  DEF ConversationSpec

------------------------------------------------------------------------------
(* One run at a time, and none of a discarded tree.                        *)

\* What no step but a hand-over, a message, a cancellation of the tree and a restart does.
SlotStays ==
    /\ UNCHANGED <<ticket, late, global, isProcessing, currentTask>>
    /\ Root \in mapped' <=> Root \in mapped
    /\ queue' \subseteq queue /\ Live' \subseteq Live
    /\ \A n \in Live' : n \in cancelReq => n \in cancelReq' \/ task'[n] = "cleanup"
    /\ \A n \in Live' : task[n] = "cleanup" => task'[n] = "cleanup"

LEMMA SlotStaysKeepsOneRun ==
    ASSUME OneRunInv, SlotStays
    PROVE  OneRunInv'
<1>1. Going' <=> Going
  BY DEF SlotStays, Going
<1> QED BY <1>1 DEF SlotStays, OneRunInv

LEMMA RunStepKeepsOneRun ==
    ASSUME ConversationTypeOK, OneRunInv, NEW n \in Node, RunStep(n)
    PROVE  OneRunInv'
<1> USE DEF runFrame, boundVars, queueVars, taskVars, slotVars, treeVars
<1> TypeOK
  BY DEF ConversationTypeOK
<1>0. ASSUME UNCHANGED <<ticket, late, global, isProcessing, currentTask, mapped, queue>>,
             task[n] \in {"created", "running"},
             \A k \in Node \ {n} : task'[k] = task[k] /\ (k \in cancelReq => k \in cancelReq'),
             n \in cancelReq => n \in cancelReq' \/ task'[n] \in {"cleanup", "done"}
      PROVE  OneRunInv'
  <2>1. SlotStays
    BY <1>0 DEF SlotStays, Live
  <2> QED BY <2>1, SlotStaysKeepsOneRun
<1>1. CASE Begin(n) \/ Refused(n) \/ SessionSeen(n) \/ ErrorShown(n) \/ Raises(n) \/ Interrupted(n)
  BY <1>0, <1>1
  DEF Begin, Refused, SessionSeen, ErrorShown, Raises, Interrupted, Running, TypeOK
<1>2. ASSUME NEW code \in {0, 1}, Ends(n, code) PROVE OneRunInv'
  BY <1>0, <1>2 DEF Ends, Running, TypeOK
<1>3. CASE NeverRuns(n) /\ TreeOnly(n)
  BY <1>0, <1>3 DEF NeverRuns, TreeOnly, TypeOK
<1>4. CASE (Skip(n) \/ Finish(n)) /\ TreeOnly(n)
  <2>1. n \in Live /\ ProcessNext([task EXCEPT ![n] = "done"])
    BY <1>4 DEF Skip, Finish, Live
  <2>2. UNCHANGED <<ticket, late, global, mapped>>
    BY <1>4, <2>1 DEF TreeOnly, ProcessNext
  <2>3. Going' <=> Going
    BY <2>2 DEF Going
  <2>4. CASE late
    BY <2>2, <2>4 DEF OneRunInv
  <2>5. CASE ~late
    <3>1. Live \subseteq {n}
      BY <2>1, <2>5 DEF OneRunInv
    <3>2. CASE queue = {}
      <4>1. Live' = {} /\ queue' = {}
        BY <2>1, <3>1, <3>2 DEF ProcessNext, Live, TypeOK
      <4> QED BY <2>2, <2>3, <4>1 DEF OneRunInv
    <3>3. CASE queue # {}
      <4>1. Going
        BY <2>5, <3>3 DEF OneRunInv
      <4>2. PICK h \in queue : StartTask(h, nodes, [task EXCEPT ![n] = "done"])
        BY <2>1, <3>3 DEF ProcessNext
      <4>3. isProcessing' /\ Live' \subseteq {currentTask'}
        BY <3>1, <4>2 DEF StartTask, Live, TypeOK
      <4> QED BY <2>2, <2>3, <4>1, <4>3 DEF OneRunInv
    <3> QED BY <3>2, <3>3
  <2> QED BY <2>4, <2>5
<1>5. CASE TreeOnly(n)
  <2>1. NeverRuns(n) \/ Skip(n) \/ Finish(n)
    BY <1>5 DEF TreeOnly
  <2> QED BY <1>4, <1>5, <1>3, <2>1
<1> QED BY <1>1, <1>5, <1>2 DEF RunStep

LEMMA CommandKeepsOneRun ==
    ASSUME ConversationTypeOK, MappingInv, OneRunInv,
           NEW n \in Node, StopReply(n) \/ ClearReply(n) \/ RemoveCleared(n)
    PROVE  OneRunInv'
<1> USE DEF cmdFrame, queueVars, slotVars, taskVars
<1>1. cancelReq \subseteq CancelCurrent
  BY DEF CancelCurrent
<1>2. UNCHANGED <<ticket, late, global, isProcessing, currentTask, task>>
      /\ queue' \subseteq queue /\ cancelReq \subseteq cancelReq'
  BY <1>1 DEF StopReply, StopNode, ClearReply, ClearBranch, RemoveCleared, RemoveBranch
<1>3. Root \in mapped' <=> Root \in mapped
  <2>1. CASE StopReply(n) \/ ClearReply(n)
    BY <2>1 DEF StopReply, ClearReply
  <2>2. CASE RemoveCleared(n)
    <3>1. n \in mapped => Root \notin get_descendants(n)
      BY <2>2, RootStays DEF RemoveCleared, MappingInv, ConversationTypeOK
    <3> QED BY <2>2, <3>1 DEF RemoveCleared
  <2> QED BY <2>1, <2>2
<1>4. SlotStays
  BY <1>2, <1>3 DEF SlotStays, Live
<1> QED BY <1>4, SlotStaysKeepsOneRun

\* A tree that is cancelled has no run that was not asked to stop.
LEMMA CancelTreeStopsRuns ==
    ASSUME CancelTree, Live \subseteq {currentTask}
    PROVE  /\ Live' = Live /\ currentTask' = currentTask /\ queue' = {}
           /\ \A n \in Live' : n \in cancelReq'
  BY DEF CancelTree, CancelCurrent, Live

LEMMA GlobalKeepsOneRun ==
    ASSUME ConversationTypeOK, OneRunInv, Globals \subseteq {"clear"},
           ForgetCleared \/ GlobalCancel \/ GlobalStopped \/ GlobalCleared
    PROVE  OneRunInv'
<1> USE DEF treeVars, queueVars, taskVars, slotVars, cmdFrame, globalFrame
<1>1. ticket' = ticket /\ late' = late /\ global' # "stop"
  BY DEF ForgetCleared, GlobalCancel, GlobalStopped, GlobalCleared, CancelTree, vars,
         OneRunInv
<1>2. CASE late
  BY <1>1, <1>2 DEF OneRunInv
<1>3. CASE ~late /\ CancelTree /\ (ForgetCleared \/ GlobalCancel)
  <2>1. ~Going'
    BY <1>3 DEF ForgetCleared, GlobalCancel, Going
  <2>2. Live \subseteq {currentTask}
    BY <1>3 DEF OneRunInv
  <2> QED BY <1>1, <1>3, <2>1, <2>2, CancelTreeStopsRuns DEF OneRunInv
<1>4. CASE ~late /\ UNCHANGED <<queue, slotVars, taskVars>> /\ (Going' <=> Going)
  BY <1>1, <1>4 DEF OneRunInv, Live
<1>5. GlobalStopped \/ GlobalCleared => ~Going /\ ~Going' /\ UNCHANGED <<queue, slotVars, taskVars>>
  BY DEF OneRunInv, GlobalStopped, GlobalCleared, Going, vars
<1>6. ForgetCleared /\ Root \notin mapped => ~Going /\ ~Going' /\ UNCHANGED <<queue, slotVars, taskVars>>
  BY DEF ForgetCleared, Going
<1>7. GlobalCancel /\ Root \notin mapped => ~Going /\ ~Going' /\ UNCHANGED <<queue, slotVars, taskVars>>
  BY DEF GlobalCancel, Going, vars
<1>8. /\ ForgetCleared /\ Root \in mapped => CancelTree
      /\ GlobalCancel /\ Root \in mapped => CancelTree
  BY DEF ForgetCleared, GlobalCancel
<1> QED BY <1>2, <1>3, <1>4, <1>5, <1>6, <1>7, <1>8

LEMMA EnterKeepsOneRun ==
    ASSUME ConversationTypeOK, CallInv, MappingInv, OneRunInv,
           NEW m \in Node, call[m] = "sending", Known(found[m]), Enter(m),
           global' = global, cancelReq' = cancelReq
    PROVE  OneRunInv'
<1> USE DEF slotVars
<1> TypeOK
  BY DEF ConversationTypeOK
<1>1. ticket[m] = 0 /\ task[m] = "none" /\ m \notin queue
  BY DEF CallInv
<1>2. /\ ticket' = [ticket EXCEPT ![m] = NextTicket]
      /\ EnqueueAndStart(m, nodes') /\ m \in nodes' /\ Root \in mapped'
  BY DEF CallInv, MappingInv, Known, Enter, NewConversation, Reply, EnqueueAndStart
<1>3. ticket'[Root] # 0 /\ global' # "stop"
  <2>1. m = Root \/ Root \in nodes
    BY DEF Enter, Reply, MappingInv, Known, CallInv
  <2> QED BY <1>2, <2>1, NextTicketType DEF MappingInv, OneRunInv, TypeOK
<1>4. CASE late'
  BY <1>3, <1>4 DEF OneRunInv
<1>5. CASE ~late'
  <2>1. ~late /\ global = "none" /\ Going'
    BY <1>2, <1>5 DEF Enter, Going, OneRunInv, ConversationTypeOK, GlobalState
  <2>2. Live \subseteq {currentTask} /\ (Live # {} => isProcessing)
    <3>1. CASE found[m] = NoNode
      <4>1. m = Root /\ Live = {}
        BY <1>1, <3>1 DEF CallInv, OneRunInv, Live
      <4> QED BY <4>1
    <3>2. CASE found[m] # NoNode
      BY <2>1, <3>2 DEF Known, MappingInv, OneRunInv, Going
    <3> QED BY <3>1, <3>2
  <2>3. CASE isProcessing
    BY <1>2, <1>3, <2>1, <2>2, <2>3 DEF EnqueueAndStart, OneRunInv, Live
  <2>4. CASE ~isProcessing
    <3>1. Live = {} /\ StartTask(m, nodes', task)
      BY <1>2, <2>2, <2>4 DEF EnqueueAndStart
    <3>2. isProcessing' /\ currentTask' = m /\ Live' = {m}
      BY <1>2, <3>1 DEF StartTask, Live, TypeOK
    <3> QED BY <1>3, <2>1, <3>2 DEF OneRunInv
  <2> QED BY <2>3, <2>4
<1> QED BY <1>4, <1>5

LEMMA OneRunInit == ConversationInit => OneRunInv
  BY DEF ConversationInit, Init, OneRunInv, Live, Going

LEMMA OneRunNext ==
    ASSUME Globals \subseteq {"clear"}
    PROVE  ConversationTypeOK /\ CallInv /\ MappingInv /\ OneRunInv
             /\ [ConversationNext]_allVars => OneRunInv'
<1> SUFFICES ASSUME ConversationTypeOK, CallInv, MappingInv, OneRunInv,
                    [ConversationNext]_allVars
             PROVE  OneRunInv'
  OBVIOUS
<1> USE DEF vars, queueVars, slotVars, taskVars
<1>1. ASSUME NEW m \in Node, Join(m) PROVE OneRunInv'
  <2>1. CASE Known(found[m])
    <3>1. global' = global /\ cancelReq' = cancelReq /\ Enter(m) /\ call[m] = "sending"
      BY <1>1, <2>1 DEF Join, Enter, NewConversation, Reply
    <3> QED BY <2>1, <3>1, EnterKeepsOneRun
  <2>2. CASE ~Known(found[m])
    BY <1>1, <2>2, SlotStaysKeepsOneRun DEF Join, SlotStays, Live
  <2> QED BY <2>1, <2>2
<1>2. ASSUME NEW m \in Node,
             Receive(m) \/ Record(m) \/ Transcribed(m) \/ CallFails(m) \/ CancelVoice(m)
      PROVE  OneRunInv'
  <2>1. UNCHANGED <<vars, mapped, global, late>>
    BY <1>2 DEF Receive, Record, Transcribed, CallFails, CancelVoice, boundVars
  <2> QED BY <2>1, SlotStaysKeepsOneRun DEF SlotStays, Live
<1>3. CASE Restart
  <2>1. /\ ticket' = ticket /\ global' = "none" /\ late' = late /\ queue' = {}
        /\ \A n \in Node : task'[n] = "none"
    BY <1>3 DEF Restart
  <2> QED BY <2>1 DEF OneRunInv, Live
<1>4. CASE UNCHANGED allVars
  BY <1>4, SlotStaysKeepsOneRun DEF allVars, convVars, boundVars, SlotStays, Live
<1> QED
  BY <1>1, <1>2, <1>3, <1>4, RunStepKeepsOneRun, CommandKeepsOneRun, GlobalKeepsOneRun
  DEF ConversationNext

LEMMA OneRunHolds ==
    ASSUME Globals \subseteq {"clear"}
    PROVE  ConversationSpec => [](ConversationTypeOK /\ CallInv /\ MappingInv /\ OneRunInv)
<1>1. ConversationInit => ConversationTypeOK /\ CallInv /\ MappingInv /\ OneRunInv
  BY ConversationInitType, CallInit, MappingInit, OneRunInit
<1>2. ConversationTypeOK /\ CallInv /\ MappingInv /\ OneRunInv /\ [ConversationNext]_allVars
      => ConversationTypeOK' /\ CallInv' /\ MappingInv' /\ OneRunInv'
  BY ConversationNextType, CallNext, MappingNext, OneRunNext
<1> QED BY <1>1, <1>2, PTL DEF ConversationSpec

\* A conversation that is cleared, while no global "/stop" is about, leaves no run behind
\* that nobody can stop: remove_tree and cancel_all ask the one task there is to stop.
THEOREM NoRunIsLeftBehind ==
    ASSUME Globals \subseteq {"clear"}
    PROVE  ConversationSpec => []NoRunOutlivesTree
<1>1. OneRunInv => NoRunOutlivesTree
  BY DEF OneRunInv, NoRunOutlivesTree, Going, Live, Running
<1> QED BY <1>1, OneRunHolds, PTL

------------------------------------------------------------------------------
(* What was cleared.                                                       *)

\* Most steps take nothing out, and save only a tree that the manager has.
LEMMA ShapeKeepsCleared ==
    ASSUME ConversationTypeOK, ConversationTypeOK', MappingInv, MappingInv', ClearedInv,
           UNCHANGED <<cleared, mapped, nodes, ticket, late>>,
           late \/ Root \in mapped \/ store' = store
    PROVE  ClearedInv'
<1>1. CASE late
  BY <1>1 DEF ClearedInv, ClearedStaysCleared
<1>2. CASE Root \in mapped
  BY <1>2 DEF ClearedInv, ClearedStaysCleared, MappingInv
<1>3. CASE store' = store
  BY <1>3 DEF ClearedInv, ClearedStaysCleared, InStore
<1> QED BY <1>1, <1>2, <1>3

LEMMA RunStepKeepsCleared ==
    ASSUME ConversationTypeOK, ConversationTypeOK', MappingInv, MappingInv', OneRunInv,
           ClearedInv, NEW n \in Node, RunStep(n)
    PROVE  ClearedInv'
<1>1. UNCHANGED <<cleared, mapped, nodes, ticket, late>>
  <2>1. SameShape
    BY RunStepKeepsShape
  <2>2. UNCHANGED <<cleared, late>>
    BY DEF RunStep, Begin, Refused, SessionSeen, ErrorShown, Ends, Raises, Interrupted,
           TreeOnly, runFrame, boundVars
  <2> QED BY <2>1, <2>2 DEF SameShape
<1>2. store' = store \/ Running(n)
  BY DEF RunStep, Begin, Refused, SessionSeen, ErrorShown, Ends, Raises, Interrupted, TreeOnly
<1>3. Running(n) /\ ~late => Root \in mapped
  BY DEF OneRunInv, Going, Live, Running
<1> QED BY <1>1, <1>2, <1>3, ShapeKeepsCleared

LEMMA CommandKeepsCleared ==
    ASSUME ConversationTypeOK, ConversationTypeOK', MappingInv, MappingInv', ClearedInv,
           NEW n \in Node, StopReply(n) \/ ClearReply(n) \/ RemoveCleared(n)
    PROVE  ClearedInv'
<1> USE DEF cmdFrame, queueVars, treeVars
<1>1. CASE StopReply(n) \/ ClearReply(n)
  <2>1. UNCHANGED <<cleared, mapped, nodes, ticket, late>> /\ Root \in mapped
    BY <1>1 DEF StopReply, StopNode, ClearReply, ClearBranch, MappingInv
  <2> QED BY <2>1, ShapeKeepsCleared
<1>2. CASE RemoveCleared(n) /\ n \notin mapped
  <2>1. UNCHANGED <<cleared, mapped, nodes, ticket, late, store>>
    BY <1>2 DEF RemoveCleared
  <2> QED BY <2>1, ShapeKeepsCleared
<1>3. CASE RemoveCleared(n) /\ n \in mapped
  <2>1. Root \in mapped /\ mapped = nodes /\ nodes \subseteq Node
    BY <1>3 DEF MappingInv, ConversationTypeOK, TypeOK
  <2>2. /\ cleared' = cleared \cup get_descendants(n) /\ late' = late /\ ticket' = ticket
        /\ mapped' = mapped \ get_descendants(n)
    BY <1>3, <2>1 DEF RemoveCleared, RemoveBranch
  <2>3. Root \in mapped' /\ InStore' = mapped'
    <3>1. Root \notin get_descendants(n)
      BY <1>3, <2>1, RootStays DEF RemoveCleared, MappingInv, ConversationTypeOK
    <3> QED BY <2>1, <2>2, <3>1 DEF MappingInv
  <2>4. get_descendants(n) \subseteq nodes
    BY <1>3, <2>1 DEF get_descendants, Closure
  <2> QED BY <2>1, <2>2, <2>3, <2>4 DEF ClearedInv, ClearedStaysCleared, MappingInv
<1> QED BY <1>1, <1>2, <1>3

LEMMA JoinKeepsCleared ==
    ASSUME ConversationTypeOK, ConversationTypeOK', CallInv, MappingInv, MappingInv', ClearedInv,
           NEW m \in Node, Join(m)
    PROVE  ClearedInv'
<1>1. CASE Known(found[m])
  <2>1. ticket[m] = 0 /\ ticket' = [ticket EXCEPT ![m] = NextTicket]
    BY <1>1 DEF Join, Enter, NewConversation, Reply, EnqueueAndStart, CallInv
  <2>2. \A n \in Node : ticket[n] # 0 => ticket'[n] # 0
    BY <2>1 DEF ConversationTypeOK, TypeOK
  <2>3. mapped' = mapped \cup {m} /\ cleared' = cleared /\ m \notin cleared
        /\ (late => late')
    BY <1>1, <2>1 DEF Join, Enter, ClearedInv
  <2>4. InStore' = mapped' /\ Root \in mapped'
    BY <2>3 DEF MappingInv
  <2> QED BY <2>2, <2>3, <2>4 DEF ClearedInv, ClearedStaysCleared, ConversationTypeOK
<1>2. CASE ~Known(found[m])
  <2>1. UNCHANGED <<cleared, mapped, nodes, ticket, late, store>>
    BY <1>2 DEF Join, vars, treeVars, queueVars
  <2> QED BY <2>1, ShapeKeepsCleared
<1> QED BY <1>1, <1>2

LEMMA GlobalKeepsCleared ==
    ASSUME ConversationTypeOK, ConversationTypeOK', MappingInv, MappingInv', ClearedInv,
           ForgetCleared \/ GlobalCancel \/ GlobalStopped \/ GlobalCleared \/ Restart
    PROVE  ClearedInv'
<1> USE DEF vars, treeVars, queueVars, cmdFrame, globalFrame
<1>1. CASE (ForgetCleared /\ Root \in mapped) \/ GlobalCleared
  <2>1. /\ mapped' = {} /\ cleared' = cleared \cup mapped /\ late' = late /\ ticket' = ticket
    BY <1>1 DEF ForgetCleared, CancelTree, GlobalCleared, MappingInv
  <2>2. InStore' = {}
    BY <1>1 DEF ForgetCleared, GlobalCleared, InStore, EmptyStore
  <2>3. \A n \in mapped : ticket[n] # 0
    BY DEF MappingInv
  <2> QED BY <2>1, <2>2, <2>3 DEF ClearedInv, ClearedStaysCleared
<1>2. CASE ForgetCleared /\ Root \notin mapped
  <2>1. UNCHANGED <<cleared, mapped, nodes, ticket, late, store>>
    BY <1>2 DEF ForgetCleared
  <2> QED BY <2>1, ShapeKeepsCleared
<1>3. CASE GlobalCancel \/ GlobalStopped
  <2>1. UNCHANGED <<cleared, mapped, nodes, ticket, late>>
    BY <1>3 DEF GlobalCancel, CancelTree, GlobalStopped
  <2>2. Root \in mapped \/ store' = store
    BY <1>3 DEF GlobalCancel, GlobalStopped, SaveIf, MappingInv
  <2> QED BY <2>1, <2>2, ShapeKeepsCleared
<1>4. CASE Restart
  <2>1. UNCHANGED <<cleared, ticket, late>> /\ nodes' = InStore
    BY <1>4 DEF Restart
  <2>2. mapped' = InStore
    BY <1>4 DEF Restart, MappingInv
  <2>3. InStore' = InStore
    <3>1. CASE store' = store
      BY <3>1 DEF InStore
    <3>2. CASE Save(mapped')
      <4>1. /\ mapped' \subseteq Node /\ nodes' \subseteq Node
            /\ session' \subseteq Node /\ state' \in [Node -> MessageState]
        BY DEF ConversationTypeOK, TypeOK
      <4> QED BY <2>1, <3>2, <4>1, SaveFacts
    <3> QED BY <1>4, <3>1, <3>2 DEF Restart
  <2>4. InStore = {} \/ Root \in InStore
    BY DEF MappingInv
  <2> QED BY <2>1, <2>2, <2>3, <2>4 DEF ClearedInv, ClearedStaysCleared
<1> QED BY <1>1, <1>2, <1>3, <1>4

LEMMA ClearedNext ==
    ConversationTypeOK /\ CallInv /\ MappingInv /\ OneRunInv /\ ClearedInv
      /\ [ConversationNext]_allVars => ClearedInv'
<1> SUFFICES ASSUME ConversationTypeOK, CallInv, MappingInv, OneRunInv, ClearedInv,
                    [ConversationNext]_allVars
             PROVE  ClearedInv'
  OBVIOUS
<1>0. ConversationTypeOK' /\ MappingInv'
  BY ConversationNextType, MappingNext
<1>1. ASSUME NEW m \in Node,
             Receive(m) \/ Record(m) \/ Transcribed(m) \/ CallFails(m) \/ CancelVoice(m)
      PROVE  ClearedInv'
  <2>1. UNCHANGED <<cleared, mapped, nodes, ticket, late, store>>
    BY <1>1 DEF Receive, Record, Transcribed, CallFails, CancelVoice, vars, treeVars,
                queueVars, boundVars
  <2> QED BY <1>0, <2>1, ShapeKeepsCleared
<1>2. CASE UNCHANGED allVars
  BY <1>0, <1>2, ShapeKeepsCleared
  DEF allVars, vars, treeVars, queueVars, convVars, boundVars
<1> QED
  BY <1>0, <1>1, <1>2, JoinKeepsCleared, RunStepKeepsCleared, CommandKeepsCleared,
     GlobalKeepsCleared DEF ConversationNext

\* What /clear took out of the conversation stays out, in memory and in the store: a run
\* that is still ending, a save, a late reply and a restart do not bring it back.
THEOREM ClearedMessagesStayCleared ==
    ASSUME Globals \subseteq {"clear"}
    PROVE  ConversationSpec => []ClearedStaysCleared
<1>1. ConversationInit => ConversationTypeOK /\ CallInv /\ MappingInv /\ OneRunInv /\ ClearedInv
  <2>1. ConversationInit => ClearedInv
    BY DEF ConversationInit, ClearedInv, ClearedStaysCleared, EmptyStore, InStore
  <2> QED BY <2>1, ConversationInitType, CallInit, MappingInit, OneRunInit
<1>2. ConversationTypeOK /\ CallInv /\ MappingInv /\ OneRunInv /\ ClearedInv
        /\ [ConversationNext]_allVars
      => ConversationTypeOK' /\ CallInv' /\ MappingInv' /\ OneRunInv' /\ ClearedInv'
  BY ConversationNextType, CallNext, MappingNext, OneRunNext, ClearedNext
<1>3. ClearedInv => ClearedStaysCleared
  BY DEF ClearedInv
<1> QED BY <1>1, <1>2, <1>3, PTL DEF ConversationSpec

------------------------------------------------------------------------------
(* What the nodes show.                                                    *)

\* The parts of GhostInv: the slot, and what is to be said of each node of the tree.
SlotPart ==
    /\ \A n \in Node : ticket[n] = 0 => state[n] = "pending"
    /\ currentNode # NoNode => ticket[currentNode] # 0
    /\ currentNode \in nodes /\ currentTask \in Live => currentTask = currentNode
    /\ \A n \in cancelReq : task[n] # "none"

NodePart(n) ==
    /\ n \in cancelReq /\ task[n] = "created" => state[n] = "error"
    /\ Root \in mapped =>
         /\ state[n] = "pending" => n \in queue \cup Live
         /\ state[n] = "in_progress" => n \in Live \/ (task[n] = "done" /\ n \notin session)
         /\ task[n] \in {"running", "cleanup"} => state[n] # "pending"
         /\ task[n] = "cleanup" /\ n \in session => state[n] # "in_progress"

LEMMA GhostParts ==
    /\ GhostInv <=> SlotPart /\ \A n \in nodes : NodePart(n)
    /\ GhostInv' <=> SlotPart' /\ \A n \in nodes' : NodePart(n)'
  BY DEF GhostInv, NoGhost, SlotPart, NodePart

\* A node that a step leaves alone.
Untouched(n) ==
    /\ state'[n] = state[n] /\ task'[n] = task[n] /\ (n \in session' <=> n \in session)
    /\ n \in queue => n \in queue'
    /\ n \in cancelReq' => n \in cancelReq

LEMMA UntouchedKeepsNodePart ==
    ASSUME ConversationTypeOK, NEW n \in Node, NodePart(n), Root \in mapped' => Root \in mapped,
           state'[n] = "error" \/ Untouched(n)
    PROVE  NodePart(n)'
<1>1. CASE state'[n] = "error"
  BY <1>1 DEF NodePart
<1>2. CASE Untouched(n)
  BY <1>2 DEF NodePart, Untouched, Live
<1> QED BY <1>1, <1>2

\* States change only of nodes in the tree.
LEMMA FreshStay ==
    ASSUME MappingInv, nodes \subseteq Node, ticket' = ticket,
           \A n \in Node : ticket[n] = 0 => state[n] = "pending",
           \A n \in Node \ nodes : state'[n] = state[n]
    PROVE  \A n \in Node : ticket'[n] = 0 => state'[n] = "pending"
  BY DEF MappingInv

LEMMA ChangedInTree ==
    ASSUME TypeOK
    PROVE  /\ \A n \in Node, s \in {"in_progress", "error"} :
                state' = UpdateState(n, s) => \A k \in Node : k = n \/ state'[k] = state[k]
           /\ \A n \in Node, s \in {"in_progress", "error"} :
                state' = UpdateState(n, s) => \A k \in Node \ nodes : state'[k] = state[k]
           /\ \A n \in Node, s \in {"in_progress", "error"} :
                n \in nodes /\ state' = UpdateState(n, s) => state'[n] = s
           /\ \A n \in Node : \A k \in Node :
                \/ FailNode(n)[k] = state[k]
                \/ FailNode(n)[k] = "error" /\ k \in nodes
           /\ \A n \in nodes \cap adopted \cap mapped : FailNode(n)[n] = "error"
<1>1. ASSUME NEW n \in Node, NEW k \in Node
      PROVE  \/ FailNode(n)[k] = state[k]
             \/ FailNode(n)[k] = "error" /\ k \in nodes
  <2>1. get_pending_children(n) \subseteq nodes
    BY DEF get_pending_children, Closure
  <2>2. CASE FailNode(n) = state
    BY <2>2
  <2>3. CASE n \in nodes /\ FailNode(n) = SetError({n} \cup get_pending_children(n))
    BY <2>1, <2>3 DEF SetError
  <2> QED BY <2>2, <2>3 DEF FailNode, MarkNodeError
<1>2. \A n \in nodes \cap adopted \cap mapped : FailNode(n)[n] = "error"
  BY DEF FailNode, MarkNodeError, SetError, TypeOK
<1> QED BY <1>1, <1>2 DEF UpdateState, TypeOK

\* The steps of a run up to its clean-up.
Working(r) ==
    \/ Begin(r) \/ Refused(r) \/ SessionSeen(r) \/ ErrorShown(r)
    \/ \E code \in {0, 1} : Ends(r, code)
    \/ Raises(r) \/ Interrupted(r)

\* They touch the state of their own node, and fail nodes that wait for it.
LEMMA WorkingFacts ==
    ASSUME TypeOK, RunInv, MappingInv, NEW r \in Node, Working(r)
    PROVE  /\ UNCHANGED <<nodes, ticket, queue, isProcessing, currentNode, currentTask, mapped>>
           /\ cancelReq' \subseteq cancelReq
           /\ task[r] \in {"created", "running"} /\ task'[r] \in {"running", "cleanup"}
           /\ \A k \in Node \ {r} : /\ task'[k] = task[k] /\ (k \in session' <=> k \in session)
                                    /\ state'[k] = state[k] \/ state'[k] = "error"
           /\ \A k \in Node \ nodes : state'[k] = state[k]
<1> USE DEF runFrame, queueVars, slotVars, taskVars, treeVars
<1>1. ASSUME NEW code \in {0, 1}, Ends(r, code)
      PROVE  /\ \A k \in Node \ {r} : state'[k] = state[k] \/ state'[k] = "error"
             /\ \A k \in Node \ nodes : state'[k] = state[k]
  <2> DEFINE failed == IF code = 0 THEN state ELSE FailNode(r)
  <2>1. \A k \in Node : failed[k] = state[k] \/ (failed[k] = "error" /\ k \in nodes)
    BY ChangedInTree
  <2>2. state' = IF r \in session \cap nodes \cap adopted
                 THEN [failed EXCEPT ![r] = "completed"] ELSE failed
    BY <1>1 DEF Ends
  <2>3. failed \in [Node -> MessageState]
    BY FailNodeType DEF TypeOK
  <2> HIDE DEF failed
  <2> QED BY <2>1, <2>2, <2>3
<1>2. CASE \/ Begin(r) \/ Refused(r) \/ SessionSeen(r) \/ ErrorShown(r) \/ Raises(r)
           \/ Interrupted(r)
  <2>1. state' = state \/ state' = FailNode(r)
        \/ \E s \in {"in_progress", "error"} : state' = UpdateState(r, s)
    BY <1>2 DEF Begin, Refused, SessionSeen, ErrorShown, Raises, Interrupted
  <2>2. /\ \A k \in Node \ {r} : state'[k] = state[k] \/ state'[k] = "error"
        /\ \A k \in Node \ nodes : state'[k] = state[k]
    BY <2>1, ChangedInTree
  <2> QED BY <1>2, <2>2
          DEF Begin, Refused, SessionSeen, ErrorShown, Raises, Interrupted, Running, TypeOK
<1>3. ASSUME NEW code \in {0, 1}, Ends(r, code)
      PROVE  /\ UNCHANGED <<nodes, ticket, queue, isProcessing, currentNode, currentTask, mapped>>
             /\ cancelReq' \subseteq cancelReq
             /\ task[r] \in {"created", "running"} /\ task'[r] \in {"running", "cleanup"}
             /\ \A k \in Node \ {r} : task'[k] = task[k] /\ (k \in session' <=> k \in session)
  BY <1>3 DEF Ends, Running, TypeOK
<1> QED BY <1>1, <1>2, <1>3 DEF Working

\* What such a step leaves of its own node.
LEMMA WorkingNode ==
    ASSUME ConversationTypeOK, RunInv, MappingInv, NEW r \in Node, Working(r), r \in nodes,
           NodePart(r)
    PROVE  NodePart(r)'
<1> TypeOK
  BY DEF ConversationTypeOK
<1>1. /\ nodes' = nodes /\ mapped' = mapped /\ task'[r] \in {"running", "cleanup"}
      /\ r \in Live'
  BY WorkingFacts DEF Live
<1>2. Root \in mapped => r \in mapped
  BY DEF MappingInv
<1>3. Root \in mapped /\ task[r] = "running" => r \in adopted
  BY DEF RunInv
<1>4. ASSUME Root \in mapped
      PROVE  /\ state'[r] # "pending"
             /\ task'[r] = "cleanup" /\ r \in session' => state'[r] # "in_progress"
  <2>1. CASE Begin(r)
    BY <1>2, <1>4, <2>1, ChangedInTree DEF Begin, TypeOK
  <2>2. CASE Refused(r) \/ Interrupted(r)
    BY <1>3, <1>4, <2>2, ChangedInTree DEF Refused, Interrupted, Running
  <2>3. CASE SessionSeen(r)
    BY <1>3, <1>4, <2>3, ChangedInTree DEF SessionSeen, Running, taskVars
  <2>4. CASE ErrorShown(r) \/ Raises(r)
    BY <1>2, <1>3, <1>4, <2>4, ChangedInTree DEF ErrorShown, Raises, Running
  <2>5. ASSUME NEW code \in {0, 1}, Ends(r, code)
        PROVE  state'[r] # "pending" /\ (r \in session' => state'[r] # "in_progress")
    <3>1. /\ r \in adopted \cap mapped /\ session' = session /\ state[r] # "pending"
          /\ FailNode(r)[r] = "error"
      BY <1>2, <1>3, <1>4, <2>5, ChangedInTree DEF Ends, Running, NodePart
    <3>2. FailNode(r) \in [Node -> MessageState] /\ state \in [Node -> MessageState]
      BY FailNodeType DEF TypeOK
    <3> QED BY <2>5, <3>1, <3>2 DEF Ends
  <2> QED BY <2>1, <2>2, <2>3, <2>4, <2>5 DEF Working
<1> QED BY <1>1, <1>4 DEF NodePart

LEMMA WorkingKeepsGhost ==
    ASSUME ConversationTypeOK, RunInv, MappingInv, GhostInv, NEW r \in Node, Working(r)
    PROVE  GhostInv'
<1> TypeOK /\ SlotPart /\ \A n \in nodes : NodePart(n)
  BY GhostParts DEF ConversationTypeOK
<1>1. SlotPart'
  <2>1. \A n \in Node : ticket'[n] = 0 => state'[n] = "pending"
    BY WorkingFacts, FreshStay DEF SlotPart, TypeOK
  <2>2. Live' = Live
    BY WorkingFacts DEF Live
  <2>3. \A n \in cancelReq' : task'[n] # "none"
    BY WorkingFacts DEF SlotPart, TypeOK
  <2> QED BY <2>1, <2>2, <2>3, WorkingFacts DEF SlotPart
<1>2. ASSUME NEW n \in nodes' PROVE NodePart(n)'
  <2>1. n \in nodes /\ n \in Node
    BY WorkingFacts DEF TypeOK
  <2>2. CASE n = r
    BY <2>1, <2>2, WorkingNode
  <2>3. CASE n # r
    <3>1. state'[n] = "error" \/ Untouched(n)
      BY <2>1, <2>3, WorkingFacts DEF Untouched
    <3> QED BY <2>1, <3>1, UntouchedKeepsNodePart, WorkingFacts
  <2> QED BY <2>2, <2>3
<1> QED BY <1>1, <1>2, GhostParts

LEMMA HandOverKeepsGhost ==
    ASSUME ConversationTypeOK, CallInv, RunInv, MappingInv, GhostInv,
           NEW r \in Node, TreeOnly(r)
    PROVE  GhostInv'
<1> USE DEF runFrame, queueVars, slotVars, taskVars, treeVars
<1> TypeOK /\ SlotPart /\ \A n \in nodes : NodePart(n)
  BY GhostParts DEF ConversationTypeOK
<1>1. /\ UNCHANGED <<nodes, state, session, ticket, mapped>> /\ cancelReq' \subseteq cancelReq
      /\ r \in Live /\ r \notin queue /\ nodes \subseteq Node
  BY DEF TreeOnly, NeverRuns, Skip, Finish, ProcessNext, Live, RunInv, TypeOK
<1>2. r \in nodes => NodePart(r)' \/ r \in Live'
  <2>1. CASE NeverRuns(r)
    BY <1>1, <2>1 DEF NeverRuns, NodePart, TypeOK
  <2>2. CASE Skip(r)
    <3>1. task'[r] # "created"
      BY <1>1, <2>2 DEF Skip, ProcessNext, StartTask, TypeOK
    <3> QED BY <1>1, <2>2, <3>1 DEF Skip, NodePart
  <2>3. CASE Finish(r)
    <3>1. task'[r] = "done"
      BY <1>1, <2>3 DEF Finish, ProcessNext, StartTask, TypeOK
    <3> QED BY <1>1, <2>3, <3>1 DEF Finish, NodePart
  <2> QED BY <2>1, <2>2, <2>3 DEF TreeOnly
<1>3. CASE NeverRuns(r) \/ queue = {}
  <2>1. /\ task' = [task EXCEPT ![r] = "done"] /\ queue' = queue /\ currentTask' = currentTask
        /\ currentNode' = currentNode \/ currentNode' = NoNode
        /\ r \notin cancelReq'
    BY <1>3 DEF TreeOnly, NeverRuns, Skip, Finish, ProcessNext
  <2>2. Live' = Live \ {r}
    BY <2>1 DEF Live, TypeOK
  <2>3. SlotPart'
    BY <1>1, <2>1, <2>2 DEF SlotPart, TypeOK
  <2>4. ASSUME NEW n \in nodes' PROVE NodePart(n)'
    <3>1. CASE n = r
      BY <1>1, <1>2, <2>2, <2>4, <3>1
    <3>2. CASE n # r
      BY <1>1, <2>1, <2>4, <3>2, UntouchedKeepsNodePart DEF Untouched, TypeOK
    <3> QED BY <3>1, <3>2
  <2> QED BY <2>3, <2>4, GhostParts
<1>4. ASSUME NEW h \in queue, queue' = queue \ {h}, currentNode' = h,
             StartTask(h, nodes, [task EXCEPT ![r] = "done"])
      PROVE  GhostInv'
  <2>1. h # r /\ h \in Node /\ task[h] = "none" /\ h \notin cancelReq /\ ticket[h] # 0
    BY <1>1, <1>4 DEF RunInv, CallInv, SlotPart, TypeOK
  <2>2. /\ \A k \in Node \ {h, r} : task'[k] = task[k]
        /\ task'[r] = "done" /\ task'[h] \in {"none", "created"}
        /\ h \in nodes => task'[h] = "created" /\ currentTask' = h
        /\ h \notin nodes => task'[h] = "none" /\ currentTask' = currentTask
    BY <1>4, <2>1 DEF StartTask, TypeOK
  <2>3. r \notin cancelReq'
    BY <1>4 DEF TreeOnly, NeverRuns, Skip, Finish
  <2>4. SlotPart'
    BY <1>1, <1>4, <2>1, <2>2, <2>3 DEF SlotPart, TypeOK
  <2>5. ASSUME NEW n \in nodes' PROVE NodePart(n)'
    <3>1. CASE n = r
      BY <1>1, <1>2, <2>2, <2>5, <3>1 DEF Live
    <3>2. CASE n = h
      <4>1. n \in Live' /\ n \notin cancelReq' /\ task'[n] = "created"
        BY <1>1, <2>1, <2>2, <2>5, <3>2 DEF Live
      <4> QED BY <4>1 DEF NodePart
    <3>3. CASE n \notin {r, h}
      BY <1>1, <1>4, <2>2, <2>5, <3>3, UntouchedKeepsNodePart DEF Untouched, TypeOK
    <3> QED BY <3>1, <3>2, <3>3
  <2> QED BY <2>4, <2>5, GhostParts
<1>5. NeverRuns(r) \/ queue = {} \/ \E h \in queue :
         queue' = queue \ {h} /\ currentNode' = h
           /\ StartTask(h, nodes, [task EXCEPT ![r] = "done"])
  BY DEF TreeOnly, Skip, Finish, ProcessNext, StartTask
<1> QED BY <1>3, <1>4, <1>5

\* A command by reply marks what it stops, and cancels the task of a node that it marks.
LEMMA MarkedKeepGhost ==
    ASSUME ConversationTypeOK, MappingInv, GhostInv,
           UNCHANGED <<nodes, ticket, session, task, currentNode, currentTask, mapped>>,
           NEW S \in SUBSET nodes, state' = SetError(S), \A n \in queue \ S : n \in queue',
           cancelReq' = cancelReq \/ (currentNode \in S /\ cancelReq' = CancelCurrent)
    PROVE  GhostInv'
<1> TypeOK /\ SlotPart /\ (\A n \in nodes : NodePart(n)) /\ Live' = Live
  BY GhostParts DEF ConversationTypeOK, Live
<1>1. cancelReq' \subseteq cancelReq \cup (S \cap Live)
  BY DEF CancelCurrent, SlotPart
<1>2. SlotPart'
  <2>1. \A n \in Node \ nodes : state'[n] = state[n]
    BY DEF SetError
  <2>2. \A n \in Node : ticket'[n] = 0 => state'[n] = "pending"
    BY <2>1, FreshStay DEF SlotPart, TypeOK
  <2>3. \A n \in cancelReq' : task'[n] # "none"
    BY <1>1 DEF SlotPart, Live
  <2> QED BY <2>2, <2>3 DEF SlotPart
<1>3. ASSUME NEW n \in nodes' PROVE NodePart(n)'
  <2>1. n \in nodes /\ n \in Node
    BY DEF TypeOK
  <2>2. CASE n \in S
    BY <2>1, <2>2, UntouchedKeepsNodePart DEF SetError
  <2>3. CASE n \notin S
    BY <1>1, <2>1, <2>3, UntouchedKeepsNodePart DEF SetError, Untouched
  <2> QED BY <2>2, <2>3
<1> QED BY <1>2, <1>3, GhostParts

LEMMA CommandKeepsGhost ==
    ASSUME ConversationTypeOK, MappingInv, GhostInv,
           NEW b \in Node, StopReply(b) \/ ClearReply(b) \/ RemoveCleared(b)
    PROVE  GhostInv'
<1> USE DEF cmdFrame, queueVars, slotVars, taskVars, treeVars
<1> nodes \subseteq Node
  BY DEF ConversationTypeOK, TypeOK
<1>1. CASE StopReply(b)
  <2>1. {b} \in SUBSET nodes /\ state' = SetError({b})
    BY <1>1 DEF StopReply, StopNode
  <2>2. \A n \in queue \ {b} : n \in queue'
    BY <1>1 DEF StopReply, StopNode
  <2>3. cancelReq' = cancelReq \/ (currentNode \in {b} /\ cancelReq' = CancelCurrent)
    BY <1>1 DEF StopReply, StopNode
  <2>4. UNCHANGED <<nodes, ticket, session, task, currentNode, currentTask, mapped>>
    BY <1>1 DEF StopReply, StopNode
  <2> QED BY <2>1, <2>2, <2>3, <2>4, MarkedKeepGhost
<1>2. CASE ClearReply(b)
  <2> DEFINE hit == {n \in get_descendants(b) : state[n] \notin Terminal}
  <2>1. hit \in SUBSET nodes
    BY <1>2 DEF ClearReply, ClearBranch, get_descendants, Closure
  <2>2. /\ state' = SetError(hit) /\ queue' = queue \ (hit \ {currentNode})
        /\ cancelReq' = IF currentNode \in hit THEN CancelCurrent ELSE cancelReq
        /\ UNCHANGED <<nodes, ticket, session, task, currentNode, currentTask, mapped>>
    BY <1>2 DEF ClearReply, ClearBranch
  <2> HIDE DEF hit
  <2>3. \A n \in queue \ hit : n \in queue'
    BY <2>2
  <2> QED BY <2>1, <2>2, <2>3, MarkedKeepGhost
<1>3. CASE RemoveCleared(b)
  <2>1. nodes' \subseteq nodes /\ (Root \in mapped' => Root \in mapped)
        /\ UNCHANGED <<state, session, queue, ticket, currentNode, currentTask, task, cancelReq>>
    BY <1>3 DEF RemoveCleared, RemoveBranch
  <2>2. SlotPart'
    BY <2>1, GhostParts DEF SlotPart, Live
  <2>3. \A n \in nodes' : NodePart(n)'
    BY <2>1, GhostParts, UntouchedKeepsNodePart DEF Untouched
  <2> QED BY <2>2, <2>3, GhostParts
<1> QED BY <1>1, <1>2, <1>3

LEMMA GlobalKeepsGhost ==
    ASSUME ConversationTypeOK, RunInv, MappingInv, GhostInv,
           ForgetCleared \/ GlobalCancel \/ GlobalStopped \/ GlobalCleared
    PROVE  GhostInv'
<1> USE DEF cmdFrame, globalFrame, queueVars, slotVars, taskVars, treeVars
<1> TypeOK /\ SlotPart /\ \A n \in nodes : NodePart(n)
  BY GhostParts DEF ConversationTypeOK
<1>1. nodes' = nodes /\ nodes \subseteq Node /\ (Root \in mapped' => Root \in mapped)
  BY DEF ForgetCleared, GlobalCancel, GlobalStopped, GlobalCleared, vars, TypeOK
<1>2. CASE UNCHANGED <<state, session, queue, ticket, currentNode, currentTask, task, cancelReq>>
  <2>1. SlotPart'
    BY <1>1, <1>2 DEF SlotPart, Live
  <2>2. \A n \in nodes' : NodePart(n)'
    BY <1>1, <1>2, UntouchedKeepsNodePart DEF Untouched
  <2> QED BY <2>1, <2>2, GhostParts
<1>3. CASE CancelTree
  <2>1. /\ state' = SetError(ActiveNodes) /\ ActiveNodes \subseteq nodes
        /\ currentNode' = NoNode /\ UNCHANGED <<ticket, session, task>>
        /\ cancelReq' \subseteq cancelReq \cup Live
    BY <1>3 DEF CancelTree, ActiveNodes, CancelCurrent
  <2>2. SlotPart'
    <3>1. \A n \in Node : ticket'[n] = 0 => state'[n] = "pending"
      BY <2>1, FreshStay DEF SlotPart, SetError, TypeOK
    <3>2. \A n \in cancelReq' : task'[n] # "none"
      BY <2>1 DEF SlotPart, Live
    <3>3. NoNode \notin nodes'
      BY <1>1 DEF TreeAssumption
    <3> QED BY <2>1, <3>1, <3>2, <3>3 DEF SlotPart
  <2>3. ASSUME NEW n \in nodes' PROVE NodePart(n)'
    <3>1. n \in nodes /\ n \in Node
      BY <1>1, <2>3
    <3>2. CASE n \in ActiveNodes
      BY <1>1, <2>1, <3>1, <3>2, UntouchedKeepsNodePart DEF SetError
    <3>3. CASE n \notin ActiveNodes
      <4>1. state'[n] = state[n] /\ state[n] \in {"completed", "error"}
        BY <2>1, <3>1, <3>3 DEF SetError, ActiveNodes, TypeOK, MessageState
      <4> QED BY <2>1, <3>1, <4>1 DEF NodePart, RunInv
    <3> QED BY <3>2, <3>3
  <2> QED BY <2>2, <2>3, GhostParts
<1> QED BY <1>2, <1>3 DEF ForgetCleared, GlobalCancel, GlobalStopped, GlobalCleared, vars

LEMMA EnterKeepsGhost ==
    ASSUME ConversationTypeOK, CallInv, MappingInv, GhostInv,
           NEW m \in Node, call[m] = "sending", Known(found[m]), Enter(m)
    PROVE  GhostInv'
<1> USE DEF slotVars
<1> TypeOK /\ SlotPart /\ (\A n \in nodes : NodePart(n)) /\ nodes \subseteq Node
  BY GhostParts DEF ConversationTypeOK, TypeOK
<1>1. ticket[m] = 0 /\ task[m] = "none" /\ state[m] = "pending"
      /\ m \notin cancelReq /\ currentNode # m
  BY DEF CallInv, SlotPart, TreeAssumption
<1>2. /\ ticket' = [ticket EXCEPT ![m] = NextTicket] /\ EnqueueAndStart(m, nodes')
      /\ m \in nodes' /\ nodes' \subseteq nodes \cup {m}
      /\ UNCHANGED <<state, session, cancelReq>>
  BY DEF CallInv, MappingInv, Known, Enter, NewConversation, Reply, EnqueueAndStart
<1>3. /\ \A n \in Node \ {m} : task'[n] = task[n]
      /\ queue \subseteq queue'
      /\ \/ isProcessing /\ m \in queue' /\ task' = task
            /\ UNCHANGED <<currentNode, currentTask>>
         \/ task'[m] = "created" /\ currentNode' = m /\ currentTask' = m
  BY <1>1, <1>2 DEF EnqueueAndStart, StartTask, TypeOK
<1>4. SlotPart'
  <2>1. ticket'[m] # 0 /\ \A n \in Node \ {m} : ticket'[n] = ticket[n]
    BY <1>2, NextTicketType DEF TypeOK
  <2>2. \A n \in Node : ticket'[n] = 0 => state'[n] = "pending"
    BY <1>2, <2>1 DEF SlotPart
  <2>3. \A n \in cancelReq' : task'[n] # "none"
    BY <1>1, <1>2, <1>3 DEF SlotPart, TypeOK
  <2>4. currentNode' # NoNode => ticket'[currentNode'] # 0
    BY <1>1, <1>3, <2>1 DEF SlotPart, TypeOK
  <2>5. currentNode' \in nodes' /\ currentTask' \in Live' => currentTask' = currentNode'
    BY <1>1, <1>2, <1>3 DEF SlotPart, Live
  <2> QED BY <2>2, <2>3, <2>4, <2>5 DEF SlotPart
<1>5. ASSUME NEW n \in nodes' PROVE NodePart(n)'
  <2>1. CASE n = m
    <3>1. n \in queue' \cup Live' /\ n \notin cancelReq' /\ state'[n] = "pending"
          /\ task'[n] \in {"none", "created"}
      BY <1>1, <1>2, <1>3, <2>1 DEF Live
    <3> QED BY <3>1 DEF NodePart
  <2>2. CASE n # m
    <3>1. n \in nodes /\ n \in Node
      BY <1>2, <1>5, <2>2
    <3>2. Untouched(n)
      BY <1>2, <1>3, <2>2, <3>1 DEF Untouched
    <3>3. Root \in mapped' => Root \in mapped
      <4>1. nodes # {}
        BY <3>1
      <4>2. found[m] # NoNode
        BY <1>1, <4>1 DEF CallInv, MappingInv
      <4>3. mapped # {}
        BY <4>2 DEF Known
      <4> QED BY <4>3 DEF MappingInv
    <3> QED BY <3>1, <3>2, <3>3, UntouchedKeepsNodePart
  <2> QED BY <2>1, <2>2
<1> QED BY <1>4, <1>5, GhostParts

LEMMA RestartKeepsGhost ==
    ASSUME ConversationTypeOK, MappingInv, GhostInv, Restart
    PROVE  GhostInv'
<1> SlotPart /\ InStore \subseteq Node
  BY GhostParts, StoreParts
<1>1. /\ nodes' = InStore /\ ticket' = ticket /\ currentNode' = NoNode /\ currentTask' = NoNode
      /\ cancelReq' = {} /\ \A n \in Node : task'[n] = "none"
      /\ \A n \in Node : state'[n] = Restored(n)
  BY DEF Restart
<1>2. SlotPart'
  <2>1. \A n \in Node : ticket'[n] = 0 => state'[n] = "pending"
    <3>1. \A n \in Node : ticket[n] = 0 => n \notin InStore
      BY DEF MappingInv
    <3> QED BY <1>1, <3>1 DEF SlotPart, Restored, InStore
  <2>2. NoNode \notin nodes'
    BY <1>1 DEF TreeAssumption
  <2> QED BY <1>1, <2>1, <2>2 DEF SlotPart
<1>3. ASSUME NEW n \in nodes' PROVE NodePart(n)'
  <2>1. state'[n] \notin {"pending", "in_progress"}
    BY <1>1, <1>3 DEF Restored, InStore
  <2> QED BY <1>1, <2>1, <1>3 DEF NodePart
<1> QED BY <1>2, <1>3, GhostParts

LEMMA GhostNext ==
    ConversationTypeOK /\ CallInv /\ MappingInv /\ RunInv /\ GhostInv
      /\ [ConversationNext]_allVars => GhostInv'
<1> SUFFICES ASSUME ConversationTypeOK, CallInv, MappingInv, RunInv, GhostInv,
                    [ConversationNext]_allVars
             PROVE  GhostInv'
  OBVIOUS
<1>1. ASSUME UNCHANGED <<vars, mapped>> PROVE GhostInv'
  BY <1>1 DEF vars, treeVars, queueVars, slotVars, taskVars, GhostInv, NoGhost, Live
<1>2. ASSUME NEW m \in Node, Join(m) PROVE GhostInv'
  BY <1>1, <1>2, EnterKeepsGhost DEF Join
<1>3. ASSUME NEW m \in Node,
             Receive(m) \/ Record(m) \/ Transcribed(m) \/ CallFails(m) \/ CancelVoice(m)
      PROVE  GhostInv'
  BY <1>1, <1>3 DEF Receive, Record, Transcribed, CallFails, CancelVoice
<1>4. ASSUME NEW r \in Node, RunStep(r) PROVE GhostInv'
  <2>1. Working(r) \/ TreeOnly(r)
    BY <1>4 DEF RunStep, Working
  <2> QED BY <2>1, WorkingKeepsGhost, HandOverKeepsGhost
<1>5. CASE UNCHANGED allVars
  BY <1>1, <1>5 DEF allVars, convVars
<1> QED
  BY <1>2, <1>3, <1>4, <1>5, CommandKeepsGhost, GlobalKeepsGhost, RestartKeepsGhost
  DEF ConversationNext

\* Nothing is shown as waiting that nobody serves, nor as working without a run, although
\* tasks are cancelled before their first step, branches vanish under the queue and the
\* process is restarted: every end of process_node, every command and cleanup_stale_nodes
\* leave a final state behind.
THEOREM NothingHaunts == ConversationSpec => []NoGhost
<1>1. ConversationInit =>
        ConversationTypeOK /\ CallInv /\ MappingInv /\ RunInv /\ SavedInv /\ GhostInv
  <2>1. ConversationInit => GhostInv
    BY DEF ConversationInit, Init, GhostInv, NoGhost, Live
  <2> QED BY <2>1, ConversationInitType, CallInit, MappingInit, RunInit
<1>2. ConversationTypeOK /\ CallInv /\ MappingInv /\ RunInv /\ SavedInv /\ GhostInv
        /\ [ConversationNext]_allVars
      => ConversationTypeOK' /\ CallInv' /\ MappingInv' /\ RunInv' /\ SavedInv' /\ GhostInv'
  BY ConversationNextType, CallNext, MappingNext, RunNext, GhostNext
<1>3. GhostInv => NoGhost
  BY DEF GhostInv
<1> QED BY <1>1, <1>2, <1>3, PTL DEF ConversationSpec

============================================================================
