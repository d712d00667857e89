---------------------------- MODULE SessionStore ----------------------------
(***************************************************************************)
(* The session store of the messaging bot (messaging/session.py) with the  *)
(* start and the shutdown of the server around it (api/app.py).            *)
(*                                                                         *)
(* Its operations are called by the main thread; a change only arms a      *)
(* threading.Timer, which saves the whole store from a thread of its own.  *)
(* Every section under the store's lock is one step; the file is written   *)
(* outside the lock, so opening it (which truncates it) and closing it     *)
(* (which flushes it) are steps of their own.  The debounce delay is left  *)
(* out: an armed timer may fire at any moment.                             *)
(***************************************************************************)
EXTENDS Naturals, Sequences, FiniteSets, SequencesExt

CONSTANTS Tree,         \* root ids
          Node,         \* node ids
          Id,           \* message ids
          Cap,          \* MAX_MESSAGE_LOG_ENTRIES_PER_CHAT, 0 for no cap
          Timer,        \* the timer threads that may exist together
          Main,         \* the main thread
          None,         \* Python's None
          MaxCalls      \* bound: calls of the main thread

ASSUME StoreAssumption ==
    /\ Main \notin Timer
    /\ None \notin Timer \cup Tree
    /\ Cap \in Nat /\ MaxCalls \in Nat

Thread == Timer \cup {Main}

VARIABLES
    data,           \* _trees (their nodes), _node_to_tree and _message_log of a chat
    logIds,         \* _message_log_ids of that chat
    dirty,          \* _dirty
    saveTimer,      \* _save_timer
    doing,          \* what each thread is doing
    snapshot,       \* the snapshot each thread writes
    spoiled,        \* threads whose open file another thread opened or wrote
    disk,           \* the store that _load would read from the file
    phase,          \* up, stopping (after the final flush), exited, crashed
    calls,          \* calls so far
    overlapped,     \* the last snapshot was taken while another was being written
    failed          \* a write failed since the last snapshot was taken

storeVars  == <<data, logIds, dirty, saveTimer>>
threadVars == <<doing, snapshot>>
fileVars   == <<spoiled, disk>>
histVars   == <<overlapped, failed>>
allVars == <<storeVars, threadVars, fileVars, phase, calls, histVars>>

NoDuplicates(log) == \A i, j \in 1..Len(log) : log[i] = log[j] => i = j

MaxLog == IF Cap > 0 THEN Cap ELSE Cardinality(Id)
Logs == {log \in UNION {[1..k -> Id] : k \in 0..MaxLog} : NoDuplicates(log)}
Data == [trees : [Tree -> SUBSET Node], nodeToTree : [Node -> Tree \cup {None}],
         log : Logs]

Empty == [trees      |-> [t \in Tree |-> {}],
          nodeToTree |-> [n \in Node |-> None],
          log        |-> << >>]

ThreadState == {"idle", "armed", "fired", "writing", "open", "failed"}
Running  == phase \in {"up", "stopping"}
Writers  == {t \in Thread : doing[t] \in {"writing", "open"}}

\* _load starts empty when there is no file, or when it does not parse, as while
\* it is being written.
Unreadable == Empty

StoreTypeOK ==
    /\ data \in Data
    /\ logIds \subseteq Id
    /\ dirty \in BOOLEAN
    /\ saveTimer \in Timer \cup {None}
    /\ doing \in [Thread -> ThreadState]
    /\ \A t \in Writers : snapshot[t] \in Data
    /\ spoiled \subseteq Thread
    /\ disk \in Data
    /\ phase \in {"up", "stopping", "exited", "crashed"}
    /\ calls \in 0..MaxCalls

StoreInit ==
    /\ data = Empty /\ logIds = {} /\ dirty = FALSE /\ saveTimer = None
    /\ doing = [t \in Thread |-> "idle"]
    /\ snapshot = [t \in Thread |-> Empty]
    /\ spoiled = {}
    /\ disk = Unreadable
    /\ phase = "up" /\ calls = 0
    /\ overlapped = FALSE /\ failed = FALSE

------------------------------------------------------------------------------
(* Debouncing.                                                             *)

\* Timer.cancel(): too late for a timer that has fired.
CancelTimer == IF saveTimer # None /\ doing[saveTimer] = "armed"
               THEN [doing EXCEPT ![saveTimer] = "idle"] ELSE doing

\* Mutant: the old timer is cancelled and taken to be the new one.
ScheduleTooFew ==
    \E t \in Timer :
        /\ CancelTimer[t] = "idle"
        /\ doing' = IF saveTimer = None THEN [doing EXCEPT ![t] = "armed"] ELSE CancelTimer
        /\ saveTimer' = t
        /\ dirty' = TRUE

ScheduleSave ==
    \E t \in Timer :
        /\ CancelTimer[t] = "idle"
        /\ doing' = [CancelTimer EXCEPT ![t] = "armed"]
        /\ saveTimer' = t
        /\ dirty' = TRUE

\* A thread leaves the locked section with a snapshot to write.
TakeSnapshot(t, pcs, d) ==
    /\ doing' = [pcs EXCEPT ![t] = "writing"]
    /\ snapshot' = [snapshot EXCEPT ![t] = d]
    /\ dirty' = FALSE
    /\ saveTimer' = None
    /\ overlapped' = (Writers # {})
    /\ failed' = FALSE

------------------------------------------------------------------------------
(* The operations of the main thread.                                      *)

Call == Running /\ doing[Main] = "idle" /\ calls < MaxCalls /\ calls' = calls + 1

\* A call that changes the store and arms the timer.
Change(d) ==
    /\ data' = d
    /\ ScheduleSave
    /\ UNCHANGED <<snapshot, fileVars, phase, histVars>>

LastOf(log, k) == SubSeq(log, Len(log) - k + 1, Len(log))

Capped(log) == IF Cap > 0 /\ Len(log) > Cap THEN LastOf(log, Cap) ELSE log

\* Mutant: the set of known ids is not trimmed with the log.
KnownIdsKept(log, id) == logIds \cup {id}

KnownIds(log, id) == ToSet(log)

RecordMessageId(id) ==
    /\ Call
    /\ id \notin logIds
    /\ LET log == Capped(Append(data.log, id))
       IN  /\ Change([data EXCEPT !.log = log])
           /\ logIds' = KnownIds(log, id)

SaveTree(t, nodes) ==
    /\ Call
    /\ Change([data EXCEPT !.trees[t] = nodes,
                           !.nodeToTree = [n \in Node |-> IF n \in nodes THEN t ELSE @[n]]])
    /\ UNCHANGED logIds

RegisterNode(n, t) ==
    /\ Call
    /\ Change([data EXCEPT !.nodeToTree[n] = t])
    /\ UNCHANGED logIds

Unmapped(ns) == [n \in Node |-> IF n \in ns THEN None ELSE data.nodeToTree[n]]

RemoveNodeMappings(ns) ==
    /\ Call
    /\ Change([data EXCEPT !.nodeToTree = Unmapped(ns)])
    /\ UNCHANGED logIds

RemoveTree(t) ==
    /\ Call
    /\ data.trees[t] # {}
    /\ Change([data EXCEPT !.trees[t] = {}, !.nodeToTree = Unmapped(data.trees[t])])
    /\ UNCHANGED logIds

\* Mutant: the snapshot is taken before the maps are cleared.
ClearAllTooLate ==
    /\ Call
    /\ data' = Empty /\ logIds' = {}
    /\ TakeSnapshot(Main, CancelTimer, data)
    /\ UNCHANGED <<fileVars, phase>>

ClearAll ==
    /\ Call
    /\ data' = Empty /\ logIds' = {}
    /\ TakeSnapshot(Main, CancelTimer, Empty)
    /\ UNCHANGED <<fileVars, phase>>

\* flush_pending_save: called once, by the shutdown of the server.
Flush ==
    /\ phase = "up" /\ doing[Main] = "idle"
    /\ phase' = "stopping"
    /\ TakeSnapshot(Main, CancelTimer, data)
    /\ UNCHANGED <<data, logIds, fileVars, calls>>

------------------------------------------------------------------------------
(* The timer threads.                                                      *)

\* Mutant: the new timer is not started.
FireNever(t) == FALSE

Fire(t) ==
    /\ Running
    /\ doing[t] = "armed"
    /\ doing' = [doing EXCEPT ![t] = "fired"]
    /\ UNCHANGED <<storeVars, snapshot, fileVars, phase, calls, histVars>>

SaveFromTimer(t) ==
    /\ Running
    /\ doing[t] = "fired"
    /\ \/ /\ ~dirty
          /\ saveTimer' = None
          /\ doing' = [doing EXCEPT ![t] = "idle"]
          /\ UNCHANGED <<dirty, snapshot, histVars>>
       \/ /\ dirty
          /\ TakeSnapshot(t, doing, data)
    /\ UNCHANGED <<data, logIds, fileVars, phase, calls>>

------------------------------------------------------------------------------
(* Writing the file, by any thread.                                        *)

OthersOpen(t) == {u \in Thread : doing[u] = "open"} \ {t}

OpenFile(t) ==
    /\ Running
    /\ doing[t] = "writing"
    /\ doing' = [doing EXCEPT ![t] = "open"]
    /\ disk' = Unreadable
    /\ spoiled' = (spoiled \ {t}) \cup OthersOpen(t)
    /\ UNCHANGED <<storeVars, snapshot, phase, calls, histVars>>

\* Two writers of one file: whether the text of the last one covers that of the
\* other depends on their lengths.
CloseFile(t) ==
    /\ Running
    /\ doing[t] = "open"
    /\ doing' = [doing EXCEPT ![t] = "idle"]
    /\ \/ disk' = snapshot[t]
       \/ t \in spoiled /\ disk' = Unreadable
    /\ spoiled' = (spoiled \ {t}) \cup OthersOpen(t)
    /\ snapshot' = [snapshot EXCEPT ![t] = Empty]      \* its local variable is gone
    /\ UNCHANGED <<storeVars, phase, calls, histVars>>

\* open() raises, or json.dump() does with a part of the text written.
WriteFails(t) ==
    /\ Running
    /\ \/ doing[t] = "writing" /\ UNCHANGED <<disk, spoiled>>
       \/ /\ doing[t] = "open"
          /\ disk' \in {disk, Unreadable}
          /\ spoiled' = (spoiled \ {t}) \cup OthersOpen(t)
    /\ doing' = [doing EXCEPT ![t] = "failed"]
    /\ snapshot' = [snapshot EXCEPT ![t] = Empty]
    /\ failed' = TRUE
    /\ UNCHANGED <<storeVars, phase, calls, overlapped>>

\* The except clause: the store is dirty again, and no timer is armed for it.
MarkDirty(t) ==
    /\ Running
    /\ doing[t] = "failed"
    /\ doing' = [doing EXCEPT ![t] = "idle"]
    /\ dirty' = TRUE
    /\ failed' = TRUE
    /\ UNCHANGED <<data, logIds, saveTimer, snapshot, fileVars, phase, calls, overlapped>>

------------------------------------------------------------------------------
(* The process.                                                            *)

\* The end of the lifespan: the timer threads are daemons and die with it.
Exit ==
    /\ phase = "stopping" /\ doing[Main] = "idle"
    /\ phase' = "exited"
    /\ UNCHANGED <<storeVars, threadVars, fileVars, calls, histVars>>

Crash ==
    /\ Running
    /\ phase' = "crashed"
    /\ UNCHANGED <<storeVars, threadVars, fileVars, calls, histVars>>

\* A new process: __init__ and _load; when the restored trees hold stale nodes
\* the lifespan also calls sync_from_tree_data, which arms the timer.
Restart ==
    /\ ~Running
    /\ phase' = "up"
    /\ data' = disk
    /\ logIds' = ToSet(disk.log)
    /\ snapshot' = [t \in Thread |-> Empty]
    /\ spoiled' = {}
    /\ overlapped' = FALSE /\ failed' = FALSE
    /\ \/ /\ dirty' = FALSE /\ saveTimer' = None
          /\ doing' = [t \in Thread |-> "idle"]
       \/ /\ \E t \in Tree : disk.trees[t] # {}
          /\ dirty' = TRUE
          /\ \E t \in Timer : /\ saveTimer' = t
                              /\ doing' = [u \in Thread |->
                                              IF u = t THEN "armed" ELSE "idle"]
    /\ UNCHANGED <<disk, calls>>

------------------------------------------------------------------------------
StoreCall ==
    \/ \E id \in Id : RecordMessageId(id)
    \/ \E t \in Tree, nodes \in SUBSET Node \ {{}} : SaveTree(t, nodes)
    \/ \E n \in Node, t \in Tree : RegisterNode(n, t)
    \/ \E ns \in SUBSET Node : RemoveNodeMappings(ns)
    \/ \E t \in Tree : RemoveTree(t)
    \/ ClearAll
    \/ Flush

ThreadStep(t) ==
    \/ Fire(t)
    \/ SaveFromTimer(t)
    \/ OpenFile(t)
    \/ CloseFile(t)
    \/ MarkDirty(t)

StoreNext ==
    \/ StoreCall
    \/ \E t \in Thread : ThreadStep(t) \/ WriteFails(t)
    \/ Exit
    \/ Crash
    \/ Restart

StoreSpec == StoreInit /\ [][StoreNext]_allVars

\* Every thread that can run is run by the operating system at last.
FairStoreSpec == StoreSpec /\ \A t \in Thread : WF_allVars(ThreadStep(t))

------------------------------------------------------------------------------
(* Properties.                                                             *)

\* The log of a chat and the set that guards it against duplicates agree, through
\* trimming to the cap, clearing and reloading.
LogMatchesIds == logIds = ToSet(data.log)

\* No lost wake-up: unless a write failed, unsaved changes have a timer that is
\* still to look at them, whatever timers were cancelled or overtaken meanwhile.
DirtyIsScheduled ==
    Running /\ dirty /\ ~failed => \E t \in Timer : doing[t] \in {"armed", "fired"}

\* Once nothing is being written, the file holds the store, if the last snapshot
\* was taken alone and no write failed: in particular what /clear removed does
\* not come back, and an overlap is repaired by the next save.
RestIsSaved ==
    Running /\ Writers = {} /\ ~dirty /\ ~failed /\ ~overlapped
        => disk = data

\* A store that is left alone is saved: after the last of a row of changes the file holds
\* the store at last, if no write failed or met another one and the process goes on.
\* Each change cancels and arms the timer anew, so nothing is promised between changes
\* that keep coming: a further call, whatever its number, ends the obligation.
QuietStoreIsSaved ==
    \A c \in 0..MaxCalls :
        calls = c ~> (disk = data \/ calls # c \/ failed \/ overlapped \/ ~Running)

------------------------------------------------------------------------------
(* The inductive invariant behind RestIsSaved.                             *)

SaveInv ==
    /\ \A t \in spoiled : doing[t] = "open"
    /\ ~overlapped => \A t, u \in Writers : t = u
    /\ ~overlapped => spoiled = {}
    /\ ~dirty /\ ~overlapped => \A t \in Writers : snapshot[t] = data
    /\ Writers = {} /\ ~dirty /\ ~failed /\ ~overlapped => disk = data

==============================================================================
