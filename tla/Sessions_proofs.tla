--------------------------- MODULE Sessions_proofs ---------------------------
(***************************************************************************)
(* What is kept of the sessions: in the store of the messages, and by the  *)
(* manager of the CLI's runs.  The two share nothing.                      *)
(***************************************************************************)
EXTENDS SessionStore, CLISessions, TLAPS

------------------------------------------------------------------------------
(***************************************************************************)
(* The saving protocol of the session store, for any set of timer threads  *)
(* and whatever the store holds: changes are never left without a timer,   *)
(* and a save that ran alone leaves the store in the file.                 *)
(***************************************************************************)

\* The part of the type invariant that the saving protocol rests on.
ProtocolOK ==
    /\ doing \in [Thread -> ThreadState]
    /\ DOMAIN snapshot = Thread
    /\ saveTimer \in Timer \cup {None}
    /\ spoiled \subseteq Thread
    /\ dirty \in BOOLEAN /\ overlapped \in BOOLEAN /\ failed \in BOOLEAN

\* What the calls of the main thread have in common: they change the data and
\* arm a timer, or take a snapshot of the data they leave.
SavingStep ==
    \/ \E d : Change(d)
    \/ \E d : /\ data' = d
              /\ doing[Main] = "idle"
              /\ TakeSnapshot(Main, CancelTimer, d)
              /\ UNCHANGED fileVars

LEMMA StoreCallSaves == StoreCall => SavingStep
<1>1. ASSUME NEW id \in Id, RecordMessageId(id) PROVE SavingStep
  BY <1>1 DEF RecordMessageId, SavingStep
<1>2. ASSUME NEW t \in Tree, NEW nodes \in SUBSET Node \ {{}}, SaveTree(t, nodes)
      PROVE  SavingStep
  BY <1>2 DEF SaveTree, SavingStep
<1>3. ASSUME NEW n \in Node, NEW t \in Tree, RegisterNode(n, t) PROVE SavingStep
  BY <1>3 DEF RegisterNode, SavingStep
<1>4. ASSUME NEW ns \in SUBSET Node, RemoveNodeMappings(ns) PROVE SavingStep
  BY <1>4 DEF RemoveNodeMappings, SavingStep
<1>5. ASSUME NEW t \in Tree, RemoveTree(t) PROVE SavingStep
  BY <1>5 DEF RemoveTree, SavingStep
<1>6. ASSUME ClearAll PROVE SavingStep
  <2>1. data' = Empty /\ doing[Main] = "idle" /\ TakeSnapshot(Main, CancelTimer, Empty)
        /\ UNCHANGED fileVars
    BY <1>6 DEF ClearAll, Call, fileVars
  <2> QED BY <2>1 DEF SavingStep
<1>7. ASSUME Flush PROVE SavingStep
  <2>1. data' = data /\ doing[Main] = "idle" /\ TakeSnapshot(Main, CancelTimer, data)
        /\ UNCHANGED fileVars
    BY <1>7 DEF Flush, fileVars
  <2> QED BY <2>1 DEF SavingStep
<1> QED BY <1>1, <1>2, <1>3, <1>4, <1>5, <1>6, <1>7 DEF StoreCall

LEMMA CancelTimerType ==
    ASSUME ProtocolOK
    PROVE  /\ CancelTimer \in [Thread -> ThreadState]
           /\ \A t \in Thread : CancelTimer[t] = doing[t]
                                \/ (doing[t] = "armed" /\ CancelTimer[t] = "idle")
  BY StoreAssumption DEF ProtocolOK, CancelTimer, Thread, ThreadState

LEMMA TakeSnapshotType ==
    ASSUME ProtocolOK, NEW t \in Thread, NEW pcs \in [Thread -> ThreadState], NEW d,
           TakeSnapshot(t, pcs, d), UNCHANGED spoiled
    PROVE  ProtocolOK'
  BY DEF ProtocolOK, TakeSnapshot, ThreadState

LEMMA InitProtocol == StoreInit => ProtocolOK
  BY DEF StoreInit, ProtocolOK, ThreadState, Thread

LEMMA StepProtocol == ProtocolOK /\ [StoreNext]_allVars => ProtocolOK'
<1> SUFFICES ASSUME ProtocolOK, [StoreNext]_allVars PROVE ProtocolOK'
  OBVIOUS
<1>0. Main \in Thread /\ Timer \subseteq Thread
  BY DEF Thread
<1>1. CASE StoreCall
  <2>1. ASSUME NEW d, Change(d) PROVE ProtocolOK'
    BY <2>1, <1>0, CancelTimerType
       DEF Change, ScheduleSave, ProtocolOK, ThreadState, fileVars, histVars
  <2>2. ASSUME NEW d, TakeSnapshot(Main, CancelTimer, d), UNCHANGED fileVars
        PROVE  ProtocolOK'
    BY <2>2, <1>0, CancelTimerType, TakeSnapshotType DEF fileVars
  <2> QED BY <1>1, <2>1, <2>2, StoreCallSaves DEF SavingStep
<1>2. ASSUME NEW t \in Thread, ThreadStep(t) PROVE ProtocolOK'
  <2>1. CASE Fire(t)
    BY <2>1 DEF Fire, ProtocolOK, ThreadState, storeVars, fileVars, histVars
  <2>2. CASE SaveFromTimer(t)
    <3>1. CASE ~dirty
      BY <2>2, <3>1 DEF SaveFromTimer, ProtocolOK, ThreadState, fileVars, histVars
    <3>2. CASE dirty
      BY <2>2, <3>2, TakeSnapshotType DEF SaveFromTimer, ProtocolOK, fileVars
    <3> QED BY <3>1, <3>2
  <2>3. CASE OpenFile(t)
    BY <2>3 DEF OpenFile, OthersOpen, ProtocolOK, ThreadState, storeVars, histVars
  <2>4. CASE CloseFile(t)
    BY <2>4 DEF CloseFile, OthersOpen, ProtocolOK, ThreadState, storeVars, histVars
  <2>5. CASE MarkDirty(t)
    BY <2>5 DEF MarkDirty, ProtocolOK, ThreadState, fileVars
  <2> QED BY <1>2, <2>1, <2>2, <2>3, <2>4, <2>5 DEF ThreadStep
<1>3. ASSUME NEW t \in Thread, WriteFails(t) PROVE ProtocolOK'
  BY <1>3 DEF WriteFails, OthersOpen, ProtocolOK, ThreadState, storeVars
<1>4. CASE Exit
  BY <1>4 DEF Exit, ProtocolOK, storeVars, threadVars, fileVars, histVars
<1>5. CASE Crash
  BY <1>5 DEF Crash, ProtocolOK, storeVars, threadVars, fileVars, histVars
<1>6. CASE Restart
  BY <1>6, <1>0 DEF Restart, ProtocolOK, ThreadState
<1>7. CASE UNCHANGED allVars
  BY <1>7 DEF allVars, ProtocolOK, storeVars, threadVars, fileVars, histVars
<1> QED BY <1>1, <1>2, <1>3, <1>4, <1>5, <1>6, <1>7 DEF StoreNext

------------------------------------------------------------------------------
\* No change is left without a timer that will look at it: cancelled timers are
\* replaced, and an overtaken one finds the flag down (DirtyIsScheduled).

LEMMA StepScheduled ==
    ProtocolOK /\ DirtyIsScheduled /\ [StoreNext]_allVars => DirtyIsScheduled'
<1> SUFFICES ASSUME ProtocolOK, DirtyIsScheduled, [StoreNext]_allVars,
                    Running', dirty', ~failed'
             PROVE  (\E t \in Timer : doing[t] \in {"armed", "fired"})'
  BY DEF DirtyIsScheduled
<1>0. Main \in Thread /\ Timer \subseteq Thread
  BY DEF Thread
<1>1. CASE StoreCall
  <2>1. ASSUME NEW d, Change(d) PROVE \E t \in Timer : doing'[t] = "armed"
    BY <2>1, <1>0, CancelTimerType DEF Change, ScheduleSave
  <2>2. ASSUME NEW d, TakeSnapshot(Main, CancelTimer, d) PROVE FALSE
    BY <2>2 DEF TakeSnapshot
  <2> QED BY <1>1, <2>1, <2>2, StoreCallSaves DEF SavingStep
<1>2. ASSUME NEW t \in Thread, ThreadStep(t)
      PROVE  \E u \in Timer : doing'[u] \in {"armed", "fired"}
  <2>1. CASE Fire(t)
    BY <2>1, <1>0 DEF Fire, DirtyIsScheduled, ProtocolOK, Running, storeVars, histVars
  <2>2. CASE SaveFromTimer(t)
    BY <2>2 DEF SaveFromTimer, TakeSnapshot
  <2>3. CASE OpenFile(t)
    BY <2>3, <1>0
       DEF OpenFile, DirtyIsScheduled, ProtocolOK, Running, storeVars, histVars
  <2>4. CASE CloseFile(t)
    BY <2>4, <1>0
       DEF CloseFile, DirtyIsScheduled, ProtocolOK, Running, storeVars, histVars
  <2>5. CASE MarkDirty(t)
    BY <2>5 DEF MarkDirty
  <2> QED BY <1>2, <2>1, <2>2, <2>3, <2>4, <2>5 DEF ThreadStep
<1>3. ASSUME NEW t \in Thread, WriteFails(t) PROVE FALSE
  BY <1>3 DEF WriteFails
<1>4. CASE Exit \/ Crash
  BY <1>4 DEF Exit, Crash, Running
<1>5. CASE Restart
  BY <1>5, <1>0 DEF Restart
<1>6. CASE UNCHANGED allVars
  BY <1>6 DEF allVars, DirtyIsScheduled, Running, storeVars, threadVars, histVars
<1> QED BY <1>1, <1>2, <1>3, <1>4, <1>5, <1>6 DEF StoreNext

\* Unsaved changes always have a timer, or a failed write behind them.
THEOREM ChangesAreScheduled == StoreSpec => []DirtyIsScheduled
<1>1. StoreInit => DirtyIsScheduled
  BY DEF StoreInit, DirtyIsScheduled
<1> QED BY <1>1, InitProtocol, StepProtocol, StepScheduled, PTL DEF StoreSpec

------------------------------------------------------------------------------
(* What ran alone is in the file.  SaveInv says more than RestIsSaved: while *)
(* the last snapshot has not been overlapped, it has at most one writer,     *)
(* whose file is its own and whose snapshot is the store unless a change     *)
(* made the store dirty again.                                               *)

LEMMA TakeSnapshotSaves ==
    ASSUME ProtocolOK, SaveInv,
           NEW t \in Thread, NEW pcs \in [Thread -> ThreadState], NEW d,
           \A u \in Thread : pcs[u] = doing[u] \/ (doing[u] = "armed" /\ pcs[u] = "idle"),
           doing[t] \notin {"writing", "open"},
           TakeSnapshot(t, pcs, d), data' = d, UNCHANGED fileVars
    PROVE  SaveInv'
<1>1. Writers' = Writers \cup {t}
  BY DEF TakeSnapshot, Writers, ProtocolOK
<1>2. snapshot'[t] = data'
  BY DEF TakeSnapshot, ProtocolOK
<1>3. spoiled' = spoiled /\ (overlapped' = (Writers # {}))
  BY DEF TakeSnapshot, fileVars
<1>4. \A u \in spoiled' : doing'[u] = "open"
  BY <1>3 DEF SaveInv, TakeSnapshot, ProtocolOK
<1>5. spoiled \subseteq Writers
  BY DEF SaveInv, Writers, ProtocolOK
<1> QED BY <1>1, <1>2, <1>3, <1>4, <1>5 DEF SaveInv

LEMMA ChangeSaves ==
    ASSUME ProtocolOK, SaveInv, NEW d, Change(d)
    PROVE  SaveInv'
<1>1. dirty' = TRUE /\ UNCHANGED <<snapshot, fileVars, histVars>>
  BY DEF Change, ScheduleSave
<1>2. PICK t \in Timer :
         CancelTimer[t] = "idle" /\ doing' = [CancelTimer EXCEPT ![t] = "armed"]
  BY DEF Change, ScheduleSave
<1>3. \A u \in Thread :
         doing'[u] \in {"writing", "open"} <=> doing[u] \in {"writing", "open"}
  BY <1>2, CancelTimerType DEF ProtocolOK, Thread
<1>4. \A u \in Thread : doing[u] = "open" => doing'[u] = "open"
  BY <1>2, CancelTimerType DEF ProtocolOK, Thread
<1>5. Writers' = Writers
  BY <1>3 DEF Writers
<1> QED BY <1>1, <1>4, <1>5 DEF SaveInv, fileVars, histVars, ProtocolOK

LEMMA StepSaves == ProtocolOK /\ SaveInv /\ [StoreNext]_allVars => SaveInv'
<1> SUFFICES ASSUME ProtocolOK, SaveInv, [StoreNext]_allVars PROVE SaveInv'
  OBVIOUS
<1>0. Main \in Thread /\ Timer \subseteq Thread
  BY DEF Thread
<1>1. CASE StoreCall
  <2>1. ASSUME NEW d, data' = d, doing[Main] = "idle",
               TakeSnapshot(Main, CancelTimer, d), UNCHANGED fileVars
        PROVE  SaveInv'
    BY <2>1, <1>0, CancelTimerType, TakeSnapshotSaves
  <2> QED BY <1>1, <2>1, ChangeSaves, StoreCallSaves DEF SavingStep
<1>2. ASSUME NEW t \in Thread, Fire(t) PROVE SaveInv'
  <2>1. Writers' = Writers /\ \A u \in Thread : doing[u] = "open" => doing'[u] = "open"
    BY <1>2 DEF Fire, Writers, ProtocolOK
  <2> QED BY <1>2, <2>1 DEF Fire, SaveInv, ProtocolOK, storeVars, fileVars, histVars
<1>3. ASSUME NEW t \in Thread, SaveFromTimer(t) PROVE SaveInv'
  <2>1. CASE dirty
    BY <1>3, <2>1, TakeSnapshotSaves DEF SaveFromTimer, ProtocolOK
  <2>2. CASE ~dirty
    <3>1. Writers' = Writers /\ \A u \in Thread : doing[u] = "open" => doing'[u] = "open"
      BY <1>3, <2>2 DEF SaveFromTimer, Writers, ProtocolOK
    <3> QED BY <1>3, <2>2, <3>1 DEF SaveFromTimer, SaveInv, ProtocolOK, fileVars, histVars
  <2> QED BY <2>1, <2>2
<1>4. ASSUME NEW t \in Thread, OpenFile(t) PROVE SaveInv'
  <2>1. Writers' = Writers /\ t \in Writers
    BY <1>4 DEF OpenFile, Writers, ProtocolOK
  <2>2. \A u \in spoiled' : doing'[u] = "open"
    BY <1>4 DEF OpenFile, OthersOpen, SaveInv, ProtocolOK
  <2>3. ~overlapped => spoiled' = {}
    BY <1>4, <2>1 DEF OpenFile, OthersOpen, SaveInv, Writers
  <2> QED BY <1>4, <2>1, <2>2, <2>3 DEF OpenFile, SaveInv, storeVars, histVars
<1>5. ASSUME NEW t \in Thread, CloseFile(t) PROVE SaveInv'
  <2>1. Writers' = Writers \ {t} /\ t \in Writers
    BY <1>5 DEF CloseFile, Writers, ProtocolOK
  <2>2. \A u \in spoiled' : doing'[u] = "open"
    BY <1>5 DEF CloseFile, OthersOpen, SaveInv, ProtocolOK
  <2>3. ~overlapped => spoiled' = {}
    BY <1>5, <2>1 DEF CloseFile, OthersOpen, SaveInv, Writers
  <2>4. ~overlapped => disk' = snapshot[t] /\ Writers' = {}
    BY <1>5, <2>1 DEF CloseFile, SaveInv
  <2>5. ~overlapped /\ ~dirty => disk' = data
    BY <2>1, <2>4 DEF SaveInv
  <2> QED BY <1>5, <2>1, <2>2, <2>3, <2>4, <2>5 DEF CloseFile, SaveInv, storeVars, histVars
<1>6. ASSUME NEW t \in Thread, WriteFails(t) PROVE SaveInv'
  <2>1. Writers' = Writers \ {t} /\ t \in Writers
    BY <1>6 DEF WriteFails, Writers, ProtocolOK
  <2>2. \A u \in spoiled' : doing'[u] = "open"
    BY <1>6 DEF WriteFails, OthersOpen, SaveInv, ProtocolOK
  <2>3. ~overlapped => spoiled' = {}
    BY <1>6, <2>1 DEF WriteFails, OthersOpen, SaveInv, Writers
  <2>4. ~overlapped => Writers' = {}
    BY <2>1 DEF SaveInv
  <2> QED BY <1>6, <2>1, <2>2, <2>3, <2>4 DEF WriteFails, SaveInv, storeVars
<1>7. ASSUME NEW t \in Thread, MarkDirty(t) PROVE SaveInv'
  <2>1. Writers' = Writers /\ \A u \in Thread : doing[u] = "open" => doing'[u] = "open"
    BY <1>7 DEF MarkDirty, Writers, ProtocolOK
  <2> QED BY <1>7, <2>1 DEF MarkDirty, SaveInv, ProtocolOK, fileVars
<1>8. CASE Exit \/ Crash
  BY <1>8
     DEF Exit, Crash, SaveInv, Writers, storeVars, threadVars, fileVars, histVars
<1>9. CASE Restart
  <2>1. \A u \in Thread : doing'[u] \in {"idle", "armed"}
    BY <1>9, <1>0 DEF Restart
  <2>2. Writers' = {}
    BY <2>1 DEF Writers
  <2>3. disk' = data' /\ spoiled' = {}
    BY <1>9 DEF Restart
  <2> QED BY <2>2, <2>3 DEF SaveInv
<1>10. CASE UNCHANGED allVars
  BY <1>10 DEF allVars, SaveInv, Writers, storeVars, threadVars, fileVars, histVars
<1> QED BY <1>1, <1>2, <1>3, <1>4, <1>5, <1>6, <1>7, <1>8, <1>9, <1>10
    DEF StoreNext, ThreadStep

\* A save that nothing overlapped and that did not fail leaves the store in the
\* file, however many timers, crashes and restarts came before it.
THEOREM SavedWhenAtRest == StoreSpec => []RestIsSaved
<1>1. StoreInit => SaveInv
  <2> SUFFICES ASSUME StoreInit PROVE SaveInv
    OBVIOUS
  <2>1. \A t \in Thread : doing[t] = "idle"
    BY DEF StoreInit
  <2>2. spoiled = {} /\ data = Empty /\ disk = Empty
    BY DEF StoreInit, Unreadable
  <2>3. Writers = {}
    BY <2>1 DEF Writers
  <2> QED BY <2>2, <2>3 DEF SaveInv
<1>2. SaveInv => RestIsSaved
  BY DEF SaveInv, RestIsSaved
<1> QED BY <1>1, <1>2, InitProtocol, StepProtocol, StepSaves, PTL DEF StoreSpec

------------------------------------------------------------------------------
(* The message log: capped, without duplicates, and known by its ids.  The   *)
(* snapshots and the file are included, because a restart reads them back.   *)

LogOK(log) ==
    log \in Seq(Id) /\ NoDuplicates(log) /\ (Cap > 0 => Len(log) <= Cap)

DataOK(d) ==
    /\ d \in [trees : [Tree -> SUBSET Node], nodeToTree : [Node -> Tree \cup {None}],
              log : Seq(Id)]
    /\ LogOK(d.log)

LogInv ==
    /\ DataOK(data) /\ DataOK(disk)
    /\ \A t \in Thread : DataOK(snapshot[t])
    /\ LogMatchesIds

LEMMA EmptyData == DataOK(Empty)
<1>1. << >> \in Seq(Id) /\ Len(<< >>) = 0
  OBVIOUS
<1>2. Empty \in [trees : [Tree -> SUBSET Node], nodeToTree : [Node -> Tree \cup {None}],
                 log : Seq(Id)] /\ Empty.log = << >>
  BY <1>1 DEF Empty
<1> QED BY <1>1, <1>2, StoreAssumption DEF DataOK, LogOK, NoDuplicates

\* An id that is not known yet is appended and the log trimmed to its cap.
LEMMA RecordedLog ==
    ASSUME NEW log, LogOK(log), NEW id \in Id, \A i \in 1..Len(log) : log[i] # id
    PROVE  LogOK(Capped(Append(log, id)))
<1> DEFINE long == Append(log, id)
<1>1. long \in Seq(Id) /\ Len(long) = Len(log) + 1 /\ Len(log) \in Nat
      /\ long[Len(log) + 1] = id
      /\ \A i \in 1..Len(log) : long[i] = log[i]
  BY DEF LogOK
<1>2. NoDuplicates(long)
  BY <1>1 DEF NoDuplicates, LogOK
<1>3. CASE ~(Cap > 0 /\ Len(long) > Cap)
  BY <1>1, <1>2, <1>3, StoreAssumption DEF Capped, LogOK
<1>4. CASE Cap > 0 /\ Len(long) > Cap
  <2> DEFINE last == SubSeq(long, Len(long) - Cap + 1, Len(long))
  <2>0. Cap \in Nat /\ Len(long) \in Nat /\ Len(long) - Cap + 1 \in 1..Len(long)
    BY <1>1, <1>4, StoreAssumption
  <2>1. last \in Seq(Id) /\ Len(last) = Cap
        /\ \A i \in 1..Len(last) : last[i] = long[Len(long) - Cap + i]
    BY <1>1, <2>0
  <2>2. NoDuplicates(last)
    <3> SUFFICES ASSUME NEW i \in 1..Len(last), NEW j \in 1..Len(last), last[i] = last[j]
                 PROVE  i = j
      BY DEF NoDuplicates
    <3>1. /\ Len(long) - Cap + i \in 1..Len(long)
          /\ Len(long) - Cap + j \in 1..Len(long)
      BY <1>4, <2>0, <2>1
    <3>2. Len(long) - Cap + i = Len(long) - Cap + j
      BY <1>2, <2>1, <3>1 DEF NoDuplicates
    <3> QED BY <2>0, <2>1, <3>2
  <2>3. Capped(long) = last
    BY <1>4 DEF Capped, LastOf
  <2> QED BY <2>0, <2>1, <2>2, <2>3 DEF LogOK
<1> QED BY <1>3, <1>4

\* The calls of the main thread keep the data in order, and change the log in one way.
LEMMA CallsKeepLog ==
    ASSUME LogInv, StoreCall
    PROVE  /\ DataOK(data') /\ LogMatchesIds' /\ UNCHANGED disk
           /\ snapshot' = snapshot \/ \E t \in Thread :
                 snapshot' = [snapshot EXCEPT ![t] = data']
<1>0. Main \in Thread /\ data \in [trees : [Tree -> SUBSET Node],
          nodeToTree : [Node -> Tree \cup {None}], log : Seq(Id)] /\ LogOK(data.log)
  BY DEF Thread, LogInv, DataOK
<1>1. ASSUME NEW id \in Id, RecordMessageId(id)
      PROVE  DataOK(data') /\ LogMatchesIds' /\ UNCHANGED <<disk, snapshot>>
  <2> DEFINE log == Capped(Append(data.log, id))
  <2>1. \A i \in 1..Len(data.log) : data.log[i] # id
    BY <1>1 DEF RecordMessageId, LogInv, LogMatchesIds, ToSet
  <2>2. LogOK(log)
    BY <1>0, <2>1, RecordedLog
  <2>3. data' = [data EXCEPT !.log = log] /\ logIds' = ToSet(log)
        /\ UNCHANGED <<disk, snapshot>>
    BY <1>1 DEF RecordMessageId, KnownIds, Change, fileVars
  <2>4. log \in Seq(Id)
    BY <2>2 DEF LogOK
  <2> HIDE DEF log
  <2>5. data'.log = log
    BY <1>0, <2>3
  <2>6. data' \in [trees : [Tree -> SUBSET Node],
                   nodeToTree : [Node -> Tree \cup {None}], log : Seq(Id)]
    BY <1>0, <2>3, <2>4
  <2> QED BY <2>2, <2>3, <2>5, <2>6 DEF DataOK, LogMatchesIds
<1>2. ASSUME NEW d, Change(d), d.log = data.log, UNCHANGED logIds,
             d \in [trees : [Tree -> SUBSET Node],
                    nodeToTree : [Node -> Tree \cup {None}], log : Seq(Id)]
      PROVE  DataOK(data') /\ LogMatchesIds' /\ UNCHANGED <<disk, snapshot>>
  BY <1>0, <1>2 DEF Change, DataOK, LogInv, LogMatchesIds, fileVars
<1>3. ASSUME NEW t \in Tree, NEW nodes \in SUBSET Node \ {{}}, SaveTree(t, nodes)
      PROVE  DataOK(data') /\ LogMatchesIds' /\ UNCHANGED <<disk, snapshot>>
  BY <1>0, <1>2, <1>3 DEF SaveTree
<1>4. ASSUME NEW n \in Node, NEW t \in Tree, RegisterNode(n, t)
      PROVE  DataOK(data') /\ LogMatchesIds' /\ UNCHANGED <<disk, snapshot>>
  BY <1>0, <1>2, <1>4 DEF RegisterNode
<1>5. ASSUME NEW ns
      PROVE  Unmapped(ns) \in [Node -> Tree \cup {None}]
  BY <1>0 DEF Unmapped
<1>6. ASSUME NEW ns \in SUBSET Node, RemoveNodeMappings(ns)
      PROVE  DataOK(data') /\ LogMatchesIds' /\ UNCHANGED <<disk, snapshot>>
  BY <1>0, <1>2, <1>5, <1>6 DEF RemoveNodeMappings
<1>7. ASSUME NEW t \in Tree, RemoveTree(t)
      PROVE  DataOK(data') /\ LogMatchesIds' /\ UNCHANGED <<disk, snapshot>>
  BY <1>0, <1>2, <1>5, <1>7 DEF RemoveTree
<1>8. CASE ClearAll
  <2>1. data' = Empty /\ logIds' = {} /\ UNCHANGED disk
        /\ snapshot' = [snapshot EXCEPT ![Main] = data']
    BY <1>8 DEF ClearAll, TakeSnapshot, fileVars
  <2>2. Empty.log = << >> /\ ToSet(<< >>) = {}
    BY DEF Empty, ToSet
  <2> QED BY <1>0, <2>1, <2>2, EmptyData DEF LogMatchesIds
<1>9. CASE Flush
  BY <1>0, <1>9 DEF Flush, TakeSnapshot, fileVars, LogInv, LogMatchesIds
<1> QED BY <1>1, <1>3, <1>4, <1>6, <1>7, <1>8, <1>9 DEF StoreCall

LEMMA StepLog == ProtocolOK /\ LogInv /\ [StoreNext]_allVars => LogInv'
<1> SUFFICES ASSUME ProtocolOK, LogInv, [StoreNext]_allVars PROVE LogInv'
  OBVIOUS
<1>1. CASE StoreCall
  BY <1>1, CallsKeepLog DEF LogInv, ProtocolOK
<1>2. ASSUME NEW t \in Thread, Fire(t) \/ MarkDirty(t) PROVE LogInv'
  BY <1>2 DEF Fire, MarkDirty, LogInv, LogMatchesIds, storeVars, fileVars
<1>3. ASSUME NEW t \in Thread, SaveFromTimer(t) PROVE LogInv'
  <2>1. UNCHANGED <<data, logIds, disk>>
        /\ (snapshot' = snapshot \/ snapshot' = [snapshot EXCEPT ![t] = data])
    BY <1>3 DEF SaveFromTimer, TakeSnapshot, fileVars
  <2> QED BY <2>1 DEF LogInv, LogMatchesIds, ProtocolOK
<1>4. ASSUME NEW t \in Thread, OpenFile(t) PROVE LogInv'
  BY <1>4, EmptyData DEF OpenFile, LogInv, LogMatchesIds, storeVars, Unreadable
<1>5. ASSUME NEW t \in Thread, CloseFile(t) \/ WriteFails(t) PROVE LogInv'
  <2>1. UNCHANGED <<data, logIds>> /\ disk' \in {disk, snapshot[t], Empty}
        /\ snapshot' = [snapshot EXCEPT ![t] = Empty]
    BY <1>5 DEF CloseFile, WriteFails, storeVars, Unreadable
  <2> QED BY <2>1, EmptyData DEF LogInv, LogMatchesIds, ProtocolOK
<1>6. CASE Exit \/ Crash
  BY <1>6 DEF Exit, Crash, LogInv, LogMatchesIds, storeVars, threadVars, fileVars
<1>7. CASE Restart
  BY <1>7, EmptyData DEF Restart, LogInv, LogMatchesIds
<1>8. CASE UNCHANGED allVars
  BY <1>8 DEF allVars, LogInv, LogMatchesIds, storeVars, threadVars, fileVars
<1> QED BY <1>1, <1>2, <1>3, <1>4, <1>5, <1>6, <1>7, <1>8 DEF StoreNext, ThreadStep

\* The message log of a chat has no duplicates, never exceeds its cap, and agrees with
\* the set of known ids, through trimming, /clear, crashes and restarts
\* (record_message_id, _load).
THEOREM LogIsExact ==
    StoreSpec => [](/\ LogMatchesIds
               /\ NoDuplicates(data.log)
               /\ Cap > 0 => Len(data.log) <= Cap)
<1>1. StoreInit => LogInv
  <2> SUFFICES ASSUME StoreInit PROVE LogInv
    OBVIOUS
  <2>1. data = Empty /\ disk = Empty /\ logIds = {} /\ Empty.log = << >>
        /\ \A t \in Thread : snapshot[t] = Empty
    BY DEF StoreInit, Unreadable, Empty
  <2>2. ToSet(<< >>) = {}
    BY DEF ToSet
  <2> QED BY <2>1, <2>2, EmptyData DEF LogInv, LogMatchesIds
<1>2. LogInv => /\ LogMatchesIds
                /\ NoDuplicates(data.log)
                /\ Cap > 0 => Len(data.log) <= Cap
  BY DEF LogInv, DataOK, LogOK
<1> QED BY <1>1, <1>2, InitProtocol, StepProtocol, StepLog, PTL DEF StoreSpec

------------------------------------------------------------------------------
(***************************************************************************)
(* What a run of the Claude CLI leaves behind, for any number of runs,     *)
(* cancellations and calls of stop_all.  One inductive invariant says      *)
(* where a run may be while it has a session, a process or a pid.          *)
(***************************************************************************)

\* The suspension points at which a run may have a session and a process.
Serving == {"reading", "registering", "ending", "stopping", "removing"}

\* A session in the manager belongs to a run that will still remove it, or was cancelled
\* while it did.
SessionInv ==
    \A r \in Run : Known(r) =>
        \/ pc[r] \in Serving \cup {"starting"}
        \/ pc[r] = "done" /\ r \in cutShort

\* A run has no process before it starts one, and a run whose process lives has its
\* session in the manager, has it taken away by stop_all, or is just removing it.
ProcessInv ==
    \A r \in Run :
        /\ pc[r] \in {"new", "creating", "starting"} => proc[r] = "none"
        /\ pc[r] = "starting" => Known(r) \/ r \in cleared
        /\ Alive(r) => Known(r) \/ r \in cleared \cup cutShort \/ pc[r] = "removed"

\* A pid is registered only while its run or its abandoned generator will unregister it.
PidInv ==
    \A r \in pids : pc[r] \in Serving \ {"removing"} \/ r \in dangling

------------------------------------------------------------------------------
(* Types.                                                                  *)

LEMMA InitType == Init => TypeOK
  BY SessionsAssumption DEF Init, TypeOK, PC

\* What the way into the finally block does to the session of its run and to the lock,
\* whether the run gets the lock or has to wait.
Removes(r) ==
    /\ pc' = [pc EXCEPT ![r] = pc'[r]]
    /\ pc'[r] \in {"removing", "removed", "done"}
    /\ pending \ {r} \subseteq pending' /\ pending' \subseteq pending
    /\ sessions \ {r} \subseteq sessions' /\ sessions' \subseteq sessions
    /\ pc'[r] # "removing" => r \notin pending' \cup sessions'
    /\ pc'[r] = "removing" => UNCHANGED <<pending, sessions>>
    /\ pc'[r] = "done" => ~(Alive(r) /\ Known(r))
    /\ signal' \in [Run -> {"none", "term", "kill"}]
    /\ owner' \in {owner, r}

LEMMA RemoveSessionRemoves ==
    ASSUME TypeOK, NEW r \in Run, RemoveSession(r)
    PROVE  Removes(r)
  BY DEF TypeOK, PC, RemoveSession, Forget, Terminate, Goto, Known, Removes

LEMMA WindUpRemoves ==
    ASSUME TypeOK, NEW r \in Run, WindUp(r)
    PROVE  Removes(r)
<1>1. CASE owner = Nobody
  BY <1>1, RemoveSessionRemoves DEF WindUp
<1>2. CASE owner # Nobody
  BY <1>2 DEF TypeOK, PC, WindUp, Goto, Removes
<1> QED BY <1>1, <1>2

LEMMA RemovesType ==
    ASSUME TypeOK, NEW r \in Run, Removes(r)
    PROVE  /\ pc' \in [Run -> PC]
           /\ pending' \subseteq Run /\ sessions' \subseteq Run
           /\ pending' \cap sessions' = {}
           /\ owner' \in Run \cup {Stopper, Nobody}
  BY DEF TypeOK, PC, Removes

LEMMA HandleType ==
    ASSUME TypeOK, SessionInv, NEW r \in Run, Handle(r)
    PROVE  TypeOK'
<1>1. CASE Create(r)
  <2>1. r \notin sessions
    BY <1>1 DEF SessionInv, Serving, Known, Create, At
  <2> QED BY <1>1, <2>1 DEF TypeOK, PC, Create, At, Goto, stopVars
<1>2. CASE Started(r)
  BY <1>2 DEF TypeOK, PC, Started, At, Goto, stopVars
<1>3. CASE StartFails(r)
  BY <1>3, WindUpRemoves, RemovesType
  DEF TypeOK, StartFails, GeneratorEnds, Unregister, Removes, stopVars
<1>4. CASE SessionInfo(r)
  BY <1>4 DEF TypeOK, PC, SessionInfo, Register, At, Goto, stopVars
<1>5. CASE Raise(r)
  BY <1>5, WindUpRemoves, RemovesType DEF TypeOK, Raise, Removes, stopVars
<1>6. CASE EndOfOutput(r)
  BY <1>6 DEF TypeOK, PC, EndOfOutput, At, Goto, stopVars
<1>7. CASE Exited(r)
  BY <1>7, WindUpRemoves, RemovesType
  DEF TypeOK, Exited, GeneratorEnds, Unregister, Removes, stopVars
<1>8. CASE Stopped(r)
  BY <1>8, WindUpRemoves, RemovesType
  DEF TypeOK, Stopped, GeneratorEnds, Unregister, Removes, stopVars
<1>9. CASE RemoveNow(r)
  BY <1>9, RemoveSessionRemoves, RemovesType DEF TypeOK, RemoveNow, Removes, stopVars
<1>10. CASE Removed(r)
  BY <1>10 DEF TypeOK, PC, Removed, At, Goto, stopVars
<1> QED
  BY <1>1, <1>2, <1>3, <1>4, <1>5, <1>6, <1>7, <1>8, <1>9, <1>10 DEF Handle

LEMMA DeliverType ==
    ASSUME TypeOK, NEW r \in Run, Deliver(r)
    PROVE  TypeOK'
<1>1. CASE CancelledBeforeSession(r)
  BY <1>1 DEF TypeOK, PC, CancelledBeforeSession, Delivered, Goto, stopVars
<1>2. CASE CancelledAtStart(r)
  BY <1>2, WindUpRemoves, RemovesType
  DEF TypeOK, CancelledAtStart, Delivered, GeneratorEnds, Unregister, Removes, stopVars
<1>3. CASE CancelledReading(r)
  <2>1. CASE Alive(r)
    BY <1>3, <2>1
    DEF TypeOK, PC, CancelledReading, Delivered, Terminate, Goto, stopVars
  <2>2. CASE ~Alive(r)
    BY <1>3, <2>2, WindUpRemoves, RemovesType
    DEF TypeOK, CancelledReading, Delivered, GeneratorEnds, Unregister, Removes, stopVars
  <2> QED BY <2>1, <2>2
<1>4. CASE CancelledAtEnd(r)
  BY <1>4, WindUpRemoves, RemovesType
  DEF TypeOK, CancelledAtEnd, Delivered, GeneratorEnds, Unregister, Removes, stopVars
<1>5. CASE CancelledRegistering(r)
  BY <1>5, WindUpRemoves, RemovesType
  DEF TypeOK, CancelledRegistering, Delivered, Removes, stopVars
<1>6. CASE CancelledRemoving(r)
  BY <1>6 DEF TypeOK, PC, CancelledRemoving, Delivered, Goto, stopVars
<1> QED BY <1>1, <1>2, <1>3, <1>4, <1>5, <1>6 DEF Deliver

LEMMA OthersType ==
    ASSUME TypeOK,
           \/ \E r \in Run : Background(r) \/ Cancel(r) \/ Die(r) \/ Kill(r)
           \/ StopStep
           \/ \E cancelRuns \in BOOLEAN : StopAll(cancelRuns)
           \/ UNCHANGED vars
    PROVE  TypeOK'
<1>1. ASSUME NEW r \in Run, Background(r) PROVE TypeOK'
  BY <1>1
  DEF TypeOK, Background, CloseGenerator, DetachedStopEnds, Unregister, stopVars
<1>2. ASSUME NEW r \in Run, Cancel(r) PROVE TypeOK'
  BY <1>2, SessionsAssumption DEF TypeOK, Cancel, stopVars
<1>3. ASSUME NEW r \in Run, Die(r) PROVE TypeOK'
  BY <1>3 DEF TypeOK, Die, stopVars
<1>4. ASSUME NEW r \in Run, Kill(r) PROVE TypeOK'
  BY <1>4 DEF TypeOK, Kill, stopVars
<1>5. CASE Snapshot
  BY <1>5 DEF TypeOK, Snapshot, runVars
<1>6. CASE ClearSessions
  BY <1>6 DEF TypeOK, ClearSessions
<1>7. ASSUME NEW r \in Run, StopSession(r) PROVE TypeOK'
  BY <1>7 DEF TypeOK, StopSession, Terminate
<1>8. ASSUME NEW cancelRuns \in BOOLEAN, StopAll(cancelRuns) PROVE TypeOK'
  BY <1>8, SessionsAssumption DEF TypeOK, StopAll
<1>9. CASE UNCHANGED vars
  BY <1>9 DEF TypeOK, vars, runVars, stopVars
<1> QED BY <1>1, <1>2, <1>3, <1>4, <1>5, <1>6, <1>7, <1>8, <1>9 DEF StopStep

LEMMA NextType == TypeOK /\ SessionInv /\ [Next]_vars => TypeOK'
  BY HandleType, DeliverType, OthersType DEF Next, RunStep

------------------------------------------------------------------------------
(* Sessions.                                                               *)

LEMMA InitSession == Init => SessionInv
  BY DEF Init, SessionInv, Known

\* On its way out a run takes its session along, or waits to do so.
LEMMA RemovesKeepsSession ==
    ASSUME TypeOK, SessionInv, NEW r \in Run, Removes(r), pc[r] # "done",
           UNCHANGED cutShort
    PROVE  SessionInv'
<1> SUFFICES ASSUME NEW s \in Run, Known(s)'
             PROVE  \/ pc'[s] \in Serving \cup {"starting"}
                    \/ pc'[s] = "done" /\ s \in cutShort
  BY DEF SessionInv
<1>1. Known(s)
  BY DEF Removes, Known
<1>2. CASE s = r
  BY <1>2 DEF Removes, Known, Serving
<1>3. CASE s # r
  BY <1>1, <1>3 DEF Removes, SessionInv, TypeOK
<1> QED BY <1>2, <1>3

LEMMA HandleSession ==
    ASSUME TypeOK, SessionInv, NEW r \in Run, Handle(r)
    PROVE  SessionInv'
<1>1. CASE Create(r)
  BY <1>1 DEF TypeOK, SessionInv, Serving, Known, Create, At, Goto
<1>2. CASE Started(r)
  BY <1>2 DEF TypeOK, SessionInv, Serving, Known, Started, At, Goto
<1>3. CASE StartFails(r)
  BY <1>3, WindUpRemoves, RemovesKeepsSession DEF StartFails, GeneratorEnds, At
<1>4. CASE SessionInfo(r)
  BY <1>4 DEF TypeOK, SessionInv, Serving, Known, SessionInfo, Register, At, Goto
<1>5. CASE Raise(r)
  BY <1>5, WindUpRemoves, RemovesKeepsSession DEF Raise, At
<1>6. CASE EndOfOutput(r)
  BY <1>6 DEF TypeOK, SessionInv, Serving, Known, EndOfOutput, At, Goto
<1>7. CASE Exited(r)
  BY <1>7, WindUpRemoves, RemovesKeepsSession DEF Exited, GeneratorEnds, At
<1>8. CASE Stopped(r)
  BY <1>8, WindUpRemoves, RemovesKeepsSession DEF Stopped, GeneratorEnds, At
<1>9. CASE RemoveNow(r)
  BY <1>9, RemoveSessionRemoves, RemovesKeepsSession DEF RemoveNow, At
<1>10. CASE Removed(r)
  BY <1>10 DEF TypeOK, SessionInv, Serving, Known, Removed, At, Goto
<1> QED
  BY <1>1, <1>2, <1>3, <1>4, <1>5, <1>6, <1>7, <1>8, <1>9, <1>10 DEF Handle

LEMMA DeliverSession ==
    ASSUME TypeOK, SessionInv, NEW r \in Run, Deliver(r)
    PROVE  SessionInv'
<1>1. CASE CancelledBeforeSession(r)
  BY <1>1 DEF TypeOK, SessionInv, Serving, Known, CancelledBeforeSession, Delivered, Goto
<1>2. CASE CancelledAtStart(r)
  BY <1>2, WindUpRemoves, RemovesKeepsSession
  DEF CancelledAtStart, Delivered, GeneratorEnds
<1>3. CASE CancelledReading(r)
  <2>1. CASE Alive(r)
    BY <1>3, <2>1 DEF TypeOK, SessionInv, Serving, Known, CancelledReading, Delivered, Goto
  <2>2. CASE ~Alive(r)
    BY <1>3, <2>2, WindUpRemoves, RemovesKeepsSession
    DEF CancelledReading, Delivered, GeneratorEnds
  <2> QED BY <2>1, <2>2
<1>4. CASE CancelledAtEnd(r)
  BY <1>4, WindUpRemoves, RemovesKeepsSession
  DEF CancelledAtEnd, Delivered, GeneratorEnds
<1>5. CASE CancelledRegistering(r)
  BY <1>5, WindUpRemoves, RemovesKeepsSession DEF CancelledRegistering, Delivered
<1>6. CASE CancelledRemoving(r)
  BY <1>6 DEF TypeOK, SessionInv, Serving, Known, CancelledRemoving, Delivered, Goto
<1> QED BY <1>1, <1>2, <1>3, <1>4, <1>5, <1>6 DEF Deliver

LEMMA OthersSession ==
    ASSUME SessionInv,
           \/ \E r \in Run : Background(r) \/ Cancel(r) \/ Die(r) \/ Kill(r)
           \/ StopStep
           \/ \E cancelRuns \in BOOLEAN : StopAll(cancelRuns)
           \/ UNCHANGED vars
    PROVE  SessionInv'
<1>1. CASE UNCHANGED <<pc, pending, sessions, cutShort>>
  BY <1>1 DEF SessionInv, Known
<1>2. CASE ClearSessions
  BY <1>2 DEF SessionInv, Known, ClearSessions
<1>3. \A r \in Run : Background(r) \/ Cancel(r) \/ Die(r) \/ Kill(r) \/ StopSession(r)
          => UNCHANGED <<pc, pending, sessions, cutShort>>
  BY DEF Background, CloseGenerator, DetachedStopEnds, Cancel, Die, Kill, StopSession
<1>4. Snapshot \/ UNCHANGED vars \/ (\E cancelRuns \in BOOLEAN : StopAll(cancelRuns))
          => UNCHANGED <<pc, pending, sessions, cutShort>>
  BY DEF Snapshot, StopAll, vars, runVars
<1> QED BY <1>1, <1>2, <1>3, <1>4 DEF StopStep

LEMMA NextSession == TypeOK /\ SessionInv /\ [Next]_vars => SessionInv'
  BY HandleSession, DeliverSession, OthersSession DEF Next, RunStep

LEMMA SessionInvariant == Spec => [](TypeOK /\ SessionInv)
  BY InitType, NextType, InitSession, NextSession, PTL DEF Spec

\* Every variable keeps its type, whatever is cancelled and stopped; in particular a
\* session is never both pending and known by its real id.
THEOREM TypeCorrect == Spec => []TypeOK
  BY SessionInvariant, PTL

\* A run that is over has no session left in the manager, unless it was cancelled while
\* it removed it ("Free the session-manager slot").
THEOREM SessionsAreFreed == Spec => []SlotFreed
<1>1. SessionInv => SlotFreed
  BY DEF SessionInv, Serving, SlotFreed
<1> QED BY <1>1, SessionInvariant, PTL

------------------------------------------------------------------------------
(* Pids.                                                                   *)

LEMMA RemovesKeepsPids ==
    ASSUME TypeOK, PidInv, NEW r \in Run, Removes(r),
           pids' \subseteq pids, r \in pids' => r \in dangling',
           dangling \subseteq dangling'
    PROVE  PidInv'
  BY DEF TypeOK, PidInv, Removes

LEMMA HandlePids ==
    ASSUME TypeOK, PidInv, NEW r \in Run, Handle(r)
    PROVE  PidInv'
<1>1. CASE Create(r)
  BY <1>1 DEF TypeOK, PidInv, Serving, Create, At, Goto
<1>2. CASE Started(r)
  BY <1>2 DEF TypeOK, PidInv, Serving, Started, At, Goto
<1>3. CASE StartFails(r)
  BY <1>3, WindUpRemoves, RemovesKeepsPids DEF StartFails, GeneratorEnds, Unregister
<1>4. CASE SessionInfo(r)
  BY <1>4 DEF TypeOK, PidInv, Serving, SessionInfo, At, Goto
<1>5. CASE Raise(r)
  BY <1>5, WindUpRemoves, RemovesKeepsPids DEF Raise
<1>6. CASE EndOfOutput(r)
  BY <1>6 DEF TypeOK, PidInv, Serving, EndOfOutput, At, Goto
<1>7. CASE Exited(r)
  BY <1>7, WindUpRemoves, RemovesKeepsPids DEF Exited, GeneratorEnds, Unregister
<1>8. CASE Stopped(r)
  BY <1>8, WindUpRemoves, RemovesKeepsPids DEF Stopped, GeneratorEnds, Unregister
<1>9. CASE RemoveNow(r)
  <2>1. r \in pids => r \in dangling
    BY <1>9 DEF PidInv, Serving, RemoveNow, At
  <2> QED BY <1>9, <2>1, RemoveSessionRemoves, RemovesKeepsPids DEF RemoveNow
<1>10. CASE Removed(r)
  BY <1>10 DEF TypeOK, PidInv, Serving, Removed, At, Goto
<1> QED
  BY <1>1, <1>2, <1>3, <1>4, <1>5, <1>6, <1>7, <1>8, <1>9, <1>10 DEF Handle

LEMMA DeliverPids ==
    ASSUME TypeOK, PidInv, NEW r \in Run, Deliver(r)
    PROVE  PidInv'
<1>1. CASE CancelledBeforeSession(r)
  BY <1>1 DEF TypeOK, PidInv, Serving, CancelledBeforeSession, Delivered, Goto
<1>2. CASE CancelledAtStart(r)
  BY <1>2, WindUpRemoves, RemovesKeepsPids DEF CancelledAtStart, GeneratorEnds, Unregister
<1>3. CASE CancelledReading(r)
  <2>1. CASE Alive(r)
    BY <1>3, <2>1 DEF TypeOK, PidInv, Serving, CancelledReading, Delivered, Goto
  <2>2. CASE ~Alive(r)
    BY <1>3, <2>2, WindUpRemoves, RemovesKeepsPids
    DEF CancelledReading, GeneratorEnds, Unregister
  <2> QED BY <2>1, <2>2
<1>4. CASE CancelledAtEnd(r)
  BY <1>4, WindUpRemoves, RemovesKeepsPids DEF CancelledAtEnd, GeneratorEnds, Unregister
<1>5. CASE CancelledRegistering(r)
  BY <1>5, WindUpRemoves, RemovesKeepsPids DEF CancelledRegistering
<1>6. CASE CancelledRemoving(r)
  BY <1>6 DEF TypeOK, PidInv, Serving, CancelledRemoving, Delivered, Goto
<1> QED BY <1>1, <1>2, <1>3, <1>4, <1>5, <1>6 DEF Deliver

LEMMA OthersPids ==
    ASSUME PidInv,
           \/ \E r \in Run : Background(r) \/ Cancel(r) \/ Die(r) \/ Kill(r)
           \/ StopStep
           \/ \E cancelRuns \in BOOLEAN : StopAll(cancelRuns)
           \/ UNCHANGED vars
    PROVE  PidInv'
<1>1. ASSUME NEW r \in Run, CloseGenerator(r) PROVE PidInv'
  BY <1>1 DEF PidInv, CloseGenerator, Unregister
<1>2. CASE UNCHANGED <<pc, dangling>> /\ pids' \subseteq pids
  BY <1>2 DEF PidInv
<1>3. \A r \in Run : DetachedStopEnds(r) \/ Cancel(r) \/ Die(r) \/ Kill(r) \/ StopSession(r)
          => UNCHANGED <<pc, dangling>> /\ pids' \subseteq pids
  BY DEF DetachedStopEnds, Unregister, Cancel, Die, Kill, StopSession
<1>4. Snapshot \/ ClearSessions \/ UNCHANGED vars
          \/ (\E cancelRuns \in BOOLEAN : StopAll(cancelRuns))
          => UNCHANGED <<pc, dangling>> /\ pids' \subseteq pids
  BY DEF Snapshot, ClearSessions, StopAll, vars, runVars
<1> QED BY <1>1, <1>2, <1>3, <1>4 DEF StopStep, Background

LEMMA NextPids == TypeOK /\ PidInv /\ [Next]_vars => PidInv'
  BY HandlePids, DeliverPids, OthersPids DEF Next, RunStep

\* The pid of a run that is over is not left in the registry, unless its generator has
\* yet to be closed: no process the program did not start is killed in its place.
THEOREM PidsAreUnregistered == Spec => []NoStalePid
<1>1. Init => PidInv
  BY DEF Init, PidInv
<1>2. TypeOK /\ PidInv => NoStalePid
  BY DEF TypeOK, PidInv, Serving, NoStalePid
<1> QED BY <1>1, <1>2, SessionInvariant, NextPids, PTL DEF Spec

------------------------------------------------------------------------------
(* Processes.                                                              *)

\* On its way out a run stops its process with its session, or finds it gone.
LEMMA RemovesKeepsProcess ==
    ASSUME TypeOK, ProcessInv, NEW r \in Run, Removes(r),
           UNCHANGED <<proc, cutShort, cleared>>,
           pc[r] \in Serving \cup {"starting"}
    PROVE  ProcessInv'
<1> SUFFICES ASSUME NEW s \in Run
             PROVE  /\ pc'[s] \in {"new", "creating", "starting"} => proc[s] = "none"
                    /\ pc'[s] = "starting" => Known(s)' \/ s \in cleared
                    /\ Alive(s) =>
                          Known(s)' \/ s \in cleared \cup cutShort \/ pc'[s] = "removed"
  BY DEF ProcessInv, Alive
<1>1. CASE s # r
  BY <1>1 DEF TypeOK, ProcessInv, Removes, Known
<1>2. CASE s = r
  BY <1>2 DEF ProcessInv, Removes, Known, Serving
<1> QED BY <1>1, <1>2

LEMMA HandleProcess ==
    ASSUME TypeOK, SessionInv, ProcessInv, NEW r \in Run, Handle(r)
    PROVE  ProcessInv'
<1>1. CASE Create(r)
  BY <1>1 DEF TypeOK, ProcessInv, Known, Alive, Create, At, Goto, stopVars
<1>2. CASE Started(r)
  BY <1>2 DEF TypeOK, ProcessInv, Known, Alive, Started, At, Goto, stopVars
<1>3. CASE StartFails(r)
  BY <1>3, WindUpRemoves, RemovesKeepsProcess DEF StartFails, GeneratorEnds, At, stopVars
<1>4. CASE SessionInfo(r)
  BY <1>4 DEF TypeOK, ProcessInv, Known, Alive, SessionInfo, Register, At, Goto, stopVars
<1>5. CASE Raise(r)
  BY <1>5, WindUpRemoves, RemovesKeepsProcess DEF Raise, At, Serving, stopVars
<1>6. CASE EndOfOutput(r)
  BY <1>6 DEF TypeOK, ProcessInv, Known, Alive, EndOfOutput, At, Goto, stopVars
<1>7. CASE Exited(r)
  BY <1>7, WindUpRemoves, RemovesKeepsProcess
  DEF Exited, GeneratorEnds, At, Serving, stopVars
<1>8. CASE Stopped(r)
  BY <1>8, WindUpRemoves, RemovesKeepsProcess
  DEF Stopped, GeneratorEnds, At, Serving, stopVars
<1>9. CASE RemoveNow(r)
  BY <1>9, RemoveSessionRemoves, RemovesKeepsProcess DEF RemoveNow, At, Serving, stopVars
<1>10. CASE Removed(r)
  BY <1>10 DEF TypeOK, ProcessInv, Known, Alive, Removed, At, Goto, stopVars
<1> QED
  BY <1>1, <1>2, <1>3, <1>4, <1>5, <1>6, <1>7, <1>8, <1>9, <1>10 DEF Handle

LEMMA DeliverProcess ==
    ASSUME TypeOK, ProcessInv, NEW r \in Run, Deliver(r)
    PROVE  ProcessInv'
<1>1. CASE CancelledBeforeSession(r)
  BY <1>1
  DEF TypeOK, ProcessInv, Known, Alive, CancelledBeforeSession, Delivered, Goto, stopVars
<1>2. CASE CancelledAtStart(r)
  BY <1>2, WindUpRemoves, RemovesKeepsProcess
  DEF CancelledAtStart, Delivered, GeneratorEnds, stopVars
<1>3. CASE CancelledReading(r)
  <2>1. CASE Alive(r)
    BY <1>3, <2>1
    DEF TypeOK, ProcessInv, Known, Alive, CancelledReading, Delivered, Goto, stopVars
  <2>2. CASE ~Alive(r)
    BY <1>3, <2>2, WindUpRemoves, RemovesKeepsProcess
    DEF CancelledReading, Delivered, GeneratorEnds, Serving, stopVars
  <2> QED BY <2>1, <2>2
<1>4. CASE CancelledAtEnd(r)
  BY <1>4, WindUpRemoves, RemovesKeepsProcess
  DEF CancelledAtEnd, Delivered, GeneratorEnds, Serving, stopVars
<1>5. CASE CancelledRegistering(r)
  BY <1>5, WindUpRemoves, RemovesKeepsProcess
  DEF CancelledRegistering, Delivered, Serving, stopVars
<1>6. CASE CancelledRemoving(r)
  BY <1>6
  DEF TypeOK, ProcessInv, Known, Alive, CancelledRemoving, Delivered, Goto, stopVars
<1> QED BY <1>1, <1>2, <1>3, <1>4, <1>5, <1>6 DEF Deliver

LEMMA OthersProcess ==
    ASSUME TypeOK, ProcessInv,
           \/ \E r \in Run : Background(r) \/ Cancel(r) \/ Die(r) \/ Kill(r)
           \/ StopStep
           \/ \E cancelRuns \in BOOLEAN : StopAll(cancelRuns)
           \/ UNCHANGED vars
    PROVE  ProcessInv'
<1>1. CASE UNCHANGED <<pc, proc, pending, sessions, cutShort, cleared>>
  BY <1>1 DEF ProcessInv, Known, Alive
<1>2. CASE ClearSessions
  BY <1>2 DEF TypeOK, ProcessInv, Known, Alive, ClearSessions
<1>3. ASSUME NEW r \in Run, Die(r) PROVE ProcessInv'
  BY <1>3 DEF TypeOK, ProcessInv, Known, Alive, Die, stopVars
<1>4. \A r \in Run : Background(r) \/ Cancel(r) \/ Kill(r) \/ StopSession(r)
          => UNCHANGED <<pc, proc, pending, sessions, cutShort, cleared>>
  BY DEF Background, CloseGenerator, DetachedStopEnds, Cancel, Kill, StopSession, stopVars
<1>5. Snapshot \/ UNCHANGED vars \/ (\E cancelRuns \in BOOLEAN : StopAll(cancelRuns))
          => UNCHANGED <<pc, proc, pending, sessions, cutShort, cleared>>
  BY DEF Snapshot, StopAll, vars, runVars, stopVars
<1> QED BY <1>1, <1>2, <1>3, <1>4, <1>5 DEF StopStep

LEMMA NextProcess == TypeOK /\ SessionInv /\ ProcessInv /\ [Next]_vars => ProcessInv'
  BY HandleProcess, DeliverProcess, OthersProcess DEF Next, RunStep

\* A run that is over has no live process, unless it was cancelled while it removed its
\* session, or stop_all dropped the session before it had a process.
THEOREM ProcessesEndWithRuns == Spec => []StoppedWithItsRun
<1>1. Init => ProcessInv
  BY DEF Init, ProcessInv, Known, Alive
<1>2. SessionInv /\ ProcessInv => StoppedWithItsRun
  BY DEF SessionInv, ProcessInv, Serving, StoppedWithItsRun
<1> QED BY <1>1, <1>2, SessionInvariant, NextProcess, PTL DEF Spec

=============================================================================
