------------------------------ MODULE CLISessions ------------------------------
(***************************************************************************)
(* The Claude CLI subprocesses (cli/manager.py, session.py,                *)
(* process_registry.py) as a message's run uses them                       *)
(* (_process_node_impl in messaging/handler.py): a run creates a session   *)
(* of its own, starts the subprocess, reads its output, and on every way   *)
(* out removes the session, which stops the subprocess.  Commands cancel   *)
(* runs at any suspension point; the global stop also stops all sessions   *)
(* under the manager's lock.                                               *)
(*                                                                         *)
(* A run stands for its session, its subprocess and its pid.  A step is    *)
(* the code between two suspension points.  The order in which waiters get *)
(* the lock is left open.                                                  *)
(***************************************************************************)
EXTENDS Naturals, FiniteSets

CONSTANTS Run,
          Stopper,      \* the task in stop_all
          Nobody,
          MaxCancels,   \* bound: cancellations of one run by name
          MaxStops      \* bound: calls of stop_all

ASSUME SessionsAssumption ==
    /\ Stopper # Nobody /\ {Stopper, Nobody} \cap Run = {}
    /\ MaxCancels \in Nat /\ MaxStops \in Nat

VARIABLES
    pc,             \* where each run is
    cancels,        \* cancellations of each run by name so far
    cancelReq,      \* a CancelledError is about to be delivered
    proc,           \* the subprocess of each run
    signal,         \* what it was sent
    pending, sessions,      \* _pending_sessions and _sessions
    pids,           \* the registry of pids
    owner,          \* who holds the manager's _lock
    detached,       \* runs whose shielded stop() runs as a task of its own
    dangling,       \* runs that left their generator unclosed
    stops, stopPc, todo,    \* stop_all: calls, where it is, sessions left to stop
    cleared,        \* runs whose session stop_all dropped (history)
    cutShort        \* runs cancelled while they removed their session (history)

runVars == <<pc, cancels, cancelReq, proc, signal, pending, sessions, pids,
             detached, dangling, cutShort>>
stopVars == <<stops, stopPc, todo, cleared>>
vars == <<runVars, owner, stopVars>>

PC == {"new", "creating", "starting", "reading", "registering", "ending",
       "stopping", "removing", "removed", "done"}

TypeOK ==
    /\ pc \in [Run -> PC]
    /\ cancels \in [Run -> 0..MaxCancels]
    /\ cancelReq \in [Run -> BOOLEAN]
    /\ proc \in [Run -> {"none", "alive", "dead"}]
    /\ signal \in [Run -> {"none", "term", "kill"}]
    /\ pending \subseteq Run /\ sessions \subseteq Run /\ pids \subseteq Run
    /\ pending \cap sessions = {}
    /\ owner \in Run \cup {Stopper, Nobody}
    /\ detached \subseteq Run /\ dangling \subseteq Run
    /\ stops \in 0..MaxStops
    /\ stopPc \in {"idle", "called", "stopping"}
    /\ todo \subseteq Run
    /\ cleared \subseteq Run /\ cutShort \subseteq Run

Init ==
    /\ pc = [r \in Run |-> "new"]
    /\ cancels = [r \in Run |-> 0]
    /\ cancelReq = [r \in Run |-> FALSE]
    /\ proc = [r \in Run |-> "none"]
    /\ signal = [r \in Run |-> "none"]
    /\ pending = {} /\ sessions = {} /\ pids = {}
    /\ owner = Nobody
    /\ detached = {} /\ dangling = {}
    /\ stops = 0 /\ stopPc = "idle" /\ todo = {}
    /\ cleared = {} /\ cutShort = {}

Alive(r) == proc[r] = "alive"
Known(r) == r \in pending \cup sessions
Goto(r, state) == pc' = [pc EXCEPT ![r] = state]
At(r, state) == pc[r] = state /\ ~cancelReq[r]
Delivered(r, state) ==
    /\ pc[r] = state /\ cancelReq[r]
    /\ cancelReq' = [cancelReq EXCEPT ![r] = FALSE]

\* stop() of a session whose process runs: SIGTERM; the caller waits until it is dead.
Terminate(r) ==
    signal' = [signal EXCEPT ![r] = IF @ = "none" THEN "term" ELSE @]

------------------------------------------------------------------------------
(* The end of a run: the finally block removes its session.                *)

\* Mutant: a session whose real id is known stays in the manager.
ForgetPending(r) == pending' = pending \ {r} /\ UNCHANGED sessions

Forget(r) ==
    /\ pending' = pending \ {r}
    /\ sessions' = sessions \ {r}

\* Mutant: the session is forgotten, and its process left alone.
RemoveWithoutStop(r) ==
    /\ IF Known(r) THEN Forget(r) ELSE UNCHANGED <<pending, sessions>>
    /\ Goto(r, "done") /\ UNCHANGED <<signal, owner>>

\* remove_session, from the moment it has the lock, which it keeps while it stops.
RemoveSession(r) ==
    IF Known(r) /\ Alive(r)
    THEN Forget(r) /\ Terminate(r) /\ owner' = r /\ Goto(r, "removed")
    ELSE /\ IF Known(r) THEN Forget(r) ELSE UNCHANGED <<pending, sessions>>
         /\ Goto(r, "done") /\ UNCHANGED <<signal, owner>>

\* The coroutine reaches its finally block: on with it, or wait for the lock.
WindUp(r) ==
    IF owner = Nobody
    THEN RemoveSession(r)
    ELSE Goto(r, "removing") /\ UNCHANGED <<pending, sessions, signal, owner>>

\* Mutant: the pid stays registered.
KeepPid(r) == UNCHANGED pids

\* The finally block of start_task.
Unregister(r) == pids' = pids \ {r}

GeneratorEnds(r) == Unregister(r) /\ WindUp(r)

------------------------------------------------------------------------------
(* A run, as long as nobody cancels it.                                    *)

\* get_or_create_session, or the wait for its lock.
Create(r) ==
    /\ pc[r] = "new" \/ (At(r, "creating") /\ owner = Nobody)
    /\ IF owner = Nobody
       THEN pending' = pending \cup {r} /\ Goto(r, "starting")
       ELSE UNCHANGED pending /\ Goto(r, "creating")
    /\ UNCHANGED <<cancels, cancelReq, proc, signal, sessions, pids, owner,
                   detached, dangling, cutShort, stopVars>>

Started(r) ==
    /\ At(r, "starting")
    /\ proc' = [proc EXCEPT ![r] = "alive"]
    /\ pids' = pids \cup {r}
    /\ Goto(r, "reading")
    /\ UNCHANGED <<cancels, cancelReq, signal, pending, sessions, owner,
                   detached, dangling, cutShort, stopVars>>

StartFails(r) ==
    /\ At(r, "starting")
    /\ GeneratorEnds(r)
    /\ UNCHANGED <<cancels, cancelReq, proc, detached, dangling, cutShort, stopVars>>

\* register_real_session_id; a session that stop_all dropped is not found.
Register(r) ==
    IF r \in pending
    THEN pending' = pending \ {r} /\ sessions' = sessions \cup {r}
    ELSE UNCHANGED <<pending, sessions>>

\* The first event that names the session id.
SessionInfo(r) ==
    /\ \/ At(r, "reading") /\ r \notin sessions
       \/ At(r, "registering") /\ owner = Nobody
    /\ IF owner = Nobody
       THEN Register(r) /\ Goto(r, "reading")
       ELSE Goto(r, "registering") /\ UNCHANGED <<pending, sessions>>
    /\ UNCHANGED <<cancels, cancelReq, proc, signal, pids, owner,
                   detached, dangling, cutShort, stopVars>>

\* An exception while an event is handled: the generator is left where it was.
Raise(r) ==
    /\ At(r, "reading")
    /\ dangling' = dangling \cup {r}
    /\ WindUp(r)
    /\ UNCHANGED <<cancels, cancelReq, proc, pids, detached, cutShort, stopVars>>

\* The output ends; the process may yet run.
EndOfOutput(r) ==
    /\ At(r, "reading")
    /\ Goto(r, "ending")
    /\ UNCHANGED <<cancels, cancelReq, proc, signal, pending, sessions, pids, owner,
                   detached, dangling, cutShort, stopVars>>

Exited(r) ==
    /\ At(r, "ending") /\ ~Alive(r)
    /\ GeneratorEnds(r)
    /\ UNCHANGED <<cancels, cancelReq, proc, detached, dangling, cutShort, stopVars>>

\* remove_session gets the lock it waited for.
RemoveNow(r) ==
    /\ At(r, "removing") /\ owner = Nobody
    /\ RemoveSession(r)
    /\ UNCHANGED <<cancels, cancelReq, proc, pids, detached, dangling, cutShort,
                   stopVars>>

\* Its stop() is over.
Removed(r) ==
    /\ At(r, "removed") /\ ~Alive(r)
    /\ pids' = pids \ {r}
    /\ owner' = Nobody
    /\ Goto(r, "done")
    /\ UNCHANGED <<cancels, cancelReq, proc, signal, pending, sessions,
                   detached, dangling, cutShort, stopVars>>

\* The loop closes an abandoned generator: its finally block runs.
CloseGenerator(r) ==
    /\ r \in dangling
    /\ dangling' = dangling \ {r}
    /\ Unregister(r)
    /\ UNCHANGED <<pc, cancels, cancelReq, proc, signal, pending, sessions, owner,
                   detached, cutShort, stopVars>>

------------------------------------------------------------------------------
(* Cancellation.                                                           *)

Cancellable(r) == pc[r] \notin {"new", "done"}

\* A reply-scoped /stop, /clear of a branch: task.cancel().
Cancel(r) ==
    /\ Cancellable(r) /\ cancels[r] < MaxCancels
    /\ cancels' = [cancels EXCEPT ![r] = @ + 1]
    /\ cancelReq' = [cancelReq EXCEPT ![r] = TRUE]
    /\ UNCHANGED <<pc, proc, signal, pending, sessions, pids, owner,
                   detached, dangling, cutShort, stopVars>>

CancelledBeforeSession(r) ==
    /\ Delivered(r, "creating")
    /\ Goto(r, "done")
    /\ UNCHANGED <<cancels, proc, signal, pending, sessions, pids, owner,
                   detached, dangling, cutShort, stopVars>>

\* asyncio kills a process whose creation is cancelled.
CancelledAtStart(r) ==
    /\ Delivered(r, "starting")
    /\ GeneratorEnds(r)
    /\ UNCHANGED <<cancels, proc, detached, dangling, cutShort, stopVars>>

\* The read of the output is cancelled: the session stops itself, shielded.
CancelledReading(r) ==
    /\ Delivered(r, "reading")
    /\ IF Alive(r)
       THEN /\ Terminate(r) /\ detached' = detached \cup {r}
            /\ Goto(r, "stopping") /\ UNCHANGED <<pending, sessions, pids, owner>>
       ELSE GeneratorEnds(r) /\ UNCHANGED detached
    /\ UNCHANGED <<cancels, proc, dangling, cutShort, stopVars>>

\* The shielded stop() goes on, whatever becomes of the run.
DetachedStopEnds(r) ==
    /\ r \in detached /\ ~Alive(r)
    /\ detached' = detached \ {r}
    /\ Unregister(r)
    /\ UNCHANGED <<pc, cancels, cancelReq, proc, signal, pending, sessions, owner,
                   dangling, cutShort, stopVars>>

\* Mutant: the run waits for its stop() to have failed.
StoppedInVain(r) ==
    /\ At(r, "stopping") /\ r \notin detached /\ Alive(r)
    /\ GeneratorEnds(r)
    /\ UNCHANGED <<cancels, cancelReq, proc, detached, dangling, cutShort, stopVars>>

Stopped(r) ==
    /\ At(r, "stopping") /\ r \notin detached
    /\ GeneratorEnds(r)
    /\ UNCHANGED <<cancels, cancelReq, proc, detached, dangling, cutShort, stopVars>>

\* Cancelled again behind the shield, or after the output has ended: nothing stops
\* the process here, that is left to remove_session.
CancelledAtEnd(r) ==
    /\ Delivered(r, "stopping") \/ Delivered(r, "ending")
    /\ GeneratorEnds(r)
    /\ UNCHANGED <<cancels, proc, detached, dangling, cutShort, stopVars>>

\* Cancelled in the handler's own code, which waits for the manager's lock.
CancelledRegistering(r) ==
    /\ Delivered(r, "registering")
    /\ dangling' = dangling \cup {r}
    /\ WindUp(r)
    /\ UNCHANGED <<cancels, proc, pids, detached, cutShort, stopVars>>

\* Cancelled in the finally block: remove_session is given up.
CancelledRemoving(r) ==
    /\ Delivered(r, "removing") \/ Delivered(r, "removed")
    /\ owner' = IF owner = r THEN Nobody ELSE owner
    /\ cutShort' = cutShort \cup {r}
    /\ Goto(r, "done")
    /\ UNCHANGED <<cancels, proc, signal, pending, sessions, pids, detached, dangling,
                   stopVars>>

------------------------------------------------------------------------------
(* stop_all.                                                               *)

\* /stop cancels every run first, the shutdown of the application does not.
StopAll(cancelRuns) ==
    /\ stopPc = "idle" /\ stops < MaxStops
    /\ stops' = stops + 1 /\ stopPc' = "called"
    /\ LET hit == {r \in Run : cancelRuns /\ Cancellable(r)}
       IN  cancelReq' = [r \in Run |-> cancelReq[r] \/ r \in hit]
    /\ UNCHANGED <<pc, cancels, proc, signal, pending, sessions, pids, owner,
                   detached, dangling, cutShort, todo, cleared>>

\* Mutant: it waits for a session to stop.
SnapshotOfSome ==
    /\ stopPc = "called" /\ owner = Nobody /\ pending \cup sessions # {}
    /\ owner' = Stopper /\ stopPc' = "stopping"
    /\ todo' = pending \cup sessions
    /\ UNCHANGED <<runVars, stops, cleared>>

Snapshot ==
    /\ stopPc = "called" /\ owner = Nobody
    /\ owner' = Stopper /\ stopPc' = "stopping"
    /\ todo' = pending \cup sessions
    /\ UNCHANGED <<runVars, stops, cleared>>

\* One session after the other: SIGTERM to a live process, and on when it is dead.  It
\* waits for the one that was sent a signal.
StopSession(r) ==
    /\ stopPc = "stopping" /\ r \in todo
    /\ \A s \in todo : Alive(s) => signal[s] = "none"
    /\ IF Alive(r)
       THEN Terminate(r) /\ UNCHANGED <<todo, pids>>
       ELSE /\ todo' = todo \ {r} /\ UNCHANGED signal
            /\ pids' = IF signal[r] = "none" THEN pids ELSE pids \ {r}
    /\ UNCHANGED <<pc, cancels, cancelReq, proc, pending, sessions,
                   detached, dangling, cutShort, owner, stops, stopPc, cleared>>

ClearSessions ==
    /\ stopPc = "stopping" /\ todo = {}
    /\ cleared' = cleared \cup {r \in Run : Known(r) /\ proc[r] # "dead"}
    /\ pending' = {} /\ sessions' = {}
    /\ owner' = Nobody /\ stopPc' = "idle"
    /\ UNCHANGED <<pc, cancels, cancelReq, proc, signal, pids, detached, dangling,
                   cutShort, stops, todo>>

------------------------------------------------------------------------------
(* The subprocess.                                                         *)

Die(r) ==
    /\ Alive(r)
    /\ proc' = [proc EXCEPT ![r] = "dead"]
    /\ UNCHANGED <<pc, cancels, cancelReq, signal, pending, sessions, pids, detached,
                   dangling, cutShort, owner, stopVars>>

\* Five seconds after SIGTERM, whoever waits for the process kills it.
Kill(r) ==
    /\ Alive(r) /\ signal[r] = "term"
    /\ pc[r] = "removed" \/ r \in detached \/ (stopPc = "stopping" /\ r \in todo)
    /\ signal' = [signal EXCEPT ![r] = "kill"]
    /\ UNCHANGED <<pc, cancels, cancelReq, proc, pending, sessions, pids, detached,
                   dangling, cutShort, owner, stopVars>>

------------------------------------------------------------------------------
Handle(r) ==
    \/ Create(r) \/ Started(r) \/ StartFails(r) \/ SessionInfo(r) \/ Raise(r)
    \/ EndOfOutput(r) \/ Exited(r) \/ Stopped(r) \/ RemoveNow(r) \/ Removed(r)

Deliver(r) ==
    \/ CancelledBeforeSession(r) \/ CancelledAtStart(r) \/ CancelledReading(r)
    \/ CancelledAtEnd(r) \/ CancelledRegistering(r) \/ CancelledRemoving(r)

RunStep(r) == Handle(r) \/ Deliver(r)

StopStep == Snapshot \/ ClearSessions \/ \E r \in Run : StopSession(r)

Background(r) == CloseGenerator(r) \/ DetachedStopEnds(r)

Next ==
    \/ \E r \in Run : RunStep(r) \/ Background(r) \/ Cancel(r) \/ Die(r) \/ Kill(r)
    \/ StopStep
    \/ \E cancelRuns \in BOOLEAN : StopAll(cancelRuns)

Spec == Init /\ [][Next]_vars

\* The loop runs ready tasks and timers, and a killed process dies.  Nothing is assumed
\* of a process that was not killed, nor that a run is ever created.
FairSpec ==
    /\ Spec /\ WF_vars(StopStep)
    /\ \A r \in Run :
          /\ WF_vars(RunStep(r) /\ pc[r] # "new") /\ WF_vars(Background(r))
          /\ WF_vars(Kill(r)) /\ WF_vars(signal[r] = "kill" /\ Die(r))

------------------------------------------------------------------------------
(* Properties.                                                             *)

\* "Free the session-manager slot": a run that is over has no session left in the
\* manager, unless it was cancelled while it removed it.
SlotFreed ==
    \A r \in Run : pc[r] = "done" /\ r \notin cutShort => ~Known(r)

\* A run that is over has no live process, unless it was cancelled while it removed its
\* session, or stop_all had dropped the session when it had no process yet.
StoppedWithItsRun ==
    \A r \in Run : pc[r] = "done" /\ r \notin cutShort \cup cleared => ~Alive(r)

\* "we only track processes we spawn so we don't accidentally kill unrelated system
\* processes": the pid of a run that is over is not left in the registry.
NoStalePid ==
    \A r \in Run : pc[r] = "done" /\ r \notin dangling => r \notin pids

\* A cancelled run ends, although it may have to wait for the lock of a remove_session
\* or stop_all that is itself waiting for a process.
CancelledRunEnds == \A r \in Run : cancelReq[r] ~> pc[r] = "done"

\* stop_all returns, however slowly the processes die.
StopAllReturns == stopPc # "idle" ~> stopPc = "idle"

==============================================================================
