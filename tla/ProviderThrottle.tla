--------------------------- MODULE ProviderThrottle ---------------------------
(***************************************************************************)
(* The rate limiter that all requests to the providers share               *)
(* (providers/rate_limit.py), as the streaming providers use it: a request *)
(* holds a concurrency slot from before its first attempt to the end of    *)
(* its stream; each attempt waits for the reactive block and for a slot of *)
(* the rolling window; a 429 sets the block and is retried.                *)
(*                                                                         *)
(* A step is the code between two suspension points.  A sleeper may run at *)
(* any moment from its wake-up time on.                                    *)
(***************************************************************************)
EXTENDS RollingWindow, FiniteSets

CONSTANTS Request,
          MaxConcurrency,   \* max_concurrency
          MaxRetries,       \* max_retries
          Delays,           \* the delays a backoff may take (jitter included)
          Cooldown          \* the block map_error sets

ASSUME ThrottleAssumption ==
    /\ MaxConcurrency \in Nat \ {0}
    /\ MaxRetries \in Nat
    /\ Delays \subseteq Nat
    /\ Cooldown \in Nat

VARIABLES
    pc,             \* where each request is
    line,           \* the requests that wait for the semaphore, in order
    attempt,        \* retries made
    wake,           \* when the sleep of a request ends
    seen,           \* the end of the block a request last found (history)
    blockedUntil    \* _blocked_until

taskVars == <<pc, line, attempt, wake, seen>>
vars == <<now, windowVars, taskVars, blockedUntil>>

PC == {"new", "queued", "entered", "blocked", "waiting", "calling", "backoff",
       "streaming", "failing", "done"}
Holds(r) == pc[r] \notin {"new", "queued", "done"}
Holders  == {r \in Request : Holds(r)}

TypeOK ==
    /\ WindowOK /\ now <= MaxTime
    /\ pc \in [Request -> PC]
    /\ line \in Seq(Request)
    /\ attempt \in [Request -> 0..MaxRetries]
    /\ wake \in [Request -> Nat]
    /\ seen \in [Request -> Nat]
    /\ blockedUntil \in Nat

Init ==
    /\ WindowInit
    /\ pc = [r \in Request |-> "new"]
    /\ line = << >>
    /\ attempt = [r \in Request |-> 0]
    /\ wake = [r \in Request |-> 0]
    /\ seen = [r \in Request |-> 0]
    /\ blockedUntil = 0

\* Mutant: a sleep is a second short.
AwakeTooSoon(r) == now + 1 >= wake[r]

Awake(r) == now >= wake[r]
Sleep(r, state, until) ==
    /\ pc' = [pc EXCEPT ![r] = state]
    /\ wake' = [wake EXCEPT ![r] = until]

------------------------------------------------------------------------------
(* The concurrency slot.                                                   *)

\* Mutant: a stream that ends does not hand its slot on.
LeaveWithoutRelease(r) ==
    IF line = << >> \/ pc[r] = "streaming"
    THEN pc' = [pc EXCEPT ![r] = "done"] /\ UNCHANGED line
    ELSE /\ pc' = [pc EXCEPT ![r] = "done", ![Head(line)] = "entered"]
         /\ line' = Tail(line)

\* The request ends: its slot goes to the first in line.
Leave(r) ==
    IF line = << >>
    THEN pc' = [pc EXCEPT ![r] = "done"] /\ UNCHANGED line
    ELSE /\ pc' = [pc EXCEPT ![r] = "done", ![Head(line)] = "entered"]
         /\ line' = Tail(line)

------------------------------------------------------------------------------
(* One attempt.                                                            *)

\* A slot of the rolling window, and with it the request to the provider.
Admit(r) ==
    \/ /\ Granted
       /\ pc' = [pc EXCEPT ![r] = "calling"]
       /\ UNCHANGED wake
    \/ \E until \in now..now + Window :
          Refused(until) /\ Sleep(r, "waiting", until)

\* wait_if_blocked.
Check(r) ==
    /\ seen' = [seen EXCEPT ![r] = blockedUntil]
    /\ IF now < blockedUntil
       THEN Sleep(r, "blocked", blockedUntil) /\ UNCHANGED windowVars
       ELSE Admit(r)

\* asyncio.Semaphore: a free slot is taken without suspending.
Enter(r) ==
    /\ pc[r] = "new"
    /\ Cardinality(Holders) < MaxConcurrency
    /\ Check(r)
    /\ UNCHANGED <<now, line, attempt, blockedUntil>>

Queue(r) ==
    /\ pc[r] = "new"
    /\ Cardinality(Holders) >= MaxConcurrency
    /\ pc' = [pc EXCEPT ![r] = "queued"]
    /\ line' = Append(line, r)
    /\ UNCHANGED <<now, windowVars, attempt, wake, seen, blockedUntil>>

\* The request that was handed a slot runs.
Start(r) ==
    /\ pc[r] = "entered"
    /\ Check(r)
    /\ UNCHANGED <<now, line, attempt, blockedUntil>>

\* The block that was found is over; it is not looked at again.
Unblocked(r) ==
    /\ pc[r] = "blocked" /\ Awake(r)
    /\ Admit(r)
    /\ UNCHANGED <<now, line, attempt, seen, blockedUntil>>

TryAgain(r) ==
    /\ pc[r] = "waiting" /\ Awake(r)
    /\ Admit(r)
    /\ UNCHANGED <<now, line, attempt, seen, blockedUntil>>

Retry(r) ==
    /\ pc[r] = "backoff" /\ Awake(r)
    /\ Check(r)
    /\ UNCHANGED <<now, line, attempt, blockedUntil>>

------------------------------------------------------------------------------
(* What comes of it.                                                       *)

Accepted(r) ==
    /\ pc[r] = "calling"
    /\ pc' = [pc EXCEPT ![r] = "streaming"]
    /\ UNCHANGED <<now, windowVars, line, attempt, wake, seen, blockedUntil>>

BackOff(r, d) ==
    /\ blockedUntil' = now + d
    /\ Sleep(r, "backoff", now + d)

\* A 429 that may be retried: block everyone and sleep.
RateLimited(r) ==
    /\ pc[r] = "calling" /\ attempt[r] < MaxRetries
    /\ attempt' = [attempt EXCEPT ![r] = @ + 1]
    /\ \E d \in Delays : BackOff(r, d)
    /\ UNCHANGED <<now, windowVars, line, seen>>

\* A 429 that is not: retries exhausted, a native provider, or during the stream.
\* The slot is kept while the error is sent to the client.
GiveUp(r) ==
    /\ pc[r] \in {"calling", "streaming"}
    /\ blockedUntil' = now + Cooldown
    /\ pc' = [pc EXCEPT ![r] = "failing"]
    /\ UNCHANGED <<now, windowVars, line, attempt, wake, seen>>

\* The stream ends, another error occurs, or the client goes away.
End(r) ==
    /\ Holds(r)
    /\ Leave(r)
    /\ UNCHANGED <<now, windowVars, attempt, wake, seen, blockedUntil>>

\* The line without its i-th request.
Drops(i) == line' = [k \in 1..Len(line) - 1 |-> IF k < i THEN line[k] ELSE line[k + 1]]

\* The client goes away while its request waits for the semaphore.
Abandon(r) ==
    /\ pc[r] = "queued"
    /\ pc' = [pc EXCEPT ![r] = "done"]
    /\ \E i \in 1..Len(line) : line[i] = r /\ Drops(i)
    /\ UNCHANGED <<now, windowVars, attempt, wake, seen, blockedUntil>>

Tick ==
    /\ now < MaxTime
    /\ now' = now + 1
    /\ UNCHANGED <<windowVars, taskVars, blockedUntil>>

------------------------------------------------------------------------------
Step(r) ==
    \/ Enter(r)
    \/ Queue(r)
    \/ Start(r)
    \/ Unblocked(r)
    \/ TryAgain(r)
    \/ Retry(r)
    \/ Accepted(r)
    \/ RateLimited(r)
    \/ GiveUp(r)
    \/ End(r)
    \/ Abandon(r)

Next == Tick \/ \E r \in Request : Step(r)

Spec == Init /\ [][Next]_vars

------------------------------------------------------------------------------
(* Properties (WindowBound is in RollingWindow).                           *)

\* At most max_concurrency streams are open, and no slot is idle while a request
\* waits for one, whichever way the others ended.
SlotsInUse ==
    /\ Cardinality(Holders) <= MaxConcurrency
    /\ line # << >> => Cardinality(Holders) = MaxConcurrency

\* A request that found a block does not reach the provider before its end, through
\* the sleeps for the block, for its backoff and for the rolling window.
SeenBlockRespected ==
    [][\A r \in Request : pc[r] # "calling" /\ pc'[r] = "calling"
          => now >= seen'[r]]_vars

------------------------------------------------------------------------------
(* The inductive invariants behind them.                                   *)

\* The line holds every queued request at most once, and no other.
SlotInv ==
    /\ IsFiniteSet(Holders)
    /\ SlotsInUse
    /\ \A i \in 1..Len(line) : pc[line[i]] = "queued"
    /\ \A i, j \in 1..Len(line) : line[i] = line[j] => i = j

\* A sleep for a block is as long as the block; who waits for the window is past it.
BlockInv ==
    \A r \in Request :
        /\ pc[r] = "blocked" => wake[r] >= seen[r]
        /\ pc[r] = "waiting" => now >= seen[r]

==============================================================================
