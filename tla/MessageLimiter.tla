---------------------------- MODULE MessageLimiter ----------------------------
(***************************************************************************)
(* The limiter all outgoing chat traffic goes through                      *)
(* (MessagingRateLimiter in messaging/limiter.py): a queue of tasks in     *)
(* which a later task of the same key takes the place of an earlier one    *)
(* ("task compaction"), one worker that runs them, and callers that wait   *)
(* for a result, or retry in the background when a connection failed.      *)
(* What the worker runs is a call of the Telegram platform, which repeats  *)
(* what failed on its way (_with_retry in messaging/platforms/telegram.py) *)
(* and takes some errors for success.                                      *)
(*                                                                         *)
(* A step is the code between two suspension points; the condition's lock  *)
(* is never held across one, so it is left out.  Waiting for the rolling   *)
(* window, for a flood pause and for a retry takes any length of time: the *)
(* window itself is in RollingWindow.                                      *)
(***************************************************************************)
EXTENDS Naturals, Sequences, FiniteSets

CONSTANTS Job,          \* calls of fire_and_forget and of enqueue
          Key,          \* dedup keys
          KeyOf,        \* the key of a call
          Awaited,      \* the calls whose caller awaits enqueue itself
          MaxRetries,   \* max_retries of fire_and_forget
          MaxTries,     \* max_retries of _with_retry
          None

ASSUME LimiterAssumption ==
    /\ KeyOf \in [Job -> Key]
    /\ Awaited \subseteq Job
    /\ MaxRetries \in Nat
    /\ MaxTries \in Nat \ {0}
    /\ None \notin Job

VARIABLES
    call,       \* what became of each call
    attempt,    \* retries made
    issued,     \* the calls in the order they were made (history)
    queue,      \* _queue_list and _queue_map together
    worker,     \* where the worker is
    current,    \* the item it has popped
    flooded,    \* _paused_until may lie ahead
    shown,      \* the call whose effect the chat shows, per key (the platform)
    tries,      \* attempts the platform made; MaxTries: no error is caught any more
    gone        \* messages that were deleted from the chat

vars == <<call, attempt, issued, queue, worker, current, flooded, shown, tries, gone>>
workVars == <<worker, current, flooded, shown, tries, gone>>

Call == {"new", "created", "waiting", "retrying", "answered", "failed", "abandoned"}
Item == [func : Job, futures : SUBSET Job]
NoItem == [func |-> None, futures |-> {}]

TypeOK ==
    /\ call \in [Job -> Call]
    /\ attempt \in [Job -> 0..MaxRetries]
    /\ issued \in Seq(Job)
    /\ queue \in Seq(Item)
    /\ worker \in {"idle", "paused", "limited", "sending", "stopped"}
    /\ current \in Item \cup {NoItem}
    /\ worker \in {"idle", "stopped"} <=> current = NoItem
    /\ flooded \in BOOLEAN
    /\ shown \in [Key -> Job \cup {None}]
    /\ tries \in 0..MaxTries
    /\ gone \subseteq Key

Init ==
    /\ call = [j \in Job |-> "new"]
    /\ attempt = [j \in Job |-> 0]
    /\ issued = << >>
    /\ queue = << >>
    /\ worker = "idle"
    /\ current = NoItem
    /\ flooded = FALSE
    /\ shown = [k \in Key |-> None]
    /\ tries = 0
    /\ gone = {}

------------------------------------------------------------------------------
(* Callers.                                                                *)

\* Mutant: compaction keeps the task it found.
EnqueueKeepsOld(j) ==
    \/ \E i \in 1..Len(queue) :
          /\ KeyOf[queue[i].func] = KeyOf[j]
          /\ queue' = [queue EXCEPT ![i].futures = @ \cup {j}]
    \/ /\ \A i \in 1..Len(queue) : KeyOf[queue[i].func] # KeyOf[j]
       /\ queue' = Append(queue, [func |-> j, futures |-> {j}])

\* Mutant: compaction drops the callers it found.
EnqueueDropsFutures(j) ==
    \/ \E i \in 1..Len(queue) :
          /\ KeyOf[queue[i].func] = KeyOf[j]
          /\ queue' = [queue EXCEPT ![i] = [func |-> j, futures |-> {j}]]
    \/ /\ \A i \in 1..Len(queue) : KeyOf[queue[i].func] # KeyOf[j]
       /\ queue' = Append(queue, [func |-> j, futures |-> {j}])

\* The task takes the place of the one queued for its key, or joins the queue.
Enqueue(j) ==
    \/ \E i \in 1..Len(queue) :
          /\ KeyOf[queue[i].func] = KeyOf[j]
          /\ queue' = [queue EXCEPT ![i] = [func |-> j, futures |-> @.futures \cup {j}]]
    \/ /\ \A i \in 1..Len(queue) : KeyOf[queue[i].func] # KeyOf[j]
       /\ queue' = Append(queue, [func |-> j, futures |-> {j}])

\* A status that is awaited is not updated before its caller goes on.
MayCall(j) ==
    /\ call[j] = "new"
    /\ \A a \in Awaited \ {j} : KeyOf[a] = KeyOf[j] => call[a] = "answered"

FireAndForget(j) ==
    /\ MayCall(j) /\ j \notin Awaited
    /\ call' = [call EXCEPT ![j] = "created"]
    /\ issued' = Append(issued, j)
    /\ UNCHANGED <<attempt, queue, workVars>>

Submit(j) ==
    /\ MayCall(j) /\ j \in Awaited
    /\ call' = [call EXCEPT ![j] = "waiting"]
    /\ issued' = Append(issued, j)
    /\ Enqueue(j)
    /\ UNCHANGED <<attempt, workVars>>

\* The tasks of fire_and_forget run in the order they were created.
NextCreated(j) ==
    \E i \in 1..Len(issued) :
        /\ issued[i] = j /\ call[j] = "created"
        /\ \A h \in 1..i - 1 : call[issued[h]] # "created"

RunWrapped(j) ==
    /\ NextCreated(j)
    /\ call' = [call EXCEPT ![j] = "waiting"]
    /\ Enqueue(j)
    /\ UNCHANGED <<attempt, issued, workVars>>

\* The backoff is over: the same task again, under the same key.
Retry(j) ==
    /\ call[j] = "retrying"
    /\ call' = [call EXCEPT ![j] = "waiting"]
    /\ Enqueue(j)
    /\ UNCHANGED <<attempt, issued, workVars>>

\* A caller is cancelled; its task stays queued.
Abandon(j) ==
    /\ j \in Awaited /\ call[j] = "waiting"
    /\ call' = [call EXCEPT ![j] = "abandoned"]
    /\ UNCHANGED <<attempt, issued, queue, workVars>>

------------------------------------------------------------------------------
(* The worker.                                                             *)

Take ==
    /\ worker = "idle" /\ queue # << >>
    /\ current' = Head(queue)
    /\ queue' = Tail(queue)
    /\ worker' \in IF flooded THEN {"paused", "limited"} ELSE {"limited"}
    /\ flooded' = FALSE
    /\ UNCHANGED <<call, attempt, issued, shown, tries, gone>>

\* Mutant: the pause is over only while the flag Take has reset is set.
UnpauseWhileFlooded ==
    /\ worker = "paused" /\ flooded
    /\ worker' = "limited"
    /\ UNCHANGED <<call, attempt, issued, queue, current, flooded, shown, tries, gone>>

Unpause ==
    /\ worker = "paused"
    /\ worker' = "limited"
    /\ UNCHANGED <<call, attempt, issued, queue, current, flooded, shown, tries, gone>>

Acquire ==
    /\ worker = "limited"
    /\ worker' = "sending"
    /\ UNCHANGED <<call, attempt, issued, queue, current, flooded, shown, tries, gone>>

Pending == {j \in current.futures : call[j] = "waiting"}

Shows(func) == shown' = [shown EXCEPT ![KeyOf[func]] = func]

\* The platform call returned: the callers have their answer.
Answer ==
    /\ call' = [j \in Job |-> IF j \in Pending THEN "answered" ELSE call[j]]
    /\ worker' = "idle" /\ current' = NoItem /\ tries' = 0
    /\ UNCHANGED <<attempt, issued, queue, flooded, gone>>

\* A message that was deleted cannot be edited.
Editable(func) == func \in Awaited \/ KeyOf[func] \notin gone

Sent ==
    /\ worker = "sending" /\ Editable(current.func)
    /\ Shows(current.func)
    /\ Answer

\* "Message is not modified", the answer to an edit that was carried out before, and
\* "message to edit not found" are no errors to _with_retry.
Unmodified == current.func \notin Awaited /\ shown[KeyOf[current.func]] = current.func

\* Mutant: _with_retry returns what it has when the attempts are used up.
SwallowedAtTheEnd ==
    /\ worker = "sending" /\ tries < MaxTries
    /\ Unmodified \/ ~Editable(current.func) \/ tries + 1 = MaxTries
    /\ Answer
    /\ UNCHANGED shown

Swallowed ==
    /\ worker = "sending" /\ tries < MaxTries
    /\ Unmodified \/ ~Editable(current.func)
    /\ Answer
    /\ UNCHANGED shown

\* What the platform did when its answer is an error: maybe all it was asked for.
Took(took) ==
    IF took THEN Editable(current.func) /\ Shows(current.func) ELSE UNCHANGED shown

\* A network error: _with_retry sleeps and calls again.  The worker waits.
TryAgain(took) ==
    /\ worker = "sending" /\ tries + 1 < MaxTries
    /\ Took(took)
    /\ tries' = tries + 1
    /\ UNCHANGED <<call, attempt, issued, queue, worker, current, flooded, gone>>

\* RetryAfter, or markup the server cannot parse: one more call, whose errors are not
\* caught.
CallOnceMore ==
    /\ worker = "sending" /\ tries < MaxTries
    /\ tries' = MaxTries
    /\ UNCHANGED <<call, attempt, issued, queue, worker, current, flooded, shown, gone>>

\* fire_and_forget retries what looks like a broken connection.
Retriable(j) == j \notin Awaited /\ attempt[j] < MaxRetries

\* The platform call raises.  A lost answer may hide that it took effect; the error
\* text decides whether the callers retry and whether the worker pauses.
Fails(transient, flood, took) ==
    /\ worker = "sending"
    /\ Took(took)
    /\ LET again == {j \in Pending : transient /\ Retriable(j)}
       IN  /\ call' = [j \in Job |->
                          IF j \in again THEN "retrying"
                          ELSE IF j \in Pending THEN "failed" ELSE call[j]]
           /\ attempt' = [j \in Job |-> attempt[j] + (IF j \in again THEN 1 ELSE 0)]
    /\ flooded' = (flooded \/ flood)
    /\ worker' = "idle" /\ current' = NoItem /\ tries' = 0
    /\ UNCHANGED <<issued, queue, gone>>

\* shutdown: the worker is cancelled wherever it is, its item with it.
Shutdown ==
    /\ worker # "stopped"
    /\ worker' = "stopped" /\ current' = NoItem /\ tries' = 0
    /\ shown' = shown \/ (worker = "sending" /\ Took(TRUE))
    /\ UNCHANGED <<call, attempt, issued, queue, flooded, gone>>

\* /clear, or somebody in the chat, deletes a message that is known.
Delete(k) ==
    /\ k \notin gone /\ shown[k] # None
    /\ \A a \in Awaited : KeyOf[a] = k => call[a] = "answered"
    /\ gone' = gone \cup {k}
    /\ UNCHANGED <<call, attempt, issued, queue, worker, current, flooded, shown, tries>>

------------------------------------------------------------------------------
CallerStep(j) ==
    \/ FireAndForget(j)
    \/ Submit(j)
    \/ RunWrapped(j)
    \/ Retry(j)
    \/ Abandon(j)

WorkerStep ==
    \/ Take
    \/ Unpause
    \/ Acquire
    \/ \E took \in BOOLEAN : TryAgain(took)
    \/ CallOnceMore
    \/ \E transient, flood, took \in BOOLEAN : Fails(transient, flood, took)
    \/ Swallowed
    \/ Sent

Next == WorkerStep \/ Shutdown \/ (\E k \in Key : Delete(k)) \/ \E j \in Job : CallerStep(j)

Spec == Init /\ [][Next]_vars

\* The loop runs ready tasks; sleeps end; a platform call returns or raises.
FairSpec ==
    /\ Spec /\ WF_vars(WorkerStep)
    /\ \A j \in Job : WF_vars(RunWrapped(j)) /\ WF_vars(Retry(j))

------------------------------------------------------------------------------
(* Properties.                                                             *)

\* Every caller that waits is held by exactly one place: an item of the queue or the
\* item the worker runs; unless the worker was stopped with it, it will be answered.
CallerHeldOnce ==
    \A j \in Job : call[j] = "waiting" =>
        LET places == {i \in 1..Len(queue) : j \in queue[i].futures}
            held == Cardinality(places) + (IF j \in current.futures THEN 1 ELSE 0)
        IN  IF worker = "stopped" THEN held <= 1 ELSE held = 1

\* The place of an update among those made.
Position(j) == CHOOSE i \in 1..Len(issued) : issued[i] = j

\* Where nothing failed for good, what the chat shows at rest of a message that is
\* still there is the last update made, whatever the platform had to repeat.
RestShowsLatest ==
    \A j \in Job :
        LET same == {h \in Job : KeyOf[h] = KeyOf[j] /\ call[h] # "new"}
        IN  /\ same # {} /\ KeyOf[j] \notin gone
            /\ \A h \in same : call[h] = "answered" /\ attempt[h] = 0
            => shown[KeyOf[j]] \in same
               /\ \A h \in same : Position(h) <= Position(shown[KeyOf[j]])

\* A caller is not left waiting by compaction, failures, retries or floods, as long as
\* the worker is not shut down.
EveryCallEnds ==
    \A j \in Job : call[j] \in {"created", "waiting", "retrying"} ~>
        call[j] \in {"answered", "failed", "abandoned"} \/ worker = "stopped"

------------------------------------------------------------------------------
(* The inductive invariant behind CallerHeldOnce.                          *)

\* A caller is in one item at most, and in none before its task is queued or after it
\* has its answer; a worker that is not stopped still has every caller that waits.
Held(j) == (\E i \in 1..Len(queue) : j \in queue[i].futures) \/ j \in current.futures

HeldInv ==
    /\ \A i, k \in 1..Len(queue), j \in Job :
          j \in queue[i].futures /\ j \in queue[k].futures => i = k
    /\ \A i \in 1..Len(queue), j \in Job :
          j \in queue[i].futures => j \notin current.futures
    /\ \A j \in Job : Held(j) => call[j] \in {"waiting", "abandoned"}
    /\ worker # "stopped" => \A j \in Job : call[j] = "waiting" => Held(j)

------------------------------------------------------------------------------
(* The inductive invariant behind RestShowsLatest.                         *)

\* A call is issued once.  An awaited one is the first of its key, and the tasks of the
\* others of its key are queued in the order in which they were created.
OrderInv ==
    /\ \A a, b \in 1..Len(issued) : issued[a] = issued[b] => a = b
    /\ \A j \in Job : call[j] # "new" => \E a \in 1..Len(issued) : issued[a] = j
    /\ \A a \in 1..Len(issued) : call[issued[a]] # "new"
    /\ \A a \in Awaited, h \in Job :
          h # a /\ KeyOf[h] = KeyOf[a] /\ call[a] # "answered" => call[h] = "new"
    /\ \A a, b \in 1..Len(issued) :
          a < b /\ KeyOf[issued[a]] = KeyOf[issued[b]] => issued[b] \notin Awaited
    /\ \A a, b \in 1..Len(issued) :
          a < b /\ call[issued[a]] = "created" =>
              call[issued[b]] = "created" \/ issued[b] \in Awaited
    /\ \A j \in Job : call[j] = "retrying" => attempt[j] > 0

\* Two items have two keys, and the one whose task an item runs waits for it.
ItemInv ==
    /\ \A i, k \in 1..Len(queue) : KeyOf[queue[i].func] = KeyOf[queue[k].func] => i = k
    /\ \A i \in 1..Len(queue) : queue[i].func \in queue[i].futures
    /\ current # NoItem => current.func \in current.futures

\* Nothing went wrong with the calls of the key.
Calm(k) ==
    /\ k \notin gone
    /\ \A h \in Job : KeyOf[h] = k /\ call[h] # "new" =>
          attempt[h] = 0 /\ call[h] \notin {"failed", "abandoned"}

Queued(k) == \E i \in 1..Len(queue) : KeyOf[queue[i].func] = k
Running(k) == current # NoItem /\ KeyOf[current.func] = k

\* The calls of the key whose tasks were queued, and the last of them to be made.
Entered(k) == {h \in Job : KeyOf[h] = k /\ call[h] \notin {"new", "created"}}
Precedes(h, j) == \E a, b \in 1..Len(issued) : a <= b /\ issued[a] = h /\ issued[b] = j
Latest(k) == {j \in Entered(k) : \A h \in Entered(k) : Precedes(h, j)}

\* The last update made is in the queue, else with the worker, else shown; a worker
\* that is stopped with it leaves its caller waiting.
OnItsWay(k) ==
    /\ \A i \in 1..Len(queue) : KeyOf[queue[i].func] = k => queue[i].func \in Latest(k)
    /\ Running(k) /\ ~Queued(k) => current.func \in Latest(k)
    /\ ~Running(k) /\ ~Queued(k) /\ Entered(k) # {} =>
          \/ shown[k] \in Latest(k)
          \/ worker = "stopped" /\ \E h \in Entered(k) : call[h] = "waiting"

LatestInv == \A k \in Key : Calm(k) => OnItsWay(k)

==============================================================================
