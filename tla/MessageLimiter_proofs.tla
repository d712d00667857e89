------------------------ MODULE MessageLimiter_proofs ------------------------
(***************************************************************************)
(* The limiter of the chat traffic, for any calls, keys and numbers of     *)
(* retries: its types, that compaction, retries, failures and the shutdown *)
(* never lose a caller nor keep it twice, and that the chat shows what was *)
(* last asked for.                                                         *)
(***************************************************************************)
EXTENDS MessageLimiter, FiniteSetTheorems, TLAPS

LEMMA InitType == Init => TypeOK
<1> SUFFICES ASSUME Init PROVE TypeOK
  OBVIOUS
<1>1. 0 \in 0..MaxRetries /\ 0 \in 0..MaxTries
  BY LimiterAssumption
<1>2. call \in [Job -> Call] /\ attempt \in [Job -> 0..MaxRetries]
  BY <1>1 DEF Init, Call
<1>3. shown \in [Key -> Job \cup {None}] /\ issued \in Seq(Job) /\ queue \in Seq(Item)
  BY DEF Init
<1> QED BY <1>1, <1>2, <1>3 DEF Init, TypeOK

\* What Enqueue does to the callers the queue holds: the new one joins one item, which
\* is an old one or the last, and all the others stay where they are.
LEMMA EnqueueHolds ==
    ASSUME TypeOK, NEW j \in Job, Enqueue(j)
    PROVE  /\ queue' \in Seq(Item)
           /\ Len(queue') \in {Len(queue), Len(queue) + 1}
           /\ \E p \in 1..Len(queue') : \A i \in 1..Len(queue'), h \in Job :
                 h \in queue'[i].futures <=>
                    \/ i <= Len(queue) /\ h \in queue[i].futures
                    \/ h = j /\ i = p
<1>0. queue \in Seq(Item) /\ Len(queue) \in Nat
  BY DEF TypeOK
<1>1. ASSUME NEW p \in 1..Len(queue),
             queue' = [queue EXCEPT ![p] = [func |-> j, futures |-> @.futures \cup {j}]]
      PROVE  /\ queue' \in Seq(Item) /\ Len(queue') = Len(queue)
             /\ \A i \in 1..Len(queue'), h \in Job :
                   h \in queue'[i].futures <=>
                      \/ i <= Len(queue) /\ h \in queue[i].futures
                      \/ h = j /\ i = p
  <2> DEFINE new == [func |-> j, futures |-> queue[p].futures \cup {j}]
  <2>1. new \in Item /\ new.futures = queue[p].futures \cup {j}
    <3>1. queue[p] \in Item
      BY <1>0
    <3>2. queue[p].futures \cup {j} \in SUBSET Job
      BY <3>1 DEF Item
    <3> QED BY <3>2 DEF Item
  <2>2. queue' = [queue EXCEPT ![p] = new]
    BY <1>1
  <2> HIDE DEF new
  <2>3. queue' \in Seq(Item) /\ Len(queue') = Len(queue)
        /\ \A i \in 1..Len(queue) : queue'[i] = IF i = p THEN new ELSE queue[i]
    BY <1>0, <2>1, <2>2
  <2> QED BY <1>0, <2>1, <2>3
<1>2. ASSUME queue' = Append(queue, [func |-> j, futures |-> {j}])
      PROVE  /\ queue' \in Seq(Item) /\ Len(queue') = Len(queue) + 1
             /\ \A i \in 1..Len(queue'), h \in Job :
                   h \in queue'[i].futures <=>
                      \/ i <= Len(queue) /\ h \in queue[i].futures
                      \/ h = j /\ i = Len(queue) + 1
  <2> DEFINE new == [func |-> j, futures |-> {j}]
  <2>1. new \in Item /\ new.futures = {j}
    BY DEF Item
  <2>2. queue' = Append(queue, new)
    BY <1>2
  <2> HIDE DEF new
  <2>3. queue' \in Seq(Item) /\ Len(queue') = Len(queue) + 1
        /\ queue'[Len(queue) + 1] = new
        /\ \A i \in 1..Len(queue) : queue'[i] = queue[i]
    BY <1>0, <2>1, <2>2
  <2> QED BY <1>0, <2>1, <2>3
<1>3. CASE queue' = Append(queue, [func |-> j, futures |-> {j}])
  <2>1. Len(queue) + 1 \in 1..Len(queue')
    BY <1>0, <1>2, <1>3
  <2> QED BY <1>2, <1>3, <2>1
<1>4. ASSUME NEW p \in 1..Len(queue),
             queue' = [queue EXCEPT ![p] = [func |-> j, futures |-> @.futures \cup {j}]]
      PROVE  /\ queue' \in Seq(Item) /\ Len(queue') \in {Len(queue), Len(queue) + 1}
             /\ \E q \in 1..Len(queue') : \A i \in 1..Len(queue'), h \in Job :
                   h \in queue'[i].futures <=>
                      \/ i <= Len(queue) /\ h \in queue[i].futures
                      \/ h = j /\ i = q
  <2>1. p \in 1..Len(queue')
    BY <1>1, <1>4
  <2> QED BY <1>1, <1>4, <2>1
<1> QED BY <1>3, <1>4 DEF Enqueue

LEMMA CallerType == ASSUME TypeOK, NEW j \in Job, CallerStep(j) PROVE TypeOK'
<1>1. CASE FireAndForget(j)
  BY <1>1 DEF FireAndForget, workVars, TypeOK, Call
<1>2. CASE Submit(j)
  BY <1>2, EnqueueHolds DEF Submit, workVars, TypeOK, Call
<1>3. CASE RunWrapped(j)
  BY <1>3, EnqueueHolds DEF RunWrapped, workVars, TypeOK, Call
<1>4. CASE Retry(j)
  BY <1>4, EnqueueHolds DEF Retry, workVars, TypeOK, Call
<1>5. CASE Abandon(j)
  BY <1>5 DEF Abandon, workVars, TypeOK, Call
<1> QED BY <1>1, <1>2, <1>3, <1>4, <1>5 DEF CallerStep

\* The item the worker runs is a call, and what it shows is one.
LEMMA ShowsType ==
    ASSUME TypeOK, worker = "sending"
    PROVE  /\ current \in Item /\ current.func \in Job
           /\ Shows(current.func) => shown' \in [Key -> Job \cup {None}]
           /\ \A took \in BOOLEAN : Took(took) => shown' \in [Key -> Job \cup {None}]
<1>1. current \in Item
  BY DEF TypeOK
<1>2. current.func \in Job /\ KeyOf[current.func] \in Key
  BY <1>1, LimiterAssumption DEF Item
<1> QED BY <1>1, <1>2 DEF Shows, Took, TypeOK

LEMMA AnswerType ==
    ASSUME TypeOK, Answer, shown' \in [Key -> Job \cup {None}]
    PROVE  TypeOK'
<1>1. call' \in [Job -> Call]
  BY DEF Answer, TypeOK, Call
<1> QED BY <1>1, LimiterAssumption DEF Answer, TypeOK

LEMMA FailsType ==
    ASSUME TypeOK, NEW transient \in BOOLEAN, NEW flood \in BOOLEAN, NEW took \in BOOLEAN,
           Fails(transient, flood, took)
    PROVE  TypeOK'
<1>1. call' \in [Job -> Call]
  BY DEF Fails, TypeOK, Call
<1>2. attempt' \in [Job -> 0..MaxRetries]
  <2> DEFINE again == {j \in Pending : transient /\ Retriable(j)}
  <2>1. attempt' = [j \in Job |-> attempt[j] + (IF j \in again THEN 1 ELSE 0)]
    BY DEF Fails
  <2>2. \A j \in again : attempt[j] < MaxRetries
    BY DEF Retriable
  <2>3. attempt \in [Job -> 0..MaxRetries] /\ MaxRetries \in Nat
    BY LimiterAssumption DEF TypeOK
  <2> HIDE DEF again
  <2>4. \A j \in Job : attempt[j] + (IF j \in again THEN 1 ELSE 0) \in 0..MaxRetries
    BY <2>2, <2>3
  <2> QED BY <2>1, <2>4
<1>3. shown' \in [Key -> Job \cup {None}]
  BY ShowsType DEF Fails
<1> QED BY <1>1, <1>2, <1>3, LimiterAssumption DEF Fails, TypeOK

LEMMA WorkerType == ASSUME TypeOK, WorkerStep PROVE TypeOK'
<1>1. CASE Take
  <2>1. Head(queue) \in Item /\ Tail(queue) \in Seq(Item)
    BY <1>1 DEF Take, TypeOK
  <2>2. Head(queue) # NoItem
    BY <2>1, LimiterAssumption DEF Item, NoItem
  <2>3. worker' \in {"paused", "limited"}
    BY <1>1 DEF Take
  <2> QED BY <1>1, <2>1, <2>2, <2>3 DEF Take, TypeOK
<1>2. CASE Unpause \/ Acquire
  BY <1>2 DEF Unpause, Acquire, TypeOK
<1>3. ASSUME NEW took \in BOOLEAN, TryAgain(took) PROVE TypeOK'
  BY <1>3, ShowsType, LimiterAssumption DEF TryAgain, TypeOK
<1>4. CASE CallOnceMore
  BY <1>4, LimiterAssumption DEF CallOnceMore, TypeOK
<1>5. CASE Swallowed
  BY <1>5, AnswerType DEF Swallowed, TypeOK
<1>6. CASE Sent
  BY <1>6, ShowsType, AnswerType DEF Sent
<1> QED BY <1>1, <1>2, <1>3, <1>4, <1>5, <1>6, FailsType DEF WorkerStep

LEMMA NextType == TypeOK /\ [Next]_vars => TypeOK'
<1> SUFFICES ASSUME TypeOK, [Next]_vars PROVE TypeOK'
  OBVIOUS
<1>1. CASE Shutdown
  <2>1. shown' \in [Key -> Job \cup {None}]
    BY <1>1, ShowsType DEF Shutdown, TypeOK
  <2> QED BY <1>1, <2>1, LimiterAssumption DEF Shutdown, TypeOK
<1>2. ASSUME NEW k \in Key, Delete(k) PROVE TypeOK'
  BY <1>2 DEF Delete, TypeOK
<1>3. CASE UNCHANGED vars
  BY <1>3 DEF vars, TypeOK
<1> QED BY <1>1, <1>2, <1>3, CallerType, WorkerType DEF Next

\* Calls are in a state of their life, no call is repeated more often than allowed, and
\* the worker has an item exactly while it is busy.
THEOREM TypeCorrect == Spec => []TypeOK
  BY InitType, NextType, PTL DEF Spec

------------------------------------------------------------------------------
(* Callers.                                                                *)

LEMMA EnqueueKeepsHeld ==
    ASSUME TypeOK, HeldInv, NEW j \in Job, Enqueue(j), ~Held(j), UNCHANGED workVars,
           call' = [call EXCEPT ![j] = "waiting"]
    PROVE  HeldInv'
<1> PICK p \in 1..Len(queue') : \A i \in 1..Len(queue'), h \in Job :
        h \in queue'[i].futures <=>
            \/ i <= Len(queue) /\ h \in queue[i].futures
            \/ h = j /\ i = p
  BY EnqueueHolds
<1>1. /\ Len(queue) \in Nat /\ Len(queue') \in {Len(queue), Len(queue) + 1}
      /\ current' = current /\ worker' = worker
      /\ call'[j] = "waiting" /\ \A h \in Job \ {j} : call'[h] = call[h]
  BY EnqueueHolds DEF TypeOK, workVars
<1>2. \A h \in Job \ {j} : Held(h)' <=> Held(h)
  BY <1>1 DEF Held
<1>3. Held(j)'
  BY <1>1 DEF Held
<1>4. j \notin current.futures /\ \A i \in 1..Len(queue) : j \notin queue[i].futures
  BY DEF Held
<1>5. \A i, k \in 1..Len(queue'), h \in Job :
          h \in queue'[i].futures /\ h \in queue'[k].futures => i = k
  BY <1>1, <1>4 DEF HeldInv
<1>6. \A i \in 1..Len(queue'), h \in Job : h \in queue'[i].futures => h \notin current'.futures
  BY <1>1, <1>4 DEF HeldInv
<1>7. \A h \in Job : Held(h)' => call'[h] \in {"waiting", "abandoned"}
  BY <1>1, <1>2 DEF HeldInv
<1>8. worker' # "stopped" => \A h \in Job : call'[h] = "waiting" => Held(h)'
  BY <1>1, <1>2, <1>3 DEF HeldInv
<1> QED BY <1>5, <1>6, <1>7, <1>8 DEF HeldInv

\* A worker that is done with its item answered or failed all who wait for it.
LEMMA DoneKeepsHeld ==
    ASSUME TypeOK, HeldInv, queue' = queue, current' = NoItem,
           \A j \in Job \ Pending : call'[j] = call[j],
           worker = "stopped" => worker' = "stopped",
           worker' # "stopped" => \A j \in Pending : call'[j] # "waiting"
    PROVE  HeldInv'
<1>1. \A j \in Job : Held(j)' => Held(j) /\ j \notin Pending
  BY DEF Held, NoItem, Pending, HeldInv
<1>2. \A j \in Job : Held(j)' => call'[j] \in {"waiting", "abandoned"}
  BY <1>1 DEF HeldInv
<1>3. ASSUME worker' # "stopped", NEW j \in Job, call'[j] = "waiting" PROVE Held(j)'
  <2>1. j \notin Pending /\ call[j] = "waiting" /\ Held(j)
    BY <1>3 DEF HeldInv
  <2>2. j \notin current.futures
    BY <2>1 DEF Pending
  <2> QED BY <2>1, <2>2 DEF Held
<1>4. \A i \in 1..Len(queue'), j \in Job : j \notin current'.futures
  BY DEF NoItem
<1> QED BY <1>2, <1>3, <1>4 DEF HeldInv

LEMMA TakeKeepsHeld == ASSUME TypeOK, HeldInv, Take PROVE HeldInv'
<1>1. /\ queue \in Seq(Item) /\ queue # << >> /\ current' = queue[1] /\ current = NoItem
      /\ queue' = Tail(queue) /\ call' = call /\ worker # "stopped"
  BY DEF Take, TypeOK
<1>2. /\ Len(queue) \in Nat \ {0} /\ Len(queue') = Len(queue) - 1
      /\ \A i \in 1..Len(queue') : queue'[i] = queue[i + 1] /\ i + 1 \in 1..Len(queue)
  BY <1>1
<1>3. \A i \in 1..Len(queue) :
          i = 1 \/ (i - 1 \in 1..Len(queue') /\ queue[i] = queue'[i - 1])
  BY <1>2
<1>4. \A j \in Job : Held(j)' <=> Held(j)
  <2>1. ASSUME NEW j \in Job, Held(j) PROVE Held(j)'
    <3>1. PICK i \in 1..Len(queue) : j \in queue[i].futures
      BY <1>1, <2>1 DEF Held, NoItem
    <3> QED BY <1>1, <1>3, <3>1 DEF Held
  <2>2. ASSUME NEW j \in Job, Held(j)' PROVE Held(j)
    BY <1>1, <1>2, <2>2 DEF Held
  <2> QED BY <2>1, <2>2
<1>5. \A i, k \in 1..Len(queue'), j \in Job :
          j \in queue'[i].futures /\ j \in queue'[k].futures => i = k
  <2> SUFFICES ASSUME NEW i \in 1..Len(queue'), NEW k \in 1..Len(queue'), NEW j \in Job,
                      j \in queue'[i].futures, j \in queue'[k].futures
               PROVE  i = k
    OBVIOUS
  <2>1. i + 1 = k + 1
    BY <1>2 DEF HeldInv
  <2> QED BY <2>1
<1>6. \A i \in 1..Len(queue'), j \in Job : j \in queue'[i].futures => j \notin current'.futures
  <2> SUFFICES ASSUME NEW i \in 1..Len(queue'), NEW j \in Job,
                      j \in queue'[i].futures, j \in current'.futures
               PROVE  FALSE
    OBVIOUS
  <2>1. i + 1 = 1
    BY <1>1, <1>2 DEF HeldInv
  <2> QED BY <2>1
<1> QED BY <1>1, <1>4, <1>5, <1>6 DEF HeldInv

LEMMA NextHeld == TypeOK /\ HeldInv /\ [Next]_vars => HeldInv'
<1> SUFFICES ASSUME TypeOK, HeldInv, [Next]_vars PROVE HeldInv'
  OBVIOUS
<1>1. ASSUME NEW j \in Job, FireAndForget(j) PROVE HeldInv'
  <2>1. UNCHANGED <<queue, current, worker>> /\ call[j] = "new"
        /\ call' = [call EXCEPT ![j] = "created"]
    BY <1>1 DEF FireAndForget, MayCall, workVars
  <2> QED BY <2>1 DEF HeldInv, Held, TypeOK
<1>2. ASSUME NEW j \in Job, Submit(j) \/ RunWrapped(j) \/ Retry(j) PROVE HeldInv'
  <2>1. Enqueue(j) /\ UNCHANGED workVars /\ call' = [call EXCEPT ![j] = "waiting"]
        /\ call[j] \in {"new", "created", "retrying"}
    BY <1>2 DEF Submit, RunWrapped, Retry, MayCall, NextCreated
  <2>2. ~Held(j)
    BY <2>1 DEF HeldInv
  <2> QED BY <2>1, <2>2, EnqueueKeepsHeld
<1>3. ASSUME NEW j \in Job, Abandon(j) PROVE HeldInv'
  <2>1. UNCHANGED <<queue, current, worker>> /\ call[j] = "waiting"
        /\ call' = [call EXCEPT ![j] = "abandoned"]
    BY <1>3 DEF Abandon, workVars
  <2> QED BY <2>1 DEF HeldInv, Held, TypeOK
<1>4. ASSUME UNCHANGED <<queue, current, call>>, worker = "stopped" <=> worker' = "stopped"
      PROVE  HeldInv'
  BY <1>4 DEF HeldInv, Held
<1>5. CASE Unpause \/ Acquire \/ CallOnceMore \/ \E took \in BOOLEAN : TryAgain(took)
  BY <1>4, <1>5 DEF Unpause, Acquire, CallOnceMore, TryAgain
<1>6. CASE Sent \/ Swallowed
  <2>1. Answer /\ worker = "sending"
    BY <1>6 DEF Sent, Swallowed
  <2>2. \A j \in Job : call'[j] = IF j \in Pending THEN "answered" ELSE call[j]
    BY <2>1 DEF Answer
  <2>3. queue' = queue /\ current' = NoItem
    BY <2>1 DEF Answer
  <2>4. Pending \subseteq Job
    BY <2>1 DEF Pending, TypeOK, Item, NoItem
  <2> QED BY <2>1, <2>2, <2>3, <2>4, DoneKeepsHeld
<1>7. ASSUME NEW transient \in BOOLEAN, NEW flood \in BOOLEAN, NEW took \in BOOLEAN,
             Fails(transient, flood, took)
      PROVE  HeldInv'
  <2>1. worker = "sending" /\ queue' = queue /\ current' = NoItem
    BY <1>7 DEF Fails
  <2>2. Pending \subseteq Job
    BY <2>1 DEF Pending, TypeOK, Item, NoItem
  <2>3. \A j \in Job : IF j \in Pending THEN call'[j] \in {"retrying", "failed"}
                       ELSE call'[j] = call[j]
    BY <1>7 DEF Fails
  <2> QED BY <2>1, <2>2, <2>3, DoneKeepsHeld
<1>8. CASE Shutdown
  <2>1. queue' = queue /\ current' = NoItem /\ call' = call /\ worker' = "stopped"
    BY <1>8 DEF Shutdown
  <2> QED BY <2>1, DoneKeepsHeld
<1>9. CASE UNCHANGED vars \/ \E k \in Key : Delete(k)
  BY <1>4, <1>9 DEF vars, Delete
<1> QED BY <1>1, <1>2, <1>3, <1>5, <1>6, <1>7, <1>8, <1>9, TakeKeepsHeld
        DEF Next, CallerStep, WorkerStep

\* The place a caller is held at can be counted.
LEMMA HeldOnce == TypeOK /\ HeldInv => CallerHeldOnce
<1> SUFFICES ASSUME TypeOK, HeldInv, NEW j \in Job, call[j] = "waiting"
             PROVE  LET places == {i \in 1..Len(queue) : j \in queue[i].futures}
                        held == Cardinality(places) + (IF j \in current.futures THEN 1 ELSE 0)
                    IN  IF worker = "stopped" THEN held <= 1 ELSE held = 1
  BY DEF CallerHeldOnce
<1> DEFINE places == {i \in 1..Len(queue) : j \in queue[i].futures}
<1>1. CASE places = {}
  <2>1. Cardinality(places) = 0
    BY <1>1, FS_EmptySet
  <2>2. worker # "stopped" => j \in current.futures
    BY <1>1 DEF HeldInv, Held
  <2> QED BY <2>1, <2>2
<1>2. CASE places # {}
  <2> PICK i \in 1..Len(queue) : j \in queue[i].futures
    BY <1>2
  <2>1. places = {i}
    BY DEF HeldInv
  <2>2. Cardinality(places) = 1
    BY <2>1, FS_Singleton
  <2>3. j \notin current.futures
    BY DEF HeldInv
  <2> QED BY <2>2, <2>3
<1> QED BY <1>1, <1>2

\* A caller that waits is held by one item of the queue or by the worker, and by one
\* alone, whatever is compacted, retried, abandoned or shut down
\* (_enqueue_internal_multi, _worker).
THEOREM CallersAreHeld == Spec => []CallerHeldOnce
<1>1. Init => HeldInv
  BY DEF Init, HeldInv, Held, NoItem
<1> QED BY <1>1, TypeCorrect, NextHeld, HeldOnce, PTL DEF Spec

------------------------------------------------------------------------------
(* What the chat shows.                                                    *)

\* A step of a caller or the worker that issues no call and creates no task keeps order.
LEMMA OrderKept ==
    ASSUME OrderInv, issued \in Seq(Job), issued' = issued,
           \A j \in Job : /\ call'[j] = "new" <=> call[j] = "new"
                          /\ call'[j] = "created" <=> call[j] = "created"
                          /\ call[j] = "answered" => call'[j] = "answered"
                          /\ call'[j] = "retrying" => attempt'[j] > 0
    PROVE  OrderInv'
<1>1. Len(issued) \in Nat /\ \A a \in 1..Len(issued) : issued[a] \in Job
  OBVIOUS
<1>2. \A a \in Awaited, h \in Job :
          h # a /\ KeyOf[h] = KeyOf[a] /\ call'[a] # "answered" => call'[h] = "new"
  BY LimiterAssumption DEF OrderInv
<1> QED BY <1>1, <1>2 DEF OrderInv

\* A new call goes to the end of those made.
LEMMA OrderIssued ==
    ASSUME TypeOK, OrderInv, NEW j \in Job, MayCall(j), issued' = Append(issued, j),
           call' = [call EXCEPT ![j] = IF j \in Awaited THEN "waiting" ELSE "created"],
           attempt' = attempt
    PROVE  /\ OrderInv'
           /\ j \in Awaited => \A h \in Job \ {j} : KeyOf[h] = KeyOf[j] => call[h] = "new"
<1> DEFINE n == Len(issued) + 1
<1>1. /\ issued \in Seq(Job) /\ Len(issued) \in Nat /\ Len(issued') = n /\ issued'[n] = j
      /\ \A a \in 1..Len(issued) : issued'[a] = issued[a] /\ issued[a] \in Job
      /\ \A a \in 1..n : a = n \/ a \in 1..Len(issued)
      /\ \A a \in 1..Len(issued) : a \in 1..n /\ a < n
      /\ n \in 1..n
  BY DEF TypeOK
<1>2. /\ call[j] = "new" /\ call'[j] # "new" /\ call'[j] # "retrying"
      /\ call'[j] = "created" \/ j \in Awaited
      /\ \A h \in Job \ {j} : call'[h] = call[h]
  BY DEF TypeOK, MayCall
<1>3. \A a \in 1..Len(issued) : issued[a] # j
  BY <1>2 DEF OrderInv
<1>4. j \in Awaited => \A h \in Job \ {j} : KeyOf[h] = KeyOf[j] => call[h] = "new"
  BY <1>2, LimiterAssumption DEF OrderInv
<1> HIDE DEF n
<1>5. \A a, b \in 1..n : issued'[a] = issued'[b] => a = b
  BY <1>1, <1>3 DEF OrderInv
<1>6. \A h \in Job : call'[h] # "new" => \E a \in 1..n : issued'[a] = h
  BY <1>1, <1>2 DEF OrderInv
<1>7. \A a \in 1..n : call'[issued'[a]] # "new"
  BY <1>1, <1>2, <1>3 DEF OrderInv
<1>8. \A a \in Awaited, h \in Job :
          h # a /\ KeyOf[h] = KeyOf[a] /\ call'[a] # "answered" => call'[h] = "new"
  <2> SUFFICES ASSUME NEW a \in Awaited, NEW h \in Job, h # a, KeyOf[h] = KeyOf[a],
                      call'[a] # "answered"
               PROVE  call'[h] = "new"
    OBVIOUS
  <2>1. CASE h = j
    BY <2>1, <1>2, LimiterAssumption DEF MayCall
  <2>2. CASE a = j
    BY <2>2, <1>2, <1>4
  <2>3. CASE h # j /\ a # j
    BY <2>3, <1>2, LimiterAssumption DEF OrderInv
  <2> QED BY <2>1, <2>2, <2>3
<1>9. \A a, b \in 1..n :
          a < b /\ KeyOf[issued'[a]] = KeyOf[issued'[b]] => issued'[b] \notin Awaited
  <2> SUFFICES ASSUME NEW a \in 1..n, NEW b \in 1..n, a < b,
                      KeyOf[issued'[a]] = KeyOf[issued'[b]]
               PROVE  issued'[b] \notin Awaited
    OBVIOUS
  <2>1. a \in 1..Len(issued)
    BY <1>1
  <2>2. CASE b = n
    <3>1. issued[a] \in Job \ {j} /\ KeyOf[issued[a]] = KeyOf[j] /\ call[issued[a]] # "new"
      BY <2>1, <2>2, <1>1, <1>3 DEF OrderInv
    <3> QED BY <3>1, <2>2, <1>1, <1>4
  <2>3. CASE b \in 1..Len(issued)
    BY <2>1, <2>3, <1>1 DEF OrderInv
  <2> QED BY <2>2, <2>3, <1>1
<1>10. \A a, b \in 1..n :
          a < b /\ call'[issued'[a]] = "created" =>
              call'[issued'[b]] = "created" \/ issued'[b] \in Awaited
  <2> SUFFICES ASSUME NEW a \in 1..n, NEW b \in 1..n, a < b, call'[issued'[a]] = "created"
               PROVE  call'[issued'[b]] = "created" \/ issued'[b] \in Awaited
    OBVIOUS
  <2>1. a \in 1..Len(issued)
    BY <1>1
  <2>2. CASE b = n
    BY <2>2, <1>1, <1>2
  <2>3. CASE b \in 1..Len(issued)
    BY <2>1, <2>3, <1>1, <1>2, <1>3 DEF OrderInv
  <2> QED BY <2>2, <2>3, <1>1
<1>11. \A h \in Job : call'[h] = "retrying" => attempt'[h] > 0
  BY <1>2 DEF OrderInv
<1> QED BY <1>1, <1>4, <1>5, <1>6, <1>7, <1>8, <1>9, <1>10, <1>11 DEF OrderInv

\* A task that begins was created before all that are still created.
LEMMA OrderBegun ==
    ASSUME TypeOK, OrderInv, NEW j \in Job, NextCreated(j), issued' = issued,
           call' = [call EXCEPT ![j] = "waiting"], attempt' = attempt
    PROVE  OrderInv'
<1>1. issued \in Seq(Job) /\ Len(issued) \in Nat /\ \A a \in 1..Len(issued) : issued[a] \in Job
  BY DEF TypeOK
<1>2. /\ call[j] = "created" /\ call'[j] = "waiting"
      /\ \A h \in Job \ {j} : call'[h] = call[h]
  BY DEF TypeOK, NextCreated
<1> PICK i \in 1..Len(issued) :
        issued[i] = j /\ \A h \in 1..i - 1 : call[issued[h]] # "created"
  BY DEF NextCreated
<1>3. \A a, b \in 1..Len(issued) :
          a < b /\ call'[issued[a]] = "created" =>
              call'[issued[b]] = "created" \/ issued[b] \in Awaited
  <2> SUFFICES ASSUME NEW a \in 1..Len(issued), NEW b \in 1..Len(issued), a < b,
                      call'[issued[a]] = "created"
               PROVE  call'[issued[b]] = "created" \/ issued[b] \in Awaited
    OBVIOUS
  <2>1. issued[a] # j /\ call[issued[a]] = "created"
    BY <1>1, <1>2
  <2>2. issued[b] # j
    <3> SUFFICES ASSUME issued[b] = j PROVE FALSE
      OBVIOUS
    <3>1. b = i
      BY DEF OrderInv
    <3>2. a \in 1..i - 1
      BY <3>1
    <3> QED BY <2>1, <3>2
  <2> QED BY <2>1, <2>2, <1>1, <1>2 DEF OrderInv
<1>4. \A a \in Awaited, h \in Job :
          h # a /\ KeyOf[h] = KeyOf[a] /\ call'[a] # "answered" => call'[h] = "new"
  <2> SUFFICES ASSUME NEW a \in Awaited, NEW h \in Job, h # a, KeyOf[h] = KeyOf[a],
                      call'[a] # "answered"
               PROVE  call'[h] = "new"
    OBVIOUS
  <2>1. call[a] # "answered"
    BY <1>2, LimiterAssumption
  <2>2. call[h] = "new"
    BY <2>1, LimiterAssumption DEF OrderInv
  <2> QED BY <2>2, <1>2
<1> QED BY <1>1, <1>2, <1>3, <1>4 DEF OrderInv

LEMMA NextOrder == TypeOK /\ OrderInv /\ [Next]_vars => OrderInv'
<1> SUFFICES ASSUME TypeOK, OrderInv, [Next]_vars PROVE OrderInv'
  OBVIOUS
<1>0. issued \in Seq(Job)
  BY DEF TypeOK
<1>1. ASSUME NEW j \in Job, FireAndForget(j) \/ Submit(j) PROVE OrderInv'
  <2>1. /\ MayCall(j) /\ issued' = Append(issued, j) /\ attempt' = attempt
        /\ call' = [call EXCEPT ![j] = IF j \in Awaited THEN "waiting" ELSE "created"]
    BY <1>1 DEF FireAndForget, Submit
  <2> QED BY <2>1, OrderIssued
<1>2. ASSUME NEW j \in Job, RunWrapped(j) PROVE OrderInv'
  BY <1>2, OrderBegun DEF RunWrapped
<1>3. ASSUME NEW j \in Job, Retry(j) \/ Abandon(j) PROVE OrderInv'
  <2>1. issued' = issued /\ \A h \in Job :
           /\ call'[h] = "new" <=> call[h] = "new"
           /\ call'[h] = "created" <=> call[h] = "created"
           /\ call[h] = "answered" => call'[h] = "answered"
           /\ call'[h] = "retrying" => attempt'[h] > 0
    BY <1>3 DEF Retry, Abandon, TypeOK, OrderInv
  <2> QED BY <2>1, <1>0, OrderKept
<1>4. ASSUME UNCHANGED <<issued, call, attempt>> PROVE OrderInv'
  BY <1>0, <1>4, OrderKept DEF OrderInv
<1>5. CASE Sent \/ Swallowed
  <2>1. issued' = issued /\ attempt' = attempt
        /\ \A h \in Job : call'[h] = IF h \in Pending THEN "answered" ELSE call[h]
    BY <1>5 DEF Sent, Swallowed, Answer
  <2>2. \A h \in Pending : call[h] = "waiting"
    BY DEF Pending
  <2>3. \A h \in Job :
           /\ call'[h] = "new" <=> call[h] = "new"
           /\ call'[h] = "created" <=> call[h] = "created"
           /\ call[h] = "answered" => call'[h] = "answered"
           /\ call'[h] = "retrying" => attempt'[h] > 0
    BY <2>1, <2>2 DEF OrderInv
  <2> QED BY <2>1, <2>3, <1>0, OrderKept
<1>6. ASSUME NEW transient \in BOOLEAN, NEW flood \in BOOLEAN, NEW took \in BOOLEAN,
             Fails(transient, flood, took)
      PROVE  OrderInv'
  <2> DEFINE again == {j \in Pending : transient /\ Retriable(j)}
  <2>1. /\ issued' = issued
        /\ \A h \in Job : call'[h] = IF h \in again THEN "retrying"
                                     ELSE IF h \in Pending THEN "failed" ELSE call[h]
        /\ \A h \in Job : attempt'[h] = attempt[h] + (IF h \in again THEN 1 ELSE 0)
    BY <1>6 DEF Fails
  <2>2. again \subseteq Pending /\ \A h \in Pending : call[h] = "waiting"
    BY DEF Pending
  <2>3. \A h \in Job : attempt[h] \in Nat
    BY LimiterAssumption DEF TypeOK
  <2> HIDE DEF again
  <2>4. \A h \in Job :
           /\ call'[h] = "new" <=> call[h] = "new"
           /\ call'[h] = "created" <=> call[h] = "created"
           /\ call[h] = "answered" => call'[h] = "answered"
           /\ call'[h] = "retrying" => attempt'[h] > 0
    BY <2>1, <2>2, <2>3 DEF OrderInv
  <2> QED BY <2>1, <2>4, <1>0, OrderKept
<1>7. CASE \/ Take \/ Unpause \/ Acquire \/ CallOnceMore \/ Shutdown
           \/ (\E took \in BOOLEAN : TryAgain(took)) \/ (\E k \in Key : Delete(k))
           \/ UNCHANGED vars
  BY <1>4, <1>7 DEF Take, Unpause, Acquire, CallOnceMore, Shutdown, TryAgain, Delete, vars
<1> QED BY <1>1, <1>2, <1>3, <1>5, <1>6, <1>7 DEF Next, CallerStep, WorkerStep

\* The item Enqueue makes or remakes is the only one of the call's key, and the others
\* stay in their places.
LEMMA EnqueueReplaces ==
    ASSUME TypeOK, ItemInv, NEW j \in Job, Enqueue(j)
    PROVE  /\ Len(queue') \in Nat /\ Len(queue) \in Nat
           /\ \E p \in 1..Len(queue') :
                 /\ queue'[p].func = j /\ j \in queue'[p].futures
                 /\ \A i \in 1..Len(queue') \ {p} :
                       /\ i \in 1..Len(queue) /\ queue'[i] = queue[i]
                       /\ KeyOf[queue[i].func] # KeyOf[j]
           /\ \A i \in 1..Len(queue) :
                 i \in 1..Len(queue') /\ (KeyOf[queue[i].func] # KeyOf[j] => queue'[i] = queue[i])
<1>0. queue \in Seq(Item) /\ Len(queue) \in Nat
  BY DEF TypeOK
<1>1. ASSUME NEW p \in 1..Len(queue), KeyOf[queue[p].func] = KeyOf[j],
             queue' = [queue EXCEPT ![p] = [func |-> j, futures |-> @.futures \cup {j}]]
      PROVE  /\ Len(queue') = Len(queue)
             /\ queue'[p].func = j /\ j \in queue'[p].futures
             /\ \A i \in 1..Len(queue) \ {p} :
                   queue'[i] = queue[i] /\ KeyOf[queue[i].func] # KeyOf[j]
  <2> DEFINE new == [func |-> j, futures |-> queue[p].futures \cup {j}]
  <2>1. queue' = [queue EXCEPT ![p] = new] /\ new.func = j /\ j \in new.futures
    BY <1>1
  <2> HIDE DEF new
  <2>2. Len(queue') = Len(queue)
        /\ \A i \in 1..Len(queue) : queue'[i] = IF i = p THEN new ELSE queue[i]
    BY <1>0, <2>1
  <2>3. \A i \in 1..Len(queue) \ {p} : KeyOf[queue[i].func] # KeyOf[j]
    BY <1>1 DEF ItemInv
  <2> QED BY <2>1, <2>2, <2>3
<1>2. ASSUME queue' = Append(queue, [func |-> j, futures |-> {j}]),
             \A i \in 1..Len(queue) : KeyOf[queue[i].func] # KeyOf[j]
      PROVE  /\ Len(queue') = Len(queue) + 1
             /\ queue'[Len(queue) + 1].func = j /\ j \in queue'[Len(queue) + 1].futures
             /\ \A i \in 1..Len(queue) :
                   queue'[i] = queue[i] /\ KeyOf[queue[i].func] # KeyOf[j]
  <2> DEFINE new == [func |-> j, futures |-> {j}]
  <2>1. queue' = Append(queue, new) /\ new.func = j /\ j \in new.futures
    BY <1>2
  <2> HIDE DEF new
  <2>2. Len(queue') = Len(queue) + 1 /\ queue'[Len(queue) + 1] = new
        /\ \A i \in 1..Len(queue) : queue'[i] = queue[i]
    BY <1>0, <2>1
  <2> QED BY <1>2, <2>1, <2>2
<1>3. CASE \E p \in 1..Len(queue) :
              /\ KeyOf[queue[p].func] = KeyOf[j]
              /\ queue' = [queue EXCEPT ![p] = [func |-> j, futures |-> @.futures \cup {j}]]
  <2> PICK p \in 1..Len(queue) :
              /\ KeyOf[queue[p].func] = KeyOf[j]
              /\ queue' = [queue EXCEPT ![p] = [func |-> j, futures |-> @.futures \cup {j}]]
    BY <1>3
  <2>1. /\ Len(queue') = Len(queue) /\ queue'[p].func = j /\ j \in queue'[p].futures
        /\ \A i \in 1..Len(queue) \ {p} :
              queue'[i] = queue[i] /\ KeyOf[queue[i].func] # KeyOf[j]
    BY <1>1
  <2>2. p \in 1..Len(queue') /\ \A i \in 1..Len(queue') \ {p} : i \in 1..Len(queue) \ {p}
    BY <2>1
  <2>3. \A i \in 1..Len(queue) :
           i \in 1..Len(queue') /\ (KeyOf[queue[i].func] # KeyOf[j] => queue'[i] = queue[i])
    BY <2>1
  <2> QED BY <1>0, <2>1, <2>2, <2>3
<1>4. CASE /\ queue' = Append(queue, [func |-> j, futures |-> {j}])
           /\ \A i \in 1..Len(queue) : KeyOf[queue[i].func] # KeyOf[j]
  <2>1. /\ Len(queue) + 1 \in 1..Len(queue')
        /\ \A i \in 1..Len(queue) : i \in 1..Len(queue')
        /\ \A i \in 1..Len(queue') \ {Len(queue) + 1} : i \in 1..Len(queue)
    BY <1>0, <1>2, <1>4
  <2>2. Len(queue') \in Nat
    BY <1>0, <1>2, <1>4
  <2> QED BY <1>0, <1>2, <1>4, <2>1, <2>2
<1> QED BY <1>3, <1>4 DEF Enqueue

LEMMA EnqueueKeepsItems ==
    ASSUME TypeOK, ItemInv, NEW j \in Job, Enqueue(j), current' = current
    PROVE  ItemInv'
<1> PICK p \in 1..Len(queue') :
        /\ queue'[p].func = j /\ j \in queue'[p].futures
        /\ \A i \in 1..Len(queue') \ {p} :
              /\ i \in 1..Len(queue) /\ queue'[i] = queue[i]
              /\ KeyOf[queue[i].func] # KeyOf[j]
  BY EnqueueReplaces
<1>1. \A i, k \in 1..Len(queue') :
          KeyOf[queue'[i].func] = KeyOf[queue'[k].func] => i = k
  BY DEF ItemInv
<1>2. \A i \in 1..Len(queue') : queue'[i].func \in queue'[i].futures
  BY DEF ItemInv
<1> QED BY <1>1, <1>2 DEF ItemInv

LEMMA TakeShifts ==
    ASSUME TypeOK, Take
    PROVE  /\ current' = queue[1] /\ current = NoItem /\ 1 \in 1..Len(queue)
           /\ \A i \in 1..Len(queue') : queue'[i] = queue[i + 1] /\ i + 1 \in 1..Len(queue)
           /\ \A i \in 1..Len(queue) :
                 i = 1 \/ (i - 1 \in 1..Len(queue') /\ queue[i] = queue'[i - 1])
<1>1. /\ queue \in Seq(Item) /\ queue # << >> /\ current' = queue[1] /\ current = NoItem
      /\ queue' = Tail(queue)
  BY DEF Take, TypeOK
<1>2. /\ Len(queue) \in Nat \ {0} /\ Len(queue') = Len(queue) - 1
      /\ \A i \in 1..Len(queue') : queue'[i] = queue[i + 1] /\ i + 1 \in 1..Len(queue)
  BY <1>1
<1> QED BY <1>1, <1>2

LEMMA NextItems == TypeOK /\ ItemInv /\ [Next]_vars => ItemInv'
<1> SUFFICES ASSUME TypeOK, ItemInv, [Next]_vars PROVE ItemInv'
  OBVIOUS
<1>1. ASSUME NEW j \in Job, Submit(j) \/ RunWrapped(j) \/ Retry(j) PROVE ItemInv'
  BY <1>1, EnqueueKeepsItems DEF Submit, RunWrapped, Retry, workVars
<1>2. ASSUME queue' = queue, current' \in {current, NoItem} PROVE ItemInv'
  BY <1>2 DEF ItemInv
<1>3. CASE Take
  <2>1. /\ current' = queue[1] /\ 1 \in 1..Len(queue)
        /\ \A i \in 1..Len(queue') : queue'[i] = queue[i + 1] /\ i + 1 \in 1..Len(queue)
    BY <1>3, TakeShifts
  <2>2. \A i, k \in 1..Len(queue') :
            KeyOf[queue'[i].func] = KeyOf[queue'[k].func] => i = k
    <3> SUFFICES ASSUME NEW i \in 1..Len(queue'), NEW k \in 1..Len(queue'),
                        KeyOf[queue'[i].func] = KeyOf[queue'[k].func]
                 PROVE  i = k
      OBVIOUS
    <3>1. i + 1 = k + 1
      BY <2>1 DEF ItemInv
    <3> QED BY <3>1
  <2> QED BY <2>1, <2>2 DEF ItemInv
<1>4. ASSUME NEW j \in Job, FireAndForget(j) \/ Abandon(j) PROVE ItemInv'
  BY <1>2, <1>4 DEF FireAndForget, Abandon, workVars
<1>5. CASE \/ Unpause \/ Acquire \/ CallOnceMore \/ Shutdown \/ Sent \/ Swallowed
           \/ \E took \in BOOLEAN : TryAgain(took)
           \/ \E transient, flood, took \in BOOLEAN : Fails(transient, flood, took)
           \/ \E k \in Key : Delete(k)
           \/ UNCHANGED vars
  BY <1>2, <1>5 DEF Unpause, Acquire, CallOnceMore, Shutdown, Sent, Swallowed, Answer,
                    TryAgain, Fails, Delete, vars
<1> QED BY <1>1, <1>3, <1>4, <1>5 DEF Next, CallerStep, WorkerStep

\* Where something went wrong with a key it stays wrong.
LEMMA CalmBack ==
    ASSUME NEW k \in Key, gone \subseteq gone', Calm(k)',
           \A h \in Job : /\ call[h] # "new" => call'[h] # "new"
                          /\ call[h] # "new" /\ attempt'[h] = 0 => attempt[h] = 0
                          /\ call[h] \in {"failed", "abandoned"} => call'[h] = call[h]
    PROVE  Calm(k)
  BY DEF Calm

\* A step that enters no call keeps what is latest.
LEMMA LatestStays ==
    ASSUME NEW k \in Key, issued \in Seq(Job), Entered(k)' = Entered(k),
           issued' = issued \/ \E j \in Job : issued' = Append(issued, j)
    PROVE  Latest(k) \subseteq Latest(k)'
<1>1. \A a \in 1..Len(issued) : a \in 1..Len(issued') /\ issued'[a] = issued[a]
  OBVIOUS
<1>2. \A h, j \in Job : Precedes(h, j) => Precedes(h, j)'
  BY <1>1 DEF Precedes
<1>3. Entered(k) \subseteq Job
  BY DEF Entered
<1> QED BY <1>2, <1>3 DEF Latest

\* A step that leaves the queue, and takes nothing of the key from the worker.
LEMMA QueueStays ==
    ASSUME TypeOK, NEW k \in Key, OnItsWay(k), queue' = queue,
           issued' = issued \/ \E j \in Job : issued' = Append(issued, j),
           Entered(k)' = Entered(k),
           Running(k)' <=> Running(k), Running(k) => current' = current,
           ~Running(k) => shown'[k] = shown[k],
           worker = "stopped" => worker' = "stopped",
           worker = "stopped" => \A h \in Entered(k) : call[h] = "waiting" => call'[h] = "waiting"
    PROVE  OnItsWay(k)'
<1>1. Latest(k) \subseteq Latest(k)'
  BY LatestStays DEF TypeOK
<1>2. Queued(k)' <=> Queued(k)
  BY DEF Queued
<1>3. \A i \in 1..Len(queue') : KeyOf[queue'[i].func] = k => queue'[i].func \in Latest(k)'
  BY <1>1 DEF OnItsWay
<1>4. Running(k)' /\ ~Queued(k)' => current'.func \in Latest(k)'
  BY <1>1, <1>2 DEF OnItsWay
<1>5. ~Running(k)' /\ ~Queued(k)' /\ Entered(k)' # {} =>
          \/ shown'[k] \in Latest(k)'
          \/ worker' = "stopped" /\ \E h \in Entered(k)' : call'[h] = "waiting"
  BY <1>1, <1>2 DEF OnItsWay
<1> QED BY <1>3, <1>4, <1>5 DEF OnItsWay

LEMMA EnqueueKeepsLatest ==
    ASSUME TypeOK, ItemInv, LatestInv, NEW j \in Job, Enqueue(j),
           UNCHANGED workVars, attempt' = attempt,
           call[j] \in {"new", "created", "retrying"},
           call' = [call EXCEPT ![j] = "waiting"],
           issued' = issued \/ issued' = Append(issued, j),
           Calm(KeyOf[j])' => j \in Latest(KeyOf[j])'
    PROVE  LatestInv'
<1> SUFFICES ASSUME NEW k \in Key, Calm(k)' PROVE OnItsWay(k)'
  BY DEF LatestInv
<1> PICK p \in 1..Len(queue') :
        /\ queue'[p].func = j
        /\ \A i \in 1..Len(queue') \ {p} :
              /\ i \in 1..Len(queue) /\ queue'[i] = queue[i]
              /\ KeyOf[queue[i].func] # KeyOf[j]
  BY EnqueueReplaces
<1>1. CASE k = KeyOf[j]
  <2>1. Queued(k)'
    BY <1>1 DEF Queued
  <2>2. \A i \in 1..Len(queue') : KeyOf[queue'[i].func] = k => queue'[i].func = j
    BY <1>1
  <2> QED BY <1>1, <2>1, <2>2 DEF OnItsWay
<1>2. CASE k # KeyOf[j]
  <2>1. /\ call'[j] = "waiting" /\ \A h \in Job \ {j} : call'[h] = call[h]
        /\ worker' = worker /\ current' = current /\ shown' = shown /\ gone' = gone
    BY DEF TypeOK, workVars
  <2>2. Calm(k)
    BY <2>1, CalmBack
  <2>3. Entered(k)' = Entered(k)
    BY <1>2, <2>1 DEF Entered
  <2>4. Latest(k) \subseteq Latest(k)'
    BY <2>3, LatestStays DEF TypeOK
  <2>5. OnItsWay(k)
    BY <2>2 DEF LatestInv
  <2>6. Queued(k)' <=> Queued(k)
    <3>1. ASSUME NEW i \in 1..Len(queue), KeyOf[queue[i].func] = k PROVE Queued(k)'
      BY <1>2, <3>1, EnqueueReplaces DEF Queued
    <3>2. ASSUME NEW i \in 1..Len(queue'), KeyOf[queue'[i].func] = k PROVE Queued(k)
      BY <1>2, <3>2 DEF Queued
    <3> QED BY <3>1, <3>2 DEF Queued
  <2>7. Running(k)' <=> Running(k)
    BY <2>1 DEF Running
  <2>8. \A i \in 1..Len(queue') : KeyOf[queue'[i].func] = k => queue'[i].func \in Latest(k)'
    BY <1>2, <2>4, <2>5 DEF OnItsWay
  <2>9. Running(k)' /\ ~Queued(k)' => current'.func \in Latest(k)'
    BY <2>1, <2>4, <2>5, <2>6, <2>7 DEF OnItsWay
  <2>10. ~Running(k)' /\ ~Queued(k)' /\ Entered(k)' # {} =>
            \/ shown'[k] \in Latest(k)'
            \/ worker' = "stopped" /\ \E h \in Entered(k)' : call'[h] = "waiting"
    <3>1. \A h \in Entered(k) : call'[h] = call[h]
      BY <1>2, <2>1 DEF Entered
    <3> QED BY <3>1, <2>1, <2>3, <2>4, <2>5, <2>6, <2>7 DEF OnItsWay
  <2> QED BY <2>8, <2>9, <2>10 DEF OnItsWay
<1> QED BY <1>1, <1>2

\* An awaited call is the first of its key to be queued.
LEMMA SubmitIsLatest ==
    ASSUME TypeOK, OrderInv, OrderInv', NEW j \in Job, Submit(j)
    PROVE  j \in Latest(KeyOf[j])'
<1>1. /\ MayCall(j) /\ issued' = Append(issued, j) /\ attempt' = attempt
      /\ call' = [call EXCEPT ![j] = IF j \in Awaited THEN "waiting" ELSE "created"]
      /\ j \in Awaited
  BY DEF Submit
<1>2. \A h \in Job \ {j} : KeyOf[h] = KeyOf[j] => call[h] = "new"
  BY <1>1, OrderIssued
<1>3. call'[j] = "waiting" /\ \A h \in Job \ {j} : call'[h] = call[h]
  BY <1>1 DEF TypeOK
<1>4. Entered(KeyOf[j])' = {j}
  BY <1>2, <1>3 DEF Entered
<1>5. Precedes(j, j)'
  <2>1. PICK a \in 1..Len(issued') : issued'[a] = j
    BY <1>3 DEF OrderInv
  <2>2. a <= a
    OBVIOUS
  <2> QED BY <2>1, <2>2 DEF Precedes
<1> QED BY <1>4, <1>5 DEF Latest

\* The tasks of a key begin in the order in which its calls were made.
LEMMA BegunIsLatest ==
    ASSUME TypeOK, OrderInv, NEW j \in Job, RunWrapped(j)
    PROVE  j \in Latest(KeyOf[j])'
<1>1. /\ call[j] = "created" /\ call'[j] = "waiting" /\ issued' = issued
      /\ \A h \in Job \ {j} : call'[h] = call[h]
      /\ issued \in Seq(Job) /\ Len(issued) \in Nat
  BY DEF RunWrapped, NextCreated, TypeOK
<1>2. j \in Entered(KeyOf[j])'
  BY <1>1 DEF Entered
<1>3. ASSUME NEW h \in Entered(KeyOf[j])' PROVE Precedes(h, j)'
  <2>1. h \in Job /\ KeyOf[h] = KeyOf[j] /\ call'[h] \notin {"new", "created"}
    BY <1>3 DEF Entered
  <2>2. call[h] # "new"
    BY <2>1, <1>1
  <2>3. PICK a \in 1..Len(issued) : issued[a] = h
    BY <2>1, <2>2 DEF OrderInv
  <2>4. PICK b \in 1..Len(issued) : issued[b] = j
    BY <1>1 DEF OrderInv
  <2>5. ~(b < a)
    <3> SUFFICES ASSUME b < a PROVE FALSE
      OBVIOUS
    <3>1. issued[a] \notin Awaited
      BY <2>1, <2>3, <2>4 DEF OrderInv
    <3>2. call[h] = "created"
      BY <1>1, <2>3, <2>4, <3>1 DEF OrderInv
    <3>3. h = j
      BY <1>1, <2>1, <3>2
    <3>4. a = b
      BY <2>3, <2>4, <3>3 DEF OrderInv
    <3> QED BY <3>4
  <2>6. a <= b
    BY <1>1, <2>5
  <2> QED BY <1>1, <2>3, <2>4, <2>6 DEF Precedes
<1> QED BY <1>2, <1>3 DEF Latest

\* The task the worker runs waits for its result, unless its caller gave up.
LEMMA RunningWaits ==
    ASSUME TypeOK, HeldInv, ItemInv, NEW k \in Key, Running(k)
    PROVE  /\ current.func \in Job /\ KeyOf[current.func] = k
           /\ current.func \in current.futures
           /\ call[current.func] \in {"waiting", "abandoned"}
           /\ Calm(k) => current.func \in Pending /\ current.func \in Entered(k)
<1>1. current \in Item /\ KeyOf[current.func] = k /\ current.func \in current.futures
  BY DEF TypeOK, Running, ItemInv
<1>2. current.func \in Job
  BY <1>1 DEF Item
<1>3. call[current.func] \in {"waiting", "abandoned"}
  BY <1>1, <1>2 DEF HeldInv, Held
<1>4. Calm(k) => call[current.func] = "waiting"
  BY <1>1, <1>2, <1>3 DEF Calm
<1> QED BY <1>1, <1>2, <1>3, <1>4 DEF Pending, Entered

LEMMA TakeKeepsLatest ==
    ASSUME TypeOK, LatestInv, Take PROVE LatestInv'
<1> SUFFICES ASSUME NEW k \in Key, Calm(k)' PROVE OnItsWay(k)'
  BY DEF LatestInv
<1>1. call' = call /\ attempt' = attempt /\ gone' = gone /\ issued' = issued
      /\ shown' = shown /\ worker # "stopped"
  BY DEF Take
<1>2. OnItsWay(k)
  BY <1>1 DEF LatestInv, Calm
<1>3. Latest(k)' = Latest(k) /\ Entered(k)' = Entered(k)
  BY <1>1 DEF Latest, Entered, Precedes
<1>4. /\ current' = queue[1] /\ current = NoItem /\ 1 \in 1..Len(queue)
      /\ \A i \in 1..Len(queue') : queue'[i] = queue[i + 1] /\ i + 1 \in 1..Len(queue)
      /\ \A i \in 1..Len(queue) :
            i = 1 \/ (i - 1 \in 1..Len(queue') /\ queue[i] = queue'[i - 1])
  BY TakeShifts
<1>5. \A i \in 1..Len(queue') : KeyOf[queue'[i].func] = k => queue'[i].func \in Latest(k)'
  BY <1>2, <1>3, <1>4 DEF OnItsWay
<1>6. Running(k)' => current'.func \in Latest(k)'
  BY <1>2, <1>3, <1>4 DEF OnItsWay, Running
<1>7. ~Running(k)' /\ ~Queued(k)' => ~Running(k) /\ ~Queued(k)
  <2>1. ~Running(k)
    BY <1>4 DEF Running
  <2>2. ASSUME ~Running(k)', NEW i \in 1..Len(queue), KeyOf[queue[i].func] = k PROVE Queued(k)'
    <3>1. current' # NoItem
      <4>1. TypeOK'
        BY WorkerType DEF WorkerStep
      <4>2. worker' \in {"paused", "limited"}
        BY DEF Take
      <4> QED BY <4>1, <4>2 DEF TypeOK
    <3>2. i # 1
      BY <2>2, <3>1, <1>4 DEF Running
    <3> QED BY <2>2, <3>2, <1>4 DEF Queued
  <2> QED BY <2>1, <2>2 DEF Queued
<1>8. ~Running(k)' /\ ~Queued(k)' /\ Entered(k)' # {} => shown'[k] \in Latest(k)'
  BY <1>1, <1>2, <1>3, <1>7 DEF OnItsWay
<1> QED BY <1>5, <1>6, <1>8 DEF OnItsWay

\* The worker is done with its item: what was latest is shown, or the key is not calm.
LEMMA DoneKeepsLatest ==
    ASSUME TypeOK, NEW k \in Key, OnItsWay(k), worker # "stopped",
           queue' = queue, current' = NoItem, issued' = issued, Entered(k)' = Entered(k),
           ~Running(k) => shown'[k] = shown[k],
           Running(k) =>
              \/ shown'[k] = current.func
              \/ worker' = "stopped" /\ \E h \in Entered(k) : call'[h] = "waiting"
    PROVE  OnItsWay(k)'
<1>1. Latest(k)' = Latest(k)
  BY DEF Latest, Precedes
<1>2. Queued(k)' <=> Queued(k)
  BY DEF Queued
<1>3. ~Running(k)'
  BY DEF Running
<1>4. \A i \in 1..Len(queue') : KeyOf[queue'[i].func] = k => queue'[i].func \in Latest(k)'
  BY <1>1 DEF OnItsWay
<1>5. ~Queued(k)' /\ Entered(k)' # {} =>
          \/ shown'[k] \in Latest(k)'
          \/ worker' = "stopped" /\ \E h \in Entered(k)' : call'[h] = "waiting"
  BY <1>1, <1>2 DEF OnItsWay
<1> QED BY <1>3, <1>4, <1>5 DEF OnItsWay

LEMMA AnswerKeepsLatest ==
    ASSUME TypeOK, HeldInv, ItemInv, LatestInv, Sent \/ Swallowed
    PROVE  LatestInv'
<1> SUFFICES ASSUME NEW k \in Key, Calm(k)' PROVE OnItsWay(k)'
  BY DEF LatestInv
<1>1. /\ worker = "sending" /\ queue' = queue /\ current' = NoItem /\ issued' = issued
      /\ attempt' = attempt /\ gone' = gone
      /\ \A h \in Job : call'[h] = IF h \in Pending THEN "answered" ELSE call[h]
  BY DEF Sent, Swallowed, Answer
<1>2. \A h \in Pending : call[h] = "waiting"
  BY DEF Pending
<1>3. Calm(k)
  BY <1>1, <1>2, CalmBack
<1>4. Entered(k)' = Entered(k)
  BY <1>1, <1>2 DEF Entered
<1>5. current.func \in Job /\ KeyOf[current.func] \in Key
  BY <1>1, ShowsType, LimiterAssumption
<1>6. ~Running(k) => shown'[k] = shown[k]
  <2>1. current # NoItem
    BY <1>1 DEF TypeOK
  <2> QED BY <1>5, <2>1 DEF Running, Sent, Swallowed, Shows, TypeOK
<1>7. Running(k) => shown'[k] = current.func
  <2> SUFFICES ASSUME Running(k) PROVE shown'[k] = current.func
    OBVIOUS
  <2>1. KeyOf[current.func] = k /\ k \notin gone
    BY <1>1 DEF Running, Calm
  <2>2. CASE Sent
    BY <2>1, <2>2 DEF Sent, Shows, TypeOK
  <2>3. CASE Swallowed
    BY <2>1, <2>3 DEF Swallowed, Editable, Unmodified
  <2> QED BY <2>2, <2>3
<1>8. OnItsWay(k) /\ worker # "stopped"
  BY <1>1, <1>3 DEF LatestInv
<1> QED BY <1>1, <1>4, <1>6, <1>7, <1>8, DoneKeepsLatest

\* A failure leaves its key uncalm: who waited for the task failed or retries.
LEMMA FailsKeepsLatest ==
    ASSUME TypeOK, HeldInv, ItemInv, LatestInv, NEW transient \in BOOLEAN,
           NEW flood \in BOOLEAN, NEW took \in BOOLEAN, Fails(transient, flood, took)
    PROVE  LatestInv'
<1> SUFFICES ASSUME NEW k \in Key, Calm(k)' PROVE OnItsWay(k)'
  BY DEF LatestInv
<1> DEFINE again == {j \in Pending : transient /\ Retriable(j)}
<1>1. /\ worker = "sending" /\ queue' = queue /\ current' = NoItem /\ issued' = issued
      /\ gone' = gone
      /\ \A h \in Job : call'[h] = IF h \in again THEN "retrying"
                                   ELSE IF h \in Pending THEN "failed" ELSE call[h]
      /\ \A h \in Job : attempt'[h] = attempt[h] + (IF h \in again THEN 1 ELSE 0)
  BY DEF Fails
<1>2. again \subseteq Pending /\ \A h \in Pending : call[h] = "waiting"
  BY DEF Pending
<1>3. \A h \in Job : attempt[h] \in Nat
  BY LimiterAssumption DEF TypeOK
<1> HIDE DEF again
<1>4. Calm(k)
  <2>1. \A h \in Job : /\ call[h] # "new" => call'[h] # "new"
                       /\ call[h] # "new" /\ attempt'[h] = 0 => attempt[h] = 0
                       /\ call[h] \in {"failed", "abandoned"} => call'[h] = call[h]
    BY <1>1, <1>2, <1>3
  <2> QED BY <1>1, <2>1, CalmBack
<1>5. Entered(k)' = Entered(k)
  BY <1>1, <1>2 DEF Entered
<1>6. ~Running(k)
  <2> SUFFICES ASSUME Running(k) PROVE FALSE
    OBVIOUS
  <2> DEFINE j == current.func
  <2>1. j \in Job /\ KeyOf[j] = k /\ j \in Pending
    BY <1>4, RunningWaits
  <2> HIDE DEF j
  <2>2. call'[j] \in {"retrying", "failed"} /\ (call'[j] = "retrying" => attempt'[j] # 0)
    BY <2>1, <1>1, <1>3
  <2> QED BY <2>1, <2>2 DEF Calm
<1>7. shown'[k] = shown[k]
  <2>1. current # NoItem /\ current.func \in Job /\ KeyOf[current.func] \in Key
    BY <1>1, ShowsType, LimiterAssumption DEF TypeOK
  <2>2. KeyOf[current.func] # k
    BY <2>1, <1>6 DEF Running
  <2> QED BY <2>1, <2>2 DEF Fails, Took, Shows, TypeOK
<1>8. OnItsWay(k) /\ worker # "stopped"
  BY <1>1, <1>4 DEF LatestInv
<1> QED BY <1>1, <1>5, <1>6, <1>7, <1>8, DoneKeepsLatest

LEMMA ShutdownKeepsLatest ==
    ASSUME TypeOK, HeldInv, ItemInv, LatestInv, Shutdown
    PROVE  LatestInv'
<1> SUFFICES ASSUME NEW k \in Key, Calm(k)' PROVE OnItsWay(k)'
  BY DEF LatestInv
<1>1. /\ worker # "stopped" /\ worker' = "stopped" /\ queue' = queue /\ current' = NoItem
      /\ issued' = issued /\ call' = call /\ attempt' = attempt /\ gone' = gone
  BY DEF Shutdown
<1>2. Calm(k) /\ OnItsWay(k)
  BY <1>1 DEF Calm, LatestInv
<1>3. Entered(k)' = Entered(k)
  BY <1>1 DEF Entered
<1>4. ~Running(k) => shown'[k] = shown[k]
  <2> SUFFICES ASSUME ~Running(k) PROVE shown'[k] = shown[k]
    OBVIOUS
  <2>1. CASE worker = "sending" /\ Took(TRUE)
    <3>1. current # NoItem /\ current.func \in Job /\ KeyOf[current.func] \in Key
      BY <2>1, ShowsType, LimiterAssumption DEF TypeOK
    <3>2. KeyOf[current.func] # k
      BY <3>1 DEF Running
    <3> QED BY <2>1, <3>1, <3>2 DEF Took, Shows, TypeOK
  <2> QED BY <2>1 DEF Shutdown
<1>5. Running(k) => \E h \in Entered(k) : call'[h] = "waiting"
  BY <1>1, <1>2, RunningWaits DEF Pending
<1> QED BY <1>1, <1>2, <1>3, <1>4, <1>5, DoneKeepsLatest

LEMMA NextLatest ==
    TypeOK /\ HeldInv /\ OrderInv /\ ItemInv /\ LatestInv /\ [Next]_vars => LatestInv'
<1> SUFFICES ASSUME TypeOK, HeldInv, OrderInv, ItemInv, LatestInv, [Next]_vars
             PROVE  LatestInv'
  OBVIOUS
<1>0. TypeOK' /\ OrderInv'
  BY NextType, NextOrder
<1>1. ASSUME NEW j \in Job, FireAndForget(j) \/ Abandon(j) PROVE LatestInv'
  <2> SUFFICES ASSUME NEW k \in Key, Calm(k)' PROVE OnItsWay(k)'
    BY DEF LatestInv
  <2>1. /\ queue' = queue /\ current' = current /\ shown' = shown /\ worker' = worker
        /\ gone' = gone /\ attempt' = attempt
        /\ issued' = issued \/ issued' = Append(issued, j)
        /\ \A h \in Job \ {j} : call'[h] = call[h]
        /\ \/ call[j] = "new" /\ call'[j] = "created"
           \/ call[j] = "waiting" /\ call'[j] = "abandoned"
    BY <1>1 DEF FireAndForget, Abandon, MayCall, workVars, TypeOK
  <2>2. Calm(k) /\ OnItsWay(k)
    <3>1. Calm(k)
      BY <2>1, CalmBack
    <3> QED BY <3>1 DEF LatestInv
  <2>3. Entered(k)' = Entered(k) /\ \A h \in Entered(k) : call'[h] = call[h]
    BY <2>1 DEF Entered, Calm
  <2>4. Running(k)' <=> Running(k)
    BY <2>1 DEF Running
  <2> QED BY <2>1, <2>2, <2>3, <2>4, QueueStays
<1>2. ASSUME NEW j \in Job, Submit(j) PROVE LatestInv'
  <2>1. /\ Enqueue(j) /\ UNCHANGED workVars /\ attempt' = attempt
        /\ call[j] = "new" /\ call' = [call EXCEPT ![j] = "waiting"]
        /\ issued' = Append(issued, j)
    BY <1>2 DEF Submit, MayCall
  <2> QED BY <2>1, <1>0, <1>2, SubmitIsLatest, EnqueueKeepsLatest
<1>3. ASSUME NEW j \in Job, RunWrapped(j) PROVE LatestInv'
  <2>1. /\ Enqueue(j) /\ UNCHANGED workVars /\ attempt' = attempt
        /\ call[j] = "created" /\ call' = [call EXCEPT ![j] = "waiting"]
        /\ issued' = issued
    BY <1>3 DEF RunWrapped, NextCreated
  <2> QED BY <2>1, <1>3, BegunIsLatest, EnqueueKeepsLatest
<1>4. ASSUME NEW j \in Job, Retry(j) PROVE LatestInv'
  <2>1. /\ Enqueue(j) /\ UNCHANGED workVars /\ attempt' = attempt
        /\ call[j] = "retrying" /\ call' = [call EXCEPT ![j] = "waiting"]
        /\ issued' = issued
    BY <1>4 DEF Retry
  <2>2. attempt'[j] # 0 /\ call'[j] = "waiting"
    BY <2>1 DEF OrderInv, TypeOK
  <2>3. ~Calm(KeyOf[j])'
    BY <2>2 DEF Calm
  <2> QED BY <2>1, <2>3, EnqueueKeepsLatest
<1>5. ASSUME UNCHANGED <<queue, current, issued, call, attempt>>, gone \subseteq gone',
             worker = "stopped" <=> worker' = "stopped",
             \A k \in Key : ~Running(k) => shown'[k] = shown[k]
      PROVE  LatestInv'
  <2> SUFFICES ASSUME NEW k \in Key, Calm(k)' PROVE OnItsWay(k)'
    BY DEF LatestInv
  <2>1. Calm(k) /\ OnItsWay(k)
    <3>1. Calm(k)
      BY <1>5, CalmBack
    <3> QED BY <3>1 DEF LatestInv
  <2>2. Entered(k)' = Entered(k) /\ (Running(k)' <=> Running(k))
    BY <1>5 DEF Entered, Running
  <2> QED BY <1>5, <2>1, <2>2, QueueStays
<1>6. CASE Unpause \/ Acquire \/ CallOnceMore \/ UNCHANGED vars
  BY <1>5, <1>6 DEF Unpause, Acquire, CallOnceMore, vars
<1>7. ASSUME NEW k \in Key, Delete(k) PROVE LatestInv'
  BY <1>5, <1>7 DEF Delete
<1>8. ASSUME NEW took \in BOOLEAN, TryAgain(took) PROVE LatestInv'
  <2>1. worker = "sending"
    BY <1>8 DEF TryAgain
  <2>2. current # NoItem /\ current.func \in Job /\ KeyOf[current.func] \in Key
    BY <2>1, ShowsType, LimiterAssumption DEF TypeOK
  <2>3. ASSUME NEW k \in Key, ~Running(k) PROVE shown'[k] = shown[k]
    <3>1. KeyOf[current.func] # k
      BY <2>2, <2>3 DEF Running
    <3> QED BY <1>8, <2>2, <3>1 DEF TryAgain, Took, Shows, TypeOK
  <2>4. UNCHANGED <<queue, current, issued, call, attempt, gone, worker>>
    BY <1>8 DEF TryAgain
  <2> QED BY <1>5, <2>3, <2>4
<1> QED BY <1>1, <1>2, <1>3, <1>4, <1>6, <1>7, <1>8, TakeKeepsLatest, AnswerKeepsLatest,
           FailsKeepsLatest, ShutdownKeepsLatest
        DEF Next, CallerStep, WorkerStep

LEMMA RestIsLatest ==
    TypeOK /\ HeldInv /\ OrderInv /\ ItemInv /\ LatestInv => RestShowsLatest
<1> SUFFICES ASSUME TypeOK, HeldInv, OrderInv, ItemInv, LatestInv, NEW j \in Job
             PROVE  LET same == {h \in Job : KeyOf[h] = KeyOf[j] /\ call[h] # "new"}
                    IN  /\ same # {} /\ KeyOf[j] \notin gone
                        /\ \A h \in same : call[h] = "answered" /\ attempt[h] = 0
                        => shown[KeyOf[j]] \in same
                           /\ \A h \in same : Position(h) <= Position(shown[KeyOf[j]])
  BY DEF RestShowsLatest
<1> DEFINE k == KeyOf[j]
           same == {h \in Job : KeyOf[h] = k /\ call[h] # "new"}
<1> SUFFICES ASSUME same # {}, k \notin gone,
                    \A h \in same : call[h] = "answered" /\ attempt[h] = 0
             PROVE  shown[k] \in same /\ \A h \in same : Position(h) <= Position(shown[k])
  OBVIOUS
<1>0. k \in Key /\ \A h \in Job : KeyOf[h] = k /\ call[h] # "new" => h \in same
  BY LimiterAssumption
<1> HIDE DEF k
<1>1. Calm(k)
  BY DEF Calm
<1>2. Entered(k) = same
  BY DEF Entered
<1> HIDE DEF same
<1>3. ~Running(k)
  BY <1>0, <1>1, <1>2, RunningWaits DEF Pending
<1>4. ~Queued(k)
  <2> SUFFICES ASSUME NEW i \in 1..Len(queue), KeyOf[queue[i].func] = k PROVE FALSE
    BY DEF Queued
  <2>1. queue[i] \in Item /\ queue[i].func \in queue[i].futures
    BY DEF TypeOK, ItemInv
  <2>2. queue[i].func \in Job
    BY <2>1 DEF Item
  <2>3. call[queue[i].func] \in {"waiting", "abandoned"}
    BY <2>1, <2>2 DEF HeldInv, Held
  <2>4. queue[i].func \in same
    BY <1>0, <2>2, <2>3
  <2> QED BY <2>3, <2>4
<1>5. shown[k] \in Latest(k)
  BY <1>0, <1>1, <1>2, <1>3, <1>4 DEF LatestInv, OnItsWay
<1>6. ASSUME NEW a \in 1..Len(issued) PROVE Position(issued[a]) = a
  <2>1. \A i \in 1..Len(issued) : issued[i] = issued[a] <=> i = a
    BY DEF OrderInv
  <2> QED BY <2>1 DEF Position
<1>7. \A h \in same : Position(h) <= Position(shown[k])
  <2> SUFFICES ASSUME NEW h \in same PROVE Position(h) <= Position(shown[k])
    OBVIOUS
  <2>1. PICK a, b \in 1..Len(issued) : a <= b /\ issued[a] = h /\ issued[b] = shown[k]
    BY <1>2, <1>5 DEF Latest, Precedes
  <2> QED BY <1>6, <2>1
<1> QED BY <1>2, <1>5, <1>7 DEF Latest

\* What the chat shows at rest of a message that is still there is the last update made,
\* if nothing failed for good: compaction keeps the newest, the order of a key's tasks is
\* that of its calls, and what the platform repeats or takes for success is carried out
\* (_enqueue_internal_multi, fire_and_forget, _with_retry).
THEOREM ChatShowsLatest == Spec => []RestShowsLatest
<1>1. Init => HeldInv /\ OrderInv /\ ItemInv /\ LatestInv
  BY DEF Init, HeldInv, Held, NoItem, OrderInv, ItemInv, LatestInv, OnItsWay, Entered, Running
<1>2. TypeOK /\ HeldInv /\ OrderInv /\ ItemInv /\ LatestInv /\ [Next]_vars
          => (HeldInv /\ OrderInv /\ ItemInv /\ LatestInv)'
  BY NextHeld, NextOrder, NextItems, NextLatest
<1> QED BY <1>1, <1>2, TypeCorrect, RestIsLatest, PTL DEF Spec

==============================================================================
