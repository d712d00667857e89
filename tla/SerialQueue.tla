----------------------------- MODULE SerialQueue -----------------------------
(***************************************************************************)
(* What the queue of a conversation promises: requests are served one at a *)
(* time, in the order in which they were submitted, each of them at most   *)
(* once; a waiting request may be withdrawn.  Abstracts TreeQueue.         *)
(***************************************************************************)
EXTENDS Naturals

CONSTANT Request

VARIABLES order,    \* when a request was submitted, 0 if it was not
          waiting,  \* the requests that wait
          active    \* the request that holds the server, as a set

svars == <<order, waiting, active>>

Init ==
    /\ order = [r \in Request |-> 0]
    /\ waiting = {}
    /\ active = {}

\* A request comes after all earlier ones.  An idle server takes it at once, a busy
\* one makes it wait.
Submit(r) ==
    /\ order[r] = 0
    /\ order' = [order EXCEPT ![r] = order'[r]]
    /\ \A q \in Request : order[q] < order'[r]
    /\ IF active = {}
       THEN active' = {r} /\ UNCHANGED waiting
       ELSE waiting' = waiting \cup {r} /\ UNCHANGED active

\* The server is done with its request and takes the one that waited longest.
Advance ==
    /\ active # {}
    /\ \/ /\ waiting = {}
          /\ active' = {}
          /\ UNCHANGED waiting
       \/ \E r \in waiting :
          /\ \A q \in waiting : order[r] <= order[q]
          /\ active' = {r}
          /\ waiting' = waiting \ {r}
    /\ UNCHANGED order

Withdraw ==
    /\ waiting' \in SUBSET waiting
    /\ UNCHANGED <<order, active>>

\* The conversation is closed: nothing waits any more, and a request that would
\* have been served no longer is.
Close ==
    /\ waiting' = {}
    /\ active' \in {active, {}}
    /\ UNCHANGED order

Next == (\E r \in Request : Submit(r)) \/ Advance \/ Withdraw \/ Close

Spec == Init /\ [][Next]_svars
==============================================================================
