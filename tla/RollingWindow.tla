---------------------------- MODULE RollingWindow ----------------------------
(***************************************************************************)
(* The strict rolling window both rate limiters are built on               *)
(* (SlidingWindowLimiter in messaging/limiter.py, _acquire_proactive_slot  *)
(* in providers/rate_limit.py): a deque of the times of the last grants,   *)
(* expired from the left before each decision.                             *)
(*                                                                         *)
(* grants keeps every grant ever made; the deque is its part from head on. *)
(* The section under the limiter's lock does not suspend: it is one step.  *)
(***************************************************************************)
EXTENDS Integers, Sequences

CONSTANTS Limit,        \* rate_limit
          Window,       \* rate_window
          MaxTime       \* bound: the clock stops here

ASSUME WindowAssumption ==
    /\ Limit \in Nat \ {0}
    /\ Window \in Nat \ {0}
    /\ MaxTime \in Nat

VARIABLES now, grants, head
windowVars == <<grants, head>>

WindowOK ==
    /\ now \in Nat
    /\ grants \in Seq(Nat)
    /\ head \in 1..Len(grants) + 1

WindowInit == now = 0 /\ grants = << >> /\ head = 1

\* Mutant: a grant expires one second before its window ends.
ExpiredTooSoon(i) == grants[i] <= now - Window + 1

Expired(i) == grants[i] <= now - Window

\* The deque begins at h once the expired grants are popped from its left.
PopExpired(h) ==
    /\ h \in head..Len(grants) + 1
    /\ \A i \in head..h - 1 : Expired(i)
    /\ h <= Len(grants) => ~Expired(h)

Full(h) == Len(grants) - h + 1 >= Limit

\* The deque has room: the caller goes on at once.
Granted ==
    \E h \in head..Len(grants) + 1 :
        /\ PopExpired(h) /\ ~Full(h)
        /\ head' = h
        /\ grants' = Append(grants, now)

\* It has none: the caller sleeps until its oldest grant expires.
Refused(until) ==
    \E h \in head..Len(grants) :
        /\ PopExpired(h) /\ Full(h)
        /\ head' = h
        /\ until = grants[h] + Window
        /\ UNCHANGED grants

------------------------------------------------------------------------------
\* "at most rate_limit acquisitions in any interval of length rate_window": a
\* grant and the one Limit grants later are a whole window apart.
WindowBound ==
    \A i \in 1..Len(grants) :
        i + Limit <= Len(grants) => grants[i + Limit] - grants[i] >= Window

\* The inductive invariant behind it: what was popped has expired for good.
WindowInv ==
    /\ WindowBound
    /\ \A i \in 1..head - 1 : grants[i] <= now - Window

==============================================================================
