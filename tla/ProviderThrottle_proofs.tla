------------------------ MODULE ProviderThrottle_proofs ------------------------
(***************************************************************************)
(* The limiter of the providers, for every limit, window, number of        *)
(* requests and schedule of their attempts: the rolling window holds, the  *)
(* concurrency slots are all used and never exceeded, and a block that was *)
(* found is waited for.                                                    *)
(***************************************************************************)
EXTENDS ProviderThrottle, FiniteSetTheorems, TLAPS

\* What a round of _acquire_proactive_slot does to the window.
LEMMA GrantKeepsWindow ==
    ASSUME WindowOK, WindowInv, Granted, now' = now
    PROVE  WindowOK' /\ WindowInv'
<1> PICK h \in head..Len(grants) + 1 :
        PopExpired(h) /\ ~Full(h) /\ head' = h /\ grants' = Append(grants, now)
  BY DEF Granted
<1>1. /\ Len(grants) \in Nat /\ now \in Nat /\ head \in 1..Len(grants) + 1
      /\ \A i \in 1..Len(grants) : grants[i] \in Nat
      /\ Limit \in Nat \ {0} /\ Window \in Nat \ {0}
  BY WindowAssumption DEF WindowOK
<1>2. /\ grants' \in Seq(Nat) /\ Len(grants') = Len(grants) + 1
      /\ \A i \in 1..Len(grants) : grants'[i] = grants[i]
      /\ grants'[Len(grants) + 1] = now
  BY <1>1 DEF WindowOK
<1>3. WindowOK'
  BY <1>1, <1>2 DEF WindowOK
<1>4. \A i \in 1..h - 1 : grants[i] <= now - Window
  BY <1>1 DEF PopExpired, Expired, WindowInv
<1>5. Len(grants) + 1 - Limit < h
  BY <1>1 DEF Full
<1>6. WindowBound'
  <2> SUFFICES ASSUME NEW i \in 1..Len(grants) + 1, i + Limit <= Len(grants) + 1
               PROVE  grants'[i + Limit] - grants'[i] >= Window
    BY <1>2 DEF WindowBound
  <2>1. CASE i + Limit <= Len(grants)
    <3>1. i \in 1..Len(grants) /\ i + Limit \in 1..Len(grants)
      BY <1>1, <2>1
    <3> QED BY <1>2, <2>1, <3>1 DEF WindowInv, WindowBound
  <2>2. CASE i + Limit = Len(grants) + 1
    <3>1. i \in 1..h - 1 /\ i \in 1..Len(grants)
      BY <1>1, <1>5, <2>2
    <3>2. grants'[i + Limit] = now /\ grants'[i] = grants[i] /\ grants[i] \in Nat
      BY <1>1, <1>2, <2>2, <3>1
    <3> QED BY <1>1, <1>4, <3>1, <3>2
  <2>3. i + Limit <= Len(grants) \/ i + Limit = Len(grants) + 1
    <3>1. i \in Nat /\ Limit \in Nat /\ Len(grants) \in Nat
      BY <1>1
    <3> QED BY <3>1
  <2> QED BY <2>1, <2>2, <2>3
<1>7. \A i \in 1..head' - 1 : grants'[i] <= now' - Window
  BY <1>1, <1>2, <1>4
<1> QED BY <1>3, <1>6, <1>7 DEF WindowInv

LEMMA RefusalKeepsWindow ==
    ASSUME WindowOK, WindowInv, NEW until, Refused(until), now' = now
    PROVE  WindowOK' /\ WindowInv'
<1> PICK h \in head..Len(grants) :
        PopExpired(h) /\ head' = h /\ grants' = grants
  BY DEF Refused
<1>1. Len(grants) \in Nat /\ head \in 1..Len(grants) + 1
  BY DEF WindowOK
<1>2. WindowOK'
  BY <1>1 DEF WindowOK
<1>3. \A i \in 1..h - 1 : grants[i] <= now - Window
  BY <1>1 DEF PopExpired, Expired, WindowInv
<1> QED BY <1>2, <1>3 DEF WindowInv, WindowBound

LEMMA AdmitKeepsWindow ==
    ASSUME WindowOK, WindowInv, NEW r \in Request, Admit(r), now' = now
    PROVE  WindowOK' /\ WindowInv'
  BY GrantKeepsWindow, RefusalKeepsWindow DEF Admit

LEMMA CheckKeepsWindow ==
    ASSUME WindowOK, WindowInv, NEW r \in Request, Check(r), now' = now
    PROVE  WindowOK' /\ WindowInv'
<1>1. CASE now < blockedUntil
  BY <1>1 DEF Check, windowVars, WindowOK, WindowInv, WindowBound
<1>2. CASE ~(now < blockedUntil)
  BY <1>2, AdmitKeepsWindow DEF Check
<1> QED BY <1>1, <1>2

LEMMA TickKeepsWindow ==
    ASSUME WindowOK, WindowInv, Tick
    PROVE  WindowOK' /\ WindowInv'
<1>1. Len(grants) \in Nat /\ head \in 1..Len(grants) + 1 /\ now \in Nat
      /\ (\A i \in 1..Len(grants) : grants[i] \in Nat) /\ Window \in Nat
  BY WindowAssumption DEF WindowOK
<1>2. now' = now + 1 /\ grants' = grants /\ head' = head
  BY DEF Tick, windowVars
<1>3. \A i \in 1..head - 1 : grants[i] <= now + 1 - Window
  BY <1>1 DEF WindowInv
<1> QED BY <1>1, <1>2, <1>3 DEF WindowOK, WindowInv, WindowBound

LEMMA NextWindow == WindowOK /\ WindowInv /\ [Next]_vars => WindowOK' /\ WindowInv'
<1> SUFFICES ASSUME WindowOK, WindowInv, [Next]_vars PROVE WindowOK' /\ WindowInv'
  OBVIOUS
<1>1. CASE Tick
  BY <1>1, TickKeepsWindow
<1>2. ASSUME NEW r \in Request, Enter(r) \/ Start(r) \/ Retry(r)
      PROVE  WindowOK' /\ WindowInv'
  BY <1>2, CheckKeepsWindow DEF Enter, Start, Retry
<1>3. ASSUME NEW r \in Request, Unblocked(r) \/ TryAgain(r)
      PROVE  WindowOK' /\ WindowInv'
  BY <1>3, AdmitKeepsWindow DEF Unblocked, TryAgain
<1>4. ASSUME NEW r \in Request,
             Queue(r) \/ Accepted(r) \/ RateLimited(r) \/ GiveUp(r) \/ End(r)
             \/ Abandon(r)
      PROVE  WindowOK' /\ WindowInv'
  <2>1. UNCHANGED <<now, windowVars>>
    BY <1>4 DEF Queue, Accepted, RateLimited, GiveUp, End, Abandon
  <2> QED BY <2>1 DEF windowVars, WindowOK, WindowInv, WindowBound
<1>5. CASE UNCHANGED vars
  BY <1>5 DEF vars, windowVars, WindowOK, WindowInv, WindowBound
<1> QED BY <1>1, <1>2, <1>3, <1>4, <1>5 DEF Next, Step

LEMMA InitWindow == Init => WindowOK /\ WindowInv
  BY DEF Init, WindowInit, WindowOK, WindowInv, WindowBound

\* At most rate_limit requests are sent in any rate_window seconds, whatever is
\* blocked, retried, cancelled or queued meanwhile (_acquire_proactive_slot).
THEOREM RollingWindowHolds == Spec => []WindowBound
<1>1. WindowInv => WindowBound
  BY DEF WindowInv
<1> QED BY <1>1, InitWindow, NextWindow, PTL DEF Spec

------------------------------------------------------------------------------
(* Types.                                                                  *)

\* Every refusal and every sleep keeps the types.
LEMMA AdmitType ==
    ASSUME TypeOK, NEW r \in Request, Admit(r)
    PROVE  /\ pc' = [pc EXCEPT ![r] = pc'[r]] /\ pc'[r] \in {"calling", "waiting"}
           /\ wake' \in [Request -> Nat]
<1>1. now \in Nat /\ Window \in Nat
  BY WindowAssumption DEF TypeOK, WindowOK
<1>2. CASE pc' = [pc EXCEPT ![r] = "calling"] /\ UNCHANGED wake
  BY <1>2 DEF TypeOK
<1>3. ASSUME NEW until \in now..now + Window, Sleep(r, "waiting", until)
      PROVE  /\ pc' = [pc EXCEPT ![r] = pc'[r]] /\ pc'[r] \in {"calling", "waiting"}
             /\ wake' \in [Request -> Nat]
  BY <1>1, <1>3 DEF TypeOK, Sleep
<1> QED BY <1>2, <1>3 DEF Admit

LEMMA CheckType ==
    ASSUME TypeOK, NEW r \in Request, Check(r)
    PROVE  /\ pc' = [pc EXCEPT ![r] = pc'[r]]
           /\ pc'[r] \in {"calling", "waiting", "blocked"}
           /\ wake' \in [Request -> Nat]
           /\ seen' \in [Request -> Nat]
<1>1. seen' \in [Request -> Nat]
  BY DEF Check, TypeOK
<1>2. CASE now < blockedUntil
  BY <1>1, <1>2 DEF Check, Sleep, TypeOK
<1>3. CASE ~(now < blockedUntil)
  BY <1>1, <1>3, AdmitType DEF Check
<1> QED BY <1>2, <1>3

LEMMA LeaveType ==
    ASSUME TypeOK, NEW r \in Request, Leave(r)
    PROVE  pc' \in [Request -> PC] /\ line' \in Seq(Request)
<1>1. CASE line = << >>
  BY <1>1 DEF Leave, TypeOK, PC
<1>2. CASE line # << >>
  <2>1. Head(line) \in Request /\ Tail(line) \in Seq(Request)
    BY <1>2 DEF TypeOK
  <2> QED BY <1>2, <2>1 DEF Leave, TypeOK, PC
<1> QED BY <1>1, <1>2

\* What is left of the line when one request goes away.
LEMMA DropsType ==
    ASSUME TypeOK, NEW i \in 1..Len(line), Drops(i)
    PROVE  /\ line' \in Seq(Request) /\ Len(line') = Len(line) - 1
           /\ \A k \in 1..Len(line') : line'[k] = IF k < i THEN line[k] ELSE line[k + 1]
<1>1. Len(line) - 1 \in Nat /\ \A k \in 1..Len(line) : line[k] \in Request
  BY DEF TypeOK
<1>2. \A k \in 1..Len(line) - 1 :
          (IF k < i THEN line[k] ELSE line[k + 1]) \in Request
  BY <1>1
<1> QED BY <1>1, <1>2 DEF Drops

LEMMA StepType ==
    ASSUME TypeOK, WindowInv, NEW r \in Request, Step(r)
    PROVE  TypeOK'
<1>1. now \in Nat /\ now' = now /\ WindowOK
  BY DEF TypeOK, WindowOK, Step, Enter, Queue, Start, Unblocked, TryAgain, Retry,
         Accepted, RateLimited, GiveUp, End, Abandon
<1>2. CASE Enter(r) \/ Start(r) \/ Retry(r)
  <2>1. Check(r) /\ UNCHANGED <<line, attempt, blockedUntil>>
    BY <1>2 DEF Enter, Start, Retry
  <2>2. WindowOK'
    BY <1>1, <2>1, CheckKeepsWindow DEF TypeOK
  <2> QED BY <1>1, <2>1, <2>2, CheckType DEF TypeOK, PC
<1>3. CASE Unblocked(r) \/ TryAgain(r)
  <2>1. Admit(r) /\ UNCHANGED <<line, attempt, seen, blockedUntil>>
    BY <1>3 DEF Unblocked, TryAgain
  <2>2. WindowOK'
    BY <1>1, <2>1, AdmitKeepsWindow DEF TypeOK
  <2> QED BY <1>1, <2>1, <2>2, AdmitType DEF TypeOK, PC
<1>4. ASSUME UNCHANGED windowVars PROVE WindowOK'
  BY <1>1, <1>4 DEF WindowOK, windowVars
<1>5. CASE Queue(r)
  BY <1>1, <1>4, <1>5 DEF Queue, TypeOK, PC
<1>6. CASE Accepted(r)
  BY <1>1, <1>4, <1>6 DEF Accepted, TypeOK, PC
<1>7. CASE RateLimited(r)
  <2> PICK d \in Delays : BackOff(r, d)
    BY <1>7 DEF RateLimited
  <2>1. now + d \in Nat
    BY <1>1, ThrottleAssumption
  <2>2. attempt' \in [Request -> 0..MaxRetries]
    BY <1>7, ThrottleAssumption DEF RateLimited, TypeOK
  <2>3. pc' \in [Request -> PC] /\ wake' \in [Request -> Nat] /\ blockedUntil' \in Nat
    BY <2>1 DEF BackOff, Sleep, TypeOK, PC
  <2> QED BY <1>1, <1>4, <1>7, <2>2, <2>3 DEF RateLimited, TypeOK
<1>8. CASE GiveUp(r)
  BY <1>1, <1>4, <1>8, ThrottleAssumption DEF GiveUp, TypeOK, PC
<1>9. CASE End(r)
  BY <1>1, <1>4, <1>9, LeaveType DEF End, TypeOK
<1>10. CASE Abandon(r)
  <2> PICK i \in 1..Len(line) : Drops(i)
    BY <1>10 DEF Abandon
  <2>1. line' \in Seq(Request)
    BY DropsType
  <2> QED BY <1>1, <1>4, <1>10, <2>1 DEF Abandon, TypeOK, PC
<1> QED BY <1>2, <1>3, <1>5, <1>6, <1>7, <1>8, <1>9, <1>10 DEF Step

LEMMA TickType == ASSUME TypeOK, WindowInv, Tick PROVE TypeOK'
<1>1. WindowOK' /\ now' <= MaxTime
  BY TickKeepsWindow, WindowAssumption DEF Tick, TypeOK, WindowOK
<1> QED BY <1>1 DEF Tick, TypeOK, taskVars

LEMMA InitType == Init => TypeOK
  BY WindowAssumption, ThrottleAssumption, InitWindow
  DEF Init, WindowInit, TypeOK, PC

LEMMA NextType == TypeOK /\ WindowInv /\ [Next]_vars => TypeOK' /\ WindowInv'
<1> SUFFICES ASSUME TypeOK, WindowInv, [Next]_vars PROVE TypeOK' /\ WindowInv'
  OBVIOUS
<1>1. WindowInv'
  BY NextWindow DEF TypeOK
<1>2. CASE UNCHANGED vars
  <2>1. WindowOK' /\ now' = now /\ UNCHANGED <<pc, line, attempt, wake, seen, blockedUntil>>
    BY <1>2, NextWindow DEF vars, taskVars, TypeOK
  <2> QED BY <1>1, <2>1 DEF TypeOK
<1> QED BY <1>1, <1>2, TickType, StepType DEF Next

LEMMA TypeInvariant == Spec => [](TypeOK /\ WindowInv)
  BY InitType, InitWindow, NextType, PTL DEF Spec

\* A request is always at a place of the code, the line is a sequence of requests and
\* no request makes more than max_retries retries.
THEOREM TypeCorrect == Spec => []TypeOK
  BY TypeInvariant, PTL

------------------------------------------------------------------------------
(* Concurrency slots.  A step leaves the holders as they are, lets one in  *)
(* while there is room, or hands the slot of one to the head of the line.  *)

LEMMA SameHolders ==
    ASSUME SlotInv, UNCHANGED line, Holders' = Holders,
           \A r \in Request : pc[r] = "queued" => pc'[r] = "queued", line \in Seq(Request)
    PROVE  SlotInv'
<1>1. \A i \in 1..Len(line) : line[i] \in Request
  OBVIOUS
<1> QED BY <1>1 DEF SlotInv, SlotsInUse

LEMMA MoveSlots ==
    ASSUME TypeOK, SlotInv, UNCHANGED line, NEW r \in Request, Holds(r), NEW state,
           pc' = [pc EXCEPT ![r] = state], state \notin {"new", "queued", "done"}
    PROVE  SlotInv'
<1>1. Holders' = Holders
  BY DEF Holders, Holds, TypeOK
<1> QED BY <1>1, SameHolders DEF TypeOK, Holds

LEMMA EnterSlots ==
    ASSUME TypeOK, WindowInv, SlotInv, NEW r \in Request, Enter(r)
    PROVE  SlotInv'
<1>1. pc' = [pc EXCEPT ![r] = pc'[r]] /\ pc'[r] \in {"calling", "waiting", "blocked"}
      /\ line' = line /\ pc[r] = "new" /\ pc \in [Request -> PC]
  BY CheckType DEF Enter, TypeOK
<1>2. Holders' = Holders \cup {r} /\ r \notin Holders
  BY <1>1 DEF Holders, Holds
<1>3. line = << >>
  BY ThrottleAssumption, FS_CardinalityType DEF Enter, SlotInv, SlotsInUse
<1>4. IsFiniteSet(Holders') /\ Cardinality(Holders') = Cardinality(Holders) + 1
      /\ Cardinality(Holders) \in Nat
  BY <1>2, FS_AddElement, FS_CardinalityType DEF SlotInv
<1>5. Cardinality(Holders') <= MaxConcurrency
  BY <1>4, ThrottleAssumption DEF Enter
<1> QED BY <1>1, <1>3, <1>4, <1>5 DEF SlotInv, SlotsInUse

LEMMA QueueSlots ==
    ASSUME TypeOK, SlotInv, NEW r \in Request, Queue(r)
    PROVE  SlotInv'
<1>1. Holders' = Holders /\ pc'[r] = "queued" /\ pc[r] = "new"
      /\ \A q \in Request \ {r} : pc'[q] = pc[q]
  BY DEF Queue, Holders, Holds, TypeOK
<1>2. Cardinality(Holders) = MaxConcurrency
  BY ThrottleAssumption, FS_CardinalityType DEF Queue, SlotInv, SlotsInUse
<1>3. Len(line') = Len(line) + 1 /\ Len(line) \in Nat /\ line'[Len(line) + 1] = r
      /\ \A i \in 1..Len(line) : line'[i] = line[i] /\ line[i] \in Request
  BY DEF Queue, TypeOK
<1>4. \A i \in 1..Len(line) : line[i] # r
  BY <1>1 DEF SlotInv
<1>5. \A i \in 1..Len(line') : pc'[line'[i]] = "queued"
  BY <1>1, <1>3, <1>4 DEF SlotInv
<1>6. \A i, j \in 1..Len(line') : line'[i] = line'[j] => i = j
  BY <1>3, <1>4 DEF SlotInv
<1> QED BY <1>1, <1>2, <1>5, <1>6, ThrottleAssumption DEF SlotInv, SlotsInUse

LEMMA LeaveSlots ==
    ASSUME TypeOK, SlotInv, NEW r \in Request, Holds(r), Leave(r)
    PROVE  SlotInv'
<1>0. IsFiniteSet(Holders) /\ Cardinality(Holders) \in Nat /\ r \in Holders
  BY FS_CardinalityType DEF SlotInv, Holders
<1>1. IsFiniteSet(Holders \ {r}) /\ Cardinality(Holders \ {r}) = Cardinality(Holders) - 1
  BY <1>0, FS_RemoveElement
<1>2. CASE line = << >>
  <2>1. Holders' = Holders \ {r} /\ line' = << >>
    BY <1>2 DEF Leave, Holders, Holds, TypeOK
  <2> QED BY <1>0, <1>1, <2>1, ThrottleAssumption DEF SlotInv, SlotsInUse
<1>3. CASE line # << >>
  <2> DEFINE h == line[1]
  <2>0. Head(line) = h /\ h \in Request /\ 1 \in 1..Len(line)
    BY <1>3 DEF TypeOK
  <2>1. h \in Request /\ pc[h] = "queued" /\ h # r /\ Len(line) \in Nat \ {0}
    BY <1>3 DEF TypeOK, SlotInv, Holds
  <2>2. Len(line') = Len(line) - 1
        /\ \A i \in 1..Len(line') : line'[i] = line[i + 1] /\ i + 1 \in 1..Len(line)
    <3>1. line' = Tail(line) /\ line \in Seq(Request)
      BY <1>3 DEF Leave, TypeOK
    <3> QED BY <2>1, <3>1
  <2>3. pc'[r] = "done" /\ pc'[h] = "entered"
        /\ \A q \in Request \ {r, h} : pc'[q] = pc[q]
    BY <1>3, <2>0, <2>1 DEF Leave, TypeOK
  <2>4. Holders' = (Holders \ {r}) \cup {h} /\ h \notin Holders
    BY <2>1, <2>3 DEF Holders, Holds
  <2>5. IsFiniteSet(Holders') /\ Cardinality(Holders') = Cardinality(Holders)
    <3>1. h \notin Holders \ {r}
      BY <2>4
    <3>2. IsFiniteSet((Holders \ {r}) \cup {h})
          /\ Cardinality((Holders \ {r}) \cup {h}) = Cardinality(Holders \ {r}) + 1
      BY <1>1, <3>1, FS_AddElement
    <3> QED BY <1>0, <1>1, <2>4, <3>2
  <2>6. \A i \in 1..Len(line') : line'[i] # h /\ line'[i] # r /\ line'[i] \in Request
    <3> SUFFICES ASSUME NEW i \in 1..Len(line')
                 PROVE  line'[i] # h /\ line'[i] # r /\ line'[i] \in Request
      OBVIOUS
    <3>1. line'[i] = line[i + 1] /\ i + 1 \in 1..Len(line) /\ i + 1 # 1
      BY <2>2
    <3>2. line[i + 1] # h
      BY <2>0, <3>1 DEF SlotInv
    <3>3. line[i + 1] # r
      BY <3>1 DEF SlotInv, Holds
    <3>4. line[i + 1] \in Request
      BY <3>1 DEF TypeOK
    <3> QED BY <3>1, <3>2, <3>3, <3>4
  <2>7. \A i \in 1..Len(line') : pc'[line'[i]] = "queued"
    BY <2>2, <2>3, <2>6 DEF SlotInv
  <2>8. \A i, j \in 1..Len(line') : line'[i] = line'[j] => i = j
    BY <2>1, <2>2 DEF SlotInv
  <2> QED BY <1>3, <2>5, <2>7, <2>8 DEF SlotInv, SlotsInUse
<1> QED BY <1>2, <1>3

LEMMA AbandonSlots ==
    ASSUME TypeOK, SlotInv, NEW r \in Request, Abandon(r)
    PROVE  SlotInv'
<1> PICK i \in 1..Len(line) : line[i] = r /\ Drops(i)
  BY DEF Abandon
<1>1. Len(line) \in Nat /\ Len(line') = Len(line) - 1
      /\ \A k \in 1..Len(line') : line'[k] = IF k < i THEN line[k] ELSE line[k + 1]
  BY DropsType, SMTT(30) DEF TypeOK
<1>2. Holders' = Holders /\ \A q \in Request \ {r} : pc'[q] = pc[q]
  BY DEF Abandon, Holders, Holds, TypeOK
<1>3. \A k \in 1..Len(line') : \E m \in 1..Len(line) :
          line'[k] = line[m] /\ m # i /\ (k < i => m = k) /\ (k >= i => m = k + 1)
  <2> TAKE k \in 1..Len(line')
  <2>1. CASE k < i
    BY <1>1, <2>1
  <2>2. CASE ~(k < i)
    BY <1>1, <2>2
  <2> QED BY <2>1, <2>2
<1>4. \A k \in 1..Len(line') : line'[k] \in Request \ {r} /\ pc[line'[k]] = "queued"
  <2> SUFFICES ASSUME NEW k \in 1..Len(line')
               PROVE  line'[k] \in Request \ {r} /\ pc[line'[k]] = "queued"
    OBVIOUS
  <2> PICK m \in 1..Len(line) : line'[k] = line[m] /\ m # i
    BY <1>3
  <2>1. line[m] # r /\ pc[line[m]] = "queued"
    BY DEF SlotInv
  <2> QED BY <2>1, SMTT(30) DEF TypeOK
<1>5. \A k, m \in 1..Len(line') : line'[k] = line'[m] => k = m
  BY <1>1, <1>3 DEF SlotInv
<1>6. line' # << >> => line # << >>
  BY <1>1
<1> QED BY <1>2, <1>4, <1>5, <1>6 DEF SlotInv, SlotsInUse

LEMMA NextSlots == TypeOK /\ WindowInv /\ SlotInv /\ [Next]_vars => SlotInv'
<1> SUFFICES ASSUME TypeOK, WindowInv, SlotInv, [Next]_vars PROVE SlotInv'
  OBVIOUS
<1>1. CASE Tick \/ UNCHANGED vars
  <2>1. UNCHANGED <<pc, line>>
    BY <1>1 DEF Tick, vars, taskVars
  <2> QED BY <2>1 DEF SlotInv, SlotsInUse, Holders, Holds
<1>2. ASSUME NEW r \in Request, Start(r) \/ Retry(r) PROVE SlotInv'
  BY <1>2, CheckType, MoveSlots DEF Start, Retry, Holds
<1>3. ASSUME NEW r \in Request, Unblocked(r) \/ TryAgain(r) PROVE SlotInv'
  BY <1>3, AdmitType, MoveSlots DEF Unblocked, TryAgain, Holds
<1>4. ASSUME NEW r \in Request, Accepted(r) \/ GiveUp(r) PROVE SlotInv'
  BY <1>4, MoveSlots DEF Accepted, GiveUp, Holds
<1>5. ASSUME NEW r \in Request, RateLimited(r) PROVE SlotInv'
  BY <1>5, MoveSlots DEF RateLimited, BackOff, Sleep, Holds
<1>6. ASSUME NEW r \in Request, End(r) PROVE SlotInv'
  BY <1>6, LeaveSlots DEF End
<1> QED BY <1>1, <1>2, <1>3, <1>4, <1>5, <1>6, EnterSlots, QueueSlots, AbandonSlots
        DEF Next, Step

LEMMA InitSlots == Init => SlotInv
<1> SUFFICES ASSUME Init PROVE SlotInv
  OBVIOUS
<1>1. Holders = {} /\ line = << >>
  BY DEF Init, Holders, Holds
<1> QED BY <1>1, FS_EmptySet, ThrottleAssumption DEF SlotInv, SlotsInUse

\* At most max_concurrency requests hold a slot and none is idle while a request waits
\* in line, whichever way the others end or go away (concurrency_slot).
THEOREM SlotsAreUsed == Spec => []SlotsInUse
<1>1. SlotInv => SlotsInUse
  BY DEF SlotInv
<1> QED BY <1>1, TypeInvariant, InitSlots, NextSlots, PTL DEF Spec

------------------------------------------------------------------------------
(* Blocks.                                                                 *)

LEMMA AdmitBlocks ==
    ASSUME TypeOK, NEW r \in Request, Admit(r), now' = now, now >= seen'[r],
           \A q \in Request \ {r} : seen'[q] = seen[q], BlockInv
    PROVE  BlockInv' /\ \A q \in Request \ {r} : pc'[q] = pc[q]
<1>1. now \in Nat /\ pc' = [pc EXCEPT ![r] = pc'[r]] /\ pc'[r] \in {"calling", "waiting"}
  BY AdmitType DEF TypeOK, WindowOK
<1>2. \A q \in Request \ {r} : wake'[q] = wake[q] /\ pc'[q] = pc[q]
  BY <1>1 DEF Admit, Sleep, TypeOK
<1> QED BY <1>1, <1>2 DEF BlockInv

LEMMA CheckBlocks ==
    ASSUME TypeOK, NEW r \in Request, Check(r), now' = now, BlockInv
    PROVE  /\ BlockInv'
           /\ \A q \in Request \ {r} : pc'[q] = pc[q]
           /\ pc'[r] = "calling" => now >= seen'[r]
<1>1. seen'[r] = blockedUntil /\ (\A q \in Request \ {r} : seen'[q] = seen[q])
      /\ now \in Nat /\ blockedUntil \in Nat
  BY DEF Check, TypeOK, WindowOK
<1>2. CASE now < blockedUntil
  <2>1. pc'[r] = "blocked" /\ wake'[r] = blockedUntil
        /\ \A q \in Request \ {r} : pc'[q] = pc[q] /\ wake'[q] = wake[q]
    BY <1>2 DEF Check, Sleep, TypeOK
  <2> QED BY <1>1, <2>1 DEF BlockInv
<1>3. CASE ~(now < blockedUntil)
  <2>1. Admit(r) /\ now >= seen'[r]
    BY <1>1, <1>3 DEF Check
  <2> QED BY <1>1, <2>1, AdmitBlocks
<1> QED BY <1>2, <1>3

\* What a step does to the blocks that were found, and when it reaches the provider.
LEMMA NextBlocks ==
    ASSUME TypeOK, BlockInv, [Next]_vars
    PROVE  /\ BlockInv'
           /\ \A r \in Request : pc[r] # "calling" /\ pc'[r] = "calling" => now >= seen'[r]
<1> DEFINE Reached == \A r \in Request :
                         pc[r] # "calling" /\ pc'[r] = "calling" => now >= seen'[r]
<1>0. now \in Nat /\ \A r \in Request : seen[r] \in Nat /\ wake[r] \in Nat
  BY DEF TypeOK, WindowOK
<1>1. CASE UNCHANGED vars
  BY <1>1 DEF vars, taskVars, BlockInv
<1>2. CASE Tick
  BY <1>0, <1>2 DEF Tick, taskVars, BlockInv
<1>3. ASSUME NEW r \in Request, Enter(r) \/ Start(r) \/ Retry(r)
      PROVE  BlockInv' /\ Reached
  BY <1>3, CheckBlocks DEF Enter, Start, Retry
<1>4. ASSUME NEW r \in Request, Unblocked(r) \/ TryAgain(r) PROVE BlockInv' /\ Reached
  <2>1. now >= seen[r] /\ seen' = seen /\ now' = now /\ Admit(r)
    BY <1>0, <1>4 DEF Unblocked, TryAgain, Awake, BlockInv
  <2> QED BY <1>0, <2>1, AdmitBlocks
<1>5. ASSUME NEW r \in Request, Queue(r) \/ Accepted(r) \/ GiveUp(r) \/ Abandon(r)
      PROVE  BlockInv' /\ Reached
  BY <1>5 DEF Queue, Accepted, GiveUp, Abandon, BlockInv, TypeOK
<1>6. ASSUME NEW r \in Request, RateLimited(r) PROVE BlockInv' /\ Reached
  BY <1>6 DEF RateLimited, BackOff, Sleep, BlockInv, TypeOK
<1>7. ASSUME NEW r \in Request, End(r) PROVE BlockInv' /\ Reached
  <2>1. UNCHANGED <<now, wake, seen>>
        /\ \A q \in Request : pc'[q] \in {pc[q], "done", "entered"}
    BY <1>7 DEF End, Leave, TypeOK
  <2> QED BY <2>1 DEF BlockInv
<1> QED BY <1>1, <1>2, <1>3, <1>4, <1>5, <1>6, <1>7 DEF Next, Step

\* A request that found a block is not sent before its end, through all of its sleeps
\* (wait_if_blocked, execute_with_retry).
THEOREM FoundBlocksHold == Spec => SeenBlockRespected
<1>1. Init => BlockInv
  BY DEF Init, BlockInv
<1>2. TypeOK /\ BlockInv /\ [Next]_vars => BlockInv'
  BY NextBlocks
<1>3. TypeOK /\ BlockInv /\ [Next]_vars =>
        [\A r \in Request : pc[r] # "calling" /\ pc'[r] = "calling" => now >= seen'[r]]_vars
  BY NextBlocks
<1> QED BY <1>1, <1>2, <1>3, TypeInvariant, PTL DEF Spec, SeenBlockRespected

==============================================================================
