--------------------------- MODULE AnthropicStream ---------------------------
(***************************************************************************)
(* What a client of the proxy may rely on: the order of the events of a    *)
(* streamed message.  Content blocks are numbered from 0 in the order they *)
(* start; a delta goes to an open block of its kind; text and thinking do  *)
(* not overlap; the message ends with no block open.                       *)
(***************************************************************************)
EXTENDS Naturals

VARIABLES
    event,      \* the last event the client received
    started,    \* how many blocks have been started
    open        \* the blocks that are open, with their kinds

clientVars == <<event, started, open>>

Kind == {"thinking", "text", "tool_use"}
Content == {"thinking", "text"}

MessageStart == [type |-> "message_start"]
MessageStop == [type |-> "message_stop"]
BlockStart(i, k) == [type |-> "start", index |-> i, kind |-> k]
BlockDelta(i, k) == [type |-> "delta", index |-> i, kind |-> k]
BlockStop(i) == [type |-> "stop", index |-> i]

Init == event = MessageStart /\ started = 0 /\ open = {}

Start(k) ==
    /\ k \in Content => \A b \in open : b[2] \notin Content
    /\ event' = BlockStart(started, k)
    /\ started' = started + 1
    /\ open' = open \cup {<<started, k>>}

Delta(b) ==
    /\ event' = BlockDelta(b[1], b[2])
    /\ UNCHANGED <<started, open>>

Stop(b) ==
    /\ event' = BlockStop(b[1])
    /\ open' = open \ {b}
    /\ UNCHANGED started

End ==
    /\ open = {}
    /\ event' = MessageStop
    /\ UNCHANGED <<started, open>>

Next ==
    /\ event # MessageStop
    /\ \/ \E k \in Kind : Start(k)
       \/ \E b \in open : Delta(b) \/ Stop(b)
       \/ End

Spec == Init /\ [][Next]_clientVars

==============================================================================
