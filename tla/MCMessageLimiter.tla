--------------------------- MODULE MCMessageLimiter ---------------------------
(* An awaited status with two updates of it, and one of another message.  *)
EXTENDS MessageLimiter

CONSTANTS status, edit1, edit2, other, k1, k2

MCJob == {status, edit1, edit2, other}
MCKey == {k1, k2}
MCKeyOf == [j \in MCJob |-> IF j = other THEN k2 ELSE k1]
MCAwaited == {status}

==============================================================================
