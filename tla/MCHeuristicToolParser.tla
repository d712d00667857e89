----------------------- MODULE MCHeuristicToolParser -----------------------
(* All texts of at most three parts, and those of four without a loose    *)
(* call; only the last part can be cut short.                             *)
EXTENDS HeuristicToolParser, SequencesExt

MCParts ==
    {d \in BoundedSeq(DOMAIN Form, 3) \cup BoundedSeq(DOMAIN Form \ {"loose"}, 4) :
        \A i \in DOMAIN d : d[i] = "cut" => i = Len(d)}
MCText(d) ==
    FlattenSeq([i \in 1..Len(d) |-> [o \in 1..Len(Form[d[i]]) |-> [form |-> d[i], at |-> o]]])
MCDocument == {MCText(d) : d \in MCParts}
============================================================================
