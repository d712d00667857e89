---------------------------- MODULE MCTreeQueue ----------------------------
(* TreeQueue with a handful of messages. *)
EXTENDS TreeQueue, TLC

CONSTANTS m1, m2, m3

MCNode == {m1, m2, m3}

\* The messages that are not the root are interchangeable.
MCSymmetry == Permutations({m2, m3})

\* Every command but the global "/stop".
NodeCommands == {"stop_node", "clear_branch", "clear_tree"}
GlobalStop   == {"stop_all"}
NodeStop     == {"stop_node"}
=============================================================================
