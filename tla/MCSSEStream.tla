----------------------------- MODULE MCSSEStream -----------------------------
(* A tool whose name comes in two fragments or at once, with and without an *)
(* index, beside any other content.                                         *)
EXTENDS SSEStream

MCIndices == {-1, 0}
MCTask == <<"Ta", "sk">>
MCFragments == {<< >>, <<"Ta">>, <<"sk">>, MCTask}
MCToolCall == <<"tool_call">>

==============================================================================
