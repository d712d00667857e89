---------------------------- MODULE MCTranscript ----------------------------
(* Two subagents and a tool, in runs of a few events.                      *)
EXTENDS Transcript

MCTaskId == {<<"task", "1">>, <<"task", "2">>}
MCToolId == {<<"call", "3">>}
============================================================================
