-------------------------- MODULE MCThinkTagParser --------------------------
(* Short tags with the structure of <think> and </think>.                  *)
EXTENDS ThinkTagParser

MCChar == {"<", "/", "t", ">"}
MCOpenTag == <<"<", "t", ">">>
MCCloseTag == <<"<", "/", "t", ">">>
=============================================================================
