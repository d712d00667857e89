------------------------------- MODULE SSEStream -------------------------------
(***************************************************************************)
(* The translation of an OpenAI-style stream into Anthropic events         *)
(* (_stream_response_impl in providers/openai_compat.py over SSEBuilder    *)
(* and ContentBlockManager in providers/common/sse_builder.py): reasoning, *)
(* text, tools found in the text, and native tool calls whose names and    *)
(* arguments arrive in fragments.                                          *)
(*                                                                         *)
(* Every yield is a suspension point: a step of the translation queues     *)
(* what it yields in todo, and the client takes it one event at a time,    *)
(* or goes away.  What the parsers find in a chunk is an input here.  A    *)
(* tool name is a sequence of fragments.                                   *)
(***************************************************************************)
EXTENDS Integers, Sequences, FiniteSets

CONSTANTS Indices,      \* the indices tool calls carry; a negative one means none
          Fragments,    \* the names they carry
          Task,         \* the name whose arguments are held back
          ToolCall,     \* "tool_call"
          Absent,       \* a tool call without a name
          MaxChunks     \* bound: pieces of content the provider sends

ASSUME StreamAssumption ==
    /\ Indices \subseteq Int
    /\ Fragments \subseteq Seq(STRING) /\ Absent \notin Fragments
    /\ Task \in Seq(STRING) /\ ToolCall \in Seq(STRING)
    /\ MaxChunks \in Nat

VARIABLES
    phase,          \* how far _stream_response_impl is
    chunks,
    todo,           \* events not yet taken by the client
    next,           \* next_index
    thinking, text, \* thinking_index and text_index if started, else -1
    textSent,       \* text_index # -1
    tools,          \* tool_states
    failed,         \* error_occurred
    event, started, open    \* what the client has received

builderVars == <<next, thinking, text, textSent, tools>>
streamVars == <<phase, chunks, failed>>
clientVars == <<event, started, open>>
vars == <<streamVars, todo, builderVars, clientVars>>

Client == INSTANCE AnthropicStream

Phase == {"streaming", "failing", "flushing", "flushingTools", "flushingArgs",
          "closing", "ending", "ended", "gone"}
Name == Seq(STRING)
ToolState ==
    [name : Name, shown : Name, started : BOOLEAN, block : Int,
     buffer : {"empty", "partial"}, emitted : BOOLEAN, raw : BOOLEAN, docs : Nat]

TypeOK ==
    /\ phase \in Phase
    /\ chunks \in 0..MaxChunks
    /\ next \in Nat
    /\ thinking \in -1..next - 1 /\ text \in -1..next - 1
    /\ thinking = -1 \/ text = -1
    /\ textSent \in BOOLEAN /\ failed \in BOOLEAN
    /\ \A t \in DOMAIN tools :
          /\ t \in Nat /\ tools[t] \in ToolState
          /\ tools[t].started <=> tools[t].block \in 0..next - 1
    /\ \A t, u \in DOMAIN tools :
          t # u /\ tools[t].started => tools[t].block # tools[u].block

Init ==
    /\ phase = "streaming" /\ chunks = 0
    /\ todo = << >>
    /\ next = 0 /\ thinking = -1 /\ text = -1 /\ textSent = FALSE
    /\ tools = << >>
    /\ failed = FALSE
    /\ Client!Init

------------------------------------------------------------------------------
(* Content blocks.                                                         *)

Ready(p) == phase = p /\ todo = << >>
Receives == Ready("streaming") /\ chunks < MaxChunks /\ chunks' = chunks + 1

\* Mutant: the text block is left open.
CloseThinkingOnly == IF thinking = -1 THEN << >> ELSE <<Client!BlockStop(thinking)>>

\* close_content_blocks: what it yields.
CloseContent ==
    (IF thinking = -1 THEN << >> ELSE <<Client!BlockStop(thinking)>>)
    \o (IF text = -1 THEN << >> ELSE <<Client!BlockStop(text)>>)
ContentClosed == thinking' = -1 /\ text' = -1 /\ UNCHANGED textSent

\* A block that is started, filled and stopped at once.
Whole(i, kind) ==
    <<Client!BlockStart(i, kind), Client!BlockDelta(i, kind), Client!BlockStop(i)>>

\* ensure_thinking_block and a delta.
EmitThinking ==
    /\ IF thinking # -1
       THEN /\ todo' = <<Client!BlockDelta(thinking, "thinking")>>
            /\ UNCHANGED <<next, thinking>>
       ELSE /\ todo' = CloseContent \o <<Client!BlockStart(next, "thinking"),
                                         Client!BlockDelta(next, "thinking")>>
            /\ next' = next + 1 /\ thinking' = next
    /\ text' = -1 /\ UNCHANGED <<textSent, tools>>

\* ensure_text_block and a delta.
EmitText ==
    /\ IF text # -1
       THEN /\ todo' = <<Client!BlockDelta(text, "text")>>
            /\ UNCHANGED <<next, text>>
       ELSE /\ todo' = CloseContent \o <<Client!BlockStart(next, "text"),
                                         Client!BlockDelta(next, "text")>>
            /\ next' = next + 1 /\ text' = next
    /\ thinking' = -1 /\ textSent' = TRUE /\ UNCHANGED tools

\* A tool call that was written into the text.
EmitHeuristicTool ==
    /\ todo' = CloseContent \o Whole(next, "tool_use")
    /\ next' = next + 1
    /\ ContentClosed /\ UNCHANGED tools

Reasoning == Receives /\ EmitThinking /\ UNCHANGED <<phase, failed, clientVars>>
Text == Receives /\ EmitText /\ UNCHANGED <<phase, failed, clientVars>>
HeuristicTool ==
    Receives /\ EmitHeuristicTool /\ UNCHANGED <<phase, failed, clientVars>>

------------------------------------------------------------------------------
(* Native tool calls.                                                      *)

IsPrefixOf(s, t) == Len(s) <= Len(t) /\ SubSeq(t, 1, Len(s)) = s

\* "Task" does not begin the name an unnamed tool is shown under.
ASSUME TaskAssumption == ~IsPrefixOf(Task, ToolCall)

\* register_tool_name: a name sent again in full, or its next fragment.
Merged(prev, name) ==
    IF IsPrefixOf(prev, name) THEN name
    ELSE IF IsPrefixOf(name, prev) THEN prev
    ELSE prev \o name

NewTool(name) ==
    [name |-> name, shown |-> << >>, started |-> FALSE, block |-> -1,
     buffer |-> "empty", emitted |-> FALSE, raw |-> FALSE, docs |-> 0]

\* tool_states[i] = tool
With(states, i, tool) ==
    [t \in DOMAIN states \cup {i} |-> IF t = i THEN tool ELSE states[t]]

RegisterToolName(i, name) ==
    IF name = Absent THEN tools
    ELSE IF i \in DOMAIN tools
    THEN [tools EXCEPT ![i].name = Merged(@, name)]
    ELSE With(tools, i, NewTool(name))

\* Whether the call starts its block now: it has a name, an id or arguments.
Starts(states, i, hasId, args) ==
    LET known == i \in DOMAIN states
        name == IF known THEN states[i].name ELSE << >>
    IN  /\ ~(known /\ states[i].started)
        /\ name # << >> \/ hasId \/ args # "none"

\* start_tool_block.
StartToolBlock(states, i, hasId) ==
    LET known == i \in DOMAIN states
        name == IF known THEN states[i].name ELSE << >>
        shown == IF name = << >> /\ ~hasId THEN ToolCall ELSE name
        tool == IF known THEN states[i] ELSE NewTool(shown)
    IN  With(states, i, [tool EXCEPT !.started = TRUE, !.block = next, !.shown = shown])

\* Mutant: arguments that come after the complete ones are sent as well.
WithArgumentsAgain(tool, args) ==
    CASE args = "partial" -> [tool EXCEPT !.buffer = "partial"]
      [] args = "complete" ->
            [tool EXCEPT !.buffer = "empty", !.emitted = TRUE, !.docs = @ + 1]
      [] OTHER -> tool

\* buffer_task_args: a Task tool after the arguments.  A JSON value that is no object
\* stays in the buffer, and raises.
WithArguments(tool, args) ==
    IF tool.emitted THEN tool
    ELSE IF args = "complete"
    THEN [tool EXCEPT !.buffer = "empty", !.emitted = TRUE, !.docs = @ + 1]
    ELSE [tool EXCEPT !.buffer = "partial"]

ProcessToolCall(index, hasId, name, args) ==
    LET i == IF index < 0 THEN Cardinality(DOMAIN tools) ELSE index
        named == RegisterToolName(i, name)
        starts == Starts(named, i, hasId, args)
        begun == IF starts THEN StartToolBlock(named, i, hasId) ELSE named
        sent == IF args = "none" THEN begun
                ELSE IF begun[i].name = Task
                THEN [begun EXCEPT ![i] = WithArguments(@, args)]
                ELSE [begun EXCEPT ![i].raw = TRUE]
        emits == args # "none" /\ (begun[i].name # Task \/ sent[i].docs > begun[i].docs)
        raises == /\ args = "scalar" /\ begun[i].name = Task
                  /\ begun[i].buffer = "empty" /\ ~begun[i].emitted
    IN  /\ todo' = CloseContent
                   \o (IF starts THEN <<Client!BlockStart(next, "tool_use")>> ELSE << >>)
                   \o (IF emits THEN <<Client!BlockDelta(sent[i].block, "tool_use")>>
                       ELSE << >>)
        /\ next' = IF starts THEN next + 1 ELSE next
        /\ ContentClosed
        /\ tools' = sent
        /\ phase' = IF raises THEN "failing" ELSE phase

NativeToolCall(index, hasId, name, args) ==
    /\ Receives
    /\ ProcessToolCall(index, hasId, name, args)
    /\ UNCHANGED <<failed, clientVars>>

------------------------------------------------------------------------------
(* The end of the stream.                                                  *)

\* The provider fails, or the translation raised: an error block of its own.
Fail ==
    /\ Ready("streaming") \/ Ready("failing")
    /\ phase' = "flushing" /\ failed' = TRUE
    /\ todo' = CloseContent \o Whole(next, "text")
    /\ next' = next + 1
    /\ ContentClosed
    /\ UNCHANGED <<chunks, tools, clientVars>>

Finish ==
    /\ Ready("streaming")
    /\ phase' = "flushing"
    /\ UNCHANGED <<chunks, todo, failed, builderVars, clientVars>>

\* think_parser.flush
FlushParser ==
    /\ Ready("flushing") /\ phase' = "flushingTools"
    /\ EmitThinking \/ EmitText \/ UNCHANGED <<todo, builderVars>>
    /\ UNCHANGED <<chunks, failed, clientVars>>

\* heuristic_parser.flush holds one unfinished tool at most.
FlushHeuristic ==
    /\ Ready("flushingTools") /\ phase' = "flushingArgs"
    /\ EmitHeuristicTool \/ UNCHANGED <<todo, builderVars>>
    /\ UNCHANGED <<chunks, failed, clientVars>>

\* Mutant: the placeholder is left out.
NoPlaceholder == FALSE

\* A message without text or native tools gets a blank.
NeedsPlaceholder == ~failed /\ ~textSent /\ DOMAIN tools = {}

Held(t) == tools[t].buffer = "partial" /\ ~tools[t].emitted

Placeholder ==
    /\ Ready("flushingArgs") /\ NeedsPlaceholder
    /\ phase' = "closing"
    /\ EmitText
    /\ UNCHANGED <<chunks, failed, clientVars>>

\* The Task arguments that never became valid JSON are sent as "{}".
FlushTaskArgBuffers ==
    IF \E t \in DOMAIN tools : Held(t)
    THEN \E t \in {u \in DOMAIN tools : Held(u)} :
            /\ todo' = <<Client!BlockDelta(tools[t].block, "tool_use")>>
            /\ tools' = [tools EXCEPT ![t].buffer = "empty", ![t].emitted = TRUE,
                                      ![t].docs = @ + 1]
    ELSE UNCHANGED <<todo, tools>>

FlushArgs ==
    /\ Ready("flushingArgs") /\ ~NeedsPlaceholder
    /\ FlushTaskArgBuffers
    /\ phase' = IF tools' = tools THEN "closing" ELSE phase
    /\ UNCHANGED <<chunks, failed, next, thinking, text, textSent, clientVars>>

\* Mutant: the tool blocks are forgotten.
CloseAllContent ==
    /\ Ready("closing") /\ phase' = "ending"
    /\ todo' = CloseContent
    /\ ContentClosed
    /\ UNCHANGED <<chunks, failed, next, tools, clientVars>>

\* close_all_blocks
CloseAll ==
    /\ Ready("closing") /\ phase' = "ending"
    /\ LET blocks == {tools[t].block : t \in {u \in DOMAIN tools : tools[u].started}}
       IN  \E order \in [1..Cardinality(blocks) -> blocks] :
              /\ \A m, n \in DOMAIN order : m # n => order[m] # order[n]
              /\ todo' = CloseContent \o
                         [m \in DOMAIN order |-> Client!BlockStop(order[m])]
    /\ ContentClosed
    /\ UNCHANGED <<chunks, failed, next, tools, clientVars>>

EndMessage ==
    /\ Ready("ending") /\ phase' = "ended"
    /\ todo' = <<Client!MessageStop>>
    /\ UNCHANGED <<chunks, failed, builderVars, clientVars>>

------------------------------------------------------------------------------
(* The client.                                                             *)

\* It takes the next event, whatever it is.
Yield ==
    /\ todo # << >> /\ phase # "gone"
    /\ event' = Head(todo)
    /\ todo' = Tail(todo)
    /\ CASE event'.type = "start" ->
              /\ started' = event'.index + 1
              /\ open' = open \cup {<<event'.index, event'.kind>>}
         [] event'.type = "stop" ->
              /\ open' = {b \in open : b[1] # event'.index}
              /\ UNCHANGED started
         [] OTHER -> UNCHANGED <<started, open>>
    /\ UNCHANGED <<streamVars, builderVars>>

\* It goes away: nothing more is sent.
Disconnect ==
    /\ phase \notin {"ended", "gone"}
    /\ phase' = "gone"
    /\ UNCHANGED <<chunks, failed, todo, builderVars, clientVars>>

------------------------------------------------------------------------------
Next ==
    \/ Reasoning \/ Text \/ HeuristicTool
    \/ \E index \in Indices, hasId \in BOOLEAN, name \in Fragments \cup {Absent},
          args \in {"none", "partial", "complete", "scalar"} :
          NativeToolCall(index, hasId, name, args)
    \/ Fail \/ Finish
    \/ FlushParser \/ FlushHeuristic \/ Placeholder \/ FlushArgs \/ CloseAll \/ EndMessage
    \/ Yield \/ Disconnect

Spec == Init /\ [][Next]_vars

------------------------------------------------------------------------------
(* Properties.                                                             *)

\* Every stream is one a client of the Anthropic API expects, whatever the provider
\* sends, wherever it fails and whenever the client goes away.
WellFormed == Client!Spec

\* A Task tool gets one JSON document for its input, and nothing else, if its name did
\* not change after its block was started; none only if no argument came.
TaskInputIsOneDocument ==
    \A t \in DOMAIN tools :
        tools[t].started /\ tools[t].shown = tools[t].name =>
            /\ tools[t].name = Task => ~tools[t].raw /\ tools[t].docs <= 1
            /\ tools[t].name # Task => tools[t].docs = 0
            /\ phase \in {"closing", "ending", "ended"} /\ tools[t].name = Task
                  => tools[t].buffer = "empty"

\* Until the end the client has open what the builder takes for open: it fills no block
\* the client saw stopped, and forgets none.
BuilderAgrees ==
    todo = << >> /\ phase \notin {"ending", "ended", "gone"} =>
        open = {<<tools[t].block, "tool_use">> : t \in {u \in DOMAIN tools : tools[u].started}}
               \cup (IF thinking = -1 THEN {} ELSE {<<thinking, "thinking">>})
               \cup (IF text = -1 THEN {} ELSE {<<text, "text">>})

\* A message that ends has content, unless a tool was registered under an empty name
\* and neither an id nor arguments followed.
NeverEmpty ==
    phase = "ended" =>
        next > 0 \/ \E t \in DOMAIN tools : tools[t].name = << >> /\ ~tools[t].started

------------------------------------------------------------------------------
(* The inductive invariant behind TaskInputIsOneDocument and NeverEmpty.   *)

\* A tool gets arguments only once it is started and, while it is called Task, once: so
\* its name has begun with Task since, and what the client was shown begins Task.
ToolInv(tool) ==
    /\ ~tool.started => /\ tool.name = << >> /\ tool.block = -1
                        /\ ~tool.raw /\ ~tool.emitted /\ tool.buffer = "empty"
    /\ tool.docs = IF tool.emitted THEN 1 ELSE 0
    /\ tool.buffer = "partial" => ~tool.emitted
    /\ tool.started => IsPrefixOf(tool.shown, tool.name) \/ tool.shown = ToolCall
    /\ tool.emitted \/ tool.buffer = "partial" =>
          /\ IsPrefixOf(Task, tool.name)
          /\ IsPrefixOf(tool.shown, Task) \/ tool.shown = ToolCall
    /\ tool.started /\ tool.shown = Task /\ tool.name = Task => ~tool.raw

\* Every error and every text has its block; when the blocks are closed no arguments are
\* held back any more.
StreamInv ==
    /\ IsFiniteSet(DOMAIN tools)
    /\ \A t \in DOMAIN tools : ToolInv(tools[t])
    /\ failed \/ textSent => next > 0
    /\ phase \in {"closing", "ending", "ended"} =>
          /\ next > 0 \/ \E t \in DOMAIN tools : tools[t].name = << >> /\ ~tools[t].started
          /\ \A t \in DOMAIN tools : tools[t].buffer = "empty"

==============================================================================
