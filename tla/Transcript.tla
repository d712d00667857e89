----------------------------- MODULE Transcript -----------------------------
(***************************************************************************)
(* What the chat shows of one run: the events of the CLI are parsed        *)
(* (messaging/event_parser.py), applied to an ordered list of segments     *)
(* (messaging/transcript.py) and rendered by the handler that edits the    *)
(* status message (update_ui in messaging/handler.py).  A command that     *)
(* cancels the run edits the same message down to "Stopped.".              *)
(*                                                                         *)
(* The CLI is the environment: one agent that writes blocks, calls tools   *)
(* and launches subagents (the tool "Task"), whose own output arrives in   *)
(* the same stream.  An id is a sequence of parts, so that one may extend  *)
(* another.                                                                *)
(***************************************************************************)
EXTENDS Naturals, Sequences, SequencesExt, FiniteSetsExt

CONSTANTS Index,        \* the indices of content blocks
          NoIndex,      \* -1: the content of a whole message
          TaskId,       \* the ids of the tool calls that launch subagents
          ToolId,       \* the ids of the other tool calls
          MaxEvents,    \* bound on the events of a run
          Limit,        \* limit_chars
          TailMax,      \* text_tail_max and thinking_tail_max
          MarkerSize,   \* the length of "... (truncated)"
          StatusSize,   \* the length of a status line
          MinTail       \* a shorter tail of a segment is not shown

Kinds == {"thinking", "text"}
Name == {"Task", "tool"}
NoId == << >>

\* Ids are sequences of parts, a task's contains "task", none extends another, and none
\* looks like one that _subagent_push makes up.
ASSUME IdAssumption ==
    /\ NoIndex \notin Index
    /\ TaskId \cup ToolId \subseteq Seq(STRING) \ {NoId} /\ TaskId \cap ToolId = {}
    /\ \A a, b \in TaskId \cup ToolId : IsPrefix(a, b) => a = b
    /\ \A a \in TaskId \cup ToolId :
          a[1] # "__task_" /\ (a \in TaskId <=> "task" \in ToSet(a))
    /\ {MaxEvents, Limit, TailMax, MarkerSize, StatusSize} \subseteq Nat \ {0}
    /\ MinTail \in Nat

VARIABLES
    t,          \* the TranscriptBuffer
    parsed,     \* parsed_list: what is left of the event in hand
    had,        \* had_transcript_events
    lastStatus, \* last_status
    shown,      \* what the status message was last set to, or Stale when the last update
                \* was skipped
    over,       \* the run has ended
    cancelled,  \* a command has cancelled it
    edited,     \* and has edited the status message
    streamed,   \* whether the CLI sends blocks as they grow, or whole messages
    ids,        \* whether the provider gives ids to calls, to results only, or to none
    tasks,      \* the subagents that run, oldest first
    block,      \* what the stream last began at each index
    events,     \* the number of events sent
    crossed     \* a subagent with an id returned before a younger one (history)

buffer == <<t, parsed, had, lastStatus, shown, over>>
command == <<cancelled, edited>>
stream == <<streamed, ids, tasks, block, events, crossed>>
vars == <<buffer, command, stream>>

Stale == [parts |-> << >>, marker |-> FALSE, size |-> 0, status |-> "stale"]
Nothing == [parts |-> << >>, marker |-> FALSE, size |-> 0, status |-> "none"]
NoBlock == [kind |-> "none", by |-> "none", no |-> 0]

Init ==
    /\ t = [segments |-> << >>,                 \* _segments
            open |-> [k \in Kinds |-> [i \in Index \cup {NoIndex} |-> 0]],
                                                \* _open_thinking_by_index, _open_text_by_index
            tools |-> {},                       \* _open_tools_by_index
            names |-> {},                       \* _tool_name_by_id
            stack |-> << >>,                    \* _subagent_stack
            agents |-> << >>]                   \* _subagent_segments
    /\ parsed = << >> /\ had = FALSE /\ lastStatus = "none"
    /\ shown = Nothing /\ over = FALSE
    /\ cancelled = FALSE /\ edited = FALSE
    /\ streamed \in BOOLEAN /\ ids \in {"given", "late", "absent"}
    /\ tasks = << >> /\ events = 0 /\ crossed = FALSE
    /\ block = [i \in Index |-> NoBlock]

------------------------------------------------------------------------------
\* parse_cli_event.  A parsed event has the type of the code, its kind split off.

Chunk(kind, p) == [type |-> "chunk", kind |-> kind, index |-> NoIndex, piece |-> p]
Begin(kind, i, p) == [type |-> "start", kind |-> kind, index |-> i, piece |-> p]
Delta(kind, i, p) == [type |-> "delta", kind |-> kind, index |-> i, piece |-> p]
Use(i, id, name, p) == [type |-> "tool_use", index |-> i, id |-> id, name |-> name, piece |-> p]
Result(id) == [type |-> "tool_result", id |-> id]
InputDelta == [type |-> "input_delta"]
BlockStop(i) == [type |-> "block_stop", index |-> i]
Error(p) == [type |-> "error", piece |-> p]
Complete == [type |-> "complete"]

\* A successful exit completes; any other is an error first.
Exit(code, p) == IF code = 0 THEN <<Complete>> ELSE <<Error(p), Complete>>

------------------------------------------------------------------------------
\* TranscriptBuffer.

Add(b, s) == [b EXCEPT !.segments = Append(@, s)]
Fresh(kind, p) == [kind |-> kind, no |-> p.no, pieces |-> << >>, calls |-> 0]
InSubagent(b) == b.stack # << >>

\* block_stop closes one block of the index: a tool, then thinking, then text.
CloseBlock(b, i) ==
    IF i \in b.tools THEN [b EXCEPT !.tools = @ \ {i}]
    ELSE IF b.open["thinking"][i] # 0 THEN [b EXCEPT !.open["thinking"][i] = 0]
    ELSE [b EXCEPT !.open["text"][i] = 0]

Opened(b, kind, i, p) ==
    LET c == Add(b, Fresh(kind, p))
    IN  IF i = NoIndex THEN c ELSE [c EXCEPT !.open[kind][i] = Len(c.segments)]

\* Mutant: a block that is still open at the index stays open.
StartBesideOld(b, kind, i, p) == Opened(b, kind, i, p)

\* thinking_start, text_start: a block left open at the index is closed first.
StartBlock(b, kind, i, p) == Opened(CloseBlock(b, i), kind, i, p)

\* thinking_delta, thinking_chunk, text_delta, text_chunk.
Write(b, kind, i, p) ==
    LET c == IF b.open[kind][i] = 0 THEN Opened(b, kind, i, p) ELSE b
        n == IF b.open[kind][i] = 0 THEN Len(c.segments) ELSE b.open[kind][i]
    IN  [c EXCEPT !.segments[n].pieces = Append(@, p)]

\* Mutant: a Task without an id is not put on the stack.
PushGivenOnly(b, id) ==
    IF id = NoId THEN b
    ELSE [b EXCEPT !.stack = Append(@, id), !.agents = Append(@, Len(b.segments))]

\* _subagent_push: the last segment is the subagent's; a missing id is made up.
Synthetic(n) == <<"__task_", ToString(n)>>
Push(b, id) ==
    LET name == IF id = NoId THEN Synthetic(Len(b.stack) + 1) ELSE id
    IN  [b EXCEPT !.stack = Append(@, name), !.agents = Append(@, Len(b.segments))]

\* tool_use_start and, without an index, tool_use.  A call of a subagent replaces the
\* call its segment shows.
CallTool(b, i, id, name, p) ==
    LET c == IF i = NoIndex THEN b ELSE CloseBlock(b, i)
        d == IF id = NoId THEN c ELSE [c EXCEPT !.names = @ \cup {<<id, name>>}]
        e == IF InSubagent(d) THEN [d EXCEPT !.segments[Last(d.agents)].calls = @ + 1]
             ELSE Add(d, Fresh("tool_call", p))
    IN  IF name = "Task" THEN Push(Add(d, Fresh("subagent", p)), id)
        ELSE IF i = NoIndex THEN e ELSE [e EXCEPT !.tools = @ \cup {i}]

Match(a, b) == IsPrefix(a, b) \/ IsPrefix(b, a)
IsSynthetic(id) == id[1] = "__task_"

\* _subagent_pop: down to the youngest entry that matches; without an id, a made-up one.
Matching(b, id) ==
    IF id # NoId THEN {n \in 1..Len(b.stack) : Match(b.stack[n], id)}
    ELSE {n \in {Len(b.stack)} : IsSynthetic(b.stack[n])}
Pop(b, n) == [b EXCEPT !.stack = SubSeq(@, 1, n - 1), !.agents = SubSeq(@, 1, n - 1)]

\* Mutant: a made-up id is matched like any other.
MatchOnly(b, id) ==
    IF InSubagent(b) /\ Matching(b, id) # {} THEN Pop(b, Max(Matching(b, id))) ELSE b

\* tool_result: nothing is shown (show_tool_results is off), but a subagent may end.  A
\* result with an unknown id of a task ends one whose id was made up.
TakeResult(b, id) ==
    IF ~InSubagent(b) THEN b
    ELSE IF Matching(b, id) # {} THEN Pop(b, Max(Matching(b, id)))
    ELSE IF /\ id # NoId /\ IsSynthetic(Last(b.stack)) /\ "task" \in ToSet(id)
            /\ \A name \in Name \ {"Task"} : <<id, name>> \notin b.names
         THEN Pop(b, Len(b.stack)) ELSE b

\* apply.  Inside a subagent thinking and text are dropped, their starts included.
Apply(b, e) ==
    CASE e.type = "start" ->
            IF InSubagent(b) THEN b ELSE StartBlock(b, e.kind, e.index, e.piece)
      [] e.type \in {"delta", "chunk"} ->
            IF InSubagent(b) THEN b ELSE Write(b, e.kind, e.index, e.piece)
      [] e.type = "tool_use" -> CallTool(b, e.index, e.id, e.name, e.piece)
      [] e.type = "tool_result" -> TakeResult(b, e.id)
      [] e.type = "block_stop" -> CloseBlock(b, e.index)
      [] e.type = "input_delta" -> b
      [] e.type = "error" -> Add(b, Fresh("error", e.piece))

------------------------------------------------------------------------------
\* render: the segments that are not empty, oldest dropped until the rest fits.

Shortened(n) == Min({n, TailMax})
Size(s) ==
    CASE s.kind = "text" -> Shortened(Len(s.pieces))
      [] s.kind = "thinking" -> 1 + Shortened(Len(s.pieces))
      [] s.kind = "subagent" -> IF s.calls = 0 THEN 2 ELSE 3
      [] OTHER -> 1

\* The positions of the segments that show something; what those at the positions of S
\* show together, and their text.
Visible(b) == {n \in DOMAIN b.segments : Size(b.segments[n]) > 0}
Total(b, S) == MapThenSumSet(LAMBDA n : Size(b.segments[n]), S)
StatusLength(status) == IF status = "none" THEN 0 ELSE StatusSize
Display(b, S, marker, size, status) ==
    [parts |-> [n \in S |-> b.segments[n]], marker |-> marker, status |-> status,
     size |-> IF marker THEN size + StatusLength(status) + MarkerSize
              ELSE size + StatusLength(status)]

\* Mutant: the newest segments are dropped.
RenderOldest(b, status) ==
    LET UpTo(k) == {n \in Visible(b) : n <= k}
        Text(k) == Display(b, UpTo(k), UpTo(k) # Visible(b), Total(b, UpTo(k)), status)
        fitting == {k \in Visible(b) : Text(k).size <= Limit}
    IN  IF fitting = {} THEN Display(b, {}, FALSE, 0, status) ELSE Text(Max(fitting))

\* When nothing fits, the tail of the newest segment is shown, or only the marker.
Render(b, status) ==
    LET From(k) == {n \in Visible(b) : n >= k}
        Newest(k) == Display(b, From(k), TRUE, Total(b, From(k)), status)
        fitting == {k \in Visible(b) : Newest(k).size <= Limit}
        room == Limit - MarkerSize - StatusLength(status)
    IN  IF Total(b, Visible(b)) + StatusLength(status) <= Limit
        THEN Display(b, Visible(b), FALSE, Total(b, Visible(b)), status)
        ELSE IF fitting # {} THEN Newest(Min(fitting))
        ELSE IF Visible(b) # {} /\ room > MinTail
        THEN Display(b, {Max(Visible(b))}, TRUE, room, status)
        ELSE Display(b, {}, Visible(b) # {} /\ room >= 0, 0, status)

------------------------------------------------------------------------------
\* The handler: one parsed event.

\* _get_status_for_event: progress is shown at most once a second; an update without
\* progress is forced.
IsProgress(e) == e.type \notin {"block_stop", "error", "complete"}

\* Mutant: only the end of a block is forced.
ForcedStops(e) == e.type = "block_stop"
Forced(e) == ~IsProgress(e)

StatusOf(e) ==
    CASE IsProgress(e) -> "busy"
      [] e.type = "block_stop" -> lastStatus
      [] OTHER -> e.type

Piece(by) == [no |-> events + 1, by |-> by]

\* _process_parsed_event: an event that completes a silent run says "Done.".
Handle ==
    /\ parsed # << >> /\ ~over /\ ~cancelled
    /\ LET e == Head(parsed)
       IN  /\ t' = IF e.type # "complete" THEN Apply(t, e)
                   ELSE IF had THEN t
                   ELSE Apply(t, Chunk("text", Piece("handler")))
           /\ had' = (had \/ e.type # "complete")
           /\ lastStatus' = (IF IsProgress(e) THEN "busy" ELSE lastStatus)
           /\ \/ shown' = Render(t', StatusOf(e))
              \/ ~Forced(e) /\ shown' = Stale
           /\ over' = (e.type = "complete")
    /\ parsed' = Tail(parsed)
    /\ UNCHANGED <<command, stream>>

\* A command, /stop or /clear, cancels the run, which handles no event any more.  A run
\* that has completed can still be cancelled while it gives its session back, unless its
\* node is COMPLETED.
Cancel ==
    /\ ~cancelled /\ (over => shown.status = "complete")
    /\ cancelled' = TRUE
    /\ UNCHANGED <<buffer, edited, stream>>

\* update_cancelled_nodes_ui: the command's own edit of the status message, before or
\* after the last one of the run, which may wait for its process to end.
JustStopped == [parts |-> << >>, marker |-> FALSE, size |-> StatusSize, status |-> "stopped"]
EditStopped ==
    /\ cancelled /\ ~edited
    /\ edited' = TRUE /\ shown' = JustStopped
    /\ UNCHANGED <<t, parsed, had, lastStatus, over, cancelled, stream>>

\* The run ends early: stopped by reply, which adds no error, or cancelled by another
\* command or with the program, or because it raises.
Abort(status) ==
    /\ ~over /\ (status = "stopped" => cancelled)
    /\ t' = IF status = "stopped" THEN t ELSE Apply(t, Error(Piece("handler")))
    /\ shown' = Render(t', status)
    /\ parsed' = << >> /\ over' = TRUE
    /\ UNCHANGED <<had, lastStatus, command, stream>>

------------------------------------------------------------------------------
\* The CLI.  While subagents run the agent waits for them and the stream is theirs.
Speaker == IF tasks = << >> THEN "main" ELSE "sub"
Send(es) ==
    /\ ~over /\ ~cancelled /\ parsed = << >> /\ events < MaxEvents
    /\ events' = events + 1 /\ parsed' = es
    /\ UNCHANGED <<t, had, lastStatus, shown, over, command, streamed, ids>>

\* An assistant message with a text or a thought.
Say(kind) ==
    /\ ~streamed
    /\ Send(<<Chunk(kind, Piece(Speaker))>>)
    /\ UNCHANGED <<tasks, block, crossed>>

\* A streamed block is begun, also where one was not ended; one whose start the
\* provider omits begins with its first delta.
Open(kind, i, type) ==
    /\ streamed /\ (type = "delta" => block[i] = NoBlock)
    /\ Send(<<[Begin(kind, i, Piece(Speaker)) EXCEPT !.type = type]>>)
    /\ block' = [block EXCEPT ![i] = [kind |-> kind, by |-> Speaker, no |-> events + 1]]
    /\ UNCHANGED <<tasks, crossed>>

Continue(i) ==
    /\ block[i] # NoBlock /\ block[i].by = Speaker
    /\ Send(<<IF block[i].kind = "tool" THEN InputDelta
              ELSE Delta(block[i].kind, i, [no |-> block[i].no, by |-> Speaker])>>)
    /\ UNCHANGED <<tasks, block, crossed>>

End(i) ==
    /\ block[i] # NoBlock
    /\ Send(<<BlockStop(i)>>)
    /\ block' = [block EXCEPT ![i] = NoBlock]
    /\ UNCHANGED <<tasks, crossed>>

\* A tool call, in a message or streamed; an id appears with the result at the latest.
IdOfCall(id) == IF ids = "given" THEN id ELSE NoId
Call(i, id, name) ==
    /\ streamed = (i # NoIndex)
    /\ Send(<<Use(i, IdOfCall(id), name, Piece(Speaker))>>)
    /\ block' = IF i = NoIndex THEN block
                ELSE [block EXCEPT ![i] = [kind |-> "tool", by |-> Speaker, no |-> events + 1]]
    /\ UNCHANGED crossed

CallOther(i, id) == Call(i, id, "tool") /\ UNCHANGED tasks
Launch(i, id) ==
    /\ \A n \in DOMAIN tasks : tasks[n] # id
    /\ Call(i, id, "Task")
    /\ tasks' = Append(tasks, id)

\* A user message with the result of a tool; some providers extend the id of a Task.
ReturnOther(id) ==
    /\ Send(<<Result(IF ids = "absent" THEN NoId ELSE id)>>)
    /\ UNCHANGED <<tasks, block, crossed>>
Return(n, suffix) ==
    /\ n \in DOMAIN tasks
    /\ Send(<<Result(IF ids = "absent" THEN NoId ELSE tasks[n] \o suffix)>>)
    /\ tasks' = RemoveAt(tasks, n)
    /\ crossed' = (crossed \/ (ids = "given" /\ n < Len(tasks)))
    /\ UNCHANGED block

\* Text on stderr is an error event; the exit ends the stream.
Fail == Send(<<Error(Piece("cli"))>>) /\ UNCHANGED <<tasks, block, crossed>>
Leave(code) == Send(Exit(code, Piece("cli"))) /\ UNCHANGED <<tasks, block, crossed>>

CLI ==
    \/ \E k \in Kinds : Say(k)
    \/ \E k \in Kinds, i \in Index, type \in {"start", "delta"} : Open(k, i, type)
    \/ \E i \in Index : Continue(i) \/ End(i)
    \/ \E i \in Index \cup {NoIndex}, id \in ToolId : CallOther(i, id)
    \/ \E i \in Index \cup {NoIndex}, id \in TaskId : Launch(i, id)
    \/ \E id \in ToolId : ReturnOther(id)
    \/ \E n \in DOMAIN tasks, suffix \in {<< >>, <<"result">>} : Return(n, suffix)
    \/ Fail
    \/ \E code \in {0, 1} : Leave(code)

Next ==
    \/ CLI
    \/ Handle
    \/ Cancel \/ EditStopped
    \/ \E status \in {"stopped", "failed"} : Abort(status)

Spec == Init /\ [][Next]_vars

------------------------------------------------------------------------------
(* Properties.                                                             *)

Id == Seq(STRING) \cup {Synthetic(n) : n \in 1..MaxEvents}
Written == [no : Nat, by : {"main", "sub", "cli", "handler"}]
Segment == [kind : Kinds \cup {"tool_call", "subagent", "error"},
            no : Nat, pieces : Seq(Written), calls : Nat]
Buffer == [segments : Seq(Segment),
           open : [Kinds -> [Index \cup {NoIndex} -> Nat]],
           tools : SUBSET Index,
           names : SUBSET (Id \X Name),
           stack : Seq(Id),
           agents : Seq(Nat)]

\* What the maps and the stack of a transcript refer to is there.
Standing(b) ==
    /\ b \in Buffer
    /\ \A k \in Kinds, i \in Index \cup {NoIndex} : b.open[k][i] \in 0..Len(b.segments)
    /\ Len(b.agents) = Len(b.stack)
    /\ \A n \in DOMAIN b.agents : b.agents[n] \in 1..Len(b.segments)

TypeOK ==
    /\ Standing(t)
    /\ {had, over, streamed, crossed} \subseteq BOOLEAN
    /\ {cancelled, edited} \subseteq BOOLEAN
    /\ ids \in {"given", "late", "absent"} /\ tasks \in Seq(TaskId)
    /\ block \in [Index -> [kind : {"none", "tool"} \cup Kinds,
                           by : {"none", "main", "sub"}, no : Nat]]
    /\ events \in 0..MaxEvents

\* Subagents return youngest first, or their calls have no ids; results have ids.
Nested == ~crossed /\ ids # "absent"
Pieces == UNION {{<<n, p>> : p \in ToSet(t.segments[n].pieces)} : n \in DOMAIN t.segments}

\* "Inside a Task/subagent, we only show tool calls/results" (transcript.py:343): then
\* nothing a subagent writes is shown.
HidesSubagents == Nested => \A x \in Pieces : x[2].by # "sub"

\* The transcript is ordered: the segments stand in the order in which the stream began
\* what they show, and no piece of a block is in the segment of another, though indices
\* are used again, blocks are left open and starts or stops are missing.
InOrder ==
    Nested => /\ \A m, n \in DOMAIN t.segments :
                    m < n => t.segments[m].no <= t.segments[n].no
              /\ \A x \in Pieces : x[2].no = t.segments[x[1]].no

\* When no subagent runs any more nothing is suppressed, in whatever order they
\* returned and whatever the provider did with the ids, as long as a task's id contains
\* "task" (IdAssumption): a made-up id is not popped for a result with another id.
NoDepthDrift == parsed = << >> /\ tasks = << >> /\ ~over => ~InSubagent(t)

\* When the run is over the chat shows the whole transcript, although updates are skipped
\* within a second of the last, unless a command cancelled the run and its edit came last:
\* then "Stopped." stands alone.
FinalIsShown ==
    over => shown = Render(t, shown.status) \/ (edited /\ shown = JustStopped)

\* The text fits the message, unless it is the status alone, and what a run leaves, but for
\* that "Stopped.", ends with the newest segment whenever a tail of one fits.
ShowsTheNewest ==
    /\ shown.size <= Limit \/ shown.size = StatusLength(shown.status)
    /\ over /\ shown # JustStopped /\ Visible(t) # {} /\ Limit > MarkerSize + StatusSize + MinTail
          => LET newest == Max(Visible(t))
             IN  newest \in DOMAIN shown.parts /\ shown.parts[newest] = t.segments[newest]

============================================================================
