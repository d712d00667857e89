--------------------------- MODULE SSEStream_proofs ---------------------------
(***************************************************************************)
(* The translation of a stream, for any fragments, indices and number of   *)
(* chunks: its types, that the input of a Task tool is one document, that  *)
(* a message which ends is not empty, and that the events are in the order *)
(* of AnthropicStream.                                                     *)
(***************************************************************************)
EXTENDS SSEStream, FiniteSetTheorems, SequenceTheorems, TLAPS

------------------------------------------------------------------------------
(* Names.                                                                  *)

\* A prefix agrees with what it begins, piece by piece.
LEMMA PrefixByIndex ==
    ASSUME NEW s \in Seq(STRING), NEW t \in Seq(STRING)
    PROVE  IsPrefixOf(s, t) <=> Len(s) <= Len(t) /\ \A i \in 1..Len(s) : t[i] = s[i]
<1>0. Len(s) \in Nat /\ Len(t) \in Nat
  OBVIOUS
<1>1. ASSUME Len(s) <= Len(t)
      PROVE  /\ SubSeq(t, 1, Len(s)) \in Seq(STRING)
             /\ Len(SubSeq(t, 1, Len(s))) = Len(s)
             /\ \A i \in 1..Len(s) : SubSeq(t, 1, Len(s))[i] = t[i]
  <2>1. \A i \in 1..Len(s) : t[i] \in STRING
    BY <1>0, <1>1
  <2> QED BY <1>0, <2>1, SubSeqProperties
<1>2. ASSUME IsPrefixOf(s, t) PROVE \A i \in 1..Len(s) : t[i] = s[i]
  BY <1>1, <1>2 DEF IsPrefixOf
<1>3. ASSUME Len(s) <= Len(t), \A i \in 1..Len(s) : t[i] = s[i] PROVE IsPrefixOf(s, t)
  <2>1. SubSeq(t, 1, Len(s)) = s
    BY <1>1, <1>3, SeqEqual
  <2> QED BY <1>3, <2>1 DEF IsPrefixOf
<1> QED BY <1>2, <1>3 DEF IsPrefixOf

LEMMA PrefixOrder ==
    ASSUME NEW s \in Seq(STRING), NEW t \in Seq(STRING), NEW u \in Seq(STRING)
    PROVE  /\ IsPrefixOf(s, s)
           /\ IsPrefixOf(<< >>, s)
           /\ IsPrefixOf(s, t) /\ IsPrefixOf(t, u) => IsPrefixOf(s, u)
           /\ IsPrefixOf(s, t) /\ IsPrefixOf(t, s) => s = t
           /\ IsPrefixOf(s, s \o t)
<1>0. Len(s) \in Nat /\ Len(t) \in Nat /\ Len(u) \in Nat
  OBVIOUS
<1>1. IsPrefixOf(s, s)
  BY <1>0, PrefixByIndex
<1>2. IsPrefixOf(<< >>, s)
  <2>1. << >> \in Seq(STRING) /\ Len(<< >>) = 0
    OBVIOUS
  <2>2. Len(<< >>) <= Len(s) /\ \A i \in 1..Len(<< >>) : s[i] = << >>[i]
    BY <1>0, <2>1
  <2> QED BY <2>1, <2>2, PrefixByIndex
<1>3. IsPrefixOf(s, t) /\ IsPrefixOf(t, u) => IsPrefixOf(s, u)
  <2> SUFFICES ASSUME IsPrefixOf(s, t), IsPrefixOf(t, u) PROVE IsPrefixOf(s, u)
    OBVIOUS
  <2>1. Len(s) <= Len(t) /\ \A i \in 1..Len(s) : t[i] = s[i]
    BY PrefixByIndex
  <2>2. Len(t) <= Len(u) /\ \A i \in 1..Len(t) : u[i] = t[i]
    BY PrefixByIndex
  <2>3. Len(s) <= Len(u) /\ \A i \in 1..Len(s) : u[i] = s[i]
    BY <1>0, <2>1, <2>2
  <2> QED BY <2>3, PrefixByIndex
<1>4. IsPrefixOf(s, t) /\ IsPrefixOf(t, s) => s = t
  <2> SUFFICES ASSUME IsPrefixOf(s, t), IsPrefixOf(t, s) PROVE s = t
    OBVIOUS
  <2>1. Len(s) = Len(t) /\ \A i \in 1..Len(s) : s[i] = t[i]
    BY <1>0, PrefixByIndex
  <2> QED BY <2>1, SeqEqual
<1>5. IsPrefixOf(s, s \o t)
  <2>1. /\ s \o t \in Seq(STRING) /\ Len(s) <= Len(s \o t)
        /\ \A i \in 1..Len(s) : (s \o t)[i] = s[i]
    BY <1>0
  <2> QED BY <2>1, PrefixByIndex
<1> QED BY <1>1, <1>2, <1>3, <1>4, <1>5

\* A name only grows.
LEMMA MergedGrows ==
    ASSUME NEW prev \in Seq(STRING), NEW name \in Seq(STRING)
    PROVE  Merged(prev, name) \in Seq(STRING) /\ IsPrefixOf(prev, Merged(prev, name))
<1>1. prev \o name \in Seq(STRING)
  OBVIOUS
<1> QED BY <1>1, PrefixOrder DEF Merged

------------------------------------------------------------------------------
(* One tool.                                                               *)

\* A fragment of its name does not disturb a tool that is started.
LEMMA NamedTool ==
    ASSUME NEW tool \in ToolState, ToolInv(tool), NEW name \in Seq(STRING)
    PROVE  LET named == [tool EXCEPT !.name = Merged(@, name)]
           IN  /\ named \in ToolState
               /\ named.started = tool.started /\ named.block = tool.block
               /\ named.buffer = tool.buffer /\ named.emitted = tool.emitted
               /\ named.raw = tool.raw /\ named.docs = tool.docs
               /\ tool.started => ToolInv(named)
<1> DEFINE named == [tool EXCEPT !.name = Merged(@, name)]
<1>1. tool.name \in Seq(STRING) /\ tool.shown \in Seq(STRING)
  BY DEF ToolState, Name
<1>2. Merged(tool.name, name) \in Seq(STRING) /\ IsPrefixOf(tool.name, Merged(tool.name, name))
  BY <1>1, MergedGrows
<1>3. /\ named \in ToolState /\ named.name = Merged(tool.name, name)
      /\ named.started = tool.started /\ named.block = tool.block /\ named.shown = tool.shown
      /\ named.buffer = tool.buffer /\ named.emitted = tool.emitted
      /\ named.raw = tool.raw /\ named.docs = tool.docs
  BY <1>2 DEF ToolState, Name
<1>4. IsPrefixOf(tool.shown, tool.name) => IsPrefixOf(tool.shown, named.name)
  BY <1>1, <1>2, <1>3, PrefixOrder
<1>5. IsPrefixOf(Task, tool.name) => IsPrefixOf(Task, named.name)
  BY <1>1, <1>2, <1>3, PrefixOrder, StreamAssumption
<1>6. ASSUME tool.started, tool.shown = Task, named.name = Task PROVE tool.name = Task
  <2>1. IsPrefixOf(Task, tool.name)
    BY <1>6, TaskAssumption, PrefixOrder, StreamAssumption DEF ToolInv
  <2>2. IsPrefixOf(tool.name, Task)
    BY <1>2, <1>3, <1>6
  <2> QED BY <1>1, <2>1, <2>2, PrefixOrder, StreamAssumption
<1> HIDE DEF named
<1>7. tool.started => ToolInv(named)
  BY <1>3, <1>4, <1>5, <1>6 DEF ToolInv
<1> QED BY <1>3, <1>7 DEF named

\* A tool that is started is shown under its name, or as an unnamed one.
LEMMA BegunTool ==
    ASSUME NEW tool \in ToolState, NEW block \in Int, NEW shown \in Seq(STRING),
           shown = tool.name \/ shown = ToolCall,
           ~tool.raw, ~tool.emitted, tool.docs = 0, tool.buffer = "empty"
    PROVE  LET begun == [tool EXCEPT !.started = TRUE, !.block = block, !.shown = shown]
           IN  /\ begun \in ToolState /\ ToolInv(begun)
               /\ begun.started /\ begun.block = block
<1> DEFINE begun == [tool EXCEPT !.started = TRUE, !.block = block, !.shown = shown]
<1>1. /\ begun \in ToolState /\ begun.started /\ begun.block = block
      /\ begun.shown = shown /\ begun.name = tool.name /\ ~begun.raw /\ ~begun.emitted
      /\ begun.docs = 0 /\ begun.buffer = "empty"
  BY DEF ToolState, Name
<1>2. IsPrefixOf(tool.name, tool.name)
  BY PrefixOrder DEF ToolState, Name
<1> HIDE DEF begun
<1>3. ToolInv(begun)
  BY <1>1, <1>2 DEF ToolInv
<1> QED BY <1>1, <1>3 DEF begun

\* Arguments go to a started tool: as they come, or buffered while it is called Task.
LEMMA SentTool ==
    ASSUME NEW tool \in ToolState, ToolInv(tool), tool.started, NEW args
    PROVE  /\ tool.name = Task =>
                LET sent == WithArguments(tool, args)
                IN  /\ sent \in ToolState /\ ToolInv(sent)
                    /\ sent.started /\ sent.block = tool.block
           /\ tool.name # Task =>
                LET sent == [tool EXCEPT !.raw = TRUE]
                IN  /\ sent \in ToolState /\ ToolInv(sent)
                    /\ sent.started /\ sent.block = tool.block
<1>1. tool.name \in Seq(STRING) /\ tool.shown \in Seq(STRING) /\ IsPrefixOf(Task, Task)
  BY PrefixOrder, StreamAssumption DEF ToolState, Name
<1>2. ASSUME tool.name = Task, NEW sent, sent = WithArguments(tool, args)
      PROVE  sent \in ToolState /\ ToolInv(sent) /\ sent.started /\ sent.block = tool.block
  <2>1. CASE tool.emitted
    BY <1>2, <2>1 DEF WithArguments
  <2>2. CASE ~tool.emitted
    <3>0. tool.docs = 0
      BY <2>2 DEF ToolInv
    <3>1. /\ sent \in ToolState /\ sent.started /\ sent.block = tool.block
          /\ sent.name = Task /\ sent.shown = tool.shown /\ sent.raw = tool.raw
          /\ sent.docs = IF sent.emitted THEN 1 ELSE 0
          /\ sent.buffer = "partial" => ~sent.emitted
      <4>1. CASE args = "complete"
        <5>1. sent = [tool EXCEPT !.buffer = "empty", !.emitted = TRUE, !.docs = 1]
          BY <1>2, <2>2, <3>0, <4>1 DEF WithArguments
        <5>2. sent \in ToolState
          BY <5>1 DEF ToolState
        <5>3. /\ sent.started = tool.started /\ sent.block = tool.block
              /\ sent.name = tool.name /\ sent.shown = tool.shown /\ sent.raw = tool.raw
              /\ sent.docs = 1 /\ sent.emitted /\ sent.buffer = "empty"
          BY <5>1 DEF ToolState
        <5> QED BY <1>2, <5>2, <5>3
      <4>2. CASE args # "complete"
        <5>1. sent = [tool EXCEPT !.buffer = "partial"]
          BY <1>2, <2>2, <4>2 DEF WithArguments
        <5> QED BY <1>2, <2>2, <3>0, <5>1 DEF ToolState
      <4> QED BY <4>1, <4>2
    <3>2. IsPrefixOf(tool.shown, Task) \/ tool.shown = ToolCall
      BY <1>2 DEF ToolInv
    <3>3. tool.shown = Task => ~tool.raw
      BY <1>2 DEF ToolInv
    <3> QED BY <1>1, <3>1, <3>2, <3>3 DEF ToolInv
  <2> QED BY <2>1, <2>2
<1>3. ASSUME tool.name # Task, NEW sent, sent = [tool EXCEPT !.raw = TRUE]
      PROVE  sent \in ToolState /\ ToolInv(sent) /\ sent.started /\ sent.block = tool.block
  <2>1. /\ sent \in ToolState /\ sent.started /\ sent.block = tool.block
        /\ sent.name = tool.name /\ sent.shown = tool.shown /\ sent.docs = tool.docs
        /\ sent.emitted = tool.emitted /\ sent.buffer = tool.buffer
    BY <1>3 DEF ToolState
  <2> QED BY <1>3, <2>1 DEF ToolInv
<1> QED BY <1>2, <1>3

------------------------------------------------------------------------------
(* A native tool call.                                                     *)

\* A tool that has not begun has got nothing.
Untouched(tool) ==
    ~tool.started /\ tool.block = -1 /\ ~tool.raw /\ ~tool.emitted
    /\ tool.docs = 0 /\ tool.buffer = "empty"

LEMMA NewToolUntouched ==
    ASSUME NEW name \in Seq(STRING)
    PROVE  NewTool(name) \in ToolState /\ Untouched(NewTool(name)) /\ NewTool(name).name = name
<1>1. << >> \in Seq(STRING)
  OBVIOUS
<1> QED BY <1>1 DEF NewTool, ToolState, Untouched, Name

\* Of the tools but the one called none is disturbed; the one called, where there is one,
\* is a sound tool in its old block or in a new one.
Disturbs(states, i, starts) ==
    /\ DOMAIN tools \subseteq DOMAIN states /\ DOMAIN states \subseteq DOMAIN tools \cup {i}
    /\ \A t \in DOMAIN tools \ {i} : states[t] = tools[t]
    /\ i \in DOMAIN states =>
          /\ states[i] \in ToolState /\ ToolInv(states[i])
          /\ starts => states[i].started /\ states[i].block = next
          /\ ~starts /\ states[i].started =>
                i \in DOMAIN tools /\ tools[i].started /\ states[i].block = tools[i].block
          /\ i \in DOMAIN tools /\ tools[i].started => states[i].started
    /\ starts => i \in DOMAIN states /\ (i \in DOMAIN tools => ~tools[i].started)

LEMMA RegisterName ==
    ASSUME TypeOK, StreamInv, NEW i, NEW name \in Fragments \cup {Absent}
    PROVE  LET named == RegisterToolName(i, name)
           IN  /\ DOMAIN tools \subseteq DOMAIN named
               /\ DOMAIN named \subseteq DOMAIN tools \cup {i}
               /\ \A t \in DOMAIN tools \ {i} : named[t] = tools[t]
               /\ i \in DOMAIN named =>
                     /\ named[i] \in ToolState
                     /\ named[i].started =>
                           /\ ToolInv(named[i])
                           /\ i \in DOMAIN tools /\ tools[i].started
                           /\ named[i].block = tools[i].block
                     /\ ~named[i].started => Untouched(named[i])
                     /\ i \in DOMAIN tools /\ tools[i].started => named[i].started
<1> DEFINE named == RegisterToolName(i, name)
<1>1. \A t \in DOMAIN tools : tools[t] \in ToolState /\ ToolInv(tools[t])
  BY DEF TypeOK, StreamInv
<1>2. \A t \in DOMAIN tools : ~tools[t].started => Untouched(tools[t])
  BY <1>1 DEF ToolInv, Untouched
<1>3. CASE name = Absent
  <2>1. named = tools
    BY <1>3 DEF RegisterToolName
  <2> QED BY <1>1, <1>2, <2>1
<1>4. CASE name # Absent /\ i \in DOMAIN tools
  <2>0. name \in Seq(STRING)
    BY <1>4, StreamAssumption
  <2> DEFINE tool == tools[i]
             renamed == [tool EXCEPT !.name = Merged(@, name)]
  <2>1. named = [tools EXCEPT ![i] = renamed]
    BY <1>4 DEF RegisterToolName
  <2>2. tool \in ToolState /\ ToolInv(tool) /\ (~tool.started => Untouched(tool))
    BY <1>1, <1>2, <1>4
  <2> HIDE DEF tool
  <2>3. /\ renamed \in ToolState
        /\ renamed.started = tool.started /\ renamed.block = tool.block
        /\ renamed.buffer = tool.buffer /\ renamed.emitted = tool.emitted
        /\ renamed.raw = tool.raw /\ renamed.docs = tool.docs
        /\ tool.started => ToolInv(renamed)
    BY <2>0, <2>2, NamedTool
  <2> HIDE DEF renamed
  <2>4. ~renamed.started => Untouched(renamed)
    BY <2>2, <2>3 DEF Untouched
  <2>5. DOMAIN named = DOMAIN tools /\ named[i] = renamed
        /\ \A t \in DOMAIN tools \ {i} : named[t] = tools[t]
    BY <2>1, <1>4
  <2> HIDE DEF named
  <2> QED BY <1>4, <2>3, <2>4, <2>5 DEF tool, named
<1>5. CASE name # Absent /\ i \notin DOMAIN tools
  <2>0. name \in Seq(STRING)
    BY <1>5, StreamAssumption
  <2>1. named = With(tools, i, NewTool(name))
    BY <1>5 DEF RegisterToolName
  <2>2. NewTool(name) \in ToolState /\ Untouched(NewTool(name))
    BY <2>0, NewToolUntouched
  <2>3. /\ DOMAIN named = DOMAIN tools \cup {i} /\ named[i] = NewTool(name)
        /\ \A t \in DOMAIN tools \ {i} : named[t] = tools[t]
    BY <2>1 DEF With
  <2>4. ~NewTool(name).started
    BY <2>2 DEF Untouched
  <2> HIDE DEF named
  <2> QED BY <1>5, <2>2, <2>3, <2>4 DEF named
<1> QED BY <1>3, <1>4, <1>5

LEMMA BeginTool ==
    ASSUME TypeOK, StreamInv, NEW i, NEW hasId \in BOOLEAN,
           NEW name \in Fragments \cup {Absent}, NEW args
    PROVE  LET named == RegisterToolName(i, name)
               starts == Starts(named, i, hasId, args)
               begun == IF starts THEN StartToolBlock(named, i, hasId) ELSE named
           IN  /\ Disturbs(begun, i, starts)
               /\ args # "none" => i \in DOMAIN begun /\ begun[i].started
<1> DEFINE named == RegisterToolName(i, name)
           starts == Starts(named, i, hasId, args)
           begun == IF starts THEN StartToolBlock(named, i, hasId) ELSE named
<1>1. /\ DOMAIN tools \subseteq DOMAIN named
      /\ DOMAIN named \subseteq DOMAIN tools \cup {i}
      /\ \A t \in DOMAIN tools \ {i} : named[t] = tools[t]
      /\ i \in DOMAIN named =>
            /\ named[i] \in ToolState
            /\ named[i].started =>
                  /\ ToolInv(named[i])
                  /\ i \in DOMAIN tools /\ tools[i].started
                  /\ named[i].block = tools[i].block
            /\ ~named[i].started => Untouched(named[i])
            /\ i \in DOMAIN tools /\ tools[i].started => named[i].started
  BY RegisterName
<1>2. << >> \in Seq(STRING) /\ ToolCall \in Seq(STRING) /\ next \in Int
  BY StreamAssumption DEF TypeOK
<1> HIDE DEF named
<1>3. CASE starts
  <2> DEFINE called == IF i \in DOMAIN named THEN named[i].name ELSE << >>
             shown == IF called = << >> /\ ~hasId THEN ToolCall ELSE called
             tool == IF i \in DOMAIN named THEN named[i] ELSE NewTool(shown)
             new == [tool EXCEPT !.started = TRUE, !.block = next, !.shown = shown]
  <2>1. begun = With(named, i, new)
    BY <1>3 DEF StartToolBlock
  <2>2. i \in DOMAIN named => ~named[i].started
    BY <1>3 DEF Starts
  <2>3. called \in Seq(STRING) /\ shown \in Seq(STRING)
    BY <1>1, <1>2 DEF ToolState, Name
  <2>4. tool \in ToolState /\ Untouched(tool) /\ (shown = tool.name \/ shown = ToolCall)
    <3>1. CASE i \in DOMAIN named
      BY <1>1, <2>2, <3>1
    <3>2. CASE i \notin DOMAIN named
      BY <2>3, <3>2, NewToolUntouched
    <3> QED BY <3>1, <3>2
  <2> HIDE DEF tool, shown, called
  <2>5. new \in ToolState /\ ToolInv(new) /\ new.started /\ new.block = next
    BY <1>2, <2>3, <2>4, BegunTool DEF Untouched
  <2>6. /\ DOMAIN begun = DOMAIN named \cup {i} /\ begun[i] = new
        /\ \A t \in DOMAIN named \ {i} : begun[t] = named[t]
    BY <2>1 DEF With
  <2>7. i \in DOMAIN tools => ~tools[i].started
    BY <1>1, <2>2
  <2> HIDE DEF begun, starts, new
  <2>8. Disturbs(begun, i, starts)
    BY <1>1, <1>3, <2>5, <2>6, <2>7 DEF Disturbs
  <2> QED BY <2>5, <2>6, <2>8 DEF begun, starts, named
<1>4. CASE ~starts
  <2>1. begun = named
    BY <1>4
  <2>2. i \in DOMAIN named /\ ~named[i].started => named[i].name = << >> /\ args = "none"
    BY <1>4 DEF Starts
  <2>3. args # "none" => i \in DOMAIN named /\ named[i].started
    BY <1>4 DEF Starts
  <2>4. i \in DOMAIN named => ToolInv(named[i])
    BY <1>1, <2>2 DEF Untouched, ToolInv
  <2> HIDE DEF begun, starts
  <2>5. Disturbs(begun, i, starts)
    BY <1>1, <1>4, <2>1, <2>4 DEF Disturbs
  <2> QED BY <2>1, <2>3, <2>5 DEF begun, starts, named
<1> QED BY <1>3, <1>4

\* Arguments stay with the tool and its block.
LEMMA SendArguments ==
    ASSUME NEW begun, NEW i, NEW starts \in BOOLEAN, Disturbs(begun, i, starts),
           i \in DOMAIN begun, begun[i].started, NEW args
    PROVE  /\ begun[i].name = Task =>
                Disturbs([begun EXCEPT ![i] = WithArguments(@, args)], i, starts)
           /\ begun[i].name # Task => Disturbs([begun EXCEPT ![i].raw = TRUE], i, starts)
<1>1. begun[i] \in ToolState /\ ToolInv(begun[i])
  BY DEF Disturbs
<1>2. ASSUME NEW sent \in ToolState, ToolInv(sent), sent.started, sent.block = begun[i].block
      PROVE  Disturbs([begun EXCEPT ![i] = sent], i, starts)
  <2> DEFINE states == [begun EXCEPT ![i] = sent]
  <2>1. DOMAIN states = DOMAIN begun /\ states[i] = sent
        /\ \A t \in DOMAIN begun \ {i} : states[t] = begun[t]
    OBVIOUS
  <2> HIDE DEF states
  <2>2. Disturbs(states, i, starts)
    BY <1>2, <2>1 DEF Disturbs
  <2> QED BY <2>2 DEF states
<1>3. begun[i].name = Task =>
          Disturbs([begun EXCEPT ![i] = WithArguments(begun[i], args)], i, starts)
  BY <1>1, <1>2, SentTool
<1>4. begun[i].name # Task =>
          Disturbs([begun EXCEPT ![i] = [begun[i] EXCEPT !.raw = TRUE]], i, starts)
  BY <1>1, <1>2, SentTool
<1> QED BY <1>3, <1>4

\* What TypeOK and StreamInv say of the tools when n blocks have been allocated.
Sound(states, n) ==
    /\ IsFiniteSet(DOMAIN states)
    /\ \A t \in DOMAIN states :
          /\ t \in Nat /\ states[t] \in ToolState /\ ToolInv(states[t])
          /\ states[t].started <=> states[t].block \in 0..n - 1
    /\ \A t, u \in DOMAIN states :
          t # u /\ states[t].started => states[t].block # states[u].block

LEMMA SoundTools == TypeOK /\ StreamInv => Sound(tools, next)
  BY DEF TypeOK, StreamInv, Sound

LEMMA DisturbedSound ==
    ASSUME TypeOK, StreamInv, NEW i \in Nat, NEW starts \in BOOLEAN, NEW states,
           Disturbs(states, i, starts)
    PROVE  Sound(states, IF starts THEN next + 1 ELSE next)
<1> DEFINE n == IF starts THEN next + 1 ELSE next
<1>0. Sound(tools, next) /\ next \in Nat
  BY SoundTools DEF TypeOK
<1>1. IsFiniteSet(DOMAIN states)
  <2>1. IsFiniteSet(DOMAIN tools \cup {i})
    BY <1>0, FS_AddElement DEF Sound
  <2> QED BY <2>1, FS_Subset DEF Disturbs
<1>2. \A t \in DOMAIN states \ {i} : t \in DOMAIN tools /\ states[t] = tools[t]
  BY DEF Disturbs
<1>3. \A t \in DOMAIN states :
          /\ t \in Nat /\ states[t] \in ToolState /\ ToolInv(states[t])
          /\ states[t].block \in Int /\ (~states[t].started => states[t].block = -1)
  <2>1. \A t \in DOMAIN states :
            t \in Nat /\ states[t] \in ToolState /\ ToolInv(states[t])
    BY <1>0, <1>2 DEF Disturbs, Sound
  <2> QED BY <2>1 DEF ToolState, ToolInv
<1>4. \A t \in DOMAIN states : states[t].started <=> states[t].block \in 0..n - 1
  <2>1. ASSUME NEW t \in DOMAIN states \ {i}, states[t].started
        PROVE  states[t].block \in 0..next - 1
    BY <1>0, <1>2, <2>1 DEF Sound
  <2>2. ASSUME i \in DOMAIN states, states[i].started PROVE states[i].block \in 0..n - 1
    BY <1>0, <2>2 DEF Sound, Disturbs
  <2> QED BY <1>0, <1>3, <2>1, <2>2
<1>5. \A t, u \in DOMAIN states :
          t # u /\ states[t].started => states[t].block # states[u].block
  <2> SUFFICES ASSUME NEW t \in DOMAIN states, NEW u \in DOMAIN states, t # u,
                      states[t].started, states[t].block = states[u].block
               PROVE  FALSE
    OBVIOUS
  <2>1. states[u].started
    BY <1>0, <1>4
  <2>2. CASE t # i /\ u # i
    BY <2>2, <1>0, <1>2 DEF Sound
  <2>3. ASSUME NEW v \in DOMAIN states \ {i}, i \in DOMAIN states, states[i].started,
               states[v].started
        PROVE  states[i].block # states[v].block
    <3>1. v \in DOMAIN tools /\ states[v] = tools[v] /\ tools[v].block \in 0..next - 1
      BY <2>3, <1>0, <1>2 DEF Sound
    <3>2. CASE starts
      BY <2>3, <3>1, <3>2, <1>0 DEF Disturbs
    <3>3. CASE ~starts
      BY <2>3, <3>1, <3>3, <1>0 DEF Disturbs, Sound
    <3> QED BY <3>2, <3>3
  <2> QED BY <2>1, <2>2, <2>3
<1> HIDE DEF n
<1>6. Sound(states, n)
  BY <1>1, <1>3, <1>4, <1>5 DEF Sound
<1> QED BY <1>6 DEF n

\* What a step that goes on with the content, before the blocks are closed, has to keep.
LEMMA StepSound ==
    ASSUME TypeOK, StreamInv, Sound(tools, next)', next' \in Nat, next' >= next,
           thinking' \in -1..next' - 1, text' \in -1..next' - 1, thinking' = -1 \/ text' = -1,
           textSent' \in BOOLEAN, textSent' => textSent \/ next' > 0,
           failed' \in BOOLEAN, failed' => failed \/ next' > 0,
           chunks' \in 0..MaxChunks, phase' \in Phase \ {"closing", "ending", "ended"}
    PROVE  TypeOK' /\ StreamInv'
<1>1. failed' \/ textSent' => next' > 0
  BY DEF StreamInv, TypeOK
<1> QED BY <1>1 DEF TypeOK, StreamInv, Sound

LEMMA NativeStep ==
    ASSUME TypeOK, StreamInv, NEW index \in Indices, NEW hasId \in BOOLEAN,
           NEW name \in Fragments \cup {Absent}, NEW args,
           NativeToolCall(index, hasId, name, args)
    PROVE  TypeOK' /\ StreamInv'
<1> DEFINE i == IF index < 0 THEN Cardinality(DOMAIN tools) ELSE index
           named == RegisterToolName(i, name)
           starts == Starts(named, i, hasId, args)
           begun == IF starts THEN StartToolBlock(named, i, hasId) ELSE named
           sent == IF args = "none" THEN begun
                   ELSE IF begun[i].name = Task
                   THEN [begun EXCEPT ![i] = WithArguments(@, args)]
                   ELSE [begun EXCEPT ![i].raw = TRUE]
<1>1. /\ tools' = sent /\ next' = (IF starts THEN next + 1 ELSE next)
      /\ thinking' = -1 /\ text' = -1 /\ textSent' = textSent
      /\ phase = "streaming" /\ phase' \in {"streaming", "failing"}
      /\ chunks < MaxChunks /\ chunks' = chunks + 1 /\ failed' = failed
  BY DEF NativeToolCall, ProcessToolCall, Receives, Ready, ContentClosed
<1>2. i \in Nat
  BY StreamAssumption, FS_CardinalityType DEF StreamInv
<1>3. starts \in BOOLEAN
  BY DEF Starts
<1>4. Disturbs(begun, i, starts) /\ (args # "none" => i \in DOMAIN begun /\ begun[i].started)
  BY BeginTool
<1> HIDE DEF i, starts, begun
<1>5. Disturbs(sent, i, starts)
  BY <1>3, <1>4, SendArguments
<1> HIDE DEF sent
<1>6. Sound(sent, IF starts THEN next + 1 ELSE next)
  BY <1>2, <1>3, <1>5, DisturbedSound
<1>7. Sound(tools, next)'
  BY <1>1, <1>6 DEF Sound
<1>8. next \in Nat /\ next' \in Nat /\ next' >= next /\ chunks' \in 0..MaxChunks
  BY <1>1, StreamAssumption DEF TypeOK
<1>9. thinking' \in -1..next' - 1 /\ text' \in -1..next' - 1
  BY <1>1, <1>8
<1> QED BY <1>1, <1>7, <1>8, <1>9, StepSound DEF TypeOK, Phase

------------------------------------------------------------------------------
(* The other steps.                                                        *)

LEMMA ToolsStay ==
    ASSUME TypeOK, StreamInv, tools' = tools, next' \in Nat, next' >= next
    PROVE  Sound(tools, next)'
<1>1. Sound(tools, next) /\ next \in Nat
  BY SoundTools DEF TypeOK
<1>2. \A t \in DOMAIN tools : tools[t].started <=> tools[t].block \in 0..next' - 1
  BY <1>1 DEF Sound, ToolInv
<1> QED BY <1>1, <1>2 DEF Sound

\* What is emitted beside the native tools.
LEMMA Emits ==
    ASSUME TypeOK, StreamInv, EmitThinking \/ EmitText \/ EmitHeuristicTool
    PROVE  /\ Sound(tools, next)' /\ next' \in Nat /\ next' >= next
           /\ thinking' \in -1..next' - 1 /\ text' \in -1..next' - 1
           /\ thinking' = -1 \/ text' = -1
           /\ textSent' \in BOOLEAN /\ (textSent' => textSent \/ next' > 0)
           /\ EmitText => next' > 0
<1>1. /\ tools' = tools /\ next' \in Nat /\ next' >= next
      /\ thinking' \in -1..next' - 1 /\ text' \in -1..next' - 1
      /\ thinking' = -1 \/ text' = -1
      /\ textSent' \in BOOLEAN /\ (textSent' => textSent \/ next' > 0)
      /\ EmitText => next' > 0
  <2>1. CASE EmitThinking
    BY <2>1 DEF EmitThinking, EmitText, TypeOK
  <2>2. CASE EmitText
    BY <2>2 DEF EmitText, TypeOK
  <2>3. CASE EmitHeuristicTool
    BY <2>3 DEF EmitHeuristicTool, EmitText, ContentClosed, TypeOK
  <2> QED BY <2>1, <2>2, <2>3
<1> QED BY <1>1, ToolsStay

\* The Task arguments that are held back are sent: then the tool has its document.
LEMMA FlushArgsStep ==
    ASSUME TypeOK, StreamInv, FlushArgs PROVE TypeOK' /\ StreamInv'
<1>0. Sound(tools, next) /\ UNCHANGED <<chunks, failed, next, thinking, text, textSent>>
      /\ phase = "flushingArgs" /\ phase' = (IF tools' = tools THEN "closing" ELSE phase)
  BY SoundTools DEF FlushArgs, Ready
<1>1. CASE \E t \in DOMAIN tools : Held(t)
  <2> PICK t \in DOMAIN tools :
        /\ Held(t)
        /\ tools' = [tools EXCEPT ![t].buffer = "empty", ![t].emitted = TRUE, ![t].docs = @ + 1]
    BY <1>1 DEF FlushArgs, FlushTaskArgBuffers
  <2> DEFINE old == tools[t]
             new == [old EXCEPT !.buffer = "empty", !.emitted = TRUE, !.docs = @ + 1]
  <2>1. old \in ToolState /\ ToolInv(old) /\ old.buffer = "partial" /\ ~old.emitted
    BY <1>0 DEF Sound, Held
  <2>2. tools' = [tools EXCEPT ![t] = new]
    OBVIOUS
  <2> HIDE DEF old
  <2>3. old.docs = 0
    BY <2>1 DEF ToolInv
  <2>4. new = [old EXCEPT !.buffer = "empty", !.emitted = TRUE, !.docs = 1]
    BY <2>3
  <2> HIDE DEF new
  <2>5. new \in ToolState
    BY <2>1, <2>4 DEF ToolState
  <2>6. /\ new.started = old.started /\ new.block = old.block
         /\ new.name = old.name /\ new.shown = old.shown /\ new.raw = old.raw
         /\ new.docs = 1 /\ new.emitted /\ new.buffer = "empty"
    BY <2>1, <2>4 DEF ToolState
  <2>7. ToolInv(new)
    BY <2>1, <2>5, <2>6 DEF ToolInv
  <2>8. DOMAIN tools' = DOMAIN tools /\ tools'[t] = new
        /\ \A u \in DOMAIN tools \ {t} : tools'[u] = tools[u]
    BY <2>2
  <2>9. Sound(tools, next)'
    <3>1. \A u \in DOMAIN tools' :
              tools'[u].started = tools[u].started /\ tools'[u].block = tools[u].block
      BY <2>5, <2>6, <2>8 DEF old
    <3> QED BY <1>0, <2>5, <2>6, <2>7, <2>8, <3>1 DEF Sound
  <2>10. tools' # tools
    BY <2>1, <2>5, <2>6, <2>8 DEF old
  <2> QED BY <1>0, <2>9, <2>10, StepSound DEF TypeOK, Phase
<1>2. CASE ~\E t \in DOMAIN tools : Held(t)
  <2>1. tools' = tools /\ phase' = "closing"
    BY <1>0, <1>2 DEF FlushArgs, FlushTaskArgBuffers
  <2>2. \A t \in DOMAIN tools : tools[t].buffer = "empty"
    BY <1>0, <1>2 DEF Held, Sound, ToolInv, ToolState
  <2>3. next > 0 \/ \E t \in DOMAIN tools : tools[t].name = << >> /\ ~tools[t].started
    <3>1. CASE failed \/ textSent
      BY <3>1 DEF StreamInv
    <3>2. ASSUME NEW t \in DOMAIN tools, tools[t].started PROVE next > 0
      BY <1>0, <3>2 DEF Sound, TypeOK
    <3>3. ASSUME NEW t \in DOMAIN tools, ~tools[t].started PROVE tools[t].name = << >>
      BY <1>0, <3>3 DEF Sound, ToolInv
    <3> QED BY <3>1, <3>2, <3>3 DEF FlushArgs, NeedsPlaceholder
  <2>4. TypeOK'
    BY <1>0, <2>1 DEF TypeOK, Phase
  <2> QED BY <1>0, <2>1, <2>2, <2>3, <2>4 DEF StreamInv
<1> QED BY <1>1, <1>2

LEMMA NextStream == TypeOK /\ StreamInv /\ [Next]_vars => TypeOK' /\ StreamInv'
<1> SUFFICES ASSUME TypeOK, StreamInv, [Next]_vars PROVE TypeOK' /\ StreamInv'
  OBVIOUS
<1>0. /\ next \in Nat /\ failed \in BOOLEAN /\ textSent \in BOOLEAN
      /\ chunks \in 0..MaxChunks /\ phase \in Phase
      /\ Sound(tools, next)
  BY SoundTools DEF TypeOK
<1>1. CASE Reasoning \/ Text \/ HeuristicTool
  <2>1. /\ EmitThinking \/ EmitText \/ EmitHeuristicTool
        /\ phase' = "streaming" /\ failed' = failed /\ chunks' \in 0..MaxChunks
    BY <1>0, <1>1, StreamAssumption DEF Reasoning, Text, HeuristicTool, Receives, Ready
  <2> QED BY <1>0, <2>1, Emits, StepSound DEF Phase
<1>2. ASSUME NEW index \in Indices, NEW hasId \in BOOLEAN,
             NEW name \in Fragments \cup {Absent}, NEW args,
             NativeToolCall(index, hasId, name, args)
      PROVE  TypeOK' /\ StreamInv'
  BY <1>2, NativeStep
<1>3. CASE Fail
  <2>1. /\ phase' = "flushing" /\ failed' = TRUE /\ next' = next + 1 /\ tools' = tools
        /\ thinking' = -1 /\ text' = -1 /\ textSent' = textSent /\ chunks' = chunks
    BY <1>3 DEF Fail, ContentClosed
  <2>2. next' \in Nat /\ next' >= next /\ next' > 0
        /\ thinking' \in -1..next' - 1 /\ text' \in -1..next' - 1
    BY <1>0, <2>1
  <2>3. Sound(tools, next)'
    BY <2>1, <2>2, ToolsStay
  <2> QED BY <1>0, <2>1, <2>2, <2>3, StepSound DEF Phase
<1>4. ASSUME UNCHANGED <<builderVars, failed>>, chunks' = chunks,
             phase' \in Phase \ {"closing", "ending", "ended"}
      PROVE  TypeOK' /\ StreamInv'
  <2>1. Sound(tools, next)' /\ UNCHANGED <<next, thinking, text, textSent>>
    BY <1>0, <1>4, ToolsStay DEF builderVars
  <2> QED BY <1>0, <1>4, <2>1, StepSound DEF TypeOK
<1>5. CASE Finish \/ Disconnect
  BY <1>4, <1>5 DEF Finish, Disconnect, Phase
<1>6. CASE FlushParser \/ FlushHeuristic
  <2>1. phase' \in Phase \ {"closing", "ending", "ended"} /\ failed' = failed /\ chunks' = chunks
    BY <1>6 DEF FlushParser, FlushHeuristic, Phase
  <2>2. CASE UNCHANGED builderVars
    BY <1>4, <2>1, <2>2
  <2>3. CASE EmitThinking \/ EmitText \/ EmitHeuristicTool
    BY <1>0, <2>1, <2>3, Emits, StepSound
  <2> QED BY <1>6, <2>2, <2>3 DEF FlushParser, FlushHeuristic
<1>7. CASE Placeholder
  <2>1. /\ EmitText /\ phase' = "closing" /\ failed' = failed /\ chunks' = chunks
        /\ DOMAIN tools = {} /\ tools' = tools
    BY <1>7 DEF Placeholder, NeedsPlaceholder, EmitText
  <2>2. TypeOK'
    BY <1>0, <2>1, Emits DEF TypeOK, Sound, Phase
  <2> QED BY <1>0, <2>1, <2>2, Emits DEF StreamInv, Sound
<1>8. CASE FlushArgs
  BY <1>8, FlushArgsStep
<1>9. ASSUME UNCHANGED <<next, textSent, tools, failed, chunks>>, phase' \in Phase,
             phase' \in {"closing", "ending", "ended"} => phase \in {"closing", "ending", "ended"},
             thinking' \in {thinking, -1}, text' \in {text, -1}
      PROVE  TypeOK' /\ StreamInv'
  BY <1>0, <1>9 DEF TypeOK, StreamInv
<1>10. CASE CloseAll \/ EndMessage \/ Yield \/ UNCHANGED vars
  <2>1. CASE CloseAll
    BY <1>9, <2>1 DEF CloseAll, ContentClosed, Ready, Phase
  <2>2. CASE EndMessage
    BY <1>9, <2>2 DEF EndMessage, Ready, builderVars, Phase
  <2>3. CASE Yield \/ UNCHANGED vars
    BY <1>0, <1>9, <2>3 DEF Yield, vars, streamVars, builderVars
  <2> QED BY <1>10, <2>1, <2>2, <2>3
<1> QED BY <1>1, <1>2, <1>3, <1>5, <1>6, <1>7, <1>8, <1>10 DEF Next

LEMMA InitStream == Init => TypeOK /\ StreamInv
<1> SUFFICES ASSUME Init PROVE TypeOK /\ StreamInv
  OBVIOUS
<1>1. DOMAIN tools = {}
  BY DEF Init
<1>2. TypeOK
  <2>0. 0 \in 0..MaxChunks
    BY StreamAssumption
  <2>1. /\ phase \in Phase /\ textSent \in BOOLEAN /\ failed \in BOOLEAN
        /\ next \in Nat /\ chunks \in 0..MaxChunks
    BY <2>0 DEF Init, Phase
  <2>2. thinking = -1 /\ text = -1 /\ -1 \in -1..next - 1
    BY DEF Init
  <2> QED BY <1>1, <2>1, <2>2 DEF TypeOK
<1>3. IsFiniteSet(DOMAIN tools)
  BY <1>1, FS_EmptySet
<1> QED BY <1>1, <1>2, <1>3 DEF Init, StreamInv

\* The tools have distinct blocks, all of them allocated, and of thinking and text at
\* most one is open, whatever the provider sends.
THEOREM TypeCorrect == Spec => []TypeOK
  BY InitStream, NextStream, PTL DEF Spec

\* A Task tool gets one JSON document for its input and nothing else, in whatever
\* fragments its name and arguments arrive, as long as its name stays what the client
\* was shown (buffer_task_args, flush_task_arg_buffers).
THEOREM TasksGetOneDocument == Spec => []TaskInputIsOneDocument
<1>1. TypeOK /\ StreamInv => TaskInputIsOneDocument
  <2> SUFFICES ASSUME TypeOK, StreamInv, NEW t \in DOMAIN tools,
                      tools[t].started, tools[t].shown = tools[t].name
               PROVE  /\ tools[t].name = Task => ~tools[t].raw /\ tools[t].docs <= 1
                      /\ tools[t].name # Task => tools[t].docs = 0
                      /\ phase \in {"closing", "ending", "ended"} /\ tools[t].name = Task
                            => tools[t].buffer = "empty"
    BY DEF TaskInputIsOneDocument
  <2>1. ToolInv(tools[t]) /\ tools[t].name \in Seq(STRING)
    BY DEF TypeOK, StreamInv, ToolState, Name
  <2>2. ASSUME tools[t].emitted PROVE tools[t].name = Task
    <3>1. IsPrefixOf(Task, tools[t].name)
      BY <2>1, <2>2 DEF ToolInv
    <3>2. IsPrefixOf(tools[t].name, Task)
      BY <2>1, <2>2, <3>1, TaskAssumption DEF ToolInv
    <3> QED BY <2>1, <3>1, <3>2, PrefixOrder, StreamAssumption
  <2> QED BY <2>1, <2>2 DEF ToolInv, StreamInv
<1> QED BY <1>1, InitStream, NextStream, PTL DEF Spec

\* A message that ends has content, or its only tools were registered with an empty name
\* and nothing more (the placeholder of _stream_response_impl).
THEOREM NoMessageIsEmpty == Spec => []NeverEmpty
<1>1. StreamInv => NeverEmpty
  BY DEF StreamInv, NeverEmpty
<1> QED BY <1>1, InitStream, NextStream, PTL DEF Spec

------------------------------------------------------------------------------
(* Runs of events, as the client takes them.                               *)

BlockEvent == [type : {"start", "delta"}, index : Nat, kind : Client!Kind]
              \cup [type : {"stop"}, index : Nat]
Event == BlockEvent \cup {Client!MessageStop}

\* How many blocks the client saw started, and those that are open.
Stage == {s \in [started : Nat, open : SUBSET (Nat \X Client!Kind)] :
             \A b, c \in s.open : b[1] < s.started /\ (b[1] = c[1] => b = c)}
At(n, o) == [started |-> n, open |-> o]

\* The events AnthropicStream allows, and what each leads to.
Legal(s, e) ==
    \/ \E k \in Client!Kind :
          /\ e = Client!BlockStart(s.started, k)
          /\ k \in Client!Content => \A b \in s.open : b[2] \notin Client!Content
    \/ \E b \in s.open : e = Client!BlockDelta(b[1], b[2]) \/ e = Client!BlockStop(b[1])
    \/ e = Client!MessageStop /\ s.open = {}

After(s, e) ==
    IF e.type = "start" THEN At(e.index + 1, s.open \cup {<<e.index, e.kind>>})
    ELSE IF e.type = "stop" THEN At(s.started, {b \in s.open : b[1] # e.index})
    ELSE s

\* The events lead from one stage to another.
Plays(s, es, r) ==
    \E p \in [0..Len(es) -> Stage] :
        /\ p[0] = s /\ p[Len(es)] = r
        /\ \A n \in 1..Len(es) : Legal(p[n - 1], es[n]) /\ p[n] = After(p[n - 1], es[n])

LEMMA PlaysNone ==
    ASSUME NEW s
    PROVE  /\ s \in Stage => Plays(s, << >>, s)
           /\ \A r : Plays(s, << >>, r) => s \in Stage /\ r = s
<1>1. ASSUME s \in Stage PROVE Plays(s, << >>, s)
  <2> DEFINE p == [n \in 0..0 |-> s]
  <2>1. p \in [0..0 -> Stage] /\ p[0] = s /\ Len(<< >>) = 0
    BY <1>1
  <2> HIDE DEF p
  <2>2. p \in [0..Len(<< >>) -> Stage] /\ p[Len(<< >>)] = s
    BY <2>1
  <2> QED BY <2>1, <2>2 DEF Plays
<1>2. ASSUME NEW r, Plays(s, << >>, r) PROVE s \in Stage /\ r = s
  <2>1. Len(<< >>) = 0
    OBVIOUS
  <2> QED BY <1>2, <2>1 DEF Plays
<1> QED BY <1>1, <1>2

LEMMA PlaysOne ==
    ASSUME NEW s \in Stage, NEW e, Legal(s, e), After(s, e) \in Stage
    PROVE  Plays(s, <<e>>, After(s, e))
<1> DEFINE r == After(s, e)
           es == <<e>>
           p == [n \in 0..1 |-> IF n = 0 THEN s ELSE r]
<1>1. Len(es) = 1 /\ es[1] = e
  OBVIOUS
<1>2. p \in [0..1 -> Stage] /\ p[0] = s /\ p[1] = r
  OBVIOUS
<1> HIDE DEF p, es
<1>3. \A n \in 1..Len(es) : Legal(p[n - 1], es[n]) /\ p[n] = After(p[n - 1], es[n])
  BY <1>1, <1>2
<1> HIDE DEF r
<1>4. Plays(s, es, r)
  BY <1>1, <1>2, <1>3 DEF Plays
<1> QED BY <1>4 DEF es, r

LEMMA PlaysConcat ==
    ASSUME NEW s, NEW r, NEW q, NEW es \in Seq(Event), NEW fs \in Seq(Event),
           Plays(s, es, r), Plays(r, fs, q)
    PROVE  es \o fs \in Seq(Event) /\ Plays(s, es \o fs, q)
<1> DEFINE gs == es \o fs
           m == Len(es)
           l == Len(fs)
<1>0. m \in Nat /\ l \in Nat /\ Len(gs) = m + l /\ gs \in Seq(Event)
      /\ (\A n \in 1..m : gs[n] = es[n]) /\ (\A n \in m + 1..m + l : gs[n] = fs[n - m])
  OBVIOUS
<1> PICK p \in [0..m -> Stage] :
        /\ p[0] = s /\ p[m] = r
        /\ \A n \in 1..m : Legal(p[n - 1], es[n]) /\ p[n] = After(p[n - 1], es[n])
  BY DEF Plays
<1> PICK o \in [0..l -> Stage] :
        /\ o[0] = r /\ o[l] = q
        /\ \A n \in 1..l : Legal(o[n - 1], fs[n]) /\ o[n] = After(o[n - 1], fs[n])
  BY DEF Plays
<1> HIDE DEF gs, m, l
<1> DEFINE w == [n \in 0..m + l |-> IF n <= m THEN p[n] ELSE o[n - m]]
<1>1. \A n \in 0..m : w[n] = p[n]
  BY <1>0
<1>2. \A n \in m..m + l : w[n] = o[n - m]
  BY <1>0
<1>3. w \in [0..m + l -> Stage]
  <2>1. ASSUME NEW n \in 0..m + l PROVE (IF n <= m THEN p[n] ELSE o[n - m]) \in Stage
    BY <1>0, <2>1
  <2> QED BY <2>1
<1> HIDE DEF w
<1>4. \A n \in 1..m + l : Legal(w[n - 1], gs[n]) /\ w[n] = After(w[n - 1], gs[n])
  <2> SUFFICES ASSUME NEW n \in 1..m + l
               PROVE  Legal(w[n - 1], gs[n]) /\ w[n] = After(w[n - 1], gs[n])
    OBVIOUS
  <2>1. CASE n <= m
    <3>1. n \in 1..m /\ n \in 0..m /\ n - 1 \in 0..m
      BY <1>0, <2>1
    <3> QED BY <1>0, <1>1, <3>1
  <2>2. CASE n > m
    <3>1. n \in m + 1..m + l /\ n \in m..m + l /\ n - 1 \in m..m + l
          /\ n - m \in 1..l /\ (n - 1) - m = (n - m) - 1
      BY <1>0, <2>2
    <3> QED BY <1>0, <1>2, <3>1
  <2> QED BY <1>0, <2>1, <2>2
<1>5. w[0] = s /\ w[m + l] = q
  <2>1. 0 \in 0..m /\ m + l \in m..m + l /\ (m + l) - m = l
    BY <1>0
  <2> QED BY <1>1, <1>2, <2>1
<1>6. Plays(s, gs, q)
  BY <1>0, <1>3, <1>4, <1>5 DEF Plays
<1> QED BY <1>0, <1>6 DEF gs

\* The client takes the first event, and the rest leads on from there.
LEMMA PlaysHead ==
    ASSUME NEW s, NEW r, NEW es \in Seq(Event), es # << >>, Plays(s, es, r)
    PROVE  /\ s \in Stage /\ Legal(s, Head(es)) /\ After(s, Head(es)) \in Stage
           /\ Plays(After(s, Head(es)), Tail(es), r)
<1> DEFINE fs == Tail(es)
           l == Len(es)
<1>0. /\ l \in Nat \ {0} /\ Head(es) = es[1] /\ Len(fs) = l - 1
      /\ \A n \in 1..l - 1 : fs[n] = es[n + 1]
  OBVIOUS
<1> PICK p \in [0..l -> Stage] :
        /\ p[0] = s /\ p[l] = r
        /\ \A n \in 1..l : Legal(p[n - 1], es[n]) /\ p[n] = After(p[n - 1], es[n])
  BY DEF Plays
<1> HIDE DEF fs, l
<1>1. 1 \in 1..l /\ 1 - 1 = 0 /\ 0 \in 0..l /\ 1 \in 0..l
  BY <1>0
<1>2. Legal(s, es[1]) /\ p[1] = After(s, es[1]) /\ s \in Stage /\ p[1] \in Stage
  BY <1>1
<1> DEFINE w == [n \in 0..l - 1 |-> p[n + 1]]
<1>3. w \in [0..l - 1 -> Stage] /\ w[0] = p[1] /\ w[l - 1] = r
  BY <1>0
<1>4. \A n \in 1..l - 1 : Legal(w[n - 1], fs[n]) /\ w[n] = After(w[n - 1], fs[n])
  <2> SUFFICES ASSUME NEW n \in 1..l - 1
               PROVE  Legal(w[n - 1], fs[n]) /\ w[n] = After(w[n - 1], fs[n])
    OBVIOUS
  <2>1. n + 1 \in 1..l /\ n - 1 \in 0..l - 1 /\ n \in 0..l - 1
        /\ (n + 1) - 1 = n /\ (n - 1) + 1 = n
    BY <1>0
  <2>2. w[n - 1] = p[n] /\ w[n] = p[n + 1]
    BY <2>1
  <2> QED BY <1>0, <2>1, <2>2
<1> HIDE DEF w
<1>5. Plays(p[1], fs, r)
  BY <1>0, <1>3, <1>4 DEF Plays
<1> QED BY <1>0, <1>2, <1>5 DEF fs

\* One event at a time.
LEMMA StartPlays ==
    ASSUME NEW n, NEW o, At(n, o) \in Stage, NEW k \in Client!Kind,
           k \in Client!Content => \A b \in o : b[2] \notin Client!Content
    PROVE  /\ Client!BlockStart(n, k) \in BlockEvent
           /\ At(n + 1, o \cup {<<n, k>>}) \in Stage
           /\ Plays(At(n, o), <<Client!BlockStart(n, k)>>, At(n + 1, o \cup {<<n, k>>}))
<1> DEFINE e == Client!BlockStart(n, k)
<1>1. n \in Nat /\ o \in SUBSET (Nat \X Client!Kind)
      /\ (\A b \in o : b[1] < n) /\ (\A b, c \in o : b[1] = c[1] => b = c)
  BY DEF Stage, At
<1>2. /\ e \in BlockEvent /\ e.type = "start" /\ e.index = n /\ e.kind = k
  BY <1>1 DEF BlockEvent, Client!BlockStart
<1>3. At(n + 1, o \cup {<<n, k>>}) \in Stage
  <2>1. o \cup {<<n, k>>} \in SUBSET (Nat \X Client!Kind) /\ n + 1 \in Nat
    BY <1>1
  <2>2. \A b \in o : b[1] \in Nat
    BY <1>1
  <2>3. \A b, c \in o \cup {<<n, k>>} : b[1] < n + 1 /\ (b[1] = c[1] => b = c)
    BY <1>1, <2>2
  <2> QED BY <2>1, <2>3 DEF Stage, At
<1>4. Legal(At(n, o), e)
  BY DEF Legal, At
<1> HIDE DEF e
<1>5. After(At(n, o), e) = At(n + 1, o \cup {<<n, k>>})
  BY <1>2 DEF After, At
<1>6. Plays(At(n, o), <<e>>, At(n + 1, o \cup {<<n, k>>}))
  BY <1>3, <1>4, <1>5, PlaysOne
<1> QED BY <1>2, <1>3, <1>6 DEF e

LEMMA DeltaPlays ==
    ASSUME NEW n, NEW o, At(n, o) \in Stage, NEW i, NEW k, <<i, k>> \in o
    PROVE  /\ Client!BlockDelta(i, k) \in BlockEvent
           /\ Plays(At(n, o), <<Client!BlockDelta(i, k)>>, At(n, o))
<1> DEFINE e == Client!BlockDelta(i, k)
<1>1. i \in Nat /\ k \in Client!Kind
  BY DEF Stage, At
<1>2. e \in BlockEvent /\ e.type = "delta"
  BY <1>1 DEF BlockEvent, Client!BlockDelta
<1>3. Legal(At(n, o), e)
  <2>1. <<i, k>>[1] = i /\ <<i, k>>[2] = k
    OBVIOUS
  <2> QED BY <2>1 DEF Legal, At
<1> HIDE DEF e
<1>4. After(At(n, o), e) = At(n, o)
  BY <1>2 DEF After
<1>5. Plays(At(n, o), <<e>>, At(n, o))
  BY <1>3, <1>4, PlaysOne
<1> QED BY <1>2, <1>5 DEF e

LEMMA StopPlays ==
    ASSUME NEW n, NEW o, At(n, o) \in Stage, NEW i, NEW k, <<i, k>> \in o
    PROVE  /\ Client!BlockStop(i) \in BlockEvent
           /\ At(n, o \ {<<i, k>>}) \in Stage
           /\ Plays(At(n, o), <<Client!BlockStop(i)>>, At(n, o \ {<<i, k>>}))
<1> DEFINE e == Client!BlockStop(i)
<1>1. n \in Nat /\ o \in SUBSET (Nat \X Client!Kind)
      /\ (\A b \in o : b[1] < n) /\ (\A b, c \in o : b[1] = c[1] => b = c)
      /\ i \in Nat /\ <<i, k>>[1] = i
  BY DEF Stage, At
<1>2. e \in BlockEvent /\ e.type = "stop" /\ e.index = i
  BY <1>1 DEF BlockEvent, Client!BlockStop
<1>3. Legal(At(n, o), e)
  BY <1>1 DEF Legal, At
<1>4. {b \in o : b[1] # i} = o \ {<<i, k>>}
  BY <1>1
<1>5. At(n, o \ {<<i, k>>}) \in Stage
  BY <1>1 DEF Stage, At
<1> HIDE DEF e
<1>6. After(At(n, o), e) = At(n, o \ {<<i, k>>})
  BY <1>2, <1>4 DEF After, At
<1>7. Plays(At(n, o), <<e>>, At(n, o \ {<<i, k>>}))
  BY <1>3, <1>5, <1>6, PlaysOne
<1> QED BY <1>2, <1>5, <1>7 DEF e

LEMMA SeqOfEvents ==
    /\ BlockEvent \subseteq Event /\ Seq(BlockEvent) \subseteq Seq(Event)
    /\ Client!MessageStop \notin BlockEvent
    /\ \A a, b \in BlockEvent : <<a>> \o <<b>> = <<a, b>> /\ <<a, b>> \in Seq(BlockEvent)
    /\ \A a, b, c \in BlockEvent : /\ <<a, b>> \o <<c>> = <<a, b, c>>
                                   /\ <<a, b, c>> \in Seq(BlockEvent)
    /\ \A a \in BlockEvent : <<a>> \in Seq(BlockEvent)
    /\ \A s, t \in Seq(BlockEvent) : s \o t \in Seq(BlockEvent)
    /\ << >> \in Seq(BlockEvent)
<1>1. BlockEvent \subseteq Event /\ Client!MessageStop \notin BlockEvent
  BY DEF Event, BlockEvent, Client!MessageStop
<1> HIDE DEF BlockEvent
<1>2. Seq(BlockEvent) \subseteq Seq(Event)
  BY <1>1
<1>3. ASSUME NEW a \in BlockEvent, NEW b \in BlockEvent
      PROVE  /\ <<a>> \in Seq(BlockEvent) /\ <<a, b>> \in Seq(BlockEvent)
             /\ <<a>> \o <<b>> = <<a, b>>
  <2>1. <<a>> \in Seq(BlockEvent) /\ <<b>> \in Seq(BlockEvent) /\ <<a, b>> \in Seq(BlockEvent)
    OBVIOUS
  <2>2. <<a>> \o <<b>> \in Seq(BlockEvent) /\ Len(<<a>> \o <<b>>) = 2 /\ Len(<<a, b>>) = 2
    BY <2>1
  <2>3. \A i \in 1..2 : (<<a>> \o <<b>>)[i] = <<a, b>>[i]
    <3>1. (<<a>> \o <<b>>)[1] = a /\ (<<a>> \o <<b>>)[2] = b
      BY <2>1
    <3>2. <<a, b>>[1] = a /\ <<a, b>>[2] = b
      OBVIOUS
    <3> QED BY <3>1, <3>2
  <2> QED BY <2>1, <2>2, <2>3, SeqEqual
<1>4. ASSUME NEW a \in BlockEvent, NEW b \in BlockEvent, NEW c \in BlockEvent
      PROVE  <<a, b, c>> \in Seq(BlockEvent) /\ <<a, b>> \o <<c>> = <<a, b, c>>
  <2>1. <<a, b>> \in Seq(BlockEvent) /\ <<c>> \in Seq(BlockEvent)
        /\ <<a, b, c>> \in Seq(BlockEvent)
    OBVIOUS
  <2>2. /\ <<a, b>> \o <<c>> \in Seq(BlockEvent) /\ Len(<<a, b>> \o <<c>>) = 3
        /\ Len(<<a, b, c>>) = 3
    BY <2>1
  <2>3. \A i \in 1..3 : (<<a, b>> \o <<c>>)[i] = <<a, b, c>>[i]
    <3>1. (<<a, b>> \o <<c>>)[1] = a /\ (<<a, b>> \o <<c>>)[2] = b /\ (<<a, b>> \o <<c>>)[3] = c
      BY <2>1
    <3>2. <<a, b, c>>[1] = a /\ <<a, b, c>>[2] = b /\ <<a, b, c>>[3] = c
      OBVIOUS
    <3> QED BY <3>1, <3>2
  <2> QED BY <2>1, <2>2, <2>3, SeqEqual
<1>5. /\ \A s, t \in Seq(BlockEvent) : s \o t \in Seq(BlockEvent)
      /\ << >> \in Seq(BlockEvent)
  OBVIOUS
<1> QED BY <1>1, <1>2, <1>3, <1>4, <1>5

\* A block that is begun and written to.
LEMMA BeginPlays ==
    ASSUME NEW n, NEW o, At(n, o) \in Stage, NEW k \in Client!Kind,
           k \in Client!Content => \A b \in o : b[2] \notin Client!Content
    PROVE  LET es == <<Client!BlockStart(n, k), Client!BlockDelta(n, k)>>
               new == o \cup {<<n, k>>}
           IN  /\ es \in Seq(BlockEvent) /\ Plays(At(n, o), es, At(n + 1, new))
<1> DEFINE new == o \cup {<<n, k>>}
<1>1. /\ Client!BlockStart(n, k) \in BlockEvent /\ At(n + 1, new) \in Stage
      /\ Plays(At(n, o), <<Client!BlockStart(n, k)>>, At(n + 1, new))
  BY StartPlays
<1>2. <<n, k>> \in new
  OBVIOUS
<1> HIDE DEF new
<1>3. /\ Client!BlockDelta(n, k) \in BlockEvent
      /\ Plays(At(n + 1, new), <<Client!BlockDelta(n, k)>>, At(n + 1, new))
  BY <1>1, <1>2, DeltaPlays
<1>4. <<Client!BlockStart(n, k)>> \in Seq(Event) /\ <<Client!BlockDelta(n, k)>> \in Seq(Event)
  BY <1>1, <1>3, SeqOfEvents
<1>5. Plays(At(n, o), <<Client!BlockStart(n, k)>> \o <<Client!BlockDelta(n, k)>>, At(n + 1, new))
  BY <1>1, <1>3, <1>4, PlaysConcat
<1> QED BY <1>1, <1>3, <1>5, SeqOfEvents DEF new

LEMMA WholePlays ==
    ASSUME NEW n, NEW o, At(n, o) \in Stage, NEW k \in Client!Kind,
           k \in Client!Content => \A b \in o : b[2] \notin Client!Content
    PROVE  Whole(n, k) \in Seq(BlockEvent) /\ Plays(At(n, o), Whole(n, k), At(n + 1, o))
<1> DEFINE new == o \cup {<<n, k>>}
           es == <<Client!BlockStart(n, k), Client!BlockDelta(n, k)>>
<1>1. es \in Seq(BlockEvent) /\ Plays(At(n, o), es, At(n + 1, new))
  BY BeginPlays
<1>2. At(n + 1, new) \in Stage /\ Client!BlockStart(n, k) \in BlockEvent
  BY StartPlays
<1>3. <<n, k>> \in new /\ new \ {<<n, k>>} = o
  <2>1. <<n, k>> \notin o
    <3>1. n \in Nat /\ \A b \in o : b[1] < n
      BY DEF Stage, At
    <3>2. <<n, k>>[1] = n /\ ~(n < n)
      BY <3>1
    <3> QED BY <3>1, <3>2
  <2> QED BY <2>1
<1> HIDE DEF new
<1>4. /\ Client!BlockStop(n) \in BlockEvent /\ Client!BlockDelta(n, k) \in BlockEvent
      /\ Plays(At(n + 1, new), <<Client!BlockStop(n)>>, At(n + 1, o))
  BY <1>2, <1>3, StopPlays, DeltaPlays
<1>5. es \in Seq(Event) /\ <<Client!BlockStop(n)>> \in Seq(Event)
  BY <1>1, <1>4, SeqOfEvents
<1> HIDE DEF es
<1>6. Plays(At(n, o), es \o <<Client!BlockStop(n)>>, At(n + 1, o))
  BY <1>1, <1>4, <1>5, PlaysConcat
<1>7. es \o <<Client!BlockStop(n)>> = Whole(n, k) /\ Whole(n, k) \in Seq(BlockEvent)
  BY <1>2, <1>4, SeqOfEvents DEF es, Whole
<1> QED BY <1>6, <1>7


------------------------------------------------------------------------------
(* What the builder queues leads the client to the blocks it takes for     *)
(* open.                                                                   *)

ToolBlocks == {<<tools[t].block, "tool_use">> : t \in {u \in DOMAIN tools : tools[u].started}}
OpenContent == (IF thinking = -1 THEN {} ELSE {<<thinking, "thinking">>})
               \cup (IF text = -1 THEN {} ELSE {<<text, "text">>})
Built == At(next, IF phase \in {"ending", "ended"} THEN {} ELSE ToolBlocks \cup OpenContent)

PlayInv ==
    /\ IF phase = "ended" THEN todo \in {<< >>, <<Client!MessageStop>>}
       ELSE todo \in Seq(BlockEvent)
    /\ phase # "gone" => Plays(At(started, open), todo, Built)
    /\ event = Client!MessageStop => phase = "ended" /\ todo = << >>

LEMMA EmptyConcat ==
    \A s \in Seq(BlockEvent) : s \o << >> = s /\ << >> \o s = s
<1> SUFFICES ASSUME NEW s \in Seq(BlockEvent) PROVE s \o << >> = s /\ << >> \o s = s
  OBVIOUS
<1>1. s \in Seq(BlockEvent) /\ << >> \in Seq(BlockEvent) /\ Len(<< >>) = 0
  OBVIOUS
<1>2. s \o << >> \in Seq(BlockEvent) /\ Len(s \o << >>) = Len(s)
      /\ \A i \in 1..Len(s) : (s \o << >>)[i] = s[i]
  BY <1>1
<1>3. << >> \o s \in Seq(BlockEvent) /\ Len(<< >> \o s) = Len(s)
      /\ \A i \in 1..Len(s) : (<< >> \o s)[i] = s[i]
  BY <1>1
<1> QED BY <1>1, <1>2, <1>3, SeqEqual

\* close_content_blocks leaves the tools open.
LEMMA ClosePlays ==
    ASSUME TypeOK, At(next, ToolBlocks \cup OpenContent) \in Stage
    PROVE  /\ CloseContent \in Seq(BlockEvent)
           /\ At(next, ToolBlocks) \in Stage
           /\ Plays(At(next, ToolBlocks \cup OpenContent), CloseContent, At(next, ToolBlocks))
           /\ \A b \in ToolBlocks : b[2] \notin Client!Content
<1> DEFINE full == ToolBlocks \cup OpenContent
<1>1. \A b \in ToolBlocks : b[2] = "tool_use" /\ b[2] \notin Client!Content
  BY DEF ToolBlocks, Client!Content
<1>2. ASSUME NEW i, NEW k \in {"thinking", "text"}, full = ToolBlocks \cup {<<i, k>>},
             CloseContent = <<Client!BlockStop(i)>>
      PROVE  /\ CloseContent \in Seq(BlockEvent) /\ At(next, ToolBlocks) \in Stage
             /\ Plays(At(next, full), CloseContent, At(next, ToolBlocks))
  <2>1. <<i, k>> \in full
    BY <1>2
  <2>2. full \ {<<i, k>>} = ToolBlocks
    <3>1. <<i, k>>[2] = k
      OBVIOUS
    <3>2. <<i, k>> \notin ToolBlocks
      BY <1>1, <1>2, <3>1
    <3> QED BY <1>2, <3>2
  <2> HIDE DEF full
  <2>3. At(next, full) \in Stage
    BY DEF full
  <2>4. /\ Client!BlockStop(i) \in BlockEvent /\ At(next, full \ {<<i, k>>}) \in Stage
        /\ Plays(At(next, full), <<Client!BlockStop(i)>>, At(next, full \ {<<i, k>>}))
    BY <2>1, <2>3, StopPlays
  <2>5. <<Client!BlockStop(i)>> \in Seq(BlockEvent)
    BY <2>4, SeqOfEvents
  <2> QED BY <1>2, <2>2, <2>4, <2>5
<1>3. CASE thinking = -1 /\ text = -1
  <2>1. full = ToolBlocks
    BY <1>3 DEF OpenContent
  <2>2. CloseContent = << >>
    BY <1>3, SeqOfEvents, EmptyConcat DEF CloseContent
  <2> HIDE DEF full
  <2> QED BY <1>1, <2>1, <2>2, PlaysNone, SeqOfEvents DEF full
<1>4. CASE thinking # -1
  <2>1. text = -1 /\ thinking \in Nat
    BY <1>4 DEF TypeOK
  <2>2. full = ToolBlocks \cup {<<thinking, "thinking">>}
    BY <1>4, <2>1 DEF OpenContent
  <2>3. Client!BlockStop(thinking) \in BlockEvent
    BY <2>1 DEF BlockEvent, Client!BlockStop
  <2>4. CloseContent = <<Client!BlockStop(thinking)>>
    BY <1>4, <2>1, <2>3, SeqOfEvents, EmptyConcat DEF CloseContent
  <2> QED BY <1>1, <1>2, <2>2, <2>4
<1>5. CASE thinking = -1 /\ text # -1
  <2>1. text \in Nat
    BY <1>5 DEF TypeOK
  <2>2. full = ToolBlocks \cup {<<text, "text">>}
    BY <1>5 DEF OpenContent
  <2>3. Client!BlockStop(text) \in BlockEvent
    BY <2>1 DEF BlockEvent, Client!BlockStop
  <2>4. CloseContent = <<Client!BlockStop(text)>>
    BY <1>5, <2>3, SeqOfEvents, EmptyConcat DEF CloseContent
  <2> QED BY <1>1, <1>2, <2>2, <2>4
<1> QED BY <1>3, <1>4, <1>5

\* A block of content is continued, or the one before it is closed.
LEMMA EmitsPlay ==
    ASSUME TypeOK, At(next, ToolBlocks \cup OpenContent) \in Stage,
           EmitThinking \/ EmitText \/ EmitHeuristicTool
    PROVE  /\ todo' \in Seq(BlockEvent)
           /\ Plays(At(next, ToolBlocks \cup OpenContent), todo',
                    At(next', ToolBlocks' \cup OpenContent'))
<1> DEFINE full == At(next, ToolBlocks \cup OpenContent)
           bare == At(next, ToolBlocks)
<1>1. /\ CloseContent \in Seq(BlockEvent) /\ bare \in Stage
      /\ Plays(full, CloseContent, bare)
      /\ \A b \in ToolBlocks : b[2] \notin Client!Content
  BY ClosePlays
<1>2. ToolBlocks' = ToolBlocks
  <2>1. tools' = tools
    BY DEF EmitThinking, EmitText, EmitHeuristicTool
  <2> QED BY <2>1 DEF ToolBlocks
<1>3. next \in Nat /\ next # -1
  BY DEF TypeOK
<1>4. Client!Content \subseteq Client!Kind /\ "tool_use" \in Client!Kind
      /\ "tool_use" \notin Client!Content /\ "thinking" \in Client!Kind /\ "text" \in Client!Kind
  BY DEF Client!Content, Client!Kind
<1>5. ASSUME NEW k \in Client!Content,
             todo' = CloseContent \o <<Client!BlockStart(next, k), Client!BlockDelta(next, k)>>,
             next' = next + 1, OpenContent' = {<<next, k>>}
      PROVE  /\ todo' \in Seq(BlockEvent)
             /\ Plays(full, todo', At(next', ToolBlocks' \cup OpenContent'))
  <2> DEFINE es == <<Client!BlockStart(next, k), Client!BlockDelta(next, k)>>
             new == At(next + 1, ToolBlocks \cup {<<next, k>>})
  <2>1. es \in Seq(BlockEvent) /\ Plays(bare, es, new)
    BY <1>1, <1>4, BeginPlays
  <2> HIDE DEF es, full, bare, new
  <2>2. CloseContent \in Seq(Event) /\ es \in Seq(Event) /\ CloseContent \o es \in Seq(BlockEvent)
    BY <1>1, <2>1, SeqOfEvents
  <2>3. Plays(full, CloseContent \o es, new)
    BY <1>1, <2>1, <2>2, PlaysConcat
  <2> QED BY <1>2, <1>5, <2>2, <2>3 DEF es, new
<1>6. ASSUME NEW i, NEW k, todo' = <<Client!BlockDelta(i, k)>>, <<i, k>> \in OpenContent,
             OpenContent' = OpenContent, next' = next
      PROVE  /\ todo' \in Seq(BlockEvent)
             /\ Plays(full, todo', At(next', ToolBlocks' \cup OpenContent'))
  BY <1>2, <1>6, DeltaPlays, SeqOfEvents
<1>7. CASE EmitThinking
  <2>1. CASE thinking # -1
    <3>1. /\ todo' = <<Client!BlockDelta(thinking, "thinking")>>
          /\ next' = next /\ thinking' = thinking /\ text = -1 /\ text' = -1
      BY <1>7, <2>1 DEF EmitThinking, TypeOK
    <3>2. <<thinking, "thinking">> \in OpenContent /\ OpenContent' = OpenContent
      BY <2>1, <3>1 DEF OpenContent
    <3> QED BY <1>6, <3>1, <3>2
  <2>2. CASE thinking = -1
    <3>1. /\ todo' = CloseContent \o <<Client!BlockStart(next, "thinking"),
                                       Client!BlockDelta(next, "thinking")>>
          /\ next' = next + 1 /\ thinking' = next /\ text' = -1
      BY <1>7, <2>2 DEF EmitThinking
    <3>2. OpenContent' = {<<next, "thinking">>}
      BY <1>3, <3>1 DEF OpenContent
    <3>3. "thinking" \in Client!Content
      BY DEF Client!Content
    <3> QED BY <1>5, <3>1, <3>2, <3>3
  <2> QED BY <2>1, <2>2
<1>8. CASE EmitText
  <2>1. CASE text # -1
    <3>1. /\ todo' = <<Client!BlockDelta(text, "text")>>
          /\ next' = next /\ text' = text /\ thinking = -1 /\ thinking' = -1
      BY <1>8, <2>1 DEF EmitText, TypeOK
    <3>2. <<text, "text">> \in OpenContent /\ OpenContent' = OpenContent
      BY <2>1, <3>1 DEF OpenContent
    <3> QED BY <1>6, <3>1, <3>2
  <2>2. CASE text = -1
    <3>1. /\ todo' = CloseContent \o <<Client!BlockStart(next, "text"),
                                       Client!BlockDelta(next, "text")>>
          /\ next' = next + 1 /\ text' = next /\ thinking' = -1
      BY <1>8, <2>2 DEF EmitText
    <3>2. OpenContent' = {<<next, "text">>}
      BY <1>3, <3>1 DEF OpenContent
    <3>3. "text" \in Client!Content
      BY DEF Client!Content
    <3> QED BY <1>5, <3>1, <3>2, <3>3
  <2> QED BY <2>1, <2>2
<1>9. CASE EmitHeuristicTool
  <2> DEFINE es == Whole(next, "tool_use")
             new == At(next + 1, ToolBlocks)
  <2>1. es \in Seq(BlockEvent) /\ Plays(bare, es, new)
    BY <1>1, <1>4, WholePlays
  <2>2. todo' = CloseContent \o es /\ next' = next + 1 /\ OpenContent' = {}
    BY <1>9 DEF EmitHeuristicTool, ContentClosed, OpenContent
  <2> HIDE DEF es, full, bare, new
  <2>3. CloseContent \in Seq(Event) /\ es \in Seq(Event) /\ CloseContent \o es \in Seq(BlockEvent)
    BY <1>1, <2>1, SeqOfEvents
  <2>4. Plays(full, CloseContent \o es, new)
    BY <1>1, <2>1, <2>3, PlaysConcat
  <2>5. ToolBlocks' \cup OpenContent' = ToolBlocks
    BY <1>2, <2>2
  <2> QED BY <2>2, <2>3, <2>4, <2>5 DEF new, full
<1> QED BY <1>7, <1>8, <1>9

\* A native tool call opens its block, or goes to the one it has.
LEMMA NativePlays ==
    ASSUME TypeOK, StreamInv, At(next, ToolBlocks \cup OpenContent) \in Stage,
           NEW index \in Indices, NEW hasId \in BOOLEAN,
           NEW name \in Fragments \cup {Absent}, NEW args,
           NativeToolCall(index, hasId, name, args)
    PROVE  /\ todo' \in Seq(BlockEvent)
           /\ Plays(At(next, ToolBlocks \cup OpenContent), todo',
                    At(next', ToolBlocks' \cup OpenContent'))
<1> DEFINE i == IF index < 0 THEN Cardinality(DOMAIN tools) ELSE index
           named == RegisterToolName(i, name)
           starts == Starts(named, i, hasId, args)
           begun == IF starts THEN StartToolBlock(named, i, hasId) ELSE named
           sent == IF args = "none" THEN begun
                   ELSE IF begun[i].name = Task
                   THEN [begun EXCEPT ![i] = WithArguments(@, args)]
                   ELSE [begun EXCEPT ![i].raw = TRUE]
           emits == args # "none" /\ (begun[i].name # Task \/ sent[i].docs > begun[i].docs)
           opening == IF starts THEN <<Client!BlockStart(next, "tool_use")>> ELSE << >>
           writing == IF emits THEN <<Client!BlockDelta(sent[i].block, "tool_use")>> ELSE << >>
           full == At(next, ToolBlocks \cup OpenContent)
           bare == At(next, ToolBlocks)
<1>1. /\ tools' = sent /\ next' = (IF starts THEN next + 1 ELSE next)
      /\ thinking' = -1 /\ text' = -1
      /\ todo' = CloseContent \o opening \o writing
  BY DEF NativeToolCall, ProcessToolCall, ContentClosed
<1>2. starts \in BOOLEAN /\ (emits => args # "none")
  BY DEF Starts
<1>3. Disturbs(begun, i, starts) /\ (args # "none" => i \in DOMAIN begun /\ begun[i].started)
  BY BeginTool
<1> HIDE DEF i, starts, begun
<1>4. Disturbs(sent, i, starts)
  BY <1>2, <1>3, SendArguments
<1> HIDE DEF sent
<1>5. args # "none" => i \in DOMAIN sent /\ sent[i].started
  BY <1>3, <1>4 DEF Disturbs
<1> HIDE DEF emits
<1>6. /\ CloseContent \in Seq(BlockEvent) /\ bare \in Stage
      /\ Plays(full, CloseContent, bare)
      /\ \A b \in ToolBlocks : b[2] \notin Client!Content
  BY ClosePlays
<1>7. OpenContent' = {}
  BY <1>1 DEF OpenContent
<1>8. ToolBlocks' = ToolBlocks \cup (IF starts THEN {<<next, "tool_use">>} ELSE {})
  <2>1. ToolBlocks' = {<<sent[t].block, "tool_use">> : t \in {u \in DOMAIN sent : sent[u].started}}
    BY <1>1 DEF ToolBlocks
  <2>2. ASSUME NEW t \in DOMAIN tools, tools[t].started
        PROVE  t \in DOMAIN sent /\ sent[t].started /\ sent[t].block = tools[t].block
    BY <1>4, <2>2 DEF Disturbs
  <2>3. ASSUME NEW t \in DOMAIN sent, sent[t].started
        PROVE  \/ t \in DOMAIN tools /\ tools[t].started /\ sent[t].block = tools[t].block
               \/ starts /\ sent[t].block = next
    BY <1>4, <2>3 DEF Disturbs
  <2>4. starts => i \in DOMAIN sent /\ sent[i].started /\ sent[i].block = next
    BY <1>4 DEF Disturbs
  <2>5. ToolBlocks' \subseteq ToolBlocks \cup (IF starts THEN {<<next, "tool_use">>} ELSE {})
    BY <2>1, <2>3 DEF ToolBlocks
  <2>6. ToolBlocks \subseteq ToolBlocks'
    BY <2>1, <2>2 DEF ToolBlocks
  <2>7. starts => <<next, "tool_use">> \in ToolBlocks'
    BY <2>1, <2>4
  <2> QED BY <2>5, <2>6, <2>7
<1> DEFINE begunStage == At(next', ToolBlocks')
<1>9. opening \in Seq(BlockEvent) /\ begunStage \in Stage /\ Plays(bare, opening, begunStage)
  <2>1. CASE starts
    <3>1. "tool_use" \in Client!Kind /\ "tool_use" \notin Client!Content
      BY DEF Client!Kind, Client!Content
    <3>2. /\ Client!BlockStart(next, "tool_use") \in BlockEvent
          /\ At(next + 1, ToolBlocks \cup {<<next, "tool_use">>}) \in Stage
          /\ Plays(bare, <<Client!BlockStart(next, "tool_use")>>,
                   At(next + 1, ToolBlocks \cup {<<next, "tool_use">>}))
      BY <1>6, <3>1, StartPlays
    <3>3. begunStage = At(next + 1, ToolBlocks \cup {<<next, "tool_use">>})
      BY <1>1, <1>8, <2>1
    <3> QED BY <2>1, <3>2, <3>3, SeqOfEvents
  <2>2. CASE ~starts
    <3>1. begunStage = bare
      BY <1>1, <1>8, <2>2
    <3> QED BY <1>6, <2>2, <3>1, PlaysNone, SeqOfEvents
  <2> QED BY <2>1, <2>2
<1>10. writing \in Seq(BlockEvent) /\ Plays(begunStage, writing, begunStage)
  <2>1. CASE emits
    <3>1. <<sent[i].block, "tool_use">> \in ToolBlocks'
      BY <1>1, <1>2, <1>5, <2>1 DEF ToolBlocks
    <3> QED BY <1>9, <2>1, <3>1, DeltaPlays, SeqOfEvents
  <2>2. CASE ~emits
    BY <1>9, <2>2, PlaysNone, SeqOfEvents
  <2> QED BY <2>1, <2>2
<1> HIDE DEF opening, writing, full, bare, begunStage
<1>11. CloseContent \o opening \in Seq(BlockEvent) /\ Plays(full, CloseContent \o opening, begunStage)
  BY <1>6, <1>9, PlaysConcat, SeqOfEvents
<1>12. /\ CloseContent \o opening \o writing \in Seq(BlockEvent)
       /\ Plays(full, CloseContent \o opening \o writing, begunStage)
  BY <1>10, <1>11, PlaysConcat, SeqOfEvents
<1>13. begunStage = At(next', ToolBlocks' \cup OpenContent')
  BY <1>7 DEF begunStage
<1> QED BY <1>1, <1>12, <1>13 DEF full

\* The held back arguments are written to a block that is open.
LEMMA FlushPlays ==
    ASSUME TypeOK, StreamInv, At(next, ToolBlocks \cup OpenContent) \in Stage, todo = << >>,
           FlushTaskArgBuffers, UNCHANGED <<next, thinking, text>>
    PROVE  /\ todo' \in Seq(BlockEvent)
           /\ Plays(At(next, ToolBlocks \cup OpenContent), todo',
                    At(next', ToolBlocks' \cup OpenContent'))
<1>1. OpenContent' = OpenContent
  BY DEF OpenContent
<1>2. CASE \E t \in DOMAIN tools : Held(t)
  <2> PICK t \in DOMAIN tools :
        /\ Held(t)
        /\ todo' = <<Client!BlockDelta(tools[t].block, "tool_use")>>
        /\ tools' = [tools EXCEPT ![t].buffer = "empty", ![t].emitted = TRUE, ![t].docs = @ + 1]
    BY <1>2 DEF FlushTaskArgBuffers
  <2>1. tools[t] \in ToolState /\ tools[t].started
    BY DEF TypeOK, StreamInv, ToolInv, Held
  <2>2. \A u \in DOMAIN tools : tools[u] \in ToolState
    BY DEF TypeOK
  <2>3. DOMAIN tools' = DOMAIN tools
        /\ \A u \in DOMAIN tools :
              tools'[u].started = tools[u].started /\ tools'[u].block = tools[u].block
    BY <2>2 DEF ToolState
  <2>4. ToolBlocks' = ToolBlocks
    BY <2>3 DEF ToolBlocks
  <2>5. <<tools[t].block, "tool_use">> \in ToolBlocks
    BY <2>1 DEF ToolBlocks
  <2> QED BY <1>1, <2>4, <2>5, DeltaPlays, SeqOfEvents
<1>3. CASE ~\E t \in DOMAIN tools : Held(t)
  <2>1. todo' = << >> /\ tools' = tools
    BY <1>3 DEF FlushTaskArgBuffers
  <2>2. ToolBlocks' = ToolBlocks
    BY <2>1 DEF ToolBlocks
  <2> QED BY <1>1, <2>1, <2>2, PlaysNone, SeqOfEvents
<1> QED BY <1>2, <1>3

\* However the blocks are ordered, close_all_blocks stops each once.
LEMMA CloseAllPlays ==
    ASSUME TypeOK, At(next, ToolBlocks \cup OpenContent) \in Stage, CloseAll
    PROVE  /\ todo' \in Seq(BlockEvent)
           /\ Plays(At(next, ToolBlocks \cup OpenContent), todo', At(next', {}))
<1> DEFINE blocks == {tools[t].block : t \in {u \in DOMAIN tools : tools[u].started}}
           n == Cardinality(blocks)
           full == At(next, ToolBlocks \cup OpenContent)
           bare == At(next, ToolBlocks)
<1>1. next' = next /\ next \in Nat
  BY DEF CloseAll, TypeOK
<1> PICK order \in [1..n -> blocks] :
        /\ \A l, m \in 1..n : l # m => order[l] # order[m]
        /\ todo' = CloseContent \o [m \in 1..n |-> Client!BlockStop(order[m])]
  <2>1. PICK order \in [1..n -> blocks] :
            /\ \A l, m \in DOMAIN order : l # m => order[l] # order[m]
            /\ todo' = CloseContent \o [m \in DOMAIN order |-> Client!BlockStop(order[m])]
    BY DEF CloseAll
  <2> HIDE DEF blocks, n
  <2>2. DOMAIN order = 1..n
    OBVIOUS
  <2> QED BY <2>1, <2>2
<1>2. blocks \subseteq 0..next - 1 /\ IsFiniteSet(blocks) /\ n \in Nat
  <2>1. blocks \subseteq 0..next - 1
    BY DEF TypeOK
  <2> HIDE DEF blocks
  <2>2. IsFiniteSet(0..next - 1)
    BY <1>1, FS_Interval
  <2> QED BY <2>1, <2>2, FS_Subset, FS_CardinalityType
<1>3. ToolBlocks = {<<b, "tool_use">> : b \in blocks}
  BY DEF ToolBlocks
<1> HIDE DEF blocks
<1>4. \A b \in blocks : \E m \in 1..n : order[m] = b
  <2>1. order \in Injection(1..n, blocks)
    BY DEF Injection, IsInjective
  <2>2. Cardinality(1..n) = n
    BY <1>2, FS_Interval
  <2>3. order \in Surjection(1..n, blocks)
    BY <1>2, <2>1, <2>2, FS_Injection
  <2> QED BY <2>3 DEF Surjection
<1> HIDE DEF n
<1>5. /\ CloseContent \in Seq(BlockEvent) /\ bare \in Stage /\ Plays(full, CloseContent, bare)
  BY ClosePlays
<1> DEFINE es == [m \in 1..n |-> Client!BlockStop(order[m])]
           left(m) == {<<order[j], "tool_use">> : j \in m + 1..n}
           p == [m \in 0..n |-> At(next, left(m))]
<1>6. es \in Seq(BlockEvent) /\ Len(es) = n /\ \A m \in 1..n : es[m] = Client!BlockStop(order[m])
  <2>0. \A m \in 1..n : order[m] \in Nat
    <3>1. \A b \in blocks : b \in Nat
      BY <1>1, <1>2
    <3>2. \A m \in 1..n : order[m] \in blocks
      OBVIOUS
    <3> QED BY <3>1, <3>2
  <2>1. \A m \in 1..n : Client!BlockStop(order[m]) \in BlockEvent
    BY <2>0 DEF BlockEvent, Client!BlockStop
  <2>2. es \in [1..n -> BlockEvent]
    BY <2>1
  <2> QED BY <1>2, <2>2
<1>7. \A m \in 0..n : left(m) \subseteq ToolBlocks
  <2> SUFFICES ASSUME NEW m \in 0..n, NEW j \in m + 1..n PROVE <<order[j], "tool_use">> \in ToolBlocks
    OBVIOUS
  <2>1. j \in 1..n
    BY <1>2
  <2> QED BY <1>3, <2>1
<1>8. left(0) = ToolBlocks /\ left(n) = {}
  <2>1. 0 + 1 = 1 /\ n + 1..n = {}
    BY <1>2
  <2>2. left(0) = {<<order[j], "tool_use">> : j \in 1..n}
    BY <2>1
  <2>3. \A b \in blocks : <<b, "tool_use">> \in left(0)
    BY <1>4, <2>2
  <2>4. left(0) \subseteq ToolBlocks
    BY <1>3, <2>2
  <2> QED BY <1>3, <2>1, <2>3, <2>4
<1>9. \A m \in 0..n : At(next, left(m)) \in Stage
  BY <1>5, <1>7 DEF Stage, At
<1>10. \A m \in 1..n : /\ <<order[m], "tool_use">> \in left(m - 1)
                       /\ {b \in left(m - 1) : b[1] # order[m]} = left(m)
  <2> SUFFICES ASSUME NEW m \in 1..n
               PROVE  /\ <<order[m], "tool_use">> \in left(m - 1)
                      /\ {b \in left(m - 1) : b[1] # order[m]} = left(m)
    OBVIOUS
  <2>1. (m - 1) + 1 = m /\ m..n = {m} \cup (m + 1..n) /\ m \in Nat
    BY <1>2
  <2>2. \A j \in m + 1..n : order[j] # order[m] /\ <<order[j], "tool_use">>[1] = order[j]
    BY <1>2
  <2>3. left(m - 1) = {<<order[m], "tool_use">>} \cup left(m)
    BY <2>1
  <2>4. <<order[m], "tool_use">>[1] = order[m]
    OBVIOUS
  <2> QED BY <2>2, <2>3, <2>4
<1> HIDE DEF left
<1>11. \A m \in 1..n : Legal(At(next, left(m - 1)), es[m])
                       /\ At(next, left(m)) = After(At(next, left(m - 1)), es[m])
  <2> SUFFICES ASSUME NEW m \in 1..n
               PROVE  Legal(At(next, left(m - 1)), es[m])
                      /\ At(next, left(m)) = After(At(next, left(m - 1)), es[m])
    OBVIOUS
  <2>1. es[m].type = "stop" /\ es[m].index = order[m] /\ es[m] = Client!BlockStop(order[m])
    BY <1>6 DEF Client!BlockStop
  <2> HIDE DEF es
  <2>2. <<order[m], "tool_use">>[1] = order[m]
    OBVIOUS
  <2>3. Legal(At(next, left(m - 1)), es[m])
    BY <1>10, <2>1, <2>2 DEF Legal, At
  <2>4. After(At(next, left(m - 1)), es[m])
            = At(next, {b \in left(m - 1) : b[1] # order[m]})
    BY <2>1 DEF After, At
  <2> QED BY <1>10, <2>3, <2>4
<1> HIDE DEF es
<1>12. Plays(bare, es, At(next, {}))
  <2>1. p \in [0..n -> Stage]
    BY <1>9
  <2>2. 0 \in 0..n /\ n \in 0..n
    BY <1>2
  <2>3. p[0] = bare /\ p[n] = At(next, {})
    BY <1>8, <2>2
  <2>4. \A m \in 1..n : Legal(p[m - 1], es[m]) /\ p[m] = After(p[m - 1], es[m])
    <3> SUFFICES ASSUME NEW m \in 1..n
                 PROVE  Legal(p[m - 1], es[m]) /\ p[m] = After(p[m - 1], es[m])
      OBVIOUS
    <3>1. m - 1 \in 0..n /\ m \in 0..n
      BY <1>2
    <3> QED BY <1>11, <3>1
  <2> HIDE DEF p, bare
  <2> QED BY <1>6, <2>1, <2>3, <2>4 DEF Plays
<1> HIDE DEF full, bare
<1>13. todo' = CloseContent \o es /\ es \in Seq(BlockEvent)
  BY <1>6 DEF es
<1>14. todo' \in Seq(BlockEvent) /\ CloseContent \in Seq(Event) /\ es \in Seq(Event)
  BY <1>5, <1>13, SeqOfEvents
<1>15. Plays(full, CloseContent \o es, At(next, {}))
  BY <1>5, <1>12, <1>14, PlaysConcat
<1> QED BY <1>1, <1>13, <1>14, <1>15 DEF full

\* A client who has received everything so far is where the builder is.
LEMMA Received ==
    ASSUME PlayInv, todo = << >>, phase # "gone"
    PROVE  At(started, open) \in Stage /\ Built = At(started, open)
BY PlaysNone DEF PlayInv

\* A step that sends to a client who has received everything so far.
LEMMA Sending ==
    ASSUME PlayInv, todo = << >>, phase \notin {"ended", "gone"}, UNCHANGED clientVars,
           phase' \notin {"ended", "gone"}, todo' \in Seq(BlockEvent),
           Built \in Stage => Plays(Built, todo', Built')
    PROVE  PlayInv'
<1>1. At(started, open) \in Stage /\ Built = At(started, open)
  BY Received
<1>2. event' = event /\ At(started', open') = At(started, open)
  BY DEF clientVars, At
<1>3. event # Client!MessageStop
  BY DEF PlayInv
<1> QED BY <1>1, <1>2, <1>3 DEF PlayInv

\* The client takes an event the specification allows it.
LEMMA YieldPlays ==
    ASSUME PlayInv, Yield
    PROVE  PlayInv' /\ Client!Next
<1> DEFINE e == Head(todo)
<1>1. todo # << >> /\ phase # "gone" /\ event' = e /\ todo' = Tail(todo) /\ phase' = phase
      /\ UNCHANGED builderVars
  BY DEF Yield, streamVars
<1>2. todo \in Seq(Event) /\ event # Client!MessageStop
  BY <1>1, SeqOfEvents DEF PlayInv, Event
<1>3. /\ At(started, open) \in Stage /\ Legal(At(started, open), e)
      /\ After(At(started, open), e) \in Stage
      /\ Plays(After(At(started, open), e), todo', Built)
  BY <1>1, <1>2, PlaysHead DEF PlayInv
<1>4. e = Client!MessageStop => phase = "ended" /\ todo' = << >>
  <2>1. CASE phase = "ended"
    BY <1>1, <2>1 DEF PlayInv
  <2>2. CASE phase # "ended"
    <3>1. todo \in Seq(BlockEvent)
      BY <2>2 DEF PlayInv
    <3>2. e \in BlockEvent
      BY <1>1, <3>1
    <3> QED BY <3>2, SeqOfEvents
  <2> QED BY <2>1, <2>2
<1>5. IF phase = "ended" THEN todo' \in {<< >>, <<Client!MessageStop>>}
      ELSE todo' \in Seq(BlockEvent)
  <2>1. CASE phase = "ended"
    <3>1. todo = <<Client!MessageStop>>
      BY <1>1, <2>1 DEF PlayInv
    <3>2. Tail(<<Client!MessageStop>>) = << >>
      OBVIOUS
    <3> QED BY <1>1, <2>1, <3>1, <3>2
  <2>2. CASE phase # "ended"
    BY <1>1, <2>2 DEF PlayInv
  <2> QED BY <2>1, <2>2
<1>6. Built' = Built
  <2>1. UNCHANGED <<next, tools, thinking, text, phase>>
    BY <1>1 DEF builderVars
  <2> QED BY <2>1 DEF Built, ToolBlocks, OpenContent
<1>7. /\ e.type = "start" => started' = e.index + 1 /\ open' = open \cup {<<e.index, e.kind>>}
      /\ e.type = "stop" => open' = {b \in open : b[1] # e.index} /\ started' = started
      /\ e.type \notin {"start", "stop"} => open' = open /\ started' = started
  BY <1>1 DEF Yield
<1> HIDE DEF e
<1>8. At(started', open') = After(At(started, open), e)
  BY <1>7 DEF After, At
<1>9. PlayInv'
  BY <1>1, <1>3, <1>4, <1>5, <1>6, <1>8 DEF PlayInv
<1>10. Client!Next
  <2>0. started \in Nat /\ \A b, c \in open : b[1] = c[1] => b = c
    BY <1>3 DEF Stage, At
  <2>1. ASSUME NEW k \in Client!Kind, e = Client!BlockStart(started, k),
               k \in Client!Content => \A b \in open : b[2] \notin Client!Content
        PROVE  Client!Start(k)
    <3>1. e.type = "start" /\ e.index = started /\ e.kind = k
      BY <2>1 DEF Client!BlockStart
    <3> QED BY <1>1, <1>7, <2>1, <3>1 DEF Client!Start
  <2>2. ASSUME NEW b \in open, e = Client!BlockDelta(b[1], b[2])
        PROVE  Client!Delta(b)
    <3>1. e.type = "delta"
      BY <2>2 DEF Client!BlockDelta
    <3> QED BY <1>1, <1>7, <2>2, <3>1 DEF Client!Delta
  <2>3. ASSUME NEW b \in open, e = Client!BlockStop(b[1])
        PROVE  Client!Stop(b)
    <3>1. e.type = "stop" /\ e.index = b[1]
      BY <2>3 DEF Client!BlockStop
    <3>2. open' = open \ {b}
      BY <1>7, <2>0, <3>1
    <3> QED BY <1>1, <1>7, <2>3, <3>1, <3>2 DEF Client!Stop
  <2>4. ASSUME e = Client!MessageStop, open = {} PROVE Client!End
    <3>1. e.type = "message_stop"
      BY <2>4 DEF Client!MessageStop
    <3> QED BY <1>1, <1>7, <2>4, <3>1 DEF Client!End
  <2>5. \/ \E k \in Client!Kind :
              /\ e = Client!BlockStart(started, k)
              /\ k \in Client!Content => \A b \in open : b[2] \notin Client!Content
        \/ \E b \in open : e = Client!BlockDelta(b[1], b[2]) \/ e = Client!BlockStop(b[1])
        \/ e = Client!MessageStop /\ open = {}
    BY <1>3 DEF Legal, At
  <2> QED BY <1>2, <2>1, <2>2, <2>3, <2>4, <2>5 DEF Client!Next
<1> QED BY <1>9, <1>10

LEMMA InitPlays == Init => PlayInv
<1> SUFFICES ASSUME Init PROVE PlayInv
  OBVIOUS
<1>1. ToolBlocks = {}
  <2>1. DOMAIN tools = {}
    BY DEF Init
  <2> QED BY <2>1 DEF ToolBlocks
<1>2. OpenContent = {}
  BY DEF Init, OpenContent
<1>3. Built = At(0, {}) /\ At(started, open) = At(0, {})
  BY <1>1, <1>2 DEF Init, Client!Init, Built
<1>4. At(0, {}) \in Stage
  BY DEF At, Stage
<1>5. Plays(At(0, {}), << >>, At(0, {}))
  BY <1>4, PlaysNone
<1>6. event # Client!MessageStop
  BY DEF Init, Client!Init, Client!MessageStart, Client!MessageStop
<1> QED BY <1>3, <1>5, <1>6, SeqOfEvents DEF Init, PlayInv

LEMMA NextPlays == TypeOK /\ StreamInv /\ PlayInv /\ [Next]_vars => PlayInv'
<1> SUFFICES ASSUME TypeOK, StreamInv, PlayInv, [Next]_vars PROVE PlayInv'
  OBVIOUS
<1> DEFINE Full == At(next, ToolBlocks \cup OpenContent)
<1>1. /\ phase \notin {"ending", "ended"} => Built = Full
      /\ phase' \notin {"ending", "ended"} => Built' = Full'
  BY DEF Built
\* Most steps send, and leave the message open.
<1>2. ASSUME todo = << >>, phase \notin {"ending", "ended", "gone"}, UNCHANGED clientVars,
             phase' \notin {"ending", "ended", "gone"},
             Full \in Stage => todo' \in Seq(BlockEvent) /\ Plays(Full, todo', Full')
      PROVE  PlayInv'
  <2>1. Built \in Stage
    BY <1>2, Received
  <2> HIDE DEF Full
  <2> QED BY <1>1, <1>2, <2>1, Sending
<1>3. ASSUME todo = << >>, phase \notin {"ending", "ended", "gone"},
             phase' \notin {"ending", "ended", "gone"}, UNCHANGED <<clientVars, todo, builderVars>>
      PROVE  PlayInv'
  <2>1. ToolBlocks' = ToolBlocks /\ OpenContent' = OpenContent /\ next' = next
    BY <1>3 DEF builderVars, ToolBlocks, OpenContent
  <2>2. Full' = Full
    BY <2>1
  <2>3. Full \in Stage => Plays(Full, << >>, Full)
    BY PlaysNone
  <2> HIDE DEF Full
  <2>4. Full \in Stage => todo' \in Seq(BlockEvent) /\ Plays(Full, todo', Full')
    BY <1>3, <2>2, <2>3, SeqOfEvents
  <2> QED BY <1>2, <1>3, <2>4
<1>4. CASE Reasoning \/ Text \/ HeuristicTool
  <2>1. /\ EmitThinking \/ EmitText \/ EmitHeuristicTool
        /\ todo = << >> /\ phase = "streaming" /\ phase' = "streaming" /\ UNCHANGED clientVars
    BY <1>4 DEF Reasoning, Text, HeuristicTool, Receives, Ready
  <2> QED BY <1>2, <2>1, EmitsPlay
<1>5. ASSUME NEW index \in Indices, NEW hasId \in BOOLEAN,
             NEW name \in Fragments \cup {Absent}, NEW args,
             NativeToolCall(index, hasId, name, args)
      PROVE  PlayInv'
  <2>1. /\ todo = << >> /\ phase = "streaming" /\ phase' \in {"streaming", "failing"}
        /\ UNCHANGED clientVars
    BY <1>5 DEF NativeToolCall, ProcessToolCall, Receives, Ready
  <2> QED BY <1>2, <1>5, <2>1, NativePlays
<1>6. CASE Fail
  <2>1. /\ todo = << >> /\ phase \in {"streaming", "failing"} /\ phase' = "flushing"
        /\ todo' = CloseContent \o Whole(next, "text") /\ next' = next + 1
        /\ thinking' = -1 /\ text' = -1 /\ tools' = tools /\ UNCHANGED clientVars
    BY <1>6 DEF Fail, Ready, ContentClosed
  <2>2. ToolBlocks' \cup OpenContent' = ToolBlocks
    BY <2>1 DEF ToolBlocks, OpenContent
  <2>3. ASSUME Full \in Stage PROVE todo' \in Seq(BlockEvent) /\ Plays(Full, todo', Full')
    <3>1. /\ CloseContent \in Seq(BlockEvent) /\ At(next, ToolBlocks) \in Stage
          /\ Plays(Full, CloseContent, At(next, ToolBlocks))
          /\ \A b \in ToolBlocks : b[2] \notin Client!Content
      BY <2>3, ClosePlays
    <3>2. "text" \in Client!Kind
      BY DEF Client!Kind
    <3>3. /\ Whole(next, "text") \in Seq(BlockEvent)
          /\ Plays(At(next, ToolBlocks), Whole(next, "text"), At(next + 1, ToolBlocks))
      BY <3>1, <3>2, WholePlays
    <3>4. CloseContent \in Seq(Event) /\ Whole(next, "text") \in Seq(Event)
          /\ todo' \in Seq(BlockEvent)
      BY <2>1, <3>1, <3>3, SeqOfEvents
    <3>5. Full' = At(next + 1, ToolBlocks)
      BY <2>1, <2>2
    <3> HIDE DEF Full
    <3>6. Plays(Full, todo', Full')
      BY <2>1, <3>1, <3>3, <3>4, <3>5, PlaysConcat
    <3> QED BY <3>4, <3>6
  <2> QED BY <1>2, <2>1, <2>3
<1>7. CASE Finish
  BY <1>3, <1>7 DEF Finish, Ready
<1>8. CASE FlushParser \/ FlushHeuristic \/ Placeholder
  <2>1. /\ \/ EmitThinking \/ EmitText \/ EmitHeuristicTool
           \/ UNCHANGED <<todo, builderVars>>
        /\ todo = << >> /\ phase \in {"flushing", "flushingTools", "flushingArgs"}
        /\ phase' \in {"flushingTools", "flushingArgs", "closing"} /\ UNCHANGED clientVars
    BY <1>8 DEF FlushParser, FlushHeuristic, Placeholder, Ready
  <2>2. CASE UNCHANGED <<todo, builderVars>>
    BY <1>3, <2>1, <2>2
  <2>3. CASE EmitThinking \/ EmitText \/ EmitHeuristicTool
    BY <1>2, <2>1, <2>3, EmitsPlay
  <2> QED BY <2>1, <2>2, <2>3
<1>9. CASE FlushArgs
  <2>1. /\ FlushTaskArgBuffers /\ todo = << >> /\ phase = "flushingArgs"
        /\ phase' \in {"flushingArgs", "closing"}
        /\ UNCHANGED <<next, thinking, text>> /\ UNCHANGED clientVars
    BY <1>9 DEF FlushArgs, Ready
  <2> QED BY <1>2, <2>1, FlushPlays
<1>10. CASE CloseAll
  <2>1. todo = << >> /\ phase = "closing" /\ phase' = "ending" /\ UNCHANGED clientVars
    BY <1>10 DEF CloseAll, Ready
  <2>2. Built = Full /\ Built' = At(next', {})
    BY <2>1 DEF Built
  <2>3. Built \in Stage
    BY <2>1, Received
  <2>4. todo' \in Seq(BlockEvent) /\ Plays(Built, todo', Built')
    BY <1>10, <2>2, <2>3, CloseAllPlays
  <2> QED BY <2>1, <2>4, Sending
<1>11. CASE EndMessage
  <2>1. /\ todo = << >> /\ phase = "ending" /\ phase' = "ended"
        /\ todo' = <<Client!MessageStop>> /\ next' = next
        /\ event' = event /\ started' = started /\ open' = open
    BY <1>11 DEF EndMessage, Ready, builderVars, clientVars
  <2>2. At(started, open) \in Stage /\ At(started, open) = At(next, {})
    BY <2>1, Received DEF Built
  <2>3. Legal(At(next, {}), Client!MessageStop)
    BY DEF Legal, At
  <2>4. After(At(next, {}), Client!MessageStop) = At(next, {})
    BY DEF After, Client!MessageStop
  <2>5. Plays(At(next, {}), todo', At(next, {}))
    BY <2>1, <2>2, <2>3, <2>4, PlaysOne
  <2>6. Built' = At(next, {}) /\ At(started', open') = At(next, {})
    BY <2>1, <2>2 DEF Built
  <2>7. event' # Client!MessageStop
    BY <2>1 DEF PlayInv
  <2> QED BY <2>1, <2>5, <2>6, <2>7 DEF PlayInv
<1>12. CASE Yield
  BY <1>12, YieldPlays
<1>13. CASE Disconnect
  BY <1>13 DEF Disconnect, PlayInv, clientVars
<1>14. CASE UNCHANGED vars
  <2>1. UNCHANGED <<todo, phase, next, tools, thinking, text, event, started, open>>
    BY <1>14 DEF vars, streamVars, builderVars, clientVars
  <2>2. Built' = Built
    BY <2>1 DEF Built, ToolBlocks, OpenContent
  <2> QED BY <2>1, <2>2 DEF PlayInv
<1> QED BY <1>4, <1>5, <1>6, <1>7, <1>8, <1>9, <1>10, <1>11, <1>12, <1>13, <1>14 DEF Next

\* Whenever the client has taken all there is, it has open just the blocks the builder
\* takes for open (ContentBlockManager): none is filled that it saw stopped.
THEOREM ClientAndBuilderAgree == Spec => []BuilderAgrees
<1>1. PlayInv => BuilderAgrees
  <2> SUFFICES ASSUME PlayInv, todo = << >>, phase \notin {"ending", "ended", "gone"}
               PROVE  open = ToolBlocks \cup OpenContent
    BY DEF BuilderAgrees, ToolBlocks, OpenContent
  <2>1. At(started, open) = At(next, ToolBlocks \cup OpenContent)
    BY Received DEF Built
  <2>2. At(started, open).open = At(next, ToolBlocks \cup OpenContent).open
    BY <2>1
  <2> QED BY <2>2 DEF At
<1> QED BY <1>1, InitStream, NextStream, InitPlays, NextPlays, PTL DEF Spec

\* The events of every stream are in the order a client of the Anthropic API relies on,
\* whatever the provider sends, wherever it fails and whenever the client goes away: the
\* translation implements AnthropicStream.
THEOREM StreamIsWellFormed == Spec => WellFormed
<1>1. Init => Client!Init
  BY DEF Init
<1>2. TypeOK /\ StreamInv /\ PlayInv /\ [Next]_vars => [Client!Next]_(Client!clientVars)
  <2> SUFFICES ASSUME PlayInv, [Next]_vars PROVE Client!Next \/ UNCHANGED clientVars
    BY DEF clientVars, Client!clientVars
  <2>1. CASE Yield
    BY <2>1, YieldPlays
  <2>2. CASE Reasoning \/ Text \/ HeuristicTool
    BY <2>2 DEF Reasoning, Text, HeuristicTool
  <2>3. ASSUME NEW index, NEW hasId, NEW name, NEW args,
               NativeToolCall(index, hasId, name, args)
        PROVE  UNCHANGED clientVars
    BY <2>3 DEF NativeToolCall
  <2>4. CASE Fail \/ Finish \/ FlushParser \/ FlushHeuristic \/ Placeholder \/ FlushArgs
    BY <2>4 DEF Fail, Finish, FlushParser, FlushHeuristic, Placeholder, FlushArgs
  <2>5. CASE CloseAll \/ EndMessage \/ Disconnect \/ UNCHANGED vars
    BY <2>5 DEF CloseAll, EndMessage, Disconnect, vars
  <2> QED BY <2>1, <2>2, <2>3, <2>4, <2>5 DEF Next
<1> QED
  BY <1>1, <1>2, InitStream, NextStream, InitPlays, NextPlays, PTL
  DEF Spec, WellFormed, Client!Spec
==============================================================================
