-------------------------- MODULE Transcript_proofs --------------------------
(***************************************************************************)
(* What the chat shows of a run, for any numbers of events, subagents and  *)
(* indices: the segments keep the order of the stream, what subagents      *)
(* write is hidden, nothing stays hidden when they are done, and the last  *)
(* update shows the transcript with its newest segment.                    *)
(***************************************************************************)
EXTENDS Transcript, SequenceTheorems, WellFoundedInduction, TLAPS

------------------------------------------------------------------------------
(* The inductive invariant.                                                *)

\* The transcript when the event in hand is applied.
After ==
    IF parsed = << >> \/ Head(parsed).type = "complete" THEN t ELSE Apply(t, Head(parsed))

\* The event in hand is one, or the error of an exit before its completion.
Batch(es) ==
    \/ es = <<es[1]>>
    \/ es = <<es[1], Complete>> /\ es[1].type = "error"
InHand == parsed = << >> \/ Batch(parsed)

\* The subagents that are hidden are among those that run; with ids of their own they are
\* the same, unless an older one returned first.
AgentsOK(b, how, ts, cr) ==
    /\ \A m, n \in DOMAIN ts : ts[m] = ts[n] => m = n
    /\ how = "given" =>
          /\ \A m \in DOMAIN b.stack : \E n \in DOMAIN ts : b.stack[m] = ts[n]
          /\ \A m, n \in DOMAIN b.stack : b.stack[m] = b.stack[n] => m = n
          /\ ~cr => b.stack = ts
    /\ how # "given" =>
          /\ b.names = {}
          /\ \A m \in DOMAIN b.stack : \E k \in 1..MaxEvents : b.stack[m] = Synthetic(k)
    /\ how = "late" => Len(b.stack) = Len(ts)
    /\ how = "absent" => Len(b.stack) <= Len(ts)

\* The segments are in the order of the stream up to its event no, and hold no piece of
\* another block and none of a subagent.
Ordered(s, no) ==
    /\ \A n \in DOMAIN s : s[n].no <= no
    /\ \A m, n \in DOMAIN s : m < n => s[m].no <= s[n].no
    /\ \A n \in DOMAIN s : \A j \in DOMAIN s[n].pieces :
          s[n].pieces[j].no = s[n].no /\ s[n].pieces[j].by # "sub"

\* One block at most is open at an index, none where the stream has ended the last, and
\* what the main agent writes goes on in its own segment.
TidyAt(b, x, i) ==
    /\ b.open["thinking"][i] = 0 \/ b.open["text"][i] = 0
    /\ i \in b.tools => \A k \in Kinds : b.open[k][i] = 0
    /\ x = NoBlock => i \notin b.tools /\ \A k \in Kinds : b.open[k][i] = 0
    /\ x.by = "main" /\ x.kind \in Kinds =>
          b.open[x.kind][i] # 0 /\ b.segments[b.open[x.kind][i]].no = x.no
Tidy(b, bl) ==
    /\ \A k \in Kinds : b.open[k][NoIndex] = 0
    /\ \A i \in Index : TidyAt(b, bl[i], i)

\* No block is younger than the last event, and what the stream began has a kind.
BlocksOK(bl, no) == \A i \in Index : bl[i].no <= no /\ (bl[i].kind = "none" => bl[i] = NoBlock)

\* While the run goes on the invariant is about the transcript as it will be when the
\* event in hand is applied; of the transcript itself the order is left when a run ends
\* between the two.
IInv ==
    /\ TypeOK /\ InHand
    /\ Nested => \E no \in Nat : Ordered(t.segments, no)
    /\ over => parsed = << >>
    /\ ~over => /\ Standing(After)
                /\ AgentsOK(After, ids, tasks, crossed)
                /\ Nested => /\ Ordered(t.segments, events)
                             /\ Ordered(After.segments, events)
                             /\ Tidy(After, block)
                /\ Len(After.stack) <= events
                /\ BlocksOK(block, events)

------------------------------------------------------------------------------
(* The operations on the buffer, one field at a time.                      *)

LEMMA IdFacts ==
    /\ NoIndex \notin Index /\ MaxEvents \in Nat
    /\ Kinds = {"thinking", "text"} /\ "thinking" # "text"
    /\ TaskId \subseteq Seq(STRING) /\ ToolId \subseteq Seq(STRING)
BY IdAssumption DEF Kinds

\* An entry of the maps from indices to segments.
LEMMA SetOpen ==
    ASSUME NEW b, b \in Buffer, NEW kind \in Kinds, NEW i \in Index \cup {NoIndex},
           NEW n \in Nat, NEW c, c = [b EXCEPT !.open[kind][i] = n]
    PROVE  /\ c \in Buffer
           /\ c.segments = b.segments /\ c.names = b.names
           /\ c.stack = b.stack /\ c.agents = b.agents /\ c.tools = b.tools
           /\ \A k \in Kinds, j \in Index \cup {NoIndex} :
                 j # i \/ k # kind => c.open[k][j] = b.open[k][j]
           /\ c.open[kind][i] = n
<1> DEFINE at == [b.open[kind] EXCEPT ![i] = n]
           open == [b.open EXCEPT ![kind] = at]
<1>1. b.open \in [Kinds -> [Index \cup {NoIndex} -> Nat]]
  BY DEF Buffer
<1>2. /\ at \in [Index \cup {NoIndex} -> Nat] /\ at[i] = n
      /\ \A j \in Index \cup {NoIndex} : j # i => at[j] = b.open[kind][j]
  BY <1>1
<1> HIDE DEF at
<1>3. /\ open \in [Kinds -> [Index \cup {NoIndex} -> Nat]] /\ open[kind] = at
      /\ \A k \in Kinds : k # kind => open[k] = b.open[k]
  BY <1>1, <1>2
<1>4. c = [b EXCEPT !.open = open]
  BY DEF at
<1> HIDE DEF open
<1>5. /\ c \in Buffer /\ c.open = open
      /\ c.segments = b.segments /\ c.names = b.names
      /\ c.stack = b.stack /\ c.agents = b.agents /\ c.tools = b.tools
  BY <1>3, <1>4 DEF Buffer
<1> QED BY <1>2, <1>3, <1>5

\* block_stop touches one index only; when one block at most was open there, none is.
LEMMA CloseFields ==
    ASSUME NEW b, Standing(b), NEW i \in Index
    PROVE  /\ Standing(CloseBlock(b, i))
           /\ CloseBlock(b, i).segments = b.segments
           /\ CloseBlock(b, i).names = b.names
           /\ CloseBlock(b, i).stack = b.stack /\ CloseBlock(b, i).agents = b.agents
           /\ \A k \in Kinds, j \in Index \cup {NoIndex} :
                 j # i => CloseBlock(b, i).open[k][j] = b.open[k][j]
           /\ \A j \in Index : j # i => (j \in CloseBlock(b, i).tools <=> j \in b.tools)
           /\ /\ b.open["thinking"][i] = 0 \/ b.open["text"][i] = 0
              /\ i \in b.tools => \A k \in Kinds : b.open[k][i] = 0
              => i \notin CloseBlock(b, i).tools /\ \A k \in Kinds : CloseBlock(b, i).open[k][i] = 0
<1>1. b \in Buffer
  BY DEF Standing
<1>2. CASE i \in b.tools
  BY <1>1, <1>2, IdFacts DEF Standing, CloseBlock, Buffer
<1>3. ASSUME NEW kind \in Kinds, i \notin b.tools, CloseBlock(b, i) = [b EXCEPT !.open[kind][i] = 0],
             kind = "text" <=> b.open["thinking"][i] = 0
      PROVE  /\ Standing(CloseBlock(b, i))
             /\ CloseBlock(b, i).segments = b.segments
             /\ CloseBlock(b, i).names = b.names
             /\ CloseBlock(b, i).stack = b.stack /\ CloseBlock(b, i).agents = b.agents
             /\ CloseBlock(b, i).tools = b.tools
             /\ \A k \in Kinds, j \in Index \cup {NoIndex} :
                   j # i => CloseBlock(b, i).open[k][j] = b.open[k][j]
             /\ b.open["thinking"][i] = 0 \/ b.open["text"][i] = 0
                => \A k \in Kinds : CloseBlock(b, i).open[k][i] = 0
  <2>1. /\ CloseBlock(b, i) \in Buffer
        /\ CloseBlock(b, i).segments = b.segments /\ CloseBlock(b, i).names = b.names
        /\ CloseBlock(b, i).stack = b.stack /\ CloseBlock(b, i).agents = b.agents
        /\ CloseBlock(b, i).tools = b.tools
        /\ \A k \in Kinds, j \in Index \cup {NoIndex} :
              j # i \/ k # kind => CloseBlock(b, i).open[k][j] = b.open[k][j]
        /\ CloseBlock(b, i).open[kind][i] = 0
    BY <1>1, <1>3, SetOpen
  <2>2. Len(b.segments) \in Nat
    BY <1>1 DEF Buffer
  <2>3. \A k \in Kinds, j \in Index \cup {NoIndex} :
           CloseBlock(b, i).open[k][j] \in {0, b.open[k][j]}
    BY <2>1
  <2>4. Standing(CloseBlock(b, i))
    BY <2>1, <2>2, <2>3 DEF Standing
  <2>5. ASSUME b.open["thinking"][i] = 0 \/ b.open["text"][i] = 0, NEW k \in Kinds
        PROVE  CloseBlock(b, i).open[k][i] = 0
    BY <1>3, <2>1, <2>5, IdFacts
  <2> QED BY <2>1, <2>4, <2>5
<1>4. CASE i \notin b.tools /\ b.open["thinking"][i] # 0
  <2>1. CloseBlock(b, i) = [b EXCEPT !.open["thinking"][i] = 0]
    BY <1>4 DEF CloseBlock
  <2> QED BY <1>3, <1>4, <2>1, IdFacts
<1>5. CASE i \notin b.tools /\ b.open["thinking"][i] = 0
  <2>1. CloseBlock(b, i) = [b EXCEPT !.open["text"][i] = 0]
    BY <1>5 DEF CloseBlock
  <2> QED BY <1>3, <1>5, <2>1, IdFacts
<1> QED BY <1>2, <1>4, <1>5

\* A new segment.
LEMMA FreshFacts ==
    ASSUME NEW kind \in Kinds \cup {"tool_call", "subagent", "error"}, NEW p \in Written
    PROVE  /\ Fresh(kind, p) \in Segment
           /\ Fresh(kind, p).no = p.no /\ Fresh(kind, p).pieces = << >>
BY DEF Fresh, Segment, Written

LEMMA AddFields ==
    ASSUME NEW b, Standing(b), NEW s \in Segment
    PROVE  /\ Standing(Add(b, s))
           /\ Add(b, s).segments = Append(b.segments, s)
           /\ Add(b, s).names = b.names
           /\ Add(b, s).stack = b.stack /\ Add(b, s).agents = b.agents
           /\ Add(b, s).open = b.open /\ Add(b, s).tools = b.tools
<1>1. b \in Buffer
  BY DEF Standing
<1>2. Append(b.segments, s) \in Seq(Segment) /\ Len(Append(b.segments, s)) = Len(b.segments) + 1
  BY <1>1 DEF Buffer
<1>3. Add(b, s) = [b EXCEPT !.segments = Append(b.segments, s)]
  BY DEF Add
<1>4. /\ Add(b, s) \in Buffer
      /\ Add(b, s).segments = Append(b.segments, s)
      /\ Add(b, s).names = b.names
      /\ Add(b, s).stack = b.stack /\ Add(b, s).agents = b.agents
      /\ Add(b, s).open = b.open /\ Add(b, s).tools = b.tools
  BY <1>1, <1>2, <1>3 DEF Buffer
<1>5. Len(b.segments) \in Nat
  BY <1>1 DEF Buffer
<1> QED BY <1>2, <1>4, <1>5 DEF Standing

\* A new segment that is open at the index from now on.
LEMMA OpenedFields ==
    ASSUME NEW b, Standing(b), NEW kind \in Kinds, NEW i \in Index \cup {NoIndex},
           NEW p \in Written
    PROVE  /\ Standing(Opened(b, kind, i, p))
           /\ Opened(b, kind, i, p).segments = Append(b.segments, Fresh(kind, p))
           /\ Opened(b, kind, i, p).names = b.names
           /\ Opened(b, kind, i, p).stack = b.stack
           /\ Opened(b, kind, i, p).agents = b.agents
           /\ Opened(b, kind, i, p).tools = b.tools
           /\ \A k \in Kinds, j \in Index \cup {NoIndex} :
                 j # i \/ k # kind \/ i = NoIndex
                 => Opened(b, kind, i, p).open[k][j] = b.open[k][j]
           /\ i # NoIndex => Opened(b, kind, i, p).open[kind][i] = Len(b.segments) + 1
<1> DEFINE c == Add(b, Fresh(kind, p))
<1>1. Fresh(kind, p) \in Segment
  BY FreshFacts
<1>2. /\ Standing(c) /\ c \in Buffer
      /\ c.segments = Append(b.segments, Fresh(kind, p))
      /\ c.names = b.names
      /\ c.stack = b.stack /\ c.agents = b.agents
      /\ c.open = b.open /\ c.tools = b.tools
  BY <1>1, AddFields DEF Standing
<1>3. Len(c.segments) = Len(b.segments) + 1 /\ Len(b.segments) \in Nat
  BY <1>1, <1>2 DEF Standing, Buffer
<1>4. Opened(b, kind, i, p) = IF i = NoIndex THEN c ELSE [c EXCEPT !.open[kind][i] = Len(c.segments)]
  BY DEF Opened
<1> HIDE DEF c
<1>5. CASE i = NoIndex
  BY <1>2, <1>4, <1>5
<1>6. CASE i # NoIndex
  <2>1. Opened(b, kind, i, p) = [c EXCEPT !.open[kind][i] = Len(c.segments)]
    BY <1>4, <1>6
  <2>2. /\ Opened(b, kind, i, p) \in Buffer
        /\ Opened(b, kind, i, p).segments = c.segments
        /\ Opened(b, kind, i, p).names = c.names
        /\ Opened(b, kind, i, p).stack = c.stack
        /\ Opened(b, kind, i, p).agents = c.agents
        /\ Opened(b, kind, i, p).tools = c.tools
        /\ \A k \in Kinds, j \in Index \cup {NoIndex} :
              j # i \/ k # kind => Opened(b, kind, i, p).open[k][j] = c.open[k][j]
        /\ Opened(b, kind, i, p).open[kind][i] = Len(c.segments)
    <3> DEFINE n == Len(c.segments)
               o == Opened(b, kind, i, p)
    <3>1. n \in Nat /\ c \in Buffer
      BY <1>2, <1>3
    <3>2. o = [c EXCEPT !.open[kind][i] = n]
      BY <2>1
    <3> HIDE DEF n, o
    <3>3. /\ o \in Buffer
          /\ o.segments = c.segments /\ o.names = c.names
          /\ o.stack = c.stack /\ o.agents = c.agents /\ o.tools = c.tools
          /\ \A k \in Kinds, j \in Index \cup {NoIndex} :
                j # i \/ k # kind => o.open[k][j] = c.open[k][j]
          /\ o.open[kind][i] = n
      BY <3>1, <3>2, SetOpen, SMTT(30)
    <3> QED BY <3>3 DEF n, o
  <2>3. Standing(Opened(b, kind, i, p))
    BY <2>2, <1>2, <1>3 DEF Standing
  <2> QED BY <2>2, <2>3, <1>2, <1>3, <1>6
<1> QED BY <1>5, <1>6

\* A piece at the end of a segment, a call counted by a segment.
Longer(s, n, p) == [s EXCEPT ![n].pieces = Append(@, p)]
Counted(s, n) == [s EXCEPT ![n].calls = @ + 1]

LEMMA SetSegment ==
    ASSUME NEW s \in Seq(Segment), NEW n \in 1..Len(s), NEW x \in Segment
    PROVE  /\ [s EXCEPT ![n] = x] \in Seq(Segment)
           /\ Len([s EXCEPT ![n] = x]) = Len(s)
           /\ [s EXCEPT ![n] = x][n] = x
           /\ \A m \in 1..Len(s) : m # n => [s EXCEPT ![n] = x][m] = s[m]
OBVIOUS

LEMMA LongerFacts ==
    ASSUME NEW s \in Seq(Segment), NEW n \in 1..Len(s), NEW p \in Written
    PROVE  /\ Longer(s, n, p) \in Seq(Segment)
           /\ Len(Longer(s, n, p)) = Len(s)
           /\ Longer(s, n, p)[n].no = s[n].no
           /\ Longer(s, n, p)[n].pieces = Append(s[n].pieces, p)
           /\ \A m \in 1..Len(s) : m # n => Longer(s, n, p)[m] = s[m]
<1> DEFINE x == [s[n] EXCEPT !.pieces = Append(s[n].pieces, p)]
<1>1. s[n] \in Segment
  OBVIOUS
<1>2. Append(s[n].pieces, p) \in Seq(Written)
  BY <1>1 DEF Segment
<1>3. x \in Segment /\ x.no = s[n].no /\ x.pieces = Append(s[n].pieces, p)
  BY <1>1, <1>2 DEF Segment
<1>4. Longer(s, n, p) = [s EXCEPT ![n] = x]
  BY DEF Longer
<1> HIDE DEF x
<1> QED BY <1>3, <1>4, SetSegment

LEMMA CountedFacts ==
    ASSUME NEW s \in Seq(Segment), NEW n \in 1..Len(s)
    PROVE  /\ Counted(s, n) \in Seq(Segment)
           /\ Len(Counted(s, n)) = Len(s)
           /\ Counted(s, n)[n].no = s[n].no
           /\ Counted(s, n)[n].pieces = s[n].pieces
           /\ \A m \in 1..Len(s) : m # n => Counted(s, n)[m] = s[m]
<1> DEFINE x == [s[n] EXCEPT !.calls = s[n].calls + 1]
<1>1. s[n] \in Segment
  OBVIOUS
<1>c. s[n].calls + 1 \in Nat
  BY <1>1 DEF Segment
<1>2. x \in Segment /\ x.no = s[n].no /\ x.pieces = s[n].pieces
  BY <1>1, <1>c DEF Segment
<1>3. Counted(s, n) = [s EXCEPT ![n] = x]
  BY DEF Counted
<1> HIDE DEF x
<1> QED BY <1>2, <1>3, SetSegment

\* Other segments in the buffer, as many as there were.
LEMMA SegmentsFields ==
    ASSUME NEW b, Standing(b), NEW s \in Seq(Segment), Len(s) = Len(b.segments),
           NEW c, c = [b EXCEPT !.segments = s]
    PROVE  /\ Standing(c) /\ c.segments = s
           /\ c.names = b.names /\ c.stack = b.stack /\ c.agents = b.agents
           /\ c.open = b.open /\ c.tools = b.tools
<1>1. b \in Buffer
  BY DEF Standing
<1>2. /\ c \in Buffer /\ c.segments = s
      /\ c.names = b.names /\ c.stack = b.stack /\ c.agents = b.agents
      /\ c.open = b.open /\ c.tools = b.tools
  BY <1>1 DEF Buffer
<1> QED BY <1>2 DEF Standing

\* Text or a thought goes into the open segment, or opens one.
LEMMA WriteFields ==
    ASSUME NEW b, Standing(b), NEW kind \in Kinds, NEW i \in Index \cup {NoIndex},
           NEW p \in Written, NEW w, w = Write(b, kind, i, p)
    PROVE  /\ Standing(w)
           /\ w.names = b.names /\ w.stack = b.stack /\ w.agents = b.agents
           /\ w.tools = b.tools
           /\ \A k \in Kinds, j \in Index \cup {NoIndex} :
                 j # i \/ k # kind \/ i = NoIndex => w.open[k][j] = b.open[k][j]
           /\ b.open[kind][i] # 0 =>
                 /\ w.open[kind][i] = b.open[kind][i]
                 /\ w.segments = Longer(b.segments, b.open[kind][i], p)
           /\ b.open[kind][i] = 0 =>
                 /\ i # NoIndex => w.open[kind][i] = Len(b.segments) + 1
                 /\ w.segments = Longer(Append(b.segments, Fresh(kind, p)), Len(b.segments) + 1, p)
<1>0. b \in Buffer /\ Len(b.segments) \in Nat /\ b.segments \in Seq(Segment)
  <2>1. b \in Buffer
    BY DEF Standing
  <2>2. b.segments \in Seq(Segment)
    BY <2>1 DEF Buffer
  <2> QED BY <2>1, <2>2
<1>1. CASE b.open[kind][i] # 0
  <2> DEFINE n == b.open[kind][i]
  <2>1. n \in 1..Len(b.segments)
    BY <1>0, <1>1 DEF Standing
  <2>2. w = [b EXCEPT !.segments = Longer(b.segments, n, p)]
    BY <1>1 DEF Write, Longer
  <2> HIDE DEF n
  <2>3. Longer(b.segments, n, p) \in Seq(Segment) /\ Len(Longer(b.segments, n, p)) = Len(b.segments)
    BY <1>0, <2>1, LongerFacts
  <2>4. /\ Standing(w) /\ w.segments = Longer(b.segments, n, p)
        /\ w.names = b.names /\ w.stack = b.stack /\ w.agents = b.agents
        /\ w.open = b.open /\ w.tools = b.tools
    BY <2>2, <2>3, SegmentsFields
  <2> QED BY <1>1, <2>4 DEF n
<1>2. CASE b.open[kind][i] = 0
  <2> DEFINE c == Opened(b, kind, i, p)
             s == Append(b.segments, Fresh(kind, p))
  <2>1. /\ Standing(c) /\ c.segments = s
        /\ c.names = b.names /\ c.stack = b.stack /\ c.agents = b.agents /\ c.tools = b.tools
        /\ \A k \in Kinds, j \in Index \cup {NoIndex} :
              j # i \/ k # kind \/ i = NoIndex => c.open[k][j] = b.open[k][j]
        /\ i # NoIndex => c.open[kind][i] = Len(b.segments) + 1
    BY OpenedFields
  <2>2. s \in Seq(Segment) /\ Len(s) = Len(b.segments) + 1
    BY <1>0, FreshFacts
  <2>3. w = [c EXCEPT !.segments = Longer(c.segments, Len(c.segments), p)]
    BY <1>2 DEF Write, Longer
  <2> HIDE DEF c, s
  <2>4. /\ Longer(s, Len(s), p) \in Seq(Segment) /\ Len(Longer(s, Len(s), p)) = Len(s)
    BY <1>0, <2>2, LongerFacts
  <2>5. /\ Standing(w) /\ w.segments = Longer(s, Len(s), p)
        /\ w.names = c.names /\ w.stack = c.stack /\ w.agents = c.agents
        /\ w.open = c.open /\ w.tools = c.tools
    BY <2>1, <2>3, <2>4, SegmentsFields
  <2> QED BY <1>2, <2>1, <2>2, <2>5 DEF s
<1> QED BY <1>1, <1>2

\* The block an indexed call closes first.
Closed(b, i) == IF i = NoIndex THEN b ELSE CloseBlock(b, i)
NameOf(b, id) == IF id = NoId THEN Synthetic(Len(b.stack) + 1) ELSE id

LEMMA ClosedFields ==
    ASSUME NEW b, Standing(b), NEW i \in Index \cup {NoIndex}
    PROVE  /\ Standing(Closed(b, i))
           /\ Closed(b, i).segments = b.segments
           /\ Closed(b, i).names = b.names
           /\ Closed(b, i).stack = b.stack /\ Closed(b, i).agents = b.agents
BY CloseFields DEF Closed

\* The name of a call, when it has an id.
Named(b, id, name) == IF id = NoId THEN b ELSE [b EXCEPT !.names = @ \cup {<<id, name>>}]
LEMMA NamedFields ==
    ASSUME NEW b, Standing(b), NEW id \in Seq(STRING), NEW name \in Name
    PROVE  /\ Standing(Named(b, id, name))
           /\ id = NoId => Named(b, id, name).names = b.names
           /\ id # NoId => Named(b, id, name).names = b.names \cup {<<id, name>>}
           /\ Named(b, id, name).segments = b.segments
           /\ Named(b, id, name).stack = b.stack /\ Named(b, id, name).agents = b.agents
           /\ Named(b, id, name).open = b.open /\ Named(b, id, name).tools = b.tools
<1>1. CASE id = NoId
  BY <1>1 DEF Named
<1>2. CASE id # NoId
  <2> DEFINE N == b.names \cup {<<id, name>>}
             c == Named(b, id, name)
  <2>1. b \in Buffer
    BY DEF Standing
  <2>2. id \in Id
    BY DEF Id
  <2>3. N \in SUBSET (Id \X Name)
    BY <2>1, <2>2 DEF Buffer
  <2>4. c = [b EXCEPT !.names = N]
    BY <1>2 DEF Named
  <2> HIDE DEF N, c
  <2>5. /\ c \in Buffer /\ c.names = N
        /\ c.segments = b.segments
        /\ c.stack = b.stack /\ c.agents = b.agents
        /\ c.open = b.open /\ c.tools = b.tools
    BY <2>1, <2>3, <2>4 DEF Buffer
  <2>6. Standing(c)
    BY <2>5 DEF Standing
  <2> QED BY <1>2, <2>5, <2>6 DEF N, c
<1> QED BY <1>1, <1>2

\* The stack of subagents grows by one.
LEMMA PushFields ==
    ASSUME NEW b, Standing(b), b.segments # << >>, Len(b.stack) < MaxEvents,
           NEW id \in Seq(STRING)
    PROVE  /\ Standing(Push(b, id))
           /\ Push(b, id).stack = Append(b.stack, NameOf(b, id))
           /\ Push(b, id).segments = b.segments /\ Push(b, id).names = b.names
           /\ Push(b, id).open = b.open /\ Push(b, id).tools = b.tools
<1> DEFINE st == Append(b.stack, NameOf(b, id))
           ag == Append(b.agents, Len(b.segments))
           c == Push(b, id)
<1>1. b \in Buffer
  BY DEF Standing
<1>2. b.stack \in Seq(Id) /\ b.agents \in Seq(Nat) /\ b.segments \in Seq(Segment)
  BY <1>1 DEF Buffer
<1>3. NameOf(b, id) \in Id
  <2>1. id \in Id
    BY DEF Id
  <2>2. Len(b.stack) + 1 \in 1..MaxEvents
    BY <1>2, IdFacts
  <2>4. Synthetic(Len(b.stack) + 1) \in Id
    BY <2>2 DEF Id
  <2> QED BY <2>1, <2>4 DEF NameOf
<1>4. st \in Seq(Id) /\ ag \in Seq(Nat) /\ Len(st) = Len(b.stack) + 1 /\ Len(ag) = Len(b.agents) + 1
  BY <1>2, <1>3
<1>5. c = [b EXCEPT !.stack = st, !.agents = ag]
  BY DEF Push, NameOf
<1>6. \A n \in 1..Len(ag) : ag[n] \in 1..Len(b.segments)
  <2>1. \A n \in 1..Len(b.agents) : b.agents[n] \in 1..Len(b.segments)
    BY <1>2 DEF Standing
  <2>2. Len(b.segments) \in 1..Len(b.segments)
    BY <1>2
  <2> QED BY <1>2, <2>1, <2>2
<1> HIDE DEF st, ag, c
<1>7. /\ c \in Buffer /\ c.stack = st /\ c.agents = ag
      /\ c.segments = b.segments /\ c.names = b.names
      /\ c.open = b.open /\ c.tools = b.tools
  BY <1>1, <1>4, <1>5 DEF Buffer
<1>8. Len(b.agents) = Len(b.stack)
  BY DEF Standing
<1>9. Standing(c)
  <2>1. Len(c.agents) = Len(c.stack)
    BY <1>4, <1>7, <1>8
  <2>2. \A n \in DOMAIN c.agents : c.agents[n] \in 1..Len(c.segments)
    BY <1>4, <1>6, <1>7
  <2> QED BY <1>7, <2>1, <2>2 DEF Standing
<1> QED BY <1>7, <1>9 DEF c, st

\* A call of Task: a segment of its own, and a subagent on the stack.
LEMMA TaskFields ==
    ASSUME NEW b, Standing(b), Len(b.stack) < MaxEvents, NEW i \in Index \cup {NoIndex},
           NEW id \in Seq(STRING), NEW p \in Written,
           NEW r, r = CallTool(b, i, id, "Task", p)
    PROVE  /\ Standing(r)
           /\ r.segments = Append(b.segments, Fresh("subagent", p))
           /\ id = NoId => r.names = b.names
           /\ r.stack = Append(b.stack, NameOf(b, id))
           /\ r.open = Closed(b, i).open /\ r.tools = Closed(b, i).tools
<1> DEFINE c == Closed(b, i)
           d == Named(c, id, "Task")
           a == Add(d, Fresh("subagent", p))
<1>1. Fresh("subagent", p) \in Segment
  BY FreshFacts
<1>2. "Task" \in Name
  BY DEF Name
<1>3. r = Push(a, id)
  BY DEF CallTool, Closed, Named
<1>4. /\ Standing(c) /\ c.segments = b.segments /\ c.names = b.names
      /\ c.stack = b.stack /\ c.agents = b.agents
  BY ClosedFields
<1> HIDE DEF c
<1>n. /\ Standing(d) /\ d.segments = c.segments
      /\ id = NoId => d.names = c.names
      /\ id # NoId => d.names = c.names \cup {<<id, "Task">>}
      /\ d.stack = c.stack /\ d.agents = c.agents
      /\ d.open = c.open /\ d.tools = c.tools
  <2>1. Standing(c) /\ id \in Seq(STRING)
    BY <1>4
  <2> QED BY ONLY <1>2, <2>1, NamedFields
<1> HIDE DEF d
<1>5. /\ Standing(d) /\ d.segments = b.segments
      /\ id = NoId => d.names = b.names
      /\ id # NoId => d.names = b.names \cup {<<id, "Task">>}
      /\ d.stack = b.stack
      /\ d.open = c.open /\ d.tools = c.tools
  BY <1>4, <1>n
<1>6. /\ Standing(a) /\ a.segments = Append(b.segments, Fresh("subagent", p))
      /\ a.names = d.names /\ a.stack = b.stack
      /\ a.open = c.open /\ a.tools = c.tools
  BY <1>1, <1>5, AddFields
<1> HIDE DEF a
<1>7. a.segments # << >>
  <2>1. b \in Buffer
    BY DEF Standing
  <2>2. b.segments \in Seq(Segment)
    BY <2>1 DEF Buffer
  <2> QED BY <1>1, <1>6, <2>2, SMTT(30)
<1>8. NameOf(a, id) = NameOf(b, id)
  BY <1>6 DEF NameOf
<1>9. Len(a.stack) < MaxEvents
  BY <1>6
<1>10. /\ Standing(r) /\ r.stack = Append(a.stack, NameOf(a, id))
       /\ r.segments = a.segments /\ r.names = a.names
       /\ r.open = a.open /\ r.tools = a.tools
  BY <1>3, <1>6, <1>7, <1>9, PushFields
<1> QED BY <1>5, <1>6, <1>8, <1>10 DEF c

\* A call of another tool: a segment, or what the youngest subagent's segment shows.
AfterTool(b, i, id, p, r) ==
    /\ Standing(r)
    /\ b.stack = << >> => r.segments = Append(b.segments, Fresh("tool_call", p))
    /\ b.stack # << >> => \E n \in 1..Len(b.segments) : r.segments = Counted(b.segments, n)
    /\ id = NoId => r.names = b.names
    /\ r.stack = b.stack
    /\ r.open = Closed(b, i).open
    /\ \A j \in Index : j # i => (j \in r.tools <=> j \in Closed(b, i).tools)

LEMMA ToolFields ==
    ASSUME NEW b, Standing(b), NEW i \in Index \cup {NoIndex},
           NEW id \in Seq(STRING), NEW p \in Written,
           NEW r, r = CallTool(b, i, id, "tool", p)
    PROVE  AfterTool(b, i, id, p, r)
<1> DEFINE c == Closed(b, i)
           d == Named(c, id, "tool")
           e == IF InSubagent(d) THEN [d EXCEPT !.segments = Counted(d.segments, Last(d.agents))]
                ELSE Add(d, Fresh("tool_call", p))
<1>1. Fresh("tool_call", p) \in Segment
  BY FreshFacts
<1>2. "tool" \in Name /\ "tool" # "Task"
  BY DEF Name
<1>3. r = IF i = NoIndex THEN e ELSE [e EXCEPT !.tools = @ \cup {i}]
  BY <1>2 DEF CallTool, Closed, Named, Counted
<1>4. /\ Standing(c) /\ c.segments = b.segments /\ c.names = b.names
      /\ c.stack = b.stack /\ c.agents = b.agents
  BY ClosedFields
<1>c. i = NoIndex => c = b
  BY DEF Closed
<1> HIDE DEF c
<1>n. /\ Standing(d) /\ d.segments = c.segments
      /\ id = NoId => d.names = c.names
      /\ id # NoId => d.names = c.names \cup {<<id, "tool">>}
      /\ d.stack = c.stack /\ d.agents = c.agents
      /\ d.open = c.open /\ d.tools = c.tools
  <2>1. Standing(c) /\ id \in Seq(STRING)
    BY <1>4
  <2> QED BY ONLY <1>2, <2>1, NamedFields
<1> HIDE DEF d
<1>5. /\ Standing(d) /\ d.segments = b.segments
      /\ id = NoId => d.names = b.names
      /\ id # NoId => d.names = b.names \cup {<<id, "tool">>}
      /\ d.stack = b.stack /\ d.agents = b.agents
      /\ d.open = c.open /\ d.tools = c.tools
  BY <1>4, <1>n
<1>6. /\ Standing(e)
      /\ b.stack = << >> => e.segments = Append(b.segments, Fresh("tool_call", p))
      /\ b.stack # << >> => \E n \in 1..Len(b.segments) : e.segments = Counted(b.segments, n)
      /\ e.names = d.names /\ e.stack = d.stack
      /\ e.open = c.open /\ e.tools = c.tools
  <2>0. d \in Buffer
    BY <1>5 DEF Standing
  <2>1. d.segments \in Seq(Segment) /\ d.stack \in Seq(Id) /\ d.agents \in Seq(Nat)
    BY <2>0 DEF Buffer
  <2>2. CASE b.stack = << >>
    <3>1. e = Add(d, Fresh("tool_call", p))
      BY <1>5, <2>2 DEF InSubagent
    <3> HIDE DEF e
    <3> QED BY <1>1, <1>5, <2>2, <3>1, AddFields
  <2>3. CASE b.stack # << >>
    <3> DEFINE n == Last(d.agents)
    <3>1. e = [d EXCEPT !.segments = Counted(d.segments, n)]
      BY <1>5, <2>3 DEF InSubagent
    <3>2. Len(d.agents) \in DOMAIN d.agents
      <4>1. Len(d.agents) = Len(d.stack)
        BY <1>5 DEF Standing
      <4> QED BY <1>5, <2>1, <2>3, <4>1
    <3>3. n \in 1..Len(d.segments)
      BY <1>5, <3>2 DEF Standing, Last
    <3> HIDE DEF n, e
    <3>4. Counted(d.segments, n) \in Seq(Segment) /\ Len(Counted(d.segments, n)) = Len(d.segments)
      BY <2>1, <3>3, CountedFacts
    <3>5. /\ Standing(e) /\ e.segments = Counted(d.segments, n)
          /\ e.names = d.names /\ e.stack = d.stack
          /\ e.open = d.open /\ e.tools = d.tools
      BY <1>5, <3>1, <3>4, SegmentsFields
    <3> QED BY <1>5, <2>3, <3>3, <3>5
  <2> QED BY <2>2, <2>3
<1> HIDE DEF e
<1>7. CASE i = NoIndex
  BY <1>3, <1>5, <1>6, <1>7, <1>c DEF c, AfterTool
<1>8. CASE i # NoIndex
  <2> DEFINE T == e.tools \cup {i}
  <2>1. r = [e EXCEPT !.tools = T]
    BY <1>3, <1>8
  <2>2. e \in Buffer
    BY <1>6 DEF Standing
  <2>3. T \in SUBSET Index
    <3>1. e.tools \in SUBSET Index
      BY <2>2 DEF Buffer
    <3> QED BY <3>1, <1>8
  <2> HIDE DEF T
  <2>4. /\ r \in Buffer /\ r.tools = T /\ r.segments = e.segments /\ r.names = e.names
        /\ r.stack = e.stack /\ r.agents = e.agents /\ r.open = e.open
    BY <2>1, <2>2, <2>3 DEF Buffer
  <2>5. Standing(r)
    BY <1>6, <2>4 DEF Standing
  <2> QED BY <1>5, <1>6, <1>8, <2>4, <2>5 DEF T, c, AfterTool
<1> QED BY <1>7, <1>8

\* The stack is cut, and nothing else.
LEMMA PopFields ==
    ASSUME NEW b, Standing(b), NEW n \in 1..Len(b.stack)
    PROVE  /\ Standing(Pop(b, n))
           /\ Pop(b, n).stack = SubSeq(b.stack, 1, n - 1)
           /\ Len(Pop(b, n).stack) = n - 1
           /\ \A m \in 1..n - 1 : Pop(b, n).stack[m] = b.stack[m]
           /\ Pop(b, n).segments = b.segments /\ Pop(b, n).names = b.names
           /\ Pop(b, n).open = b.open /\ Pop(b, n).tools = b.tools
<1> DEFINE st == SubSeq(b.stack, 1, n - 1)
           ag == SubSeq(b.agents, 1, n - 1)
           c == Pop(b, n)
<1>1. b \in Buffer /\ Len(b.agents) = Len(b.stack)
  BY DEF Standing
<1>2. b.stack \in Seq(Id) /\ b.agents \in Seq(Nat)
  BY <1>1 DEF Buffer
<1>3. /\ st \in Seq(Id) /\ ag \in Seq(Nat) /\ Len(st) = n - 1 /\ Len(ag) = n - 1
      /\ \A m \in 1..n - 1 : st[m] = b.stack[m] /\ ag[m] = b.agents[m]
  <2>1. n - 1 \in 0..Len(b.stack) /\ n - 1 \in Nat
    BY <1>2
  <2>2. \A m \in 1..n - 1 : b.stack[m] \in Id /\ b.agents[m] \in Nat
    BY <1>1, <1>2, <2>1
  <2>3. /\ st \in Seq(Id) /\ Len(st) = n - 1 /\ \A m \in 1..n - 1 : st[m] = b.stack[m]
    BY <1>2, <2>1, <2>2, SubSeqProperties
  <2>4. /\ ag \in Seq(Nat) /\ Len(ag) = n - 1 /\ \A m \in 1..n - 1 : ag[m] = b.agents[m]
    BY <1>1, <1>2, <2>1, <2>2, SubSeqProperties
  <2> QED BY <2>3, <2>4
<1>4. c = [b EXCEPT !.stack = st, !.agents = ag]
  BY DEF Pop
<1>5. \A m \in 1..n - 1 : b.agents[m] \in 1..Len(b.segments)
  BY <1>1, <1>2 DEF Standing
<1> HIDE DEF st, ag, c
<1>6. /\ c \in Buffer /\ c.stack = st /\ c.agents = ag
      /\ c.segments = b.segments /\ c.names = b.names
      /\ c.open = b.open /\ c.tools = b.tools
  BY <1>1, <1>3, <1>4 DEF Buffer
<1>7. Standing(c)
  <2>1. \A m \in DOMAIN c.agents : c.agents[m] \in 1..Len(c.segments)
    BY <1>3, <1>5, <1>6
  <2> QED BY <1>3, <1>6, <2>1 DEF Standing
<1> QED BY <1>3, <1>6, <1>7 DEF c, st

------------------------------------------------------------------------------
(* Least and greatest elements.                                            *)

\* Every set of numbers that is not empty has a least one.
LEMMA Least ==
    ASSUME NEW S \in SUBSET Nat, S # {}
    PROVE  \E x \in S : \A y \in S : x <= y
<1>1. IsWellFoundedOn(OpToRel(<, Nat), Nat)
  BY NatLessThanWellFounded
<1>2. PICK x \in S : \A y \in S : <<y, x>> \notin OpToRel(<, Nat)
  <2> DEFINE R == OpToRel(<, Nat)
  <2>1. IsWellFoundedOn(R, Nat)
    BY <1>1
  <2> HIDE DEF R
  <2>2. \E x \in S : \A y \in S : <<y, x>> \notin R
    BY <2>1, WFMin
  <2> QED BY <2>2 DEF R
<1>3. \A y \in S : ~(y < x)
  BY <1>2 DEF OpToRel
<1> QED BY <1>3

LEMMA MinFacts ==
    ASSUME NEW S \in SUBSET Nat, S # {}
    PROVE  Min(S) \in S /\ \A y \in S : Min(S) <= y
<1>1. \E x \in S : \A y \in S : x =< y
  BY Least
<1> QED BY <1>1 DEF Min

LEMMA MaxFacts ==
    ASSUME NEW n \in Nat, NEW S \in SUBSET (1..n), S # {}
    PROVE  Max(S) \in S /\ \A y \in S : Max(S) >= y
<1> DEFINE D == {n - x : x \in S}
<1>1. D \in SUBSET Nat /\ D # {}
  <2>1. \A x \in S : n - x \in Nat
    OBVIOUS
  <2>2. PICK x \in S : TRUE
    OBVIOUS
  <2>3. n - x \in D
    BY <2>2
  <2> QED BY <2>1, <2>3
<1>2. PICK d \in D : \A e \in D : d <= e
  BY <1>1, Least
<1>3. PICK x \in S : d = n - x
  OBVIOUS
<1>4. \A y \in S : x >= y
  <2>1. TAKE y \in S
  <2>2. n - x <= n - y
    BY <1>2, <1>3
  <2>3. x \in Int /\ y \in Int /\ n \in Int
    OBVIOUS
  <2> QED BY <2>2, <2>3
<1> HIDE DEF D
<1> QED BY <1>4 DEF Max

------------------------------------------------------------------------------
(* Ids.                                                                    *)

\* A prefix agrees with what it begins, part by part.
LEMMA PrefixByIndex ==
    ASSUME NEW S, NEW x \in Seq(S), NEW y \in Seq(S)
    PROVE  IsPrefix(x, y) <=> Len(x) <= Len(y) /\ \A i \in 1..Len(x) : x[i] = y[i]
<1>0. Len(x) \in Nat /\ Len(y) \in Nat
  OBVIOUS
<1>1. ASSUME NEW z \in Seq(S), Len(x) <= Len(z)
      PROVE  /\ SubSeq(z, 1, Len(x)) \in Seq(S)
             /\ Len(SubSeq(z, 1, Len(x))) = Len(x)
             /\ \A i \in 1..Len(x) : SubSeq(z, 1, Len(x))[i] = z[i]
  <2>1. \A i \in 1..Len(x) : z[i] \in S
    BY <1>0, <1>1
  <2> QED BY <1>0, <2>1, SubSeqProperties
<1>2. ASSUME Len(x) <= Len(y)
      PROVE  SubSeq(x, 1, Len(x)) = SubSeq(y, 1, Len(x)) <=> \A i \in 1..Len(x) : x[i] = y[i]
  <2>1. /\ SubSeq(x, 1, Len(x)) \in Seq(S) /\ Len(SubSeq(x, 1, Len(x))) = Len(x)
        /\ \A i \in 1..Len(x) : SubSeq(x, 1, Len(x))[i] = x[i]
    BY <1>0, <1>1
  <2>2. /\ SubSeq(y, 1, Len(x)) \in Seq(S) /\ Len(SubSeq(y, 1, Len(x))) = Len(x)
        /\ \A i \in 1..Len(x) : SubSeq(y, 1, Len(x))[i] = y[i]
    BY <1>0, <1>1, <1>2
  <2> HIDE DEF IsPrefix
  <2>3. ASSUME SubSeq(x, 1, Len(x)) = SubSeq(y, 1, Len(x)) PROVE \A i \in 1..Len(x) : x[i] = y[i]
    BY <2>1, <2>2, <2>3
  <2>4. ASSUME \A i \in 1..Len(x) : x[i] = y[i] PROVE SubSeq(x, 1, Len(x)) = SubSeq(y, 1, Len(x))
    BY <2>1, <2>2, <2>4, SeqEqual
  <2> QED BY <2>3, <2>4
<1> QED BY <1>2 DEF IsPrefix

LEMMA SeqMono ==
    ASSUME NEW S, NEW T, S \subseteq T, NEW x \in Seq(S)
    PROVE  x \in Seq(T)
<1>1. \A i \in 1..Len(x) : x[i] \in T
  OBVIOUS
<1> QED BY <1>1

\* The parts an id of a result is made of.
Parts == STRING \cup {"result"}

LEMMA IdTypes ==
    /\ \A a \in TaskId \cup ToolId : a \in Seq(Parts) /\ Len(a) \in Nat \ {0} /\ a # NoId
    /\ \A suffix \in {<< >>, <<"result">>} : suffix \in Seq(Parts)
<1>1. STRING \subseteq Parts /\ "result" \in Parts
  BY DEF Parts
<1> HIDE DEF Parts
<1>2. ASSUME NEW a \in TaskId \cup ToolId
      PROVE  a \in Seq(Parts) /\ Len(a) \in Nat \ {0} /\ a # NoId
  <2>1. a \in Seq(STRING) /\ a # << >>
    BY IdAssumption DEF NoId
  <2>2. a \in Seq(Parts)
    BY <1>1, <2>1, SeqMono
  <2> QED BY <2>1, <2>2 DEF NoId
<1>3. << >> \in Seq(Parts) /\ <<"result">> \in Seq(Parts)
  BY <1>1
<1> QED BY <1>2, <1>3

\* Of the ids of calls only the same one matches, extended or not.
LEMMA GivenMatch ==
    ASSUME NEW a \in TaskId \cup ToolId, NEW c \in TaskId \cup ToolId,
           NEW suffix \in {<< >>, <<"result">>}
    PROVE  Match(a, c \o suffix) <=> a = c
<1> DEFINE r == c \o suffix
<1>1. a \in Seq(Parts) /\ c \in Seq(Parts) /\ suffix \in Seq(Parts)
  BY IdTypes
<1>2. /\ r \in Seq(Parts) /\ Len(r) = Len(c) + Len(suffix)
      /\ \A i \in 1..Len(c) : r[i] = c[i]
      /\ Len(a) \in Nat /\ Len(c) \in Nat /\ Len(suffix) \in Nat
  BY <1>1
<1> HIDE DEF r
<1>3. ASSUME \A i \in 1..Len(a) : i <= Len(c) => a[i] = c[i] PROVE a = c
  <2>1. CASE Len(a) <= Len(c)
    <3>1. IsPrefix(a, c)
      BY <1>1, <1>2, <1>3, <2>1, PrefixByIndex
    <3> QED BY <3>1, IdAssumption
  <2>2. CASE Len(c) <= Len(a)
    <3>1. IsPrefix(c, a)
      BY <1>1, <1>2, <1>3, <2>2, PrefixByIndex
    <3> QED BY <3>1, IdAssumption
  <2> QED BY <1>2, <2>1, <2>2
<1>4. ASSUME IsPrefix(a, r) PROVE a = c
  <2>1. \A i \in 1..Len(a) : a[i] = r[i]
    BY <1>1, <1>2, <1>4, PrefixByIndex
  <2>2. \A i \in 1..Len(a) : i <= Len(c) => a[i] = c[i]
    BY <1>2, <2>1
  <2> QED BY <1>3, <2>2
<1>5. ASSUME IsPrefix(r, a) PROVE a = c
  <2>1. \A i \in 1..Len(r) : r[i] = a[i]
    BY <1>1, <1>2, <1>5, PrefixByIndex, SMTT(30)
  <2>2. \A i \in 1..Len(a) : i <= Len(c) => a[i] = c[i]
    BY <1>2, <2>1
  <2> QED BY <1>3, <2>2
<1>6. IsPrefix(c, r)
  BY <1>1, <1>2, PrefixByIndex
<1> QED BY <1>4, <1>5, <1>6 DEF Match, r

\* A made-up name matches none of them.
LEMMA SyntheticUnmatched ==
    ASSUME NEW k, NEW c \in TaskId \cup ToolId, NEW suffix \in {<< >>, <<"result">>}
    PROVE  ~Match(Synthetic(k), c \o suffix)
<1> DEFINE S == Parts \cup {"__task_", ToString(k)}
           r == c \o suffix
           s == Synthetic(k)
<1>1. c \in Seq(Parts) /\ suffix \in Seq(Parts) /\ Len(c) \in Nat \ {0}
  BY IdTypes
<1>2. r \in Seq(Parts) /\ Len(r) \in Nat \ {0} /\ r[1] = c[1]
  BY <1>1
<1>3. r[1] # "__task_"
  BY <1>2, IdAssumption
<1>4. s \in Seq(S) /\ s[1] = "__task_" /\ Len(s) = 2
  BY DEF Synthetic
<1> HIDE DEF r, s
<1>5. r \in Seq(S)
  <2>1. Parts \subseteq S
    OBVIOUS
  <2> HIDE DEF S
  <2> QED BY <1>2, <2>1, SeqMono
<1> HIDE DEF S
<1>6. ~IsPrefix(s, r)
  BY <1>2, <1>3, <1>4, <1>5, PrefixByIndex
<1>7. ~IsPrefix(r, s)
  BY <1>2, <1>3, <1>4, <1>5, PrefixByIndex
<1> QED BY <1>6, <1>7 DEF Match, r, s

\* What makes the id of a result a task's.
LEMMA ResultId ==
    ASSUME NEW c \in TaskId \cup ToolId, NEW suffix \in {<< >>, <<"result">>}
    PROVE  /\ c \o suffix # NoId
           /\ c \in TaskId => "task" \in ToSet(c \o suffix)
<1>1. c \in Seq(Parts) /\ suffix \in Seq(Parts) /\ Len(c) \in Nat \ {0}
  BY IdTypes
<1> DEFINE r == c \o suffix
<1>2. r \in Seq(Parts) /\ Len(r) = Len(c) + Len(suffix) /\ \A i \in 1..Len(c) : r[i] = c[i]
  BY <1>1
<1>3. r # NoId
  BY <1>1, <1>2 DEF NoId
<1>4. ASSUME c \in TaskId PROVE "task" \in ToSet(r)
  <2>1. "task" \in ToSet(c)
    BY <1>4, IdAssumption
  <2>2. PICK i \in DOMAIN c : c[i] = "task"
    BY <2>1 DEF ToSet
  <2>3. i \in 1..Len(c) /\ i \in 1..Len(r)
    BY <1>1, <1>2, <2>2
  <2>4. r[i] = "task" /\ i \in DOMAIN r
    BY <1>2, <2>2, <2>3
  <2> HIDE DEF r
  <2> QED BY <2>4 DEF ToSet
<1> QED BY <1>3, <1>4

\* No other tool's id looks like a task's.
LEMMA ToolIsNoTask ==
    ASSUME NEW c \in ToolId
    PROVE  c # NoId /\ "task" \notin ToSet(c) /\ c \notin TaskId /\ c \o << >> = c
<1>1. c \in Seq(STRING)
  BY IdAssumption
<1>2. c \o << >> = c
  BY <1>1
<1> QED BY <1>2, IdAssumption

------------------------------------------------------------------------------
(* The subagents that are hidden.                                          *)

\* What a result does to the stack: it stays, or is cut at an entry that matches.
LEMMA MatchingFacts ==
    ASSUME NEW b, Standing(b), b.stack # << >>, NEW id, Matching(b, id) # {}
    PROVE  Max(Matching(b, id)) \in Matching(b, id) /\ Max(Matching(b, id)) \in 1..Len(b.stack)
<1>1. b \in Buffer
  BY DEF Standing
<1>2. b.stack \in Seq(Id) /\ Len(b.stack) \in Nat
  <2>1. b.stack \in Seq(Id)
    BY <1>1 DEF Buffer
  <2> QED BY <2>1
<1>3. Matching(b, id) \subseteq 1..Len(b.stack)
  <2>1. CASE id # NoId
    BY <2>1 DEF Matching
  <2>2. CASE id = NoId
    BY <1>2, <2>2 DEF Matching
  <2> QED BY <2>1, <2>2
<1> QED BY <1>2, <1>3, MaxFacts

LEMMA ResultFields ==
    ASSUME NEW b, Standing(b), NEW id, NEW r, r = TakeResult(b, id)
    PROVE  r = b \/ \E n \in 1..Len(b.stack) : r = Pop(b, n)
<1>1. b \in Buffer
  BY DEF Standing
<1>2. b.stack \in Seq(Id)
  BY <1>1 DEF Buffer
<1>3. CASE b.stack = << >>
  BY <1>3 DEF TakeResult, InSubagent
<1>4. CASE b.stack # << >>
  <2>1. Len(b.stack) \in 1..Len(b.stack)
    BY <1>2, <1>4
  <2>2. CASE Matching(b, id) # {}
    BY <1>4, <2>2, MatchingFacts DEF TakeResult, InSubagent
  <2>3. CASE Matching(b, id) = {}
    BY <1>4, <2>1, <2>3 DEF TakeResult, InSubagent
  <2> QED BY <2>2, <2>3
<1> QED BY <1>3, <1>4

\* The tasks without the one at n.
LEMMA RemoveFacts ==
    ASSUME NEW ts \in Seq(TaskId), NEW n \in 1..Len(ts)
    PROVE  /\ RemoveAt(ts, n) \in Seq(TaskId)
           /\ Len(RemoveAt(ts, n)) = Len(ts) - 1
           /\ \A m \in 1..Len(ts) - 1 : RemoveAt(ts, n)[m] = IF m < n THEN ts[m] ELSE ts[m + 1]
<1> DEFINE x == SubSeq(ts, 1, n - 1)
           y == SubSeq(ts, n + 1, Len(ts))
<1>0. Len(ts) \in Nat /\ n \in Nat /\ 1 <= n /\ n <= Len(ts)
  OBVIOUS
<1>1. \A i \in 1..n - 1 : ts[i] \in TaskId
  BY <1>0
<1>2. \A i \in n + 1..Len(ts) : ts[i] \in TaskId
  BY <1>0
<1>3. x \in Seq(TaskId) /\ Len(x) = n - 1 /\ \A i \in 1..n - 1 : x[i] = ts[i]
  BY <1>0, <1>1, SubSeqProperties
<1>4. y \in Seq(TaskId) /\ Len(y) = Len(ts) - n /\ \A i \in 1..Len(ts) - n : y[i] = ts[n + i]
  BY <1>0, <1>2, SubSeqProperties
<1>5. RemoveAt(ts, n) = x \o y
  BY DEF RemoveAt
<1> HIDE DEF x, y
<1>6. x \o y \in Seq(TaskId) /\ Len(x \o y) = Len(ts) - 1
  BY <1>0, <1>3, <1>4
<1>7. ASSUME NEW m \in 1..Len(ts) - 1
      PROVE  (x \o y)[m] = IF m < n THEN ts[m] ELSE ts[m + 1]
  <2>1. CASE m < n
    BY <1>0, <1>3, <1>4, <2>1
  <2>2. CASE ~(m < n)
    <3>1. (x \o y)[m] = y[m - (n - 1)] /\ m - (n - 1) \in 1..Len(ts) - n
      BY <1>0, <1>3, <1>4, <2>2
    <3>2. y[m - (n - 1)] = ts[n + (m - (n - 1))]
      BY <1>4, <3>1
    <3>3. n + (m - (n - 1)) = m + 1
      BY <1>0
    <3> QED BY <2>2, <3>1, <3>2, <3>3
  <2> QED BY <2>1, <2>2
<1> QED BY <1>5, <1>6, <1>7

\* A task ends: the others keep their order and stay distinct.
LEMMA DistinctAfterRemove ==
    ASSUME NEW ts \in Seq(TaskId), NEW n \in 1..Len(ts),
           \A m, q \in DOMAIN ts : ts[m] = ts[q] => m = q
    PROVE  /\ \A m, q \in DOMAIN RemoveAt(ts, n) :
                 RemoveAt(ts, n)[m] = RemoveAt(ts, n)[q] => m = q
           /\ \A m \in DOMAIN ts : m # n => \E q \in DOMAIN RemoveAt(ts, n) :
                                               RemoveAt(ts, n)[q] = ts[m]
<1> DEFINE us == RemoveAt(ts, n)
<1>0. Len(ts) \in Nat /\ n \in Nat /\ 1 <= n /\ n <= Len(ts) /\ DOMAIN ts = 1..Len(ts)
  OBVIOUS
<1>1. /\ us \in Seq(TaskId) /\ Len(us) = Len(ts) - 1
      /\ \A m \in 1..Len(ts) - 1 : us[m] = IF m < n THEN ts[m] ELSE ts[m + 1]
  BY RemoveFacts
<1>2. DOMAIN us = 1..Len(ts) - 1
  BY <1>0, <1>1
<1> HIDE DEF us
<1> DEFINE at(m) == IF m < n THEN m ELSE m + 1
<1>3. \A m \in 1..Len(ts) - 1 : us[m] = ts[at(m)] /\ at(m) \in DOMAIN ts
  BY <1>0, <1>1, SMTT(30)
<1>4. ASSUME NEW m \in DOMAIN us, NEW q \in DOMAIN us, us[m] = us[q] PROVE m = q
  <2>1. at(m) = at(q)
    BY <1>2, <1>3, <1>4
  <2> QED BY <1>0, <1>2, <2>1
<1>5. ASSUME NEW m \in DOMAIN ts, m # n PROVE \E q \in DOMAIN us : us[q] = ts[m]
  <2>1. CASE m < n
    <3>1. m \in DOMAIN us /\ at(m) = m
      BY <1>0, <1>2, <2>1
    <3> QED BY <1>2, <1>3, <3>1
  <2>2. CASE m > n
    <3>1. m - 1 \in DOMAIN us /\ at(m - 1) = m
      BY <1>0, <1>2, <2>2
    <3> QED BY <1>2, <1>3, <3>1
  <2> QED BY <1>0, <1>5, <2>1, <2>2
<1> QED BY <1>4, <1>5 DEF us

\* A result that matches no entry but a task's: with ids of its own the task is not hidden
\* any more, or its entry is cut off with the younger ones.
LEMMA ReturnGiven ==
    ASSUME NEW b, Standing(b), NEW ts \in Seq(TaskId), NEW cr \in BOOLEAN, AgentsOK(b, "given", ts, cr),
           NEW n \in 1..Len(ts), NEW suffix \in {<< >>, <<"result">>},
           NEW cs \in BOOLEAN, cs <=> (cr \/ n < Len(ts))
    PROVE  AgentsOK(TakeResult(b, ts[n] \o suffix), "given", RemoveAt(ts, n), cs)
<1> DEFINE id == ts[n] \o suffix
           us == RemoveAt(ts, n)
           r == TakeResult(b, id)
<1>0. /\ b \in Buffer /\ b.stack \in Seq(Id) /\ Len(b.stack) \in Nat
      /\ DOMAIN b.stack = 1..Len(b.stack)
      /\ Len(ts) \in Nat /\ n \in Nat /\ 1 <= n /\ n <= Len(ts) /\ DOMAIN ts = 1..Len(ts)
      /\ ts[n] \in TaskId
  <2>1. b \in Buffer
    BY DEF Standing
  <2>2. b.stack \in Seq(Id)
    BY <2>1 DEF Buffer
  <2> QED BY <2>1, <2>2
<1>1. /\ \A m, q \in DOMAIN ts : ts[m] = ts[q] => m = q
      /\ \A m \in DOMAIN b.stack : \E q \in DOMAIN ts : b.stack[m] = ts[q]
      /\ \A m, q \in DOMAIN b.stack : b.stack[m] = b.stack[q] => m = q
      /\ ~cr => b.stack = ts
  BY DEF AgentsOK
<1>2. /\ us \in Seq(TaskId) /\ Len(us) = Len(ts) - 1
      /\ \A m, q \in DOMAIN us : us[m] = us[q] => m = q
      /\ \A m \in DOMAIN ts : m # n => \E q \in DOMAIN us : us[q] = ts[m]
      /\ \A m \in 1..Len(ts) - 1 : us[m] = IF m < n THEN ts[m] ELSE ts[m + 1]
  BY <1>1, RemoveFacts, DistinctAfterRemove
<1>3. \A m \in DOMAIN b.stack : Match(b.stack[m], id) <=> b.stack[m] = ts[n]
  <2>1. TAKE m \in DOMAIN b.stack
  <2>2. b.stack[m] \in TaskId
    BY <1>0, <1>1
  <2> QED BY <1>0, <2>2, GivenMatch
<1>4. id # NoId
  BY <1>0, ResultId
<1>5. Matching(b, id) = {m \in 1..Len(b.stack) : b.stack[m] = ts[n]}
  BY <1>0, <1>3, <1>4 DEF Matching
<1> HIDE DEF id, us
<1>6. CASE Matching(b, id) # {} /\ b.stack # << >>
  <2> DEFINE m == Max(Matching(b, id))
  <2>1. m \in 1..Len(b.stack) /\ b.stack[m] = ts[n]
    BY <1>5, <1>6, MatchingFacts
  <2>2. r = Pop(b, m)
    BY <1>6 DEF TakeResult, InSubagent
  <2> HIDE DEF m, r
  <2>3. /\ Standing(r) /\ Len(r.stack) = m - 1
        /\ r.stack = SubSeq(b.stack, 1, m - 1)
        /\ \A q \in 1..m - 1 : r.stack[q] = b.stack[q]
    BY <2>1, <2>2, PopFields
  <2>4. DOMAIN r.stack = 1..m - 1 /\ 1..m - 1 \subseteq DOMAIN b.stack /\ r.stack \in Seq(Id)
    <3>1. r \in Buffer
      BY <2>3 DEF Standing
    <3>2. r.stack \in Seq(Id)
      BY <3>1 DEF Buffer
    <3> QED BY <1>0, <2>1, <2>3, <3>2
  <2>5. ASSUME NEW q \in DOMAIN r.stack PROVE \E p \in DOMAIN us : r.stack[q] = us[p]
    <3>1. q \in DOMAIN b.stack /\ r.stack[q] = b.stack[q] /\ q # m /\ m \in DOMAIN b.stack
      BY <1>0, <2>1, <2>3, <2>4
    <3>2. b.stack[q] # ts[n]
      BY <1>1, <2>1, <3>1
    <3>3. PICK p \in DOMAIN ts : b.stack[q] = ts[p]
      BY <1>1, <3>1
    <3> QED BY <1>2, <3>1, <3>2, <3>3
  <2>6. \A p, q \in DOMAIN r.stack : r.stack[p] = r.stack[q] => p = q
    BY <1>1, <2>3, <2>4
  <2>7. ASSUME ~cs PROVE r.stack = us
    <3>0. ~cr /\ ~(n < Len(ts))
      BY <2>7
    <3>1. b.stack = ts /\ n = Len(ts)
      <4>1. b.stack = ts
        BY <1>1, <3>0
      <4>2. n = Len(ts)
        <5>1. Len(ts) \in Int /\ n \in Int /\ n <= Len(ts)
          BY <1>0
        <5>2. ~(n < Len(ts))
          BY <3>0
        <5> QED BY ONLY <5>1, <5>2
      <4> QED BY <4>1, <4>2
    <3>2. m = n
      BY <1>0, <1>1, <2>1, <3>1
    <3>3. \A q \in 1..n - 1 : r.stack[q] = us[q]
      BY <1>0, <1>2, <2>3, <3>1, <3>2
    <3>4. us \in Seq(Id)
      <4>1. TaskId \subseteq Id
        BY IdFacts DEF Id
      <4> HIDE DEF Id
      <4> QED BY <1>2, <4>1, SeqMono
    <3>5. Len(r.stack) = Len(us)
      BY <1>2, <2>3, <3>1, <3>2
    <3> QED BY <2>3, <2>4, <3>1, <3>2, <3>3, <3>4, <3>5, SeqEqual
  <2> QED BY <1>2, <2>5, <2>6, <2>7 DEF AgentsOK, us, r, id
<1>7. CASE Matching(b, id) = {} \/ b.stack = << >>
  <2>1. \A m \in DOMAIN b.stack : b.stack[m] # ts[n]
    BY <1>0, <1>5, <1>7
  <2>2. cr
    BY <1>0, <1>1, <2>1
  <2>3. r = b \/ \E m \in 1..Len(b.stack) : r = Pop(b, m)
    BY ResultFields
  <2> HIDE DEF r
  <2>4. /\ DOMAIN r.stack \subseteq DOMAIN b.stack
        /\ \A q \in DOMAIN r.stack : r.stack[q] = b.stack[q]
    <3>1. CASE r = b
      BY <3>1
    <3>2. ASSUME NEW m \in 1..Len(b.stack), r = Pop(b, m)
          PROVE  DOMAIN r.stack = 1..m - 1 /\ \A q \in 1..m - 1 : r.stack[q] = b.stack[q]
      <4>1. Standing(r) /\ Len(r.stack) = m - 1 /\ \A q \in 1..m - 1 : r.stack[q] = b.stack[q]
        BY <3>2, PopFields
      <4>2. r \in Buffer
        BY <4>1 DEF Standing
      <4>3. r.stack \in Seq(Id)
        BY <4>2 DEF Buffer
      <4> QED BY <4>1, <4>3
    <3> QED BY <1>0, <2>3, <3>1, <3>2
  <2>5. ASSUME NEW q \in DOMAIN r.stack PROVE \E p \in DOMAIN us : r.stack[q] = us[p]
    <3>1. PICK p \in DOMAIN ts : b.stack[q] = ts[p]
      BY <1>1, <2>4
    <3> QED BY <1>2, <2>1, <2>4, <3>1
  <2>6. \A p, q \in DOMAIN r.stack : r.stack[p] = r.stack[q] => p = q
    BY <1>1, <2>4
  <2> QED BY <1>2, <2>2, <2>5, <2>6 DEF AgentsOK, us, r, id
<1> QED BY <1>6, <1>7

\* The parts of the stack, element by element.
LEMMA StackFacts ==
    ASSUME NEW b, Standing(b)
    PROVE  b \in Buffer /\ b.stack \in Seq(Id) /\ Len(b.stack) \in Nat
           /\ DOMAIN b.stack = 1..Len(b.stack)
<1>1. b \in Buffer
  BY DEF Standing
<1>2. b.stack \in Seq(Id)
  BY <1>1 DEF Buffer
<1> QED BY <1>1, <1>2

LEMMA PopStack ==
    ASSUME NEW b, Standing(b), NEW n \in 1..Len(b.stack), NEW r, r = Pop(b, n)
    PROVE  /\ Standing(r) /\ DOMAIN r.stack = 1..n - 1 /\ Len(r.stack) = n - 1
           /\ \A q \in 1..n - 1 : r.stack[q] = b.stack[q]
           /\ r.names = b.names
<1>1. /\ Standing(r) /\ Len(r.stack) = n - 1 /\ \A q \in 1..n - 1 : r.stack[q] = b.stack[q]
      /\ r.names = b.names
  BY PopFields
<1> QED BY <1>1, StackFacts

\* A made-up entry is last on the stack when there is one.
LEMMA SyntheticLast ==
    ASSUME NEW b, Standing(b), b.stack # << >>,
           \A m \in DOMAIN b.stack : \E k \in 1..MaxEvents : b.stack[m] = Synthetic(k)
    PROVE  /\ Len(b.stack) \in 1..Len(b.stack)
           /\ IsSynthetic(Last(b.stack)) /\ IsSynthetic(b.stack[Len(b.stack)])
<1>1. Len(b.stack) \in 1..Len(b.stack) /\ DOMAIN b.stack = 1..Len(b.stack)
  BY StackFacts
<1>2. PICK k \in 1..MaxEvents : b.stack[Len(b.stack)] = Synthetic(k)
  BY <1>1
<1>3. Synthetic(k)[1] = "__task_"
  BY DEF Synthetic
<1> QED BY <1>1, <1>2, <1>3 DEF IsSynthetic, Last

\* With ids on the results only, the result of a task ends the youngest subagent.
LEMMA ReturnLate ==
    ASSUME NEW b, Standing(b), NEW ts \in Seq(TaskId), NEW cr, AgentsOK(b, "late", ts, cr),
           NEW n \in 1..Len(ts), NEW suffix \in {<< >>, <<"result">>}, NEW cs
    PROVE  AgentsOK(TakeResult(b, ts[n] \o suffix), "late", RemoveAt(ts, n), cs)
<1> DEFINE id == ts[n] \o suffix
           us == RemoveAt(ts, n)
           r == TakeResult(b, id)
           l == Len(b.stack)
<1>0. /\ b.stack \in Seq(Id) /\ Len(b.stack) \in Nat /\ DOMAIN b.stack = 1..Len(b.stack)
      /\ Len(ts) \in Nat /\ n <= Len(ts) /\ 1 <= n /\ ts[n] \in TaskId
  BY StackFacts
<1>1. /\ \A m, q \in DOMAIN ts : ts[m] = ts[q] => m = q
      /\ b.names = {} /\ Len(b.stack) = Len(ts)
      /\ \A m \in DOMAIN b.stack : \E k \in 1..MaxEvents : b.stack[m] = Synthetic(k)
  BY DEF AgentsOK
<1>2. /\ us \in Seq(TaskId) /\ Len(us) = Len(ts) - 1
      /\ \A m, q \in DOMAIN us : us[m] = us[q] => m = q
  BY <1>1, RemoveFacts, DistinctAfterRemove
<1>3. b.stack # << >>
  BY <1>0, <1>1
<1>4. l \in 1..l /\ IsSynthetic(Last(b.stack))
  BY <1>1, <1>3, SyntheticLast
<1>5. id # NoId /\ "task" \in ToSet(id)
  BY <1>0, ResultId
<1>6. \A m \in 1..Len(b.stack) : ~Match(b.stack[m], id)
  <2>1. TAKE m \in 1..Len(b.stack)
  <2>2. PICK k \in 1..MaxEvents : b.stack[m] = Synthetic(k)
    BY <1>0, <1>1
  <2>3. ~Match(Synthetic(k), id)
    BY <1>0, SyntheticUnmatched
  <2> QED BY <2>2, <2>3
<1>7. Matching(b, id) = {}
  BY <1>5, <1>6 DEF Matching
<1>8. r = Pop(b, l)
  BY <1>1, <1>3, <1>4, <1>5, <1>7 DEF TakeResult, InSubagent
<1> HIDE DEF r, us
<1>9. /\ DOMAIN r.stack = 1..l - 1 /\ Len(r.stack) = l - 1
      /\ \A q \in 1..l - 1 : r.stack[q] = b.stack[q]
      /\ r.names = b.names
  BY <1>4, <1>8, PopStack
<1>10. \A m \in DOMAIN r.stack : \E k \in 1..MaxEvents : r.stack[m] = Synthetic(k)
  BY <1>0, <1>1, <1>9
<1> QED BY <1>1, <1>2, <1>9, <1>10 DEF AgentsOK, r, us

\* Without any ids, every result ends the youngest subagent.
LEMMA ReturnAbsent ==
    ASSUME NEW b, Standing(b), NEW ts \in Seq(TaskId), NEW us \in Seq(TaskId),
           NEW cr, NEW cs, AgentsOK(b, "absent", ts, cr),
           Len(us) \in {Len(ts), Len(ts) - 1},
           \A m, q \in DOMAIN us : us[m] = us[q] => m = q
    PROVE  AgentsOK(TakeResult(b, NoId), "absent", us, cs)
<1> DEFINE r == TakeResult(b, NoId)
           l == Len(b.stack)
<1>0. /\ b.stack \in Seq(Id) /\ Len(b.stack) \in Nat /\ DOMAIN b.stack = 1..Len(b.stack)
      /\ Len(ts) \in Nat /\ Len(us) \in Nat
  BY StackFacts
<1>1. /\ b.names = {} /\ Len(b.stack) <= Len(ts)
      /\ \A m \in DOMAIN b.stack : \E k \in 1..MaxEvents : b.stack[m] = Synthetic(k)
  BY DEF AgentsOK
<1>2. CASE b.stack = << >>
  <2>1. r = b /\ Len(b.stack) = 0
    BY <1>2 DEF TakeResult, InSubagent
  <2>2. Len(b.stack) <= Len(us)
    BY <1>0, <2>1
  <2> HIDE DEF r
  <2> QED BY <1>1, <2>1, <2>2 DEF AgentsOK, r
<1>3. CASE b.stack # << >>
  <2>1. l \in 1..l /\ IsSynthetic(b.stack[l])
    BY <1>1, <1>3, SyntheticLast
  <2>2. Matching(b, NoId) = {l}
    BY <2>1 DEF Matching
  <2>3. Max(Matching(b, NoId)) = l
    <3>1. Max(Matching(b, NoId)) \in Matching(b, NoId)
      BY <1>3, <2>2, MatchingFacts
    <3> QED BY <2>2, <3>1
  <2>4. r = Pop(b, l)
    BY <1>3, <2>2, <2>3 DEF TakeResult, InSubagent
  <2> HIDE DEF r
  <2>5. /\ DOMAIN r.stack = 1..l - 1 /\ Len(r.stack) = l - 1
        /\ \A q \in 1..l - 1 : r.stack[q] = b.stack[q]
        /\ r.names = b.names
    <3>1. l \in 1..Len(b.stack)
      BY <2>1
    <3> QED BY <2>4, <3>1, PopStack, SMTT(30)
  <2>6. \A m \in DOMAIN r.stack : \E k \in 1..MaxEvents : r.stack[m] = Synthetic(k)
    BY <1>0, <1>1, <2>5
  <2>7. Len(r.stack) <= Len(us)
    BY <1>0, <1>1, <2>5
  <2> QED BY <1>1, <2>5, <2>6, <2>7 DEF AgentsOK, r
<1> QED BY <1>2, <1>3

\* A result of another tool ends no subagent, unless there are no ids.
LEMMA OtherResult ==
    ASSUME NEW b, Standing(b), NEW how \in {"given", "late"}, NEW ts \in Seq(TaskId),
           NEW cr, AgentsOK(b, how, ts, cr), NEW id \in ToolId
    PROVE  TakeResult(b, id) = b
<1>0. /\ b.stack \in Seq(Id) /\ Len(b.stack) \in Nat /\ DOMAIN b.stack = 1..Len(b.stack)
      /\ DOMAIN ts = 1..Len(ts)
  BY StackFacts
<1>1. id # NoId /\ "task" \notin ToSet(id) /\ id \notin TaskId /\ id \o << >> = id
  BY ToolIsNoTask
<1>2. \A m \in 1..Len(b.stack) : ~Match(b.stack[m], id)
  <2>1. CASE how = "given"
    <3>1. TAKE m \in 1..Len(b.stack)
    <3>2. \A q \in DOMAIN b.stack : \E p \in DOMAIN ts : b.stack[q] = ts[p]
      BY <2>1 DEF AgentsOK
    <3>3. b.stack[m] \in TaskId
      BY <1>0, <3>2
    <3> QED BY <1>1, <3>3, GivenMatch
  <2>2. CASE how = "late"
    <3>1. TAKE m \in 1..Len(b.stack)
    <3>2. \A q \in DOMAIN b.stack : \E k \in 1..MaxEvents : b.stack[q] = Synthetic(k)
      BY <2>2 DEF AgentsOK
    <3>3. PICK k \in 1..MaxEvents : b.stack[m] = Synthetic(k)
      BY <1>0, <3>2
    <3> QED BY <1>1, <3>3, SyntheticUnmatched
  <2> QED BY <2>1, <2>2
<1>3. Matching(b, id) = {}
  BY <1>1, <1>2 DEF Matching
<1> QED BY <1>1, <1>3 DEF TakeResult

\* A call of Task puts the subagent on the stack.
LEMMA LaunchAgents ==
    ASSUME NEW b, Standing(b), NEW how \in {"given", "late", "absent"},
           NEW ts \in Seq(TaskId), NEW cr, AgentsOK(b, how, ts, cr),
           Len(b.stack) < MaxEvents,
           NEW id \in TaskId, \A m \in DOMAIN ts : ts[m] # id,
           NEW given, how = "given" => given = id, how # "given" => given = NoId,
           NEW r, r.stack = Append(b.stack, NameOf(b, given)),
           given = NoId => r.names = b.names
    PROVE  AgentsOK(r, how, Append(ts, id), cr)
<1> DEFINE us == Append(ts, id)
           l == Len(b.stack)
<1>0. /\ b.stack \in Seq(Id) /\ l \in Nat /\ DOMAIN b.stack = 1..l
      /\ Len(ts) \in Nat /\ DOMAIN ts = 1..Len(ts) /\ id # NoId
  BY StackFacts, IdTypes
<1>1. \A m, q \in DOMAIN ts : ts[m] = ts[q] => m = q
  BY DEF AgentsOK
<1>2. /\ us \in Seq(TaskId) /\ Len(us) = Len(ts) + 1 /\ DOMAIN us = 1..Len(ts) + 1
      /\ us[Len(ts) + 1] = id /\ \A m \in 1..Len(ts) : us[m] = ts[m]
  OBVIOUS
<1> HIDE DEF us
<1>3. \A m, q \in DOMAIN us : us[m] = us[q] => m = q
  BY <1>0, <1>1, <1>2
<1>4. /\ Len(r.stack) = l + 1 /\ DOMAIN r.stack = 1..l + 1
      /\ r.stack[l + 1] = NameOf(b, given) /\ \A m \in 1..l : r.stack[m] = b.stack[m]
  BY <1>0
<1>5. CASE how = "given"
  <2>1. NameOf(b, given) = id
    BY <1>0, <1>5 DEF NameOf
  <2>2. /\ \A m \in DOMAIN b.stack : \E n \in DOMAIN ts : b.stack[m] = ts[n]
        /\ \A m, n \in DOMAIN b.stack : b.stack[m] = b.stack[n] => m = n
        /\ ~cr => b.stack = ts
    BY <1>5 DEF AgentsOK
  <2>3. \A m \in DOMAIN r.stack : \E n \in DOMAIN us : r.stack[m] = us[n]
    <3>1. TAKE m \in DOMAIN r.stack
    <3>2. CASE m = l + 1
      <4>1. Len(ts) + 1 \in DOMAIN us
        BY <1>0, <1>2
      <4> QED BY <1>2, <1>4, <2>1, <3>2, <4>1
    <3>3. CASE m # l + 1
      <4>1. m \in 1..l
        BY <1>0, <1>4, <3>3
      <4>2. PICK n \in DOMAIN ts : b.stack[m] = ts[n]
        BY <1>0, <2>2, <4>1
      <4>3. n \in DOMAIN us
        BY <1>0, <1>2
      <4> QED BY <1>0, <1>2, <1>4, <4>1, <4>2, <4>3
    <3> QED BY <3>2, <3>3
  <2>4. \A m \in 1..l : b.stack[m] # id
    BY <1>0, <2>2
  <2>5. \A m, n \in DOMAIN r.stack : r.stack[m] = r.stack[n] => m = n
    BY <1>0, <1>4, <2>1, <2>2, <2>4
  <2>6. ~cr => r.stack = us
    BY <2>1, <2>2 DEF us
  <2> QED BY <1>3, <1>5, <2>3, <2>5, <2>6 DEF AgentsOK, us
<1>6. CASE how # "given"
  <2>1. NameOf(b, given) = Synthetic(l + 1) /\ l + 1 \in 1..MaxEvents
    BY <1>0, <1>6, IdFacts DEF NameOf
  <2>2. /\ b.names = {}
        /\ \A m \in DOMAIN b.stack : \E k \in 1..MaxEvents : b.stack[m] = Synthetic(k)
        /\ how = "late" => l = Len(ts)
        /\ how = "absent" => l <= Len(ts)
    BY <1>6 DEF AgentsOK
  <2>3. \A m \in DOMAIN r.stack : \E k \in 1..MaxEvents : r.stack[m] = Synthetic(k)
    BY <1>0, <1>4, <2>1, <2>2
  <2>4. r.names = {}
    BY <1>6, <2>2
  <2>5. (how = "late" => l + 1 = Len(ts) + 1) /\ (how = "absent" => l + 1 <= Len(ts) + 1)
    BY <1>0, <2>2
  <2> QED BY <1>2, <1>3, <1>4, <1>6, <2>3, <2>4, <2>5 DEF AgentsOK, us
<1> QED BY <1>5, <1>6

------------------------------------------------------------------------------
(* The order of the segments.                                              *)

LEMMA SegmentAt ==
    ASSUME NEW s \in Seq(Segment), NEW n \in DOMAIN s
    PROVE  s[n].no \in Nat /\ s[n].pieces \in Seq(Written)
<1>1. s[n] \in Segment
  OBVIOUS
<1> QED BY <1>1 DEF Segment

LEMMA OrderedMono ==
    ASSUME NEW s \in Seq(Segment), NEW k \in Nat, NEW l \in Nat, Ordered(s, k), k <= l
    PROVE  Ordered(s, l)
<1>1. \A n \in DOMAIN s : s[n].no \in Nat
  BY SegmentAt
<1>2. \A n \in DOMAIN s : s[n].no <= k
  BY DEF Ordered
<1>3. \A n \in DOMAIN s : s[n].no <= l
  BY <1>1, <1>2
<1> QED BY <1>3 DEF Ordered

LEMMA OrderedAppend ==
    ASSUME NEW s \in Seq(Segment), NEW k \in Nat, Ordered(s, k),
           NEW x \in Segment, k <= x.no, x.pieces = << >>
    PROVE  Ordered(Append(s, x), x.no)
<1> DEFINE r == Append(s, x)
           l == Len(s)
<1>1. /\ l \in Nat /\ DOMAIN s = 1..l /\ DOMAIN r = 1..l + 1
      /\ r[l + 1] = x /\ \A n \in 1..l : r[n] = s[n]
  OBVIOUS
<1>2. x.no \in Nat /\ DOMAIN x.pieces = {}
  <2>1. x.no \in Nat
    BY DEF Segment
  <2> QED BY <2>1
<1>3. \A n \in 1..l : s[n].no \in Nat
  BY <1>1, SegmentAt
<1> HIDE DEF r, l
<1>4. \A n \in 1..l : s[n].no <= x.no
  BY <1>1, <1>2, <1>3 DEF Ordered
<1>5. \A n \in DOMAIN r : r[n].no <= x.no
  <2>1. TAKE n \in DOMAIN r
  <2>2. CASE n = l + 1
    BY <1>1, <1>2, <2>2
  <2>3. CASE n # l + 1
    <3>1. n \in 1..l
      BY <1>1, <2>3
    <3> QED BY <1>1, <1>4, <3>1
  <2> QED BY <2>2, <2>3
<1>6. \A m, n \in DOMAIN r : m < n => r[m].no <= r[n].no
  <2>1. TAKE m, n \in DOMAIN r
  <2>2. HAVE m < n
  <2>3. m \in 1..l
    BY <1>1, <2>2
  <2>4. CASE n = l + 1
    BY <1>1, <1>4, <2>3, <2>4
  <2>5. CASE n # l + 1
    <3>1. n \in 1..l
      BY <1>1, <2>5
    <3> QED BY <1>1, <2>2, <2>3, <3>1 DEF Ordered
  <2> QED BY <2>4, <2>5
<1>7. \A n \in DOMAIN r : \A j \in DOMAIN r[n].pieces :
         r[n].pieces[j].no = r[n].no /\ r[n].pieces[j].by # "sub"
  <2>1. TAKE n \in DOMAIN r
  <2>2. CASE n = l + 1
    BY <1>1, <1>2, <2>2
  <2>3. CASE n # l + 1
    <3>1. n \in 1..l
      BY <1>1, <2>3
    <3> QED BY <1>1, <3>1 DEF Ordered
  <2> QED BY <2>2, <2>3
<1> QED BY <1>5, <1>6, <1>7 DEF Ordered, r

LEMMA OrderedLonger ==
    ASSUME NEW s \in Seq(Segment), NEW k \in Nat, Ordered(s, k),
           NEW n \in 1..Len(s), NEW p \in Written, p.no = s[n].no, p.by # "sub"
    PROVE  Ordered(Longer(s, n, p), k)
<1> DEFINE r == Longer(s, n, p)
<1>1. /\ r \in Seq(Segment) /\ Len(r) = Len(s)
      /\ r[n].no = s[n].no /\ r[n].pieces = Append(s[n].pieces, p)
      /\ \A m \in 1..Len(s) : m # n => r[m] = s[m]
  BY LongerFacts
<1> HIDE DEF r
<1>2. DOMAIN r = 1..Len(s) /\ DOMAIN s = 1..Len(s)
  BY <1>1
<1>3. \A m \in 1..Len(s) : r[m].no = s[m].no
  BY <1>1
<1>4. s[n].pieces \in Seq(Written)
  BY <1>2, SegmentAt
<1>5. \A j \in DOMAIN r[n].pieces : r[n].pieces[j] = p \/ \E i \in DOMAIN s[n].pieces : r[n].pieces[j] = s[n].pieces[i]
  <2> DEFINE q == s[n].pieces
  <2>1. q \in Seq(Written) /\ r[n].pieces = Append(q, p)
    BY <1>1, <1>4
  <2> HIDE DEF q
  <2>2. \A j \in DOMAIN Append(q, p) : Append(q, p)[j] = p \/ \E i \in DOMAIN q : Append(q, p)[j] = q[i]
    BY <2>1
  <2> QED BY <2>1, <2>2 DEF q
<1>6. \A j \in DOMAIN r[n].pieces : r[n].pieces[j].no = r[n].no /\ r[n].pieces[j].by # "sub"
  BY <1>2, <1>3, <1>5 DEF Ordered
<1>7. \A m \in DOMAIN r : \A j \in DOMAIN r[m].pieces :
         r[m].pieces[j].no = r[m].no /\ r[m].pieces[j].by # "sub"
  <2>1. TAKE m \in DOMAIN r
  <2>2. CASE m # n
    <3>1. r[m] = s[m] /\ m \in DOMAIN s
      BY <1>1, <1>2, <2>2
    <3>2. \A j \in DOMAIN s[m].pieces : s[m].pieces[j].no = s[m].no /\ s[m].pieces[j].by # "sub"
      BY <3>1 DEF Ordered
    <3> QED BY <3>1, <3>2
  <2> QED BY <1>6, <2>2
<1>8. \A m \in DOMAIN r : r[m].no <= k
  BY <1>2, <1>3 DEF Ordered
<1>9. \A l, m \in DOMAIN r : l < m => r[l].no <= r[m].no
  BY <1>2, <1>3 DEF Ordered
<1> QED BY <1>7, <1>8, <1>9 DEF Ordered, r

LEMMA OrderedCounted ==
    ASSUME NEW s \in Seq(Segment), NEW k \in Nat, Ordered(s, k), NEW n \in 1..Len(s)
    PROVE  Ordered(Counted(s, n), k)
<1> DEFINE r == Counted(s, n)
<1>1. /\ r \in Seq(Segment) /\ Len(r) = Len(s)
      /\ r[n].no = s[n].no /\ r[n].pieces = s[n].pieces
      /\ \A m \in 1..Len(s) : m # n => r[m] = s[m]
  BY CountedFacts
<1> HIDE DEF r
<1>2. DOMAIN r = 1..Len(s) /\ DOMAIN s = 1..Len(s)
  BY <1>1
<1>3. \A m \in 1..Len(s) : r[m].no = s[m].no /\ r[m].pieces = s[m].pieces
  BY <1>1
<1>4. \A m \in DOMAIN r : r[m].no <= k
  BY <1>2, <1>3 DEF Ordered
<1>5. \A l, m \in DOMAIN r : l < m => r[l].no <= r[m].no
  BY <1>2, <1>3 DEF Ordered
<1>6. \A m \in DOMAIN r : \A j \in DOMAIN r[m].pieces :
         r[m].pieces[j].no = r[m].no /\ r[m].pieces[j].by # "sub"
  BY <1>2, <1>3 DEF Ordered
<1> QED BY <1>4, <1>5, <1>6 DEF Ordered, r

\* The events that add a segment.
LEMMA OrderedFresh ==
    ASSUME NEW b, Standing(b), NEW k \in Nat, Ordered(b.segments, k),
           NEW kind \in Kinds \cup {"tool_call", "subagent", "error"},
           NEW p \in Written, p.no = k + 1
    PROVE  Ordered(Append(b.segments, Fresh(kind, p)), k + 1)
<1>1. b \in Buffer
  BY DEF Standing
<1>2. b.segments \in Seq(Segment)
  BY <1>1 DEF Buffer
<1>3. Fresh(kind, p) \in Segment /\ Fresh(kind, p).no = k + 1 /\ Fresh(kind, p).pieces = << >>
  BY FreshFacts
<1>4. k <= k + 1
  OBVIOUS
<1> QED BY <1>2, <1>3, <1>4, OrderedAppend

\* A text or a thought of a block that goes on, or of one that begins.
LEMMA OrderedWrite ==
    ASSUME NEW b, Standing(b), NEW k \in Nat, Ordered(b.segments, k),
           NEW kind \in Kinds, NEW i \in Index \cup {NoIndex}, NEW p \in Written, p.by # "sub",
           b.open[kind][i] = 0 => p.no = k + 1,
           b.open[kind][i] # 0 => p.no = b.segments[b.open[kind][i]].no,
           NEW w, w = Write(b, kind, i, p)
    PROVE  Ordered(w.segments, k + 1)
<1>1. b \in Buffer
  BY DEF Standing
<1>2. b.segments \in Seq(Segment)
  BY <1>1 DEF Buffer
<1>3. CASE b.open[kind][i] # 0
  <2>1. w.segments = Longer(b.segments, b.open[kind][i], p)
    BY <1>3, WriteFields
  <2>2. b.open[kind][i] \in 1..Len(b.segments)
    BY <1>2, <1>3 DEF Standing
  <2>3. Ordered(w.segments, k)
    BY <1>2, <1>3, <2>1, <2>2, OrderedLonger
  <2>4. w.segments \in Seq(Segment)
    BY <1>2, <2>1, <2>2, LongerFacts
  <2> QED BY <2>3, <2>4, OrderedMono
<1>4. CASE b.open[kind][i] = 0
  <2> DEFINE s == Append(b.segments, Fresh(kind, p))
  <2>1. w.segments = Longer(s, Len(b.segments) + 1, p)
    BY <1>4, WriteFields
  <2>2. Ordered(s, k + 1)
    BY <1>4, OrderedFresh
  <2>3. Fresh(kind, p) \in Segment /\ Fresh(kind, p).no = p.no
    BY FreshFacts
  <2>4. /\ s \in Seq(Segment) /\ Len(b.segments) + 1 \in 1..Len(s)
        /\ s[Len(b.segments) + 1].no = p.no
    BY <1>2, <2>3
  <2> HIDE DEF s
  <2> QED BY <2>1, <2>2, <2>4, OrderedLonger
<1> QED BY <1>3, <1>4

------------------------------------------------------------------------------
(* The blocks that are open.                                               *)

\* What keeps the segments in place and changes one index at most.
LEMMA TidyUpdate ==
    ASSUME NEW b, Standing(b), NEW bl, Tidy(b, bl), NEW c, NEW cl, NEW i \in Index,
           \A n \in 1..Len(b.segments) : c.segments[n].no = b.segments[n].no,
           \A k \in Kinds, j \in Index \cup {NoIndex} : j # i => c.open[k][j] = b.open[k][j],
           \A j \in Index : j # i => (j \in c.tools <=> j \in b.tools),
           \A j \in Index : j # i => cl[j] = bl[j],
           TidyAt(c, cl[i], i)
    PROVE  Tidy(c, cl)
<1>1. b \in Buffer
  BY DEF Standing
<1>2. Len(b.segments) \in Nat
  <2>1. b.segments \in Seq(Segment)
    BY <1>1 DEF Buffer
  <2> QED BY <2>1
<1>3. \A k \in Kinds : c.open[k][NoIndex] = 0
  BY IdFacts DEF Tidy
<1>4. ASSUME NEW j \in Index, j # i PROVE TidyAt(c, cl[j], j)
  <2>1. TidyAt(b, bl[j], j)
    BY DEF Tidy
  <2>2. cl[j] = bl[j] /\ (j \in c.tools <=> j \in b.tools) /\ \A k \in Kinds : c.open[k][j] = b.open[k][j]
    BY <1>4
  <2>3. ASSUME bl[j].by = "main", bl[j].kind \in Kinds
        PROVE  c.open[bl[j].kind][j] # 0 /\ c.segments[c.open[bl[j].kind][j]].no = bl[j].no
    <3>1. b.open[bl[j].kind][j] # 0 /\ b.segments[b.open[bl[j].kind][j]].no = bl[j].no
      BY <2>1, <2>3 DEF TidyAt
    <3>2. b.open[bl[j].kind][j] \in 1..Len(b.segments)
      BY <1>2, <2>3, <3>1 DEF Standing
    <3> QED BY <2>2, <2>3, <3>1, <3>2
  <2> QED BY <2>1, <2>2, <2>3, IdFacts DEF TidyAt
<1> QED BY <1>3, <1>4 DEF Tidy

\* No block is touched.
LEMMA TidySame ==
    ASSUME NEW b, Standing(b), NEW bl, Tidy(b, bl), NEW c,
           \A n \in 1..Len(b.segments) : c.segments[n].no = b.segments[n].no,
           \A k \in Kinds, j \in Index \cup {NoIndex} : c.open[k][j] = b.open[k][j],
           \A j \in Index : j \in c.tools <=> j \in b.tools
    PROVE  Tidy(c, bl)
<1>1. CASE Index = {}
  BY <1>1 DEF Tidy
<1>2. ASSUME NEW i \in Index PROVE TidyAt(c, bl[i], i)
  <2>1. b \in Buffer
    BY DEF Standing
  <2>2. Len(b.segments) \in Nat
    <3>1. b.segments \in Seq(Segment)
      BY <2>1 DEF Buffer
    <3> QED BY <3>1
  <2>3. TidyAt(b, bl[i], i)
    BY DEF Tidy
  <2>4. ASSUME bl[i].by = "main", bl[i].kind \in Kinds
        PROVE  c.open[bl[i].kind][i] # 0 /\ c.segments[c.open[bl[i].kind][i]].no = bl[i].no
    <3>1. b.open[bl[i].kind][i] # 0 /\ b.segments[b.open[bl[i].kind][i]].no = bl[i].no
      BY <2>3, <2>4 DEF TidyAt
    <3>2. b.open[bl[i].kind][i] \in 1..Len(b.segments)
      BY <2>2, <2>4, <3>1 DEF Standing
    <3> QED BY <2>4, <3>1, <3>2
  <2> QED BY <2>3, <2>4, IdFacts DEF TidyAt
<1> QED BY <1>1, <1>2 DEF Tidy

------------------------------------------------------------------------------
(* What the events do.                                                     *)

LEMMA ApplyChunk ==
    ASSUME NEW b, NEW kind, NEW p
    PROVE  /\ Chunk(kind, p).type # "complete"
           /\ Apply(b, Chunk(kind, p)) = IF InSubagent(b) THEN b ELSE Write(b, kind, NoIndex, p)
BY DEF Apply, Chunk

LEMMA ApplyStart ==
    ASSUME NEW b, NEW kind, NEW i, NEW p, NEW e,
           e = [Begin(kind, i, p) EXCEPT !.type = "start"]
    PROVE  /\ e.type # "complete"
           /\ Apply(b, e) = IF InSubagent(b) THEN b ELSE StartBlock(b, kind, i, p)
BY DEF Apply, Begin

LEMMA ApplyFirst ==
    ASSUME NEW b, NEW kind, NEW i, NEW p, NEW e,
           e = [Begin(kind, i, p) EXCEPT !.type = "delta"]
    PROVE  /\ e.type # "complete"
           /\ Apply(b, e) = IF InSubagent(b) THEN b ELSE Write(b, kind, i, p)
BY DEF Apply, Begin

LEMMA ApplyDelta ==
    ASSUME NEW b, NEW kind, NEW i, NEW p
    PROVE  /\ Delta(kind, i, p).type # "complete"
           /\ Apply(b, Delta(kind, i, p)) = IF InSubagent(b) THEN b ELSE Write(b, kind, i, p)
BY DEF Apply, Delta

LEMMA ApplyUse ==
    ASSUME NEW b, NEW i, NEW id, NEW name, NEW p
    PROVE  /\ Use(i, id, name, p).type # "complete"
           /\ Apply(b, Use(i, id, name, p)) = CallTool(b, i, id, name, p)
BY DEF Apply, Use

LEMMA ApplyResult ==
    ASSUME NEW b, NEW id
    PROVE  /\ Result(id).type # "complete"
           /\ Apply(b, Result(id)) = TakeResult(b, id)
BY DEF Apply, Result

LEMMA ApplyStop ==
    ASSUME NEW b, NEW i
    PROVE  /\ BlockStop(i).type # "complete"
           /\ Apply(b, BlockStop(i)) = CloseBlock(b, i)
BY DEF Apply, BlockStop

LEMMA ApplyInput ==
    ASSUME NEW b
    PROVE  InputDelta.type # "complete" /\ Apply(b, InputDelta) = b
BY DEF Apply, InputDelta

LEMMA ApplyError ==
    ASSUME NEW b, NEW p
    PROVE  /\ Error(p).type = "error" /\ Error(p).type # "complete"
           /\ Apply(b, Error(p)) = Add(b, Fresh("error", p))
BY DEF Apply, Error

LEMMA PieceFacts ==
    ASSUME NEW by \in {"main", "sub", "cli", "handler"}, NEW no \in Nat
    PROVE  /\ [no |-> no, by |-> by] \in Written
           /\ [no |-> no, by |-> by].no = no /\ [no |-> no, by |-> by].by = by
BY DEF Written

\* The state in which the CLI sends an event, and what the event must keep.
LEMMA Ready ==
    ASSUME IInv, ~over, parsed = << >>
    PROVE  /\ TypeOK /\ Standing(t) /\ events \in Nat /\ MaxEvents \in Nat /\ tasks \in Seq(TaskId)
           /\ AgentsOK(t, ids, tasks, crossed)
           /\ Len(t.stack) <= events /\ Len(t.stack) \in Nat
           /\ BlocksOK(block, events)
           /\ Nested => Ordered(t.segments, events) /\ Tidy(t, block)
<1>1. After = t
  BY DEF After
<1>2. TypeOK /\ Standing(t) /\ events \in 0..MaxEvents /\ tasks \in Seq(TaskId)
  BY DEF IInv, TypeOK
<1>3. Len(t.stack) \in Nat
  BY <1>2, StackFacts
<1> QED BY <1>1, <1>2, <1>3, IdFacts DEF IInv

LEMMA SendStep ==
    ASSUME IInv, NEW es, Send(es), NEW r,
           Batch(es),
           r = IF Head(es).type = "complete" THEN t ELSE Apply(t, Head(es)),
           tasks' \in Seq(TaskId), crossed' \in BOOLEAN, crossed => crossed',
           block' \in [Index -> [kind : {"none", "tool"} \cup Kinds,
                                 by : {"none", "main", "sub"}, no : Nat]],
           Standing(r), AgentsOK(r, ids, tasks', crossed'), Len(r.stack) <= events + 1,
           BlocksOK(block', events + 1),
           Nested /\ Nested' => Ordered(r.segments, events + 1) /\ Tidy(r, block')
    PROVE  IInv'
<1>1. /\ ~over /\ parsed = << >> /\ events < MaxEvents
      /\ events' = events + 1 /\ parsed' = es
      /\ t' = t /\ had' = had /\ over' = over /\ streamed' = streamed /\ ids' = ids
      /\ UNCHANGED command
  BY DEF Send
<1>2. /\ TypeOK /\ Standing(t) /\ events \in Nat /\ MaxEvents \in Nat
      /\ Nested => Ordered(t.segments, events)
  BY <1>1, Ready
<1>3. TypeOK'
  <2>1. Standing(t)'
    <3>1. Standing(t')
      BY <1>1, <1>2
    <3> QED BY <3>1 DEF Standing
  <2>2. events' \in 0..MaxEvents
    BY <1>1, <1>2
  <2>3. {had, over, streamed, crossed}' \subseteq BOOLEAN /\ ids' \in {"given", "late", "absent"}
    BY <1>1, <1>2 DEF TypeOK
  <2>4. {cancelled, edited}' \subseteq BOOLEAN
    BY <1>1, <1>2 DEF TypeOK, command
  <2> QED BY <2>1, <2>2, <2>3, <2>4 DEF TypeOK
<1>4. After' = r
  <2>1. es # << >>
    BY DEF Batch
  <2> QED BY <1>1, <2>1 DEF After
<1>5. Nested' => Nested
  BY <1>1 DEF Nested
<1>6. Nested' => Ordered(t.segments, events)
  BY <1>2, <1>5
<1>7. Nested' => Ordered(t'.segments, events')
  <2>1. t \in Buffer
    BY <1>2 DEF Standing
  <2>2. t.segments \in Seq(Segment)
    BY <2>1 DEF Buffer
  <2>3. events + 1 \in Nat /\ events <= events + 1
    BY <1>2
  <2>4. Ordered(t.segments, events) => Ordered(t.segments, events + 1)
    BY <1>2, <2>2, <2>3, OrderedMono
  <2> QED BY <1>1, <1>6, <2>4
<1>8. InHand'
  BY <1>1 DEF InHand
<1>9. /\ Standing(After)' /\ AgentsOK(After, ids, tasks, crossed)'
      /\ Len(After'.stack) <= events' /\ BlocksOK(block, events)'
      /\ Nested' => Ordered(After'.segments, events') /\ Tidy(After, block)'
  <2>1. Standing(After')
    BY <1>4
  <2>2. Standing(After)'
    BY <2>1 DEF Standing
  <2>3. AgentsOK(After', ids', tasks', crossed')
    BY <1>1, <1>4
  <2>4. AgentsOK(After, ids, tasks, crossed)'
    BY <2>3 DEF AgentsOK
  <2>5. BlocksOK(block', events')
    BY <1>1
  <2>6. BlocksOK(block, events)'
    BY <2>5 DEF BlocksOK
  <2>7. Nested' => Tidy(After', block')
    BY <1>4, <1>5
  <2>8. Nested' => Tidy(After, block)'
    BY <2>7 DEF Tidy, TidyAt
  <2>9. Nested' => Ordered(After'.segments, events')
    BY <1>1, <1>4, <1>5
  <2> QED BY <1>1, <1>4, <2>2, <2>4, <2>6, <2>8, <2>9
<1>10. events' \in Nat
  BY <1>1, <1>2

<1>11. Nested' => (Ordered(t.segments, events))' /\ (Ordered(After.segments, events))'
  <2>1. Nested' => Ordered(t'.segments, events') /\ Ordered(After'.segments, events')
    BY <1>7, <1>9
  <2> QED BY <2>1 DEF Ordered
<1>12. Nested' => (\E no \in Nat : Ordered(t.segments, no))'
  <2>1. Nested' => \E no \in Nat : Ordered(t'.segments, no)
    BY <1>7, <1>10
  <2> QED BY <2>1 DEF Ordered
<1> QED BY <1>1, <1>3, <1>8, <1>9, <1>11, <1>12 DEF IInv

\* An event of its own.
LEMMA SendOne ==
    ASSUME IInv, NEW e, Send(<<e>>), e.type # "complete", NEW r, r = Apply(t, e),
           tasks' \in Seq(TaskId), crossed' \in BOOLEAN, crossed => crossed',
           block' \in [Index -> [kind : {"none", "tool"} \cup Kinds,
                                 by : {"none", "main", "sub"}, no : Nat]],
           Standing(r), AgentsOK(r, ids, tasks', crossed'), Len(r.stack) <= events + 1,
           BlocksOK(block', events + 1),
           Nested /\ Nested' => Ordered(r.segments, events + 1) /\ Tidy(r, block')
    PROVE  IInv'
<1> DEFINE es == <<e>>
<1>1. Batch(es) /\ Head(es) = e
  BY DEF Batch
<1>2. r = IF Head(es).type = "complete" THEN t ELSE Apply(t, Head(es))
  BY <1>1
<1>3. Send(es)
  OBVIOUS
<1> HIDE DEF es
<1> QED BY <1>1, <1>2, <1>3, SendStep

------------------------------------------------------------------------------
(* The steps of the CLI.                                                   *)

BlockType == [kind : {"none", "tool"} \cup Kinds, by : {"none", "main", "sub"}, no : Nat]

\* While subagents run the transcript is inside one.
LEMMA Speaking ==
    ASSUME IInv, ~over, parsed = << >>
    PROVE  /\ Speaker \in {"main", "sub"}
           /\ Speaker = "main" => t.stack = << >>
           /\ Nested /\ Speaker = "sub" => t.stack # << >>
<1>1. /\ AgentsOK(t, ids, tasks, crossed) /\ tasks \in Seq(TaskId) /\ Standing(t)
      /\ ids \in {"given", "late", "absent"}
  BY Ready DEF TypeOK
<1>2. t.stack \in Seq(Id) /\ DOMAIN t.stack = 1..Len(t.stack) /\ Len(t.stack) \in Nat
  BY <1>1, StackFacts
<1>3. Len(tasks) \in Nat /\ DOMAIN tasks = 1..Len(tasks)
  BY <1>1
<1>4. ASSUME tasks = << >> PROVE t.stack = << >>
  <2>1. Len(tasks) = 0 /\ DOMAIN tasks = {}
    BY <1>4
  <2>2. Len(t.stack) = 0
    <3>1. CASE ids = "given"
      <4>1. \A m \in DOMAIN t.stack : \E n \in DOMAIN tasks : t.stack[m] = tasks[n]
        BY <1>1, <3>1 DEF AgentsOK
      <4>2. 1 \notin DOMAIN t.stack
        BY <2>1, <4>1
      <4> QED BY <1>2, <4>2
    <3>2. CASE ids # "given"
      BY <1>1, <1>2, <2>1, <3>2 DEF AgentsOK
    <3> QED BY <3>1, <3>2
  <2> QED BY <1>2, <2>2
<1>5. ASSUME Nested, tasks # << >> PROVE t.stack # << >>
  <2>1. Len(tasks) # 0
    BY <1>1, <1>5
  <2>2. Len(t.stack) = Len(tasks)
    BY <1>1, <1>5 DEF AgentsOK, Nested
  <2> QED BY <1>2, <2>1, <2>2
<1> QED BY <1>4, <1>5 DEF Speaker

LEMMA StreamTypes ==
    ASSUME IInv
    PROVE  /\ block \in [Index -> BlockType] /\ tasks \in Seq(TaskId)
           /\ crossed \in BOOLEAN /\ events \in Nat
           /\ ids \in {"given", "late", "absent"}
<1>1. TypeOK
  BY DEF IInv
<1>2. events \in Nat
  BY <1>1, IdFacts DEF TypeOK
<1> QED BY <1>1, <1>2 DEF TypeOK, BlockType

\* A new entry of block is of the last event.
LEMMA BlocksUpdate ==
    ASSUME NEW bl \in [Index -> BlockType], NEW k \in Nat, BlocksOK(bl, k),
           NEW i \in Index, NEW x \in BlockType, x.no <= k + 1, x.kind = "none" => x = NoBlock
    PROVE  /\ [bl EXCEPT ![i] = x] \in [Index -> BlockType]
           /\ [bl EXCEPT ![i] = x][i] = x
           /\ \A j \in Index : j # i => [bl EXCEPT ![i] = x][j] = bl[j]
           /\ BlocksOK([bl EXCEPT ![i] = x], k + 1)
<1> DEFINE cl == [bl EXCEPT ![i] = x]
<1>1. /\ cl \in [Index -> BlockType] /\ cl[i] = x
      /\ \A j \in Index : j # i => cl[j] = bl[j]
  OBVIOUS
<1> HIDE DEF cl
<1>2. \A j \in Index : bl[j].no \in Nat
  BY DEF BlockType
<1>3. \A j \in Index : cl[j].no <= k + 1 /\ (cl[j].kind = "none" => cl[j] = NoBlock)
  BY <1>1, <1>2 DEF BlocksOK
<1> QED BY <1>1, <1>3 DEF BlocksOK, cl

LEMMA BlocksMono ==
    ASSUME NEW bl \in [Index -> BlockType], NEW k \in Nat, BlocksOK(bl, k)
    PROVE  BlocksOK(bl, k + 1)
<1>1. \A j \in Index : bl[j].no \in Nat
  BY DEF BlockType
<1> QED BY <1>1 DEF BlocksOK

\* An event that leaves the stack, the names and the tasks alone.
LEMMA QuietAgents ==
    ASSUME NEW b, NEW c, NEW how, NEW ts, NEW cr, AgentsOK(b, how, ts, cr),
           c.stack = b.stack, c.names = b.names
    PROVE  AgentsOK(c, how, ts, cr)
BY DEF AgentsOK

\* A text or a thought, of a block that goes on, of one that begins, or of a message.
LEMMA WriteStep ==
    ASSUME IInv, ~over, parsed = << >>, NEW kind \in Kinds, NEW i \in Index \cup {NoIndex},
           NEW no \in Nat, NEW bl, NEW r,
           r = IF InSubagent(t) THEN t
               ELSE Write(t, kind, i, [no |-> no, by |-> Speaker]),
           Speaker = "main" /\ Nested /\ t.open[kind][i] = 0 => no = events + 1,
           Speaker = "main" /\ Nested /\ t.open[kind][i] # 0 =>
              no = t.segments[t.open[kind][i]].no,
           \A j \in Index : j # i => bl[j] = block[j],
           i \in Index =>
              /\ Speaker = "sub" => bl[i] = block[i] \/ (bl[i].by # "main" /\ bl[i] # NoBlock)
              /\ Speaker = "main" /\ Nested =>
                    /\ \A k \in Kinds : k # kind => t.open[k][i] = 0
                    /\ i \notin t.tools
                    /\ bl[i] # NoBlock
                    /\ bl[i].by = "main" => bl[i].kind = kind /\ bl[i].no = no
    PROVE  /\ Standing(r) /\ r.stack = t.stack /\ r.names = t.names
           /\ Nested => Ordered(r.segments, events + 1) /\ Tidy(r, bl)
<1> DEFINE p == [no |-> no, by |-> Speaker]
<1>1. /\ TypeOK /\ Standing(t) /\ events \in Nat
      /\ Nested => Ordered(t.segments, events) /\ Tidy(t, block)
  BY Ready
<1>2. /\ Speaker \in {"main", "sub"}
      /\ Speaker = "main" => t.stack = << >>
      /\ Nested /\ Speaker = "sub" => t.stack # << >>
  BY Speaking
<1>3. p \in Written /\ p.no = no /\ p.by = Speaker
  BY <1>2, PieceFacts
<1>4. t \in Buffer
  BY <1>1 DEF Standing
<1>5. t.segments \in Seq(Segment) /\ Len(t.segments) \in Nat
  <2>1. t.segments \in Seq(Segment)
    BY <1>4 DEF Buffer
  <2> QED BY <2>1
<1> HIDE DEF p
<1>6. CASE t.stack # << >>
  <2>1. r = t
    BY <1>6 DEF InSubagent
  <2>2. Speaker = "sub"
    BY <1>2, <1>6
  <2>3. events + 1 \in Nat /\ events <= events + 1
    BY <1>1
  <2>4. Nested => Ordered(r.segments, events + 1)
    BY <1>1, <1>5, <2>1, <2>3, OrderedMono
  <2>5. ASSUME Nested PROVE Tidy(r, bl)
    <3>1. CASE i = NoIndex
      <4>1. \A j \in Index : bl[j] = block[j]
        BY <3>1, IdFacts
      <4> QED BY <1>1, <2>1, <2>5, <4>1 DEF Tidy
    <3>2. CASE i \in Index
      <4>1. TidyAt(t, block[i], i)
        BY <1>1, <2>5, <3>2 DEF Tidy
      <4>2. TidyAt(t, bl[i], i)
        BY <2>2, <3>2, <4>1 DEF TidyAt
      <4> QED BY <1>1, <2>1, <2>5, <3>2, <4>2, TidyUpdate
    <3> QED BY <3>1, <3>2
  <2> QED BY <1>1, <2>1, <2>4, <2>5
<1>7. CASE t.stack = << >>
  <2>1. r = Write(t, kind, i, p)
    BY <1>7 DEF InSubagent, p
  <2> HIDE DEF p
  <2>2. /\ Standing(r) /\ r.stack = t.stack /\ r.names = t.names /\ r.tools = t.tools
        /\ \A k \in Kinds, j \in Index \cup {NoIndex} :
              j # i \/ k # kind \/ i = NoIndex => r.open[k][j] = t.open[k][j]
        /\ t.open[kind][i] # 0 =>
              /\ r.open[kind][i] = t.open[kind][i]
              /\ r.segments = Longer(t.segments, t.open[kind][i], p)
        /\ t.open[kind][i] = 0 =>
              /\ i # NoIndex => r.open[kind][i] = Len(t.segments) + 1
              /\ r.segments = Longer(Append(t.segments, Fresh(kind, p)), Len(t.segments) + 1, p)
    BY <1>1, <1>3, <2>1, WriteFields
  <2>3. ASSUME Nested
        PROVE  Ordered(r.segments, events + 1) /\ Tidy(r, bl)
    <3>1. Speaker = "main"
      BY <1>2, <1>7, <2>3
    <3>2. /\ t.open[kind][i] = 0 => p.no = events + 1
          /\ t.open[kind][i] # 0 => p.no = t.segments[t.open[kind][i]].no
          /\ p.by # "sub"
      BY <1>3, <2>3, <3>1
    <3>3. Ordered(r.segments, events + 1)
      BY <1>1, <1>3, <2>1, <2>3, <3>2, OrderedWrite
    <3>4. /\ \A n \in 1..Len(t.segments) : r.segments[n].no = t.segments[n].no
          /\ t.open[kind][i] = 0 => r.segments[Len(t.segments) + 1].no = no
      <4>1. CASE t.open[kind][i] # 0
        <5>1. t.open[kind][i] \in 1..Len(t.segments)
          BY <1>1, <1>5, <4>1 DEF Standing
        <5> DEFINE l == t.open[kind][i]
        <5>2. r.segments = Longer(t.segments, l, p)
          BY <2>2, <4>1
        <5> HIDE DEF l
        <5>3. l \in 1..Len(t.segments)
          BY <5>1 DEF l
        <5>4. /\ Longer(t.segments, l, p)[l].no = t.segments[l].no
              /\ \A n \in 1..Len(t.segments) : n # l => Longer(t.segments, l, p)[n] = t.segments[n]
          BY <1>3, <1>5, <5>3, LongerFacts
        <5> QED BY <4>1, <5>2, <5>4
      <4>2. CASE t.open[kind][i] = 0
        <5> DEFINE s == Append(t.segments, Fresh(kind, p))
                   l == Len(t.segments) + 1
        <5>1. Fresh(kind, p) \in Segment /\ Fresh(kind, p).no = no
          BY <1>3, FreshFacts
        <5>2. /\ s \in Seq(Segment) /\ l \in 1..Len(s) /\ Len(s) = l /\ s[l].no = no
              /\ \A n \in 1..Len(t.segments) : s[n] = t.segments[n] /\ n \in 1..Len(s) /\ n # l
          BY <1>5, <5>1
        <5>3. r.segments = Longer(s, l, p)
          BY <2>2, <4>2
        <5> HIDE DEF s, l
        <5>4. /\ Longer(s, l, p)[l].no = no
              /\ \A n \in 1..Len(t.segments) : Longer(s, l, p)[n].no = t.segments[n].no
          BY <1>3, <5>2, LongerFacts
        <5> QED BY <5>3, <5>4 DEF l
      <4> QED BY <4>1, <4>2
    <3>5. Tidy(r, bl)
      <4>1. CASE i = NoIndex
        <5>1. \A j \in Index : bl[j] = block[j]
          BY <4>1, IdFacts
        <5>2. Tidy(r, block)
          BY <1>1, <2>2, <2>3, <3>4, <4>1, TidySame
        <5> QED BY <5>1, <5>2 DEF Tidy
      <4>2. CASE i \in Index
        <5>1. i # NoIndex
          BY <4>2, IdFacts
        <5>2. /\ \A k \in Kinds : k # kind => r.open[k][i] = 0
              /\ i \notin r.tools
              /\ bl[i] # NoBlock
              /\ bl[i].by = "main" => bl[i].kind = kind /\ bl[i].no = no
          BY <2>2, <2>3, <3>1, <4>2
        <5>3. r.open[kind][i] # 0 /\ r.segments[r.open[kind][i]].no = no
          <6>1. CASE t.open[kind][i] # 0
            <7>1. t.open[kind][i] \in 1..Len(t.segments)
              BY <1>1, <1>5, <6>1 DEF Standing
            <7> QED BY <2>2, <2>3, <3>1, <3>4, <6>1, <7>1
          <6>2. CASE t.open[kind][i] = 0
            <7>1. r.open[kind][i] = Len(t.segments) + 1
              BY <2>2, <5>1, <6>2
            <7>2. r.segments[Len(t.segments) + 1].no = no
              BY <3>4, <6>2
            <7> QED BY <1>5, <7>1, <7>2
          <6> QED BY <6>1, <6>2
        <5>4. TidyAt(r, bl[i], i)
          BY <5>2, <5>3, IdFacts DEF TidyAt
        <5>5. Standing(t) /\ Tidy(t, block)
          BY <1>1, <2>3
        <5>6. /\ \A k \in Kinds, j \in Index \cup {NoIndex} : j # i => r.open[k][j] = t.open[k][j]
              /\ \A j \in Index : j # i => (j \in r.tools <=> j \in t.tools)
              /\ \A j \in Index : j # i => bl[j] = block[j]
          BY <2>2
        <5>7. \A n \in 1..Len(t.segments) : r.segments[n].no = t.segments[n].no
          BY <3>4
        <5> QED BY ONLY <4>2, <5>4, <5>5, <5>6, <5>7, TidyUpdate
      <4> QED BY <4>1, <4>2
    <3> QED BY <3>3, <3>5
  <2> QED BY <2>2, <2>3
<1> QED BY <1>6, <1>7

LEMMA SayStep ==
    ASSUME IInv, NEW kind \in Kinds, Say(kind)
    PROVE  IInv'
<1> DEFINE e == Chunk(kind, Piece(Speaker))
           r == IF InSubagent(t) THEN t ELSE Write(t, kind, NoIndex, Piece(Speaker))
<1>1. /\ Send(<<e>>)
      /\ tasks' = tasks /\ block' = block /\ crossed' = crossed
  BY DEF Say
<1>13. ~over /\ parsed = << >>
  BY <1>1 DEF Send
<1>2. /\ block \in [Index -> BlockType] /\ tasks \in Seq(TaskId) /\ crossed \in BOOLEAN /\ events \in Nat
  BY StreamTypes
<1>3. /\ AgentsOK(t, ids, tasks, crossed) /\ Len(t.stack) <= events /\ Len(t.stack) \in Nat
      /\ BlocksOK(block, events)
      /\ Nested => Tidy(t, block)
  BY <1>13, Ready
<1>4. Nested => t.open[kind][NoIndex] = 0
  BY <1>3 DEF Tidy
<1>5. e.type # "complete" /\ Apply(t, e) = r
  BY ApplyChunk
<1>6. Piece(Speaker) = [no |-> events + 1, by |-> Speaker] /\ events + 1 \in Nat
  BY <1>2 DEF Piece
<1>9. r = IF InSubagent(t) THEN t ELSE Write(t, kind, NoIndex, [no |-> events + 1, by |-> Speaker])
  BY <1>6
<1> HIDE DEF r, e
<1>10. /\ Standing(r) /\ r.stack = t.stack /\ r.names = t.names
       /\ Nested => Ordered(r.segments, events + 1) /\ Tidy(r, block)
  <2>1. PICK bl : bl = block
    OBVIOUS
  <2>2. NoIndex \notin Index /\ NoIndex \in Index \cup {NoIndex} /\ kind \in Kinds /\ IInv
    BY IdFacts
  <2>3. /\ Speaker = "main" /\ Nested /\ t.open[kind][NoIndex] # 0 =>
              events + 1 = t.segments[t.open[kind][NoIndex]].no
        /\ \A j \in Index : j # NoIndex => bl[j] = block[j]
    BY <1>4, <2>1
  <2>4. /\ Standing(r) /\ r.stack = t.stack /\ r.names = t.names
        /\ Nested => Ordered(r.segments, events + 1) /\ Tidy(r, bl)
    BY ONLY <1>13, <1>6, <1>9, <2>2, <2>3, WriteStep, SMTT(30)
  <2> QED BY <2>1, <2>4
<1>11. AgentsOK(r, ids, tasks, crossed) /\ Len(r.stack) <= events + 1
  BY <1>2, <1>3, <1>10, QuietAgents
<1>12. BlocksOK(block, events + 1)
  BY <1>2, <1>3, BlocksMono
<1> QED BY <1>1, <1>2, <1>5, <1>10, <1>11, <1>12, SendOne DEF BlockType

\* A start closes what was open at its index.
LEMMA StartStep ==
    ASSUME IInv, ~over, parsed = << >>, NEW kind \in Kinds, NEW i \in Index,
           NEW bl, \A j \in Index : j # i => bl[j] = block[j],
           bl[i] = [kind |-> kind, by |-> Speaker, no |-> events + 1],
           NEW r, r = IF InSubagent(t) THEN t ELSE StartBlock(t, kind, i, Piece(Speaker))
    PROVE  /\ Standing(r) /\ r.stack = t.stack /\ r.names = t.names
           /\ Nested => Ordered(r.segments, events + 1) /\ Tidy(r, bl)
<1> DEFINE p == Piece(Speaker)
           c == CloseBlock(t, i)
<1>1. /\ TypeOK /\ Standing(t) /\ events \in Nat
      /\ Nested => Ordered(t.segments, events) /\ Tidy(t, block)
  BY Ready
<1>2. /\ Speaker \in {"main", "sub"}
      /\ Speaker = "main" => t.stack = << >>
      /\ Nested /\ Speaker = "sub" => t.stack # << >>
  BY Speaking
<1>3. p \in Written /\ p.no = events + 1 /\ p.by = Speaker
  BY <1>1, <1>2, PieceFacts DEF Piece
<1>4. t \in Buffer
  BY <1>1 DEF Standing
<1>5. t.segments \in Seq(Segment) /\ Len(t.segments) \in Nat
  <2>1. t.segments \in Seq(Segment)
    BY <1>4 DEF Buffer
  <2> QED BY <2>1
<1>6. bl[i] # NoBlock /\ bl[i].by = Speaker /\ bl[i].kind = kind /\ bl[i].no = events + 1
  <2>1. kind # "none"
    BY IdFacts
  <2>2. NoBlock.kind = "none"
    BY DEF NoBlock
  <2> QED BY <2>1, <2>2
<1> HIDE DEF p, c
<1>7. CASE t.stack # << >>
  <2>1. r = t
    BY <1>7 DEF InSubagent
  <2>2. Speaker = "sub"
    BY <1>2, <1>7
  <2>3. Nested => Ordered(r.segments, events + 1)
    <3>1. events + 1 \in Nat /\ events <= events + 1
      BY <1>1
    <3> QED BY <1>1, <1>5, <2>1, <3>1, OrderedMono
  <2>4. ASSUME Nested PROVE Tidy(r, bl)
    <3>1. TidyAt(t, block[i], i)
      BY <1>1, <2>4 DEF Tidy
    <3>2. TidyAt(t, bl[i], i)
      BY <1>6, <2>2, <3>1 DEF TidyAt
    <3> QED BY <1>1, <2>1, <2>4, <3>2, TidyUpdate
  <2> QED BY <1>1, <2>1, <2>3, <2>4
<1>8. CASE t.stack = << >>
  <2>1. r = Opened(c, kind, i, p)
    BY <1>8 DEF InSubagent, StartBlock, c, p
  <2>2. /\ Standing(c) /\ c.segments = t.segments /\ c.names = t.names /\ c.stack = t.stack
        /\ \A k \in Kinds, j \in Index \cup {NoIndex} : j # i => c.open[k][j] = t.open[k][j]
        /\ \A j \in Index : j # i => (j \in c.tools <=> j \in t.tools)
        /\ /\ t.open["thinking"][i] = 0 \/ t.open["text"][i] = 0
           /\ i \in t.tools => \A k \in Kinds : t.open[k][i] = 0
           => i \notin c.tools /\ \A k \in Kinds : c.open[k][i] = 0
    BY <1>1, CloseFields DEF c
  <2>3. i # NoIndex
    BY IdFacts
  <2>4. /\ Standing(r) /\ r.segments = Append(c.segments, Fresh(kind, p))
        /\ r.names = c.names /\ r.stack = c.stack /\ r.tools = c.tools
        /\ \A k \in Kinds, j \in Index \cup {NoIndex} :
              j # i \/ k # kind => r.open[k][j] = c.open[k][j]
        /\ r.open[kind][i] = Len(c.segments) + 1
    BY <1>3, <2>1, <2>2, <2>3, OpenedFields
  <2>5. ASSUME Nested PROVE Ordered(r.segments, events + 1) /\ Tidy(r, bl)
    <3>1. Ordered(r.segments, events + 1)
      <4>1. kind \in Kinds \cup {"tool_call", "subagent", "error"}
        OBVIOUS
      <4>2. Standing(t) /\ events \in Nat /\ Ordered(t.segments, events)
        BY <1>1, <2>5
      <4>3. Ordered(Append(t.segments, Fresh(kind, p)), events + 1)
        BY ONLY <1>3, <4>1, <4>2, OrderedFresh
      <4> QED BY <2>2, <2>4, <4>3
    <3>2. Standing(t) /\ Tidy(t, block)
      BY <1>1, <2>5
    <3>3. i \notin c.tools /\ \A k \in Kinds : c.open[k][i] = 0
      <4>1. TidyAt(t, block[i], i)
        BY <3>2 DEF Tidy
      <4> QED BY <2>2, <4>1 DEF TidyAt
    <3>4. /\ \A n \in 1..Len(t.segments) : r.segments[n].no = t.segments[n].no
          /\ r.segments[Len(t.segments) + 1].no = events + 1
      <4>1. Fresh(kind, p) \in Segment /\ Fresh(kind, p).no = events + 1
        BY <1>3, FreshFacts
      <4> QED BY <1>5, <2>2, <2>4, <4>1
    <3>5. r.open[kind][i] # 0 /\ r.segments[r.open[kind][i]].no = events + 1
      BY <1>5, <2>2, <2>4, <3>4
    <3>6. i \notin r.tools /\ \A k \in Kinds : k # kind => r.open[k][i] = 0
      BY <2>4, <3>3
    <3>7. TidyAt(r, bl[i], i)
      BY <1>6, <3>5, <3>6, IdFacts DEF TidyAt
    <3>8. /\ \A k \in Kinds, j \in Index \cup {NoIndex} : j # i => r.open[k][j] = t.open[k][j]
          /\ \A j \in Index : j # i => (j \in r.tools <=> j \in t.tools)
      BY <2>2, <2>4
    <3>9. \A n \in 1..Len(t.segments) : r.segments[n].no = t.segments[n].no
      BY <3>4
    <3>10. \A j \in Index : j # i => bl[j] = block[j]
      OBVIOUS
    <3>11. i \in Index
      OBVIOUS
    <3>12. Tidy(r, bl)
      BY ONLY <3>2, <3>7, <3>8, <3>9, <3>10, <3>11, TidyUpdate
    <3> QED BY <3>1, <3>12
  <2> QED BY <2>2, <2>4, <2>5
<1> QED BY <1>7, <1>8

LEMMA OpenStep ==
    ASSUME IInv, NEW kind \in Kinds, NEW i \in Index, NEW type \in {"start", "delta"},
           Open(kind, i, type)
    PROVE  IInv'
<1> DEFINE e == [Begin(kind, i, Piece(Speaker)) EXCEPT !.type = type]
           x == [kind |-> kind, by |-> Speaker, no |-> events + 1]
           bl == [block EXCEPT ![i] = x]
<1>0. /\ Send(<<e>>)
      /\ tasks' = tasks /\ block' = bl /\ crossed' = crossed
      /\ type = "delta" => block[i] = NoBlock
  BY DEF Open
<1>1. ~over /\ parsed = << >>
  BY <1>0 DEF Send
<1>2. /\ block \in [Index -> BlockType] /\ tasks \in Seq(TaskId) /\ crossed \in BOOLEAN /\ events \in Nat
  BY StreamTypes
<1>3. /\ AgentsOK(t, ids, tasks, crossed) /\ Len(t.stack) <= events /\ Len(t.stack) \in Nat
      /\ BlocksOK(block, events)
      /\ Nested => Tidy(t, block)
  BY <1>1, Ready
<1>4. Speaker \in {"main", "sub"}
  BY <1>1, Speaking
<1>5. x \in BlockType /\ x.no <= events + 1 /\ x.by = Speaker /\ x.kind = kind /\ x.no = events + 1
      /\ x # NoBlock /\ x.kind # "none"
  <2>1. kind # "none" /\ NoBlock.kind = "none"
    BY IdFacts DEF NoBlock
  <2> QED BY <1>2, <1>4, <2>1 DEF BlockType
<1>6. /\ bl \in [Index -> BlockType] /\ bl[i] = x
      /\ \A j \in Index : j # i => bl[j] = block[j]
      /\ BlocksOK(bl, events + 1)
  <2> HIDE DEF x
  <2> QED BY <1>2, <1>3, <1>5, BlocksUpdate
<1>7. e.type # "complete"
  BY ApplyStart, ApplyFirst
<1>8. \E r : /\ r = Apply(t, e)
             /\ Standing(r) /\ r.stack = t.stack /\ r.names = t.names
             /\ Nested => Ordered(r.segments, events + 1) /\ Tidy(r, bl)
  <2>1. CASE type = "start"
    <3> DEFINE r == IF InSubagent(t) THEN t ELSE StartBlock(t, kind, i, Piece(Speaker))
    <3>1. Apply(t, e) = r
      BY <2>1, ApplyStart
    <3> HIDE DEF bl, e
    <3>2. /\ Standing(r) /\ r.stack = t.stack /\ r.names = t.names
          /\ Nested => Ordered(r.segments, events + 1) /\ Tidy(r, bl)
      BY <1>1, <1>6, StartStep
    <3> QED BY <3>1, <3>2
  <2>2. CASE type = "delta"
    <3> DEFINE r == IF InSubagent(t) THEN t
                    ELSE Write(t, kind, i, [no |-> events + 1, by |-> Speaker])
    <3>1. Apply(t, e) = r
      BY <2>2, ApplyFirst DEF Piece
    <3>2. Nested => /\ \A k \in Kinds : t.open[k][i] = 0
                    /\ i \notin t.tools
      BY <1>0, <1>3, <2>2 DEF Tidy, TidyAt
    <3>3. events + 1 \in Nat
      BY <1>2
    <3>4. /\ Speaker = "sub" => bl[i].by # "main" /\ bl[i] # NoBlock
          /\ Speaker = "main" /\ Nested =>
                    /\ \A k \in Kinds : k # kind => t.open[k][i] = 0
                    /\ i \notin t.tools
                    /\ bl[i] # NoBlock
                    /\ bl[i].by = "main" => bl[i].kind = kind /\ bl[i].no = events + 1
      BY <1>5, <1>6, <3>2
    <3>5. /\ Speaker = "main" /\ Nested /\ t.open[kind][i] = 0 => events + 1 = events + 1
          /\ Speaker = "main" /\ Nested /\ t.open[kind][i] # 0 =>
              events + 1 = t.segments[t.open[kind][i]].no
      BY <3>2
    <3>6. \A j \in Index : j # i => bl[j] = block[j]
      BY <1>6
    <3>8. r = IF InSubagent(t) THEN t
              ELSE Write(t, kind, i, [no |-> events + 1, by |-> Speaker])
      OBVIOUS
    <3>9. i \in Index /\ i \in Index \cup {NoIndex} /\ kind \in Kinds /\ IInv
      OBVIOUS
    <3> HIDE DEF bl, e, x, r
    <3>7. /\ Standing(r) /\ r.stack = t.stack /\ r.names = t.names
          /\ Nested => Ordered(r.segments, events + 1) /\ Tidy(r, bl)
      BY ONLY <1>1, <3>3, <3>4, <3>5, <3>6, <3>8, <3>9, WriteStep
    <3> QED BY <3>1, <3>7
  <2> QED BY <2>1, <2>2
<1>9. PICK r : /\ r = Apply(t, e)
               /\ Standing(r) /\ r.stack = t.stack /\ r.names = t.names
               /\ Nested => Ordered(r.segments, events + 1) /\ Tidy(r, bl)
  BY <1>8
<1> HIDE DEF e, bl
<1>11. AgentsOK(r, ids, tasks, crossed) /\ Len(r.stack) <= events + 1
  BY <1>2, <1>3, <1>9, QuietAgents
<1> QED BY <1>0, <1>2, <1>6, <1>7, <1>9, <1>11, SendOne DEF BlockType

\* An event that touches nothing.
LEMMA StillStep ==
    ASSUME IInv, NEW e, Send(<<e>>), e.type # "complete", Apply(t, e) = t,
           tasks' = tasks, block' = block, crossed' = crossed
    PROVE  IInv'
<1>1. ~over /\ parsed = << >>
  BY DEF Send
<1>2. /\ block \in [Index -> BlockType] /\ tasks \in Seq(TaskId) /\ crossed \in BOOLEAN /\ events \in Nat
  BY StreamTypes
<1>3. /\ Standing(t) /\ AgentsOK(t, ids, tasks, crossed)
      /\ Len(t.stack) <= events /\ Len(t.stack) \in Nat
      /\ BlocksOK(block, events)
      /\ Nested => Ordered(t.segments, events) /\ Tidy(t, block)
  BY <1>1, Ready
<1>4. BlocksOK(block, events + 1)
  BY <1>2, <1>3, BlocksMono
<1>5. Len(t.stack) <= events + 1
  BY <1>2, <1>3
<1>6. Nested => Ordered(t.segments, events + 1)
  <2>1. t \in Buffer
    BY <1>3 DEF Standing
  <2>2. t.segments \in Seq(Segment)
    BY <2>1 DEF Buffer
  <2>3. events + 1 \in Nat /\ events <= events + 1
    BY <1>2
  <2> QED BY <1>2, <1>3, <2>2, <2>3, OrderedMono
<1> QED BY <1>2, <1>3, <1>4, <1>5, <1>6, SendOne DEF BlockType

LEMMA ContinueStep ==
    ASSUME IInv, NEW i \in Index, Continue(i)
    PROVE  IInv'
<1> DEFINE kind == block[i].kind
           no == block[i].no
           p == [no |-> no, by |-> Speaker]
<1>1. /\ block[i] # NoBlock /\ block[i].by = Speaker
      /\ tasks' = tasks /\ block' = block /\ crossed' = crossed
  BY DEF Continue
<1>2. ~over /\ parsed = << >>
  BY DEF Continue, Send
<1>3. /\ block \in [Index -> BlockType] /\ tasks \in Seq(TaskId) /\ crossed \in BOOLEAN /\ events \in Nat
  BY StreamTypes
<1>4. /\ AgentsOK(t, ids, tasks, crossed) /\ Len(t.stack) <= events /\ Len(t.stack) \in Nat
      /\ BlocksOK(block, events)
      /\ Nested => Tidy(t, block)
  BY <1>2, Ready
<1>5. kind \in Kinds \cup {"tool"} /\ no \in Nat
  BY <1>1, <1>3, <1>4 DEF BlockType, BlocksOK
<1>6. CASE kind = "tool"
  <2>1. Send(<<InputDelta>>)
    BY <1>6 DEF Continue
  <2>2. InputDelta.type # "complete" /\ Apply(t, InputDelta) = t
    BY ApplyInput
  <2> QED BY <1>1, <2>1, <2>2, StillStep
<1>7. CASE kind \in Kinds
  <2> DEFINE e == Delta(kind, i, p)
             r == IF InSubagent(t) THEN t ELSE Write(t, kind, i, p)
  <2>1. Send(<<e>>)
    <3>1. kind # "tool"
      BY <1>7, IdFacts
    <3> QED BY <3>1 DEF Continue
  <2>2. e.type # "complete" /\ Apply(t, e) = r
    BY ApplyDelta
  <2>3. ASSUME Nested, Speaker = "main"
        PROVE  /\ \A k \in Kinds : k # kind => t.open[k][i] = 0
               /\ i \notin t.tools
               /\ t.open[kind][i] # 0
               /\ t.segments[t.open[kind][i]].no = no
    <3>1. TidyAt(t, block[i], i)
      BY <1>4, <2>3 DEF Tidy
    <3>2. /\ t.open[kind][i] # 0
          /\ t.segments[t.open[kind][i]].no = no
      BY <1>1, <1>7, <2>3, <3>1 DEF TidyAt
    <3> QED BY <1>1, <1>7, <3>1, <3>2, IdFacts DEF TidyAt
  <2>4. /\ r = IF InSubagent(t) THEN t ELSE Write(t, kind, i, [no |-> no, by |-> Speaker])
        /\ i \in Index /\ i \in Index \cup {NoIndex} /\ kind \in Kinds /\ IInv /\ no \in Nat
    BY <1>5, <1>7
  <2> HIDE DEF e, r
  <2>5. /\ Standing(r) /\ r.stack = t.stack /\ r.names = t.names
        /\ Nested => Ordered(r.segments, events + 1) /\ Tidy(r, block)
    <3>1. /\ Speaker = "main" /\ Nested /\ t.open[kind][i] = 0 => no = events + 1
          /\ Speaker = "main" /\ Nested /\ t.open[kind][i] # 0 =>
                no = t.segments[t.open[kind][i]].no
      BY <2>3
    <3>2. /\ Speaker = "main" /\ Nested =>
                /\ \A k \in Kinds : k # kind => t.open[k][i] = 0
                /\ i \notin t.tools
      BY <2>3
    <3>3. PICK bl : bl = block
      OBVIOUS
    <3>4. /\ \A j \in Index : j # i => bl[j] = block[j]
          /\ bl[i] = block[i] /\ bl[i] # NoBlock /\ bl[i].kind = kind /\ bl[i].no = no
      BY <1>1, <3>3
    <3> HIDE DEF kind, no, p
    <3>5. /\ Standing(r) /\ r.stack = t.stack /\ r.names = t.names
          /\ Nested => Ordered(r.segments, events + 1) /\ Tidy(r, bl)
      BY ONLY <1>2, <2>4, <3>1, <3>2, <3>4, WriteStep
    <3> QED BY <3>3, <3>5
  <2>6. AgentsOK(r, ids, tasks, crossed) /\ Len(r.stack) <= events + 1
    BY <1>3, <1>4, <2>5, QuietAgents
  <2>7. BlocksOK(block, events + 1)
    BY <1>3, <1>4, BlocksMono
  <2> QED BY <1>1, <1>3, <2>1, <2>2, <2>5, <2>6, <2>7, SendOne DEF BlockType
<1> QED BY <1>5, <1>6, <1>7

LEMMA EndStep ==
    ASSUME IInv, NEW i \in Index, End(i)
    PROVE  IInv'
<1> DEFINE e == BlockStop(i)
           r == CloseBlock(t, i)
           bl == [block EXCEPT ![i] = NoBlock]
<1>1. /\ Send(<<e>>)
      /\ tasks' = tasks /\ block' = bl /\ crossed' = crossed
  BY DEF End
<1>2. ~over /\ parsed = << >>
  BY <1>1 DEF Send
<1>3. /\ block \in [Index -> BlockType] /\ tasks \in Seq(TaskId) /\ crossed \in BOOLEAN /\ events \in Nat
  BY StreamTypes
<1>4. /\ AgentsOK(t, ids, tasks, crossed) /\ Len(t.stack) <= events /\ Len(t.stack) \in Nat
      /\ BlocksOK(block, events) /\ Standing(t)
      /\ Nested => Ordered(t.segments, events) /\ Tidy(t, block)
  BY <1>2, Ready
<1>5. /\ NoBlock \in BlockType /\ NoBlock.no <= events + 1 /\ NoBlock.by = "none"
  BY <1>3 DEF BlockType, NoBlock
<1>6. /\ bl \in [Index -> BlockType] /\ bl[i] = NoBlock
      /\ \A j \in Index : j # i => bl[j] = block[j]
      /\ BlocksOK(bl, events + 1)
  BY <1>3, <1>4, <1>5, BlocksUpdate
<1>7. e.type # "complete" /\ Apply(t, e) = r
  BY ApplyStop
<1>8. /\ Standing(r) /\ r.segments = t.segments /\ r.names = t.names /\ r.stack = t.stack
      /\ \A k \in Kinds, j \in Index \cup {NoIndex} : j # i => r.open[k][j] = t.open[k][j]
      /\ \A j \in Index : j # i => (j \in r.tools <=> j \in t.tools)
      /\ /\ t.open["thinking"][i] = 0 \/ t.open["text"][i] = 0
         /\ i \in t.tools => \A k \in Kinds : t.open[k][i] = 0
         => i \notin r.tools /\ \A k \in Kinds : r.open[k][i] = 0
  BY <1>4, CloseFields
<1> HIDE DEF e, r, bl
<1>9. ASSUME Nested PROVE Ordered(r.segments, events + 1) /\ Tidy(r, bl)
  <2>1. t \in Buffer
    BY <1>4 DEF Standing
  <2>2. t.segments \in Seq(Segment)
    BY <2>1 DEF Buffer
  <2>3. events + 1 \in Nat /\ events <= events + 1
    BY <1>3
  <2>4. Ordered(r.segments, events + 1)
    BY <1>3, <1>4, <1>8, <1>9, <2>2, <2>3, OrderedMono
  <2>5. TidyAt(t, block[i], i)
    BY <1>4, <1>9 DEF Tidy
  <2>6. i \notin r.tools /\ \A k \in Kinds : r.open[k][i] = 0
    BY <1>8, <2>5 DEF TidyAt
  <2>7. TidyAt(r, bl[i], i)
    BY <1>5, <1>6, <2>6, IdFacts DEF TidyAt
  <2>8. Tidy(t, block) /\ Standing(t) /\ i \in Index
    BY <1>4, <1>9
  <2>9. \A n \in 1..Len(t.segments) : r.segments[n].no = t.segments[n].no
    BY <1>8
  <2>10. Tidy(r, bl)
    BY ONLY <1>6, <1>8, <2>7, <2>8, <2>9, TidyUpdate
  <2> QED BY <2>4, <2>10
<1>11. AgentsOK(r, ids, tasks, crossed) /\ Len(r.stack) <= events + 1
  BY <1>3, <1>4, <1>8, QuietAgents
<1> QED BY <1>1, <1>3, <1>6, <1>7, <1>8, <1>9, <1>11, SendOne DEF BlockType

\* A call touches the block of its index only, and leaves a tool open there at most.
LEMMA CallTidy ==
    ASSUME NEW b, Standing(b), NEW bl, Tidy(b, bl), NEW i \in Index \cup {NoIndex},
           NEW r, r.open = Closed(b, i).open,
           \A j \in Index : j # i => (j \in r.tools <=> j \in Closed(b, i).tools),
           \A n \in 1..Len(b.segments) : r.segments[n].no = b.segments[n].no,
           NEW cl, i = NoIndex => cl = bl,
           i # NoIndex => cl[i].kind = "tool" /\ \A j \in Index : j # i => cl[j] = bl[j]
    PROVE  Tidy(r, cl)
<1>1. CASE i = NoIndex
  <2>1. Closed(b, i) = b
    BY <1>1 DEF Closed
  <2>2. \A k \in Kinds, j \in Index \cup {NoIndex} : r.open[k][j] = b.open[k][j]
    BY <2>1
  <2>3. \A j \in Index : j \in r.tools <=> j \in b.tools
    BY <1>1, <2>1, IdFacts
  <2>4. Tidy(r, bl)
    BY <2>2, <2>3, TidySame
  <2> QED BY <1>1, <2>4
<1>2. CASE i # NoIndex
  <2>0. i \in Index
    BY <1>2
  <2>1. Closed(b, i) = CloseBlock(b, i)
    BY <1>2 DEF Closed
  <2> DEFINE c == CloseBlock(b, i)
  <2>2. /\ \A k \in Kinds, j \in Index \cup {NoIndex} : j # i => c.open[k][j] = b.open[k][j]
        /\ \A j \in Index : j # i => (j \in c.tools <=> j \in b.tools)
        /\ /\ b.open["thinking"][i] = 0 \/ b.open["text"][i] = 0
           /\ i \in b.tools => \A k \in Kinds : b.open[k][i] = 0
           => i \notin c.tools /\ \A k \in Kinds : c.open[k][i] = 0
    BY <2>0, CloseFields
  <2>3. TidyAt(b, bl[i], i)
    BY <2>0 DEF Tidy
  <2>c. r.open = c.open /\ \A j \in Index : j # i => (j \in r.tools <=> j \in c.tools)
    BY <2>1
  <2> HIDE DEF c
  <2>4. \A k \in Kinds : r.open[k][i] = 0
    BY <2>2, <2>3, <2>c DEF TidyAt
  <2>5. /\ \A k \in Kinds, j \in Index \cup {NoIndex} : j # i => r.open[k][j] = b.open[k][j]
        /\ \A j \in Index : j # i => (j \in r.tools <=> j \in b.tools)
    BY <2>2, <2>c
  <2>6. cl[i].kind = "tool" /\ \A j \in Index : j # i => cl[j] = bl[j]
    BY <1>2
  <2>7. cl[i].kind \notin Kinds /\ cl[i] # NoBlock
    BY <2>6, IdFacts DEF NoBlock
  <2>8. TidyAt(r, cl[i], i)
    BY <2>4, <2>7, IdFacts DEF TidyAt
  <2>9. Standing(b) /\ Tidy(b, bl) /\ \A n \in 1..Len(b.segments) : r.segments[n].no = b.segments[n].no
    OBVIOUS
  <2> QED BY ONLY <2>0, <2>5, <2>6, <2>8, <2>9, TidyUpdate
<1> QED BY <1>1, <1>2

\* What any call is.
LEMMA CallFacts ==
    ASSUME IInv, NEW i \in Index \cup {NoIndex}, NEW id, NEW name, Call(i, id, name)
    PROVE  /\ Send(<<Use(i, IdOfCall(id), name, Piece(Speaker))>>)
           /\ ~over /\ parsed = << >> /\ events < MaxEvents /\ crossed' = crossed
           /\ block' \in [Index -> BlockType] /\ BlocksOK(block', events + 1)
           /\ i = NoIndex => block' = block
           /\ i # NoIndex => /\ block'[i].kind = "tool"
                             /\ \A j \in Index : j # i => block'[j] = block[j]
           /\ Piece(Speaker) \in Written /\ Piece(Speaker).no = events + 1
<1> DEFINE x == [kind |-> "tool", by |-> Speaker, no |-> events + 1]
<1>1. /\ Send(<<Use(i, IdOfCall(id), name, Piece(Speaker))>>)
      /\ block' = IF i = NoIndex THEN block ELSE [block EXCEPT ![i] = x]
      /\ crossed' = crossed
  BY DEF Call
<1>2. ~over /\ parsed = << >> /\ events < MaxEvents
  BY <1>1 DEF Send
<1>3. block \in [Index -> BlockType] /\ events \in Nat
  BY StreamTypes
<1>4. BlocksOK(block, events) /\ BlocksOK(block, events + 1)
  BY <1>2, <1>3, Ready, BlocksMono
<1>5. Speaker \in {"main", "sub"}
  BY <1>2, Speaking
<1>6. x \in BlockType /\ x.no <= events + 1 /\ x.kind = "tool" /\ x.kind # "none"
  BY <1>3, <1>5 DEF BlockType
<1>7. Piece(Speaker) \in Written /\ Piece(Speaker).no = events + 1
  <2>1. events + 1 \in Nat
    BY <1>3
  <2> QED BY <1>5, <2>1, PieceFacts DEF Piece
<1> HIDE DEF x
<1>8. i # NoIndex => /\ block' \in [Index -> BlockType] /\ BlocksOK(block', events + 1)
                     /\ block'[i].kind = "tool"
                     /\ \A j \in Index : j # i => block'[j] = block[j]
  BY <1>1, <1>3, <1>4, <1>6, BlocksUpdate
<1>9. i = NoIndex => block' = block
  BY <1>1
<1> QED BY <1>1, <1>2, <1>3, <1>4, <1>7, <1>8, <1>9

LEMMA IdOfCallFacts ==
    ASSUME IInv, NEW id \in TaskId \cup ToolId
    PROVE  /\ IdOfCall(id) \in Seq(STRING)
           /\ ids = "given" => IdOfCall(id) = id
           /\ ids # "given" => IdOfCall(id) = NoId
<1>1. id \in Seq(STRING)
  BY IdFacts
<1>2. NoId \in Seq(STRING)
  <2>1. \A S : << >> \in Seq(S)
    OBVIOUS
  <2> QED BY <2>1 DEF NoId
<1>3. CASE ids = "given"
  BY <1>1, <1>3 DEF IdOfCall
<1>4. CASE ids # "given"
  BY <1>2, <1>4 DEF IdOfCall
<1> QED BY <1>3, <1>4

\* An appended segment leaves the numbers of the others.
LEMMA AppendNo ==
    ASSUME NEW b, Standing(b), NEW x \in Segment
    PROVE  \A n \in 1..Len(b.segments) : Append(b.segments, x)[n].no = b.segments[n].no
<1>1. b \in Buffer
  BY DEF Standing
<1>2. b.segments \in Seq(Segment)
  BY <1>1 DEF Buffer
<1> QED BY <1>2

LEMMA CallOtherStep ==
    ASSUME IInv, NEW i \in Index \cup {NoIndex}, NEW id \in ToolId, CallOther(i, id)
    PROVE  IInv'
<1> DEFINE p == Piece(Speaker)
           given == IdOfCall(id)
           e == Use(i, given, "tool", p)
           r == CallTool(t, i, given, "tool", p)
<1>1. Call(i, id, "tool") /\ tasks' = tasks
  BY DEF CallOther
<1>2. /\ Send(<<e>>)
      /\ ~over /\ parsed = << >> /\ crossed' = crossed
      /\ block' \in [Index -> BlockType] /\ BlocksOK(block', events + 1)
      /\ i = NoIndex => block' = block
      /\ i # NoIndex => /\ block'[i].kind = "tool"
                        /\ \A j \in Index : j # i => block'[j] = block[j]
      /\ p \in Written /\ p.no = events + 1
  BY <1>1, CallFacts
<1>3. tasks \in Seq(TaskId) /\ crossed \in BOOLEAN /\ events \in Nat
  BY StreamTypes
<1>4. /\ AgentsOK(t, ids, tasks, crossed) /\ Len(t.stack) <= events /\ Len(t.stack) \in Nat
      /\ Standing(t)
      /\ Nested => Ordered(t.segments, events) /\ Tidy(t, block)
  BY <1>2, Ready
<1>5. e.type # "complete" /\ Apply(t, e) = r
  BY ApplyUse
<1>6. /\ given \in Seq(STRING)
      /\ ids # "given" => given = NoId
  BY IdOfCallFacts
<1>f. r = CallTool(t, i, given, "tool", p)
  OBVIOUS
<1> HIDE DEF p, given, e, r
<1>g. Standing(t) /\ p \in Written /\ given \in Seq(STRING) /\ i \in Index \cup {NoIndex}
  BY <1>2, <1>4, <1>6
<1>7. /\ Standing(r)
      /\ t.stack = << >> => r.segments = Append(t.segments, Fresh("tool_call", p))
      /\ t.stack # << >> => \E n \in 1..Len(t.segments) : r.segments = Counted(t.segments, n)
      /\ given = NoId => r.names = t.names
      /\ r.stack = t.stack
      /\ r.open = Closed(t, i).open
      /\ \A j \in Index : j # i => (j \in r.tools <=> j \in Closed(t, i).tools)
  <2>1. AfterTool(t, i, given, p, r)
    BY ONLY <1>f, <1>g, ToolFields
  <2> QED BY ONLY <2>1 DEF AfterTool
<1>8. t.segments \in Seq(Segment)
  <2>1. t \in Buffer
    BY <1>4 DEF Standing
  <2> QED BY <2>1 DEF Buffer
<1>9. ASSUME Nested PROVE Ordered(r.segments, events + 1)
  <2>1. Ordered(t.segments, events)
    BY <1>4, <1>9
  <2>2. CASE t.stack = << >>
    <3>1. "tool_call" \in Kinds \cup {"tool_call", "subagent", "error"}
      OBVIOUS
    <3>2. Standing(t) /\ events \in Nat /\ p \in Written /\ p.no = events + 1
      BY <1>2, <1>3, <1>4
    <3>3. Ordered(Append(t.segments, Fresh("tool_call", p)), events + 1)
      BY ONLY <2>1, <3>1, <3>2, OrderedFresh
    <3> QED BY <1>7, <2>2, <3>3
  <2>3. CASE t.stack # << >>
    <3>1. PICK n \in 1..Len(t.segments) : r.segments = Counted(t.segments, n)
      BY <1>7, <2>3
    <3>2. Ordered(r.segments, events) /\ r.segments \in Seq(Segment)
      BY <1>3, <1>8, <2>1, <3>1, OrderedCounted, CountedFacts
    <3>3. events + 1 \in Nat /\ events <= events + 1
      BY <1>3
    <3> QED BY <1>3, <3>2, <3>3, OrderedMono
  <2> QED BY <2>2, <2>3
<1>10. \A n \in 1..Len(t.segments) : r.segments[n].no = t.segments[n].no
  <2>1. CASE t.stack = << >>
    <3>1. Fresh("tool_call", p) \in Segment
      BY <1>2, FreshFacts
    <3> QED BY <1>4, <1>7, <2>1, <3>1, AppendNo
  <2>2. CASE t.stack # << >>
    <3>1. PICK n \in 1..Len(t.segments) : r.segments = Counted(t.segments, n)
      BY <1>7, <2>2
    <3>2. /\ Counted(t.segments, n)[n].no = t.segments[n].no
          /\ \A m \in 1..Len(t.segments) : m # n => Counted(t.segments, n)[m] = t.segments[m]
      BY <1>8, CountedFacts
    <3> QED BY <3>1, <3>2
  <2> QED BY <2>1, <2>2
<1>11. ASSUME Nested PROVE Tidy(r, block')
  <2>1. \A j \in Index : j # i => (j \in r.tools <=> j \in Closed(t, i).tools)
    BY <1>7
  <2>2. Standing(t) /\ Tidy(t, block) /\ i \in Index \cup {NoIndex}
    BY <1>4, <1>11
  <2>3. r.open = Closed(t, i).open
    BY <1>7
  <2>4. /\ i = NoIndex => block' = block
        /\ i # NoIndex => /\ block'[i].kind = "tool"
                          /\ \A j \in Index : j # i => block'[j] = block[j]
    BY <1>2
  <2> QED BY ONLY <1>10, <2>1, <2>2, <2>3, <2>4, CallTidy
<1>12. AgentsOK(r, ids, tasks, crossed)
  <2>1. ids # "given" => r.names = t.names
    BY <1>6, <1>7
  <2> QED BY <1>4, <1>7, <2>1 DEF AgentsOK
<1>13. Len(r.stack) <= events + 1
  BY <1>3, <1>4, <1>7
<1> QED BY <1>1, <1>2, <1>3, <1>5, <1>7, <1>9, <1>11, <1>12, <1>13, SendOne DEF BlockType

LEMMA LaunchStep ==
    ASSUME IInv, NEW i \in Index \cup {NoIndex}, NEW id \in TaskId, Launch(i, id)
    PROVE  IInv'
<1> DEFINE p == Piece(Speaker)
           given == IdOfCall(id)
           e == Use(i, given, "Task", p)
           r == CallTool(t, i, given, "Task", p)
           ts == Append(tasks, id)
<1>1. Call(i, id, "Task") /\ tasks' = ts /\ \A n \in DOMAIN tasks : tasks[n] # id
  BY DEF Launch
<1>2. /\ Send(<<e>>)
      /\ ~over /\ parsed = << >> /\ events < MaxEvents /\ crossed' = crossed
      /\ block' \in [Index -> BlockType] /\ BlocksOK(block', events + 1)
      /\ i = NoIndex => block' = block
      /\ i # NoIndex => /\ block'[i].kind = "tool"
                        /\ \A j \in Index : j # i => block'[j] = block[j]
      /\ p \in Written /\ p.no = events + 1
  BY <1>1, CallFacts
<1>3. /\ tasks \in Seq(TaskId) /\ crossed \in BOOLEAN /\ events \in Nat /\ MaxEvents \in Nat
      /\ ids \in {"given", "late", "absent"}
  BY StreamTypes, IdFacts
<1>4. /\ AgentsOK(t, ids, tasks, crossed) /\ Len(t.stack) <= events /\ Len(t.stack) \in Nat
      /\ Standing(t)
      /\ Nested => Ordered(t.segments, events) /\ Tidy(t, block)
  BY <1>2, Ready
<1>5. e.type # "complete" /\ Apply(t, e) = r
  BY ApplyUse
<1>6. /\ given \in Seq(STRING)
      /\ ids = "given" => given = id
      /\ ids # "given" => given = NoId
  BY IdOfCallFacts
<1>l. Len(t.stack) < MaxEvents
  BY <1>2, <1>3, <1>4
<1>s. ts \in Seq(TaskId)
  BY <1>3
<1>f. r = CallTool(t, i, given, "Task", p)
  OBVIOUS
<1> HIDE DEF p, given, e, r
<1>g. Standing(t) /\ p \in Written /\ given \in Seq(STRING) /\ i \in Index \cup {NoIndex}
  BY <1>2, <1>4, <1>6
<1>7. /\ Standing(r)
      /\ r.segments = Append(t.segments, Fresh("subagent", p))
      /\ given = NoId => r.names = t.names
      /\ r.stack = Append(t.stack, NameOf(t, given))
      /\ r.open = Closed(t, i).open /\ r.tools = Closed(t, i).tools
  <2> HIDE DEF ts
  <2>1. /\ Standing(r)
        /\ r.segments = Append(t.segments, Fresh("subagent", p))
        /\ given = NoId => r.names = t.names
        /\ r.stack = Append(t.stack, NameOf(t, given))
        /\ r.open = Closed(t, i).open /\ r.tools = Closed(t, i).tools
    <3>1. Len(t.stack) < MaxEvents /\ Len(t.stack) \in Nat /\ MaxEvents \in Nat
      BY <1>3, <1>4, <1>l
    <3> QED BY ONLY <1>f, <1>g, <3>1, TaskFields
  <2> QED BY ONLY <2>1
<1>8. Fresh("subagent", p) \in Segment
  BY <1>2, FreshFacts
<1>9. ASSUME Nested PROVE Ordered(r.segments, events + 1)
  <2>1. Ordered(t.segments, events)
    BY <1>4, <1>9
  <2> QED BY <1>2, <1>3, <1>4, <1>7, <2>1, OrderedFresh
<1>10. \A n \in 1..Len(t.segments) : r.segments[n].no = t.segments[n].no
  BY <1>4, <1>7, <1>8, AppendNo
<1>11. ASSUME Nested PROVE Tidy(r, block')
  <2>2. Standing(t) /\ Tidy(t, block) /\ i \in Index \cup {NoIndex}
    BY <1>4, <1>11
  <2>3. r.open = Closed(t, i).open
    BY <1>7
  <2>1. \A j \in Index : j # i => (j \in r.tools <=> j \in Closed(t, i).tools)
    BY <1>7
  <2>4. /\ i = NoIndex => block' = block
        /\ i # NoIndex => /\ block'[i].kind = "tool"
                          /\ \A j \in Index : j # i => block'[j] = block[j]
    BY <1>2
  <2> QED BY ONLY <1>10, <2>1, <2>2, <2>3, <2>4, CallTidy
<1>12. AgentsOK(r, ids, ts, crossed)
  <2>1. \A m \in DOMAIN tasks : tasks[m] # id
    BY <1>1
  <2>2. /\ Standing(t) /\ ids \in {"given", "late", "absent"} /\ tasks \in Seq(TaskId)
        /\ AgentsOK(t, ids, tasks, crossed) /\ id \in TaskId
    BY <1>3, <1>4
  <2>3. r.stack = Append(t.stack, NameOf(t, given)) /\ (given = NoId => r.names = t.names)
    BY <1>7
  <2> QED BY ONLY <1>6, <1>l, <2>1, <2>2, <2>3, LaunchAgents
<1>13. Len(r.stack) <= events + 1
  <2>1. t.stack \in Seq(Id)
    BY <1>4, StackFacts
  <2>2. Len(Append(t.stack, NameOf(t, given))) = Len(t.stack) + 1
    BY <2>1
  <2> QED BY <1>3, <1>4, <1>7, <2>2
<1> HIDE DEF ts
<1> QED BY <1>1, <1>2, <1>3, <1>5, <1>7, <1>9, <1>s, <1>11, <1>12, <1>13, SendOne DEF BlockType

\* A result leaves the segments and the blocks alone.
LEMMA ResultKeeps ==
    ASSUME NEW b, Standing(b), NEW id, NEW r, r = TakeResult(b, id)
    PROVE  /\ Standing(r) /\ r.segments = b.segments /\ r.names = b.names
           /\ r.open = b.open /\ r.tools = b.tools
           /\ Len(r.stack) <= Len(b.stack)
<1>1. Len(b.stack) \in Nat
  BY StackFacts
<1>2. CASE r = b
  BY <1>1, <1>2
<1>3. CASE \E n \in 1..Len(b.stack) : r = Pop(b, n)
  <2>1. PICK n \in 1..Len(b.stack) : r = Pop(b, n)
    BY <1>3
  <2>2. /\ Standing(r) /\ Len(r.stack) = n - 1
        /\ r.segments = b.segments /\ r.names = b.names
        /\ r.open = b.open /\ r.tools = b.tools
    BY <2>1, PopFields
  <2> QED BY <1>1, <2>2
<1> QED BY <1>2, <1>3, ResultFields

\* What a result must keep, whatever it ends.
LEMMA ResultStep ==
    ASSUME IInv, NEW id, Send(<<Result(id)>>), block' = block,
           crossed' \in BOOLEAN, crossed => crossed', tasks' \in Seq(TaskId),
           AgentsOK(TakeResult(t, id), ids, tasks', crossed')
    PROVE  IInv'
<1> DEFINE e == Result(id)
           r == TakeResult(t, id)
<1>1. ~over /\ parsed = << >>
  BY DEF Send
<1>2. /\ block \in [Index -> BlockType] /\ events \in Nat
  BY StreamTypes
<1>3. /\ Standing(t) /\ Len(t.stack) <= events /\ Len(t.stack) \in Nat
      /\ BlocksOK(block, events)
      /\ Nested => Ordered(t.segments, events) /\ Tidy(t, block)
  BY <1>1, Ready
<1>4. BlocksOK(block, events + 1)
  BY <1>2, <1>3, BlocksMono
<1>5. e.type # "complete" /\ Apply(t, e) = r
  BY ApplyResult
<1>6. AgentsOK(r, ids, tasks', crossed') /\ Send(<<e>>)
  OBVIOUS
<1> HIDE DEF e
<1>7. /\ Standing(r) /\ r.segments = t.segments
      /\ r.open = t.open /\ r.tools = t.tools
      /\ Len(r.stack) <= Len(t.stack)
  BY <1>3, ResultKeeps
<1> HIDE DEF r
<1>8. Len(r.stack) <= events + 1
  <2>1. Len(r.stack) \in Nat
    BY <1>7, StackFacts
  <2> QED BY <1>2, <1>3, <1>7, <2>1
<1>9. ASSUME Nested PROVE Ordered(r.segments, events + 1) /\ Tidy(r, block)
  <2>1. t \in Buffer
    BY <1>3 DEF Standing
  <2>2. t.segments \in Seq(Segment)
    BY <2>1 DEF Buffer
  <2>3. events + 1 \in Nat /\ events <= events + 1
    BY <1>2
  <2>4. Ordered(r.segments, events + 1)
    BY <1>2, <1>3, <1>7, <1>9, <2>2, <2>3, OrderedMono
  <2>5. Tidy(r, block)
    BY <1>3, <1>7, <1>9, TidySame
  <2> QED BY <2>4, <2>5
<1> QED BY <1>2, <1>4, <1>5, <1>6, <1>7, <1>8, <1>9, SendOne DEF BlockType

LEMMA ReturnOtherStep ==
    ASSUME IInv, NEW id \in ToolId, ReturnOther(id)
    PROVE  IInv'
<1>1. /\ Send(<<Result(IF ids = "absent" THEN NoId ELSE id)>>)
      /\ tasks' = tasks /\ block' = block /\ crossed' = crossed
  BY DEF ReturnOther
<1>2. ~over /\ parsed = << >>
  BY <1>1 DEF Send
<1>3. /\ tasks \in Seq(TaskId) /\ crossed \in BOOLEAN
      /\ ids \in {"given", "late", "absent"}
  BY StreamTypes
<1>4. Standing(t) /\ AgentsOK(t, ids, tasks, crossed)
  BY <1>2, Ready
<1>5. CASE ids # "absent"
  <2> DEFINE e == Result(id)
  <2>1. Send(<<e>>)
    BY <1>1, <1>5
  <2>2. TakeResult(t, id) = t
    <3>1. ids \in {"given", "late"}
      BY <1>3, <1>5
    <3> QED BY <1>3, <1>4, <3>1, OtherResult
  <2>3. e.type # "complete" /\ Apply(t, e) = t
    BY <2>2, ApplyResult
  <2> HIDE DEF e
  <2> QED BY <1>1, <2>1, <2>3, StillStep
<1>6. CASE ids = "absent"
  <2>1. Send(<<Result(NoId)>>)
    BY <1>1, <1>6
  <2>2. \A m, q \in DOMAIN tasks : tasks[m] = tasks[q] => m = q
    BY <1>4 DEF AgentsOK
  <2>3. Len(tasks) \in {Len(tasks), Len(tasks) - 1}
    OBVIOUS
  <2>4. AgentsOK(t, "absent", tasks, crossed)
    BY <1>4, <1>6
  <2>5. AgentsOK(TakeResult(t, NoId), "absent", tasks, crossed)
    BY <1>3, <1>4, <2>2, <2>3, <2>4, ReturnAbsent
  <2>6. AgentsOK(TakeResult(t, NoId), ids, tasks', crossed')
    BY <1>1, <1>6, <2>5
  <2>7. crossed' \in BOOLEAN /\ (crossed => crossed') /\ tasks' \in Seq(TaskId)
    BY <1>1, <1>3
  <2> QED BY <1>1, <2>1, <2>6, <2>7, ResultStep
<1> QED BY <1>5, <1>6

LEMMA ReturnStep ==
    ASSUME IInv, NEW n \in DOMAIN tasks, NEW suffix \in {<< >>, <<"result">>}, Return(n, suffix)
    PROVE  IInv'
<1> DEFINE us == RemoveAt(tasks, n)
           id == IF ids = "absent" THEN NoId ELSE tasks[n] \o suffix
<1>1. /\ Send(<<Result(id)>>)
      /\ tasks' = us /\ block' = block
      /\ crossed' = (crossed \/ (ids = "given" /\ n < Len(tasks)))
  BY DEF Return
<1>2. ~over /\ parsed = << >>
  BY <1>1 DEF Send
<1>3. /\ tasks \in Seq(TaskId) /\ crossed \in BOOLEAN /\ n \in 1..Len(tasks)
      /\ ids \in {"given", "late", "absent"}
  BY StreamTypes
<1>4. Standing(t) /\ AgentsOK(t, ids, tasks, crossed)
  BY <1>2, Ready
<1>5. us \in Seq(TaskId) /\ Len(us) = Len(tasks) - 1
  BY <1>3, RemoveFacts
<1>6. crossed' \in BOOLEAN /\ (crossed => crossed')
  BY <1>1, <1>3
<1> HIDE DEF us
<1>7. AgentsOK(TakeResult(t, id), ids, us, crossed')
  <2>1. CASE ids = "given"
    <3>1. crossed' <=> (crossed \/ n < Len(tasks))
      BY <1>1, <2>1
    <3>2. AgentsOK(t, "given", tasks, crossed)
      BY <1>4, <2>1
    <3>3. id = tasks[n] \o suffix
      BY <2>1
    <3>4. suffix \in {<< >>, <<"result">>}
      OBVIOUS
    <3>5. AgentsOK(TakeResult(t, tasks[n] \o suffix), "given", RemoveAt(tasks, n), crossed')
      BY ONLY <1>3, <1>4, <1>6, <3>1, <3>2, <3>4, ReturnGiven
    <3> QED BY <2>1, <3>3, <3>5 DEF us
  <2>2. CASE ids = "late"
    <3>2. AgentsOK(t, "late", tasks, crossed)
      BY <1>4, <2>2
    <3>3. id = tasks[n] \o suffix
      BY <2>2
    <3>4. suffix \in {<< >>, <<"result">>}
      OBVIOUS
    <3>5. AgentsOK(TakeResult(t, tasks[n] \o suffix), "late", RemoveAt(tasks, n), crossed')
      BY ONLY <1>3, <1>4, <3>2, <3>4, ReturnLate
    <3> QED BY <2>2, <3>3, <3>5 DEF us
  <2>3. CASE ids = "absent"
    <3>1. AgentsOK(t, "absent", tasks, crossed)
      BY <1>4, <2>3
    <3>2. \A m, q \in DOMAIN tasks : tasks[m] = tasks[q] => m = q
      BY <1>4 DEF AgentsOK
    <3>3. \A m, q \in DOMAIN us : us[m] = us[q] => m = q
      BY <1>3, <3>2, DistinctAfterRemove DEF us
    <3>4. Len(us) \in {Len(tasks), Len(tasks) - 1}
      BY <1>5
    <3>5. AgentsOK(TakeResult(t, NoId), "absent", us, crossed')
      BY ONLY <1>3, <1>4, <1>5, <3>1, <3>3, <3>4, ReturnAbsent
    <3> QED BY <2>3, <3>5
  <2> QED BY <1>3, <2>1, <2>2, <2>3
<1> HIDE DEF id
<1> QED BY <1>1, <1>5, <1>6, <1>7, ResultStep

\* An error adds a segment.
LEMMA ErrorFacts ==
    ASSUME IInv, ~over, parsed = << >>, NEW p, p = Piece("cli"),
           NEW r, r = Add(t, Fresh("error", p))
    PROVE  /\ Standing(r) /\ AgentsOK(r, ids, tasks, crossed) /\ Len(r.stack) <= events + 1
           /\ Nested => Ordered(r.segments, events + 1) /\ Tidy(r, block)
<1>1. /\ Standing(t) /\ AgentsOK(t, ids, tasks, crossed)
      /\ Len(t.stack) <= events /\ Len(t.stack) \in Nat /\ events \in Nat
      /\ Nested => Ordered(t.segments, events) /\ Tidy(t, block)
  BY Ready
<1>2. p \in Written /\ p.no = events + 1
  BY <1>1, PieceFacts DEF Piece
<1>3. Fresh("error", p) \in Segment
  BY <1>2, FreshFacts
<1>4. /\ Standing(r) /\ r.segments = Append(t.segments, Fresh("error", p))
      /\ r.names = t.names /\ r.stack = t.stack
      /\ r.open = t.open /\ r.tools = t.tools
  BY <1>1, <1>3, AddFields
<1>5. ASSUME Nested PROVE Ordered(r.segments, events + 1) /\ Tidy(r, block)
  <2>1. Standing(t) /\ events \in Nat /\ Ordered(t.segments, events)
        /\ "error" \in Kinds \cup {"tool_call", "subagent", "error"}
    BY <1>1, <1>5
  <2>2. Ordered(Append(t.segments, Fresh("error", p)), events + 1)
    BY ONLY <1>2, <2>1, OrderedFresh
  <2>3. \A n \in 1..Len(t.segments) : r.segments[n].no = t.segments[n].no
    BY <1>1, <1>3, <1>4, AppendNo
  <2>4. Tidy(t, block)
    BY <1>1, <1>5
  <2>5. Tidy(r, block)
    BY <1>1, <1>4, <2>3, <2>4, TidySame
  <2> QED BY <1>4, <2>2, <2>5
<1>6. AgentsOK(r, ids, tasks, crossed)
  BY <1>1, <1>4, QuietAgents
<1> QED BY <1>1, <1>4, <1>5, <1>6

LEMMA FailStep ==
    ASSUME IInv, Fail
    PROVE  IInv'
<1> DEFINE p == Piece("cli")
           e == Error(p)
           r == Add(t, Fresh("error", p))
<1>1. Send(<<e>>) /\ tasks' = tasks /\ block' = block /\ crossed' = crossed
  BY DEF Fail
<1>2. ~over /\ parsed = << >>
  BY <1>1 DEF Send
<1>3. /\ block \in [Index -> BlockType] /\ events \in Nat /\ BlocksOK(block, events)
      /\ tasks \in Seq(TaskId) /\ crossed \in BOOLEAN
  BY <1>2, StreamTypes, Ready
<1>4. e.type # "complete" /\ Apply(t, e) = r
  BY ApplyError
<1>5. /\ Standing(r) /\ AgentsOK(r, ids, tasks, crossed) /\ Len(r.stack) <= events + 1
      /\ Nested => Ordered(r.segments, events + 1) /\ Tidy(r, block)
  BY <1>2, ErrorFacts
<1>6. BlocksOK(block, events + 1)
  BY <1>3, BlocksMono
<1> HIDE DEF e, r
<1> QED BY <1>1, <1>3, <1>4, <1>5, <1>6, SendOne DEF BlockType

LEMMA LeaveStep ==
    ASSUME IInv, NEW code \in {0, 1}, Leave(code)
    PROVE  IInv'
<1> DEFINE p == Piece("cli")
           es == Exit(code, p)
           r == IF code = 0 THEN t ELSE Add(t, Fresh("error", p))
<1>1. Send(es) /\ tasks' = tasks /\ block' = block /\ crossed' = crossed
  BY DEF Leave
<1>2. ~over /\ parsed = << >>
  BY <1>1 DEF Send
<1>3. /\ block \in [Index -> BlockType] /\ events \in Nat /\ BlocksOK(block, events)
      /\ tasks \in Seq(TaskId) /\ crossed \in BOOLEAN
  BY <1>2, StreamTypes, Ready
<1>4. /\ Standing(t) /\ AgentsOK(t, ids, tasks, crossed)
      /\ Len(t.stack) <= events /\ Len(t.stack) \in Nat
      /\ Nested => Ordered(t.segments, events) /\ Tidy(t, block)
  BY <1>2, Ready
<1>5. /\ Batch(es)
      /\ r = IF Head(es).type = "complete" THEN t ELSE Apply(t, Head(es))
  <2>1. CASE code = 0
    <3>1. es = <<Complete>>
      BY <2>1 DEF Exit
    <3>2. Complete.type = "complete"
      BY DEF Complete
    <3>3. Batch(es) /\ Head(es) = Complete
      BY <3>1 DEF Batch
    <3> QED BY <2>1, <3>2, <3>3
  <2>2. CASE code # 0
    <3>1. es = <<Error(p), Complete>>
      BY <2>2 DEF Exit
    <3>2. Error(p).type = "error" /\ Error(p).type # "complete" /\ Apply(t, Error(p)) = r
      BY <2>2, ApplyError
    <3>3. Batch(es) /\ Head(es) = Error(p)
      BY <3>1, <3>2 DEF Batch
    <3> QED BY <3>2, <3>3
  <2> QED BY <2>1, <2>2
<1>6. BlocksOK(block, events + 1)
  BY <1>3, BlocksMono
<1>7. /\ Standing(r) /\ AgentsOK(r, ids, tasks, crossed) /\ Len(r.stack) <= events + 1
      /\ Nested => Ordered(r.segments, events + 1) /\ Tidy(r, block)
  <2>1. CASE code = 0
    <3>1. r = t
      BY <2>1
    <3>2. t \in Buffer
      BY <1>4 DEF Standing
    <3>3. t.segments \in Seq(Segment)
      BY <3>2 DEF Buffer
    <3>4. events + 1 \in Nat /\ events <= events + 1
      BY <1>3
    <3>5. Nested => Ordered(t.segments, events + 1)
      BY <1>3, <1>4, <3>3, <3>4, OrderedMono
    <3> QED BY <1>3, <1>4, <3>1, <3>5
  <2>2. CASE code # 0
    <3>1. r = Add(t, Fresh("error", p))
      BY <2>2
    <3> HIDE DEF r
    <3> QED BY <1>2, <3>1, ErrorFacts
  <2> QED BY <2>1, <2>2
<1> HIDE DEF es, r
<1> QED BY <1>1, <1>3, <1>5, <1>6, <1>7, SendStep DEF BlockType

------------------------------------------------------------------------------
(* The steps of the handler.                                               *)

\* The types, when only the transcript and the handler's own state change.
LEMMA HandlerTypes ==
    ASSUME TypeOK, UNCHANGED <<command, stream>>, Standing(t'), had' \in BOOLEAN, over' \in BOOLEAN
    PROVE  TypeOK'
<1>1. /\ streamed' = streamed /\ ids' = ids /\ tasks' = tasks /\ block' = block
      /\ events' = events /\ crossed' = crossed
  BY DEF stream
<1>2. Standing(t)'
  BY DEF Standing
<1>3. {cancelled, edited}' \subseteq BOOLEAN
  BY DEF TypeOK, command
<1> QED BY <1>1, <1>2, <1>3 DEF TypeOK

\* The run ends.
LEMMA OverStep ==
    ASSUME IInv, UNCHANGED <<command, stream>>, Standing(t'), had' \in BOOLEAN, over' = TRUE,
           parsed' = << >>, Nested => \E no \in Nat : Ordered(t'.segments, no)
    PROVE  IInv'
<1>1. TypeOK'
  BY HandlerTypes DEF IInv
<1>2. InHand'
  BY DEF InHand
<1>3. Nested' = Nested
  BY DEF stream, Nested
<1>4. (Nested => \E no \in Nat : Ordered(t.segments, no))'
  <2>1. Nested' => \E no \in Nat : Ordered(t'.segments, no)
    BY <1>3
  <2> QED BY <2>1 DEF Ordered
<1> QED BY <1>1, <1>2, <1>4 DEF IInv

\* The state when an event is handled.
LEMMA Handling ==
    ASSUME IInv, ~over
    PROVE  /\ TypeOK /\ InHand /\ Standing(t) /\ Standing(After) /\ events \in Nat
           /\ had \in BOOLEAN
           /\ AgentsOK(After, ids, tasks, crossed)
           /\ Nested => /\ Ordered(t.segments, events)
                        /\ Ordered(After.segments, events)
                        /\ Tidy(After, block)
           /\ Len(After.stack) <= events
           /\ BlocksOK(block, events)
<1>1. events \in Nat
  BY StreamTypes
<1> QED BY <1>1 DEF IInv, TypeOK

LEMMA AbortStep ==
    ASSUME IInv, NEW status, Abort(status)
    PROVE  IInv'
<1> DEFINE p == Piece("handler")
<1>1. /\ ~over
      /\ t' = IF status = "stopped" THEN t ELSE Apply(t, Error(p))
      /\ parsed' = << >> /\ over' = TRUE /\ had' = had
      /\ UNCHANGED <<command, stream>>
  BY DEF Abort
<1>2. /\ Standing(t) /\ events \in Nat /\ had \in BOOLEAN
      /\ Nested => Ordered(t.segments, events)
  BY <1>1, Handling
<1>3. p \in Written /\ p.no = events + 1 /\ events + 1 \in Nat
  BY <1>2, PieceFacts DEF Piece
<1> HIDE DEF p
<1>4. CASE status = "stopped"
  BY <1>1, <1>2, <1>4, OverStep
<1>5. CASE status # "stopped"
  <2>1. t' = Add(t, Fresh("error", p))
    BY <1>1, <1>5, ApplyError
  <2>2. Fresh("error", p) \in Segment
    BY <1>3, FreshFacts
  <2>3. Standing(t') /\ t'.segments = Append(t.segments, Fresh("error", p))
    BY <1>2, <2>1, <2>2, AddFields
  <2>4. ASSUME Nested PROVE Ordered(t'.segments, events + 1)
    <3>1. /\ Standing(t) /\ events \in Nat /\ Ordered(t.segments, events)
          /\ "error" \in Kinds \cup {"tool_call", "subagent", "error"}
      BY <1>2, <2>4
    <3>2. Ordered(Append(t.segments, Fresh("error", p)), events + 1)
      BY ONLY <1>3, <3>1, OrderedFresh
    <3> QED BY <2>3, <3>2
  <2> QED BY <1>1, <1>2, <1>3, <2>3, <2>4, OverStep
<1> QED BY <1>4, <1>5

LEMMA TailFacts ==
    ASSUME NEW a, NEW b
    PROVE  Tail(<<a>>) = << >> /\ Tail(<<a, b>>) = <<b>>
OBVIOUS

\* An event of the transcript is applied: it is as it was going to be.
LEMMA ApplyStep ==
    ASSUME IInv, Handle, Head(parsed).type # "complete"
    PROVE  IInv'
<1>1. /\ parsed # << >> /\ ~over /\ parsed' = Tail(parsed)
      /\ UNCHANGED <<command, stream>>
      /\ t' = Apply(t, Head(parsed)) /\ had' = TRUE /\ over' = FALSE
  <2>1. had \in BOOLEAN
    BY Handling DEF Handle
  <2>2. parsed # << >> /\ ~over /\ parsed' = Tail(parsed)
      /\ UNCHANGED <<command, stream>>
    BY DEF Handle
  <2>3. t' = Apply(t, Head(parsed))
    BY DEF Handle
  <2>5. over' = (Head(parsed).type = "complete")
    BY DEF Handle
  <2>6. had' = TRUE
    BY <2>1 DEF Handle
  <2>7. over' = FALSE
    BY <2>5, Zenon
  <2> QED BY <2>2, <2>3, <2>6, <2>7
<1>2. /\ TypeOK /\ InHand /\ Standing(After) /\ events \in Nat
      /\ AgentsOK(After, ids, tasks, crossed)
      /\ Nested => /\ Ordered(After.segments, events)
                   /\ Tidy(After, block)
      /\ Len(After.stack) <= events
      /\ BlocksOK(block, events)
  BY <1>1, Handling
<1>3. After = t'
  BY <1>1 DEF After
<1>4. parsed' = << >> \/ parsed' = <<Complete>>
  <2>1. CASE parsed = <<parsed[1]>>
    <3>1. Tail(parsed) = << >>
      BY <2>1, TailFacts
    <3> QED BY <1>1, <3>1
  <2>2. CASE parsed = <<parsed[1], Complete>>
    <3>1. Tail(parsed) = <<Complete>>
      BY <2>2, TailFacts
    <3> QED BY <1>1, <3>1
  <2> QED BY <1>1, <1>2, <2>1, <2>2 DEF InHand, Batch
<1>5. After' = t'
  <2>1. Complete.type = "complete"
    BY DEF Complete
  <2>2. CASE parsed' = << >>
    BY <2>2 DEF After
  <2>3. CASE parsed' = <<Complete>>
    <3>1. Head(parsed') = Complete
      BY <2>3
    <3> QED BY <2>1, <3>1 DEF After
  <2> QED BY <1>4, <2>2, <2>3
<1>6. TypeOK'
  BY <1>1, <1>2, <1>3, HandlerTypes
<1>7. InHand'
  <2>1. parsed' = << >> \/ parsed' = <<parsed'[1]>>
    BY <1>4
  <2> QED BY <2>1 DEF InHand, Batch
<1>8. /\ streamed' = streamed /\ ids' = ids /\ tasks' = tasks /\ block' = block
      /\ events' = events /\ crossed' = crossed /\ Nested' = Nested
  BY <1>1 DEF stream, Nested
<1>9. Standing(After)'
  <2>1. Standing(After')
    BY <1>2, <1>3, <1>5
  <2> QED BY <2>1 DEF Standing
<1>10. AgentsOK(After, ids, tasks, crossed)'
  <2>1. AgentsOK(After', ids', tasks', crossed')
    BY <1>2, <1>3, <1>5, <1>8
  <2> QED BY <2>1 DEF AgentsOK
<1>11. Nested' => /\ (\E no \in Nat : Ordered(t.segments, no))'
                  /\ Ordered(t.segments, events)'
                  /\ Ordered(After.segments, events)'
  <2>1. Nested' => /\ \E no \in Nat : Ordered(t'.segments, no)
                   /\ Ordered(t'.segments, events')
                   /\ Ordered(After'.segments, events')
    BY <1>2, <1>3, <1>5, <1>8
  <2> QED BY <2>1 DEF Ordered
<1>12. Nested' => Tidy(After, block)'
  <2>1. Nested' => Tidy(After', block')
    BY <1>2, <1>3, <1>5, <1>8
  <2> QED BY <2>1 DEF Tidy, TidyAt
<1>13. Len(After'.stack) <= events'
  BY <1>2, <1>3, <1>5, <1>8
<1>14. BlocksOK(block, events)'
  <2>1. BlocksOK(block', events')
    BY <1>2, <1>8
  <2> QED BY <2>1 DEF BlocksOK
<1> QED BY <1>1, <1>6, <1>7, <1>9, <1>10, <1>11, <1>12, <1>13, <1>14 DEF IInv

\* The run completes; a silent one says so.
LEMMA CompleteStep ==
    ASSUME IInv, Handle, Head(parsed).type = "complete"
    PROVE  IInv'
<1> DEFINE p == Piece("handler")
<1>1. /\ parsed # << >> /\ ~over /\ parsed' = Tail(parsed)
      /\ UNCHANGED <<command, stream>>
      /\ t' = IF had THEN t ELSE Apply(t, Chunk("text", p))
      /\ over' = TRUE /\ had' = had
  <2>1. had \in BOOLEAN
    BY Handling DEF Handle
  <2> QED BY <2>1 DEF Handle
<1>2. /\ InHand /\ Standing(t) /\ events \in Nat /\ had \in BOOLEAN
      /\ Nested => Ordered(t.segments, events) /\ Tidy(After, block)
  BY <1>1, Handling
<1>3. After = t
  BY DEF After
<1>4. parsed' = << >>
  <2>1. ASSUME parsed = <<parsed[1], Complete>>, parsed[1].type = "error" PROVE FALSE
    <3>1. Head(parsed) = parsed[1]
      BY <2>1
    <3> QED BY <2>1, <3>1
  <2>2. parsed = <<parsed[1]>>
    BY <1>1, <1>2, <2>1 DEF InHand, Batch
  <2> QED BY <1>1, <2>2
<1>5. p \in Written /\ p.no = events + 1 /\ p.by = "handler" /\ events + 1 \in Nat
  BY <1>2, PieceFacts DEF Piece
<1> HIDE DEF p
<1>6. CASE had
  BY <1>1, <1>2, <1>4, <1>6, OverStep
<1>7. CASE ~had /\ InSubagent(t)
  <2>1. t' = t
    BY <1>1, <1>7, ApplyChunk
  <2> QED BY <1>1, <1>2, <1>4, <2>1, OverStep
<1>8. CASE ~had /\ ~InSubagent(t)
  <2>1. t' = Write(t, "text", NoIndex, p)
    BY <1>1, <1>8, ApplyChunk
  <2>2. "text" \in Kinds
    BY IdFacts
  <2>3. Standing(t')
    BY <1>2, <1>5, <2>1, <2>2, WriteFields
  <2>4. ASSUME Nested PROVE Ordered(t'.segments, events + 1)
    <3>1. t.open["text"][NoIndex] = 0
      BY <1>2, <1>3, <2>2, <2>4 DEF Tidy
    <3>2. Standing(t) /\ events \in Nat /\ Ordered(t.segments, events)
      BY <1>2, <2>4
    <3>3. p.by # "sub" /\ p.no = events + 1 /\ p \in Written
      BY <1>5
    <3>4. NoIndex \in Index \cup {NoIndex}
      OBVIOUS
    <3> QED BY ONLY <2>1, <2>2, <3>1, <3>2, <3>3, <3>4, OrderedWrite
  <2> QED BY <1>1, <1>2, <1>4, <1>5, <2>3, <2>4, OverStep
<1> QED BY <1>2, <1>6, <1>7, <1>8

------------------------------------------------------------------------------
(* The invariant.                                                          *)

LEMMA InitIInv == Init => IInv
<1> SUFFICES ASSUME Init PROVE IInv
  OBVIOUS
<1> DEFINE open == [k \in Kinds |-> [i \in Index \cup {NoIndex} |-> 0]]
<1>1. /\ t = [segments |-> << >>, open |-> open, tools |-> {}, names |-> {},
              stack |-> << >>, agents |-> << >>]
      /\ parsed = << >> /\ had = FALSE /\ over = FALSE
      /\ cancelled = FALSE /\ edited = FALSE
      /\ streamed \in BOOLEAN /\ ids \in {"given", "late", "absent"}
      /\ tasks = << >> /\ events = 0 /\ crossed = FALSE
      /\ block = [i \in Index |-> NoBlock]
  BY DEF Init
<1>2. /\ open \in [Kinds -> [Index \cup {NoIndex} -> Nat]]
      /\ \A k \in Kinds, i \in Index \cup {NoIndex} : open[k][i] = 0
  OBVIOUS
<1> HIDE DEF open
<1>3. /\ t.segments = << >> /\ t.open = open /\ t.tools = {} /\ t.names = {}
      /\ t.stack = << >> /\ t.agents = << >>
  BY <1>1
<1>4. t \in Buffer
  <2>1. \A S : << >> \in Seq(S)
    OBVIOUS
  <2>2. << >> \in Seq(Segment) /\ << >> \in Seq(Id) /\ << >> \in Seq(Nat)
    BY <2>1
  <2>3. {} \in SUBSET Index /\ {} \in SUBSET (Id \X Name)
    OBVIOUS
  <2> QED BY <1>1, <1>2, <2>2, <2>3 DEF Buffer
<1>5. Standing(t)
  BY <1>2, <1>3, <1>4 DEF Standing
<1>6. NoBlock \in BlockType /\ NoBlock.no = 0 /\ NoBlock.by = "none"
  BY DEF NoBlock, BlockType
<1>7. TypeOK
  <2>1. block \in [Index -> BlockType]
    BY <1>1, <1>6
  <2>2. {had, over, streamed, crossed} \subseteq BOOLEAN /\ {cancelled, edited} \subseteq BOOLEAN
    BY <1>1
  <2>3. events \in 0..MaxEvents
    BY <1>1, IdFacts
  <2>4. tasks \in Seq(TaskId)
    BY <1>1
  <2> QED BY <1>1, <1>5, <2>1, <2>2, <2>3, <2>4 DEF TypeOK, BlockType
<1>8. After = t
  BY <1>1 DEF After
<1>9. InHand
  BY <1>1 DEF InHand
<1>10. Ordered(t.segments, 0)
  BY <1>3 DEF Ordered
<1>11. Tidy(t, block)
  <2>1. \A i \in Index : block[i] = NoBlock
    BY <1>1
  <2>2. \A i \in Index : TidyAt(t, NoBlock, i)
    BY <1>2, <1>3, <1>6, IdFacts DEF TidyAt
  <2> QED BY <1>2, <1>3, <2>1, <2>2 DEF Tidy
<1>12. AgentsOK(t, ids, tasks, crossed)
  BY <1>1, <1>3 DEF AgentsOK
<1>13. BlocksOK(block, 0)
  BY <1>1, <1>6 DEF BlocksOK
<1>14. Len(t.stack) <= 0 /\ 0 \in Nat
  BY <1>3
<1> QED BY <1>1, <1>5, <1>7, <1>8, <1>9, <1>10, <1>11, <1>12, <1>13, <1>14 DEF IInv

\* A step that changes neither the transcript nor the stream: a command, or a stutter.
LEMMA CommandStep ==
    ASSUME IInv, UNCHANGED <<t, parsed, had, over, stream>>, {cancelled', edited'} \subseteq BOOLEAN
    PROVE  IInv'
<1>1. /\ t' = t /\ parsed' = parsed /\ had' = had /\ over' = over
      /\ streamed' = streamed /\ ids' = ids /\ tasks' = tasks /\ block' = block
      /\ events' = events /\ crossed' = crossed
  BY DEF stream
<1>2. After' = After /\ Nested' = Nested /\ InHand' = InHand
  BY <1>1 DEF After, Nested, InHand, Batch
<1>3. TypeOK' /\ Standing(After)' = Standing(After)
  <2>1. Standing(t)' = Standing(t) /\ Standing(After)' = Standing(After)
    BY <1>1, <1>2 DEF Standing
  <2> QED BY <1>1, <2>1 DEF IInv, TypeOK
<1>4. AgentsOK(After, ids, tasks, crossed)' = AgentsOK(After, ids, tasks, crossed)
  BY <1>1, <1>2 DEF AgentsOK
<1>5. /\ Ordered(t.segments, events)' = Ordered(t.segments, events)
      /\ Ordered(After.segments, events)' = Ordered(After.segments, events)
      /\ (\E no \in Nat : Ordered(t.segments, no))' = \E no \in Nat : Ordered(t.segments, no)
  BY <1>1, <1>2 DEF Ordered
<1>6. Tidy(After, block)' = Tidy(After, block) /\ BlocksOK(block, events)' = BlocksOK(block, events)
  BY <1>1, <1>2 DEF Tidy, TidyAt, BlocksOK
<1> QED BY <1>1, <1>2, <1>3, <1>4, <1>5, <1>6 DEF IInv

LEMMA NextIInv == IInv /\ [Next]_vars => IInv'
<1> SUFFICES ASSUME IInv, [Next]_vars PROVE IInv'
  OBVIOUS
<1>1. ASSUME NEW k \in Kinds, Say(k) PROVE IInv'
  BY <1>1, SayStep
<1>2. ASSUME NEW k \in Kinds, NEW i \in Index, NEW type \in {"start", "delta"}, Open(k, i, type)
      PROVE IInv'
  BY <1>2, OpenStep
<1>3. ASSUME NEW i \in Index, Continue(i) \/ End(i) PROVE IInv'
  BY <1>3, ContinueStep, EndStep
<1>4. ASSUME NEW i \in Index \cup {NoIndex}, NEW id \in ToolId, CallOther(i, id) PROVE IInv'
  BY <1>4, CallOtherStep
<1>5. ASSUME NEW i \in Index \cup {NoIndex}, NEW id \in TaskId, Launch(i, id) PROVE IInv'
  BY <1>5, LaunchStep
<1>6. ASSUME NEW id \in ToolId, ReturnOther(id) PROVE IInv'
  BY <1>6, ReturnOtherStep
<1>7. ASSUME NEW n \in DOMAIN tasks, NEW suffix \in {<< >>, <<"result">>}, Return(n, suffix)
      PROVE IInv'
  BY <1>7, ReturnStep
<1>8. ASSUME Fail PROVE IInv'
  BY <1>8, FailStep
<1>9. ASSUME NEW code \in {0, 1}, Leave(code) PROVE IInv'
  BY <1>9, LeaveStep
<1>10. ASSUME Handle PROVE IInv'
  BY <1>10, ApplyStep, CompleteStep
<1>11. ASSUME NEW status \in {"stopped", "failed"}, Abort(status) PROVE IInv'
  BY <1>11, AbortStep
<1>12. ASSUME Cancel \/ EditStopped \/ UNCHANGED vars PROVE IInv'
  <2>1. {cancelled, edited} \subseteq BOOLEAN
    BY DEF IInv, TypeOK
  <2>2. {cancelled', edited'} \subseteq BOOLEAN
    BY <1>12, <2>1 DEF Cancel, EditStopped, vars, command
  <2>3. UNCHANGED <<t, parsed, had, over, stream>>
    BY <1>12 DEF Cancel, EditStopped, vars, buffer
  <2> QED BY <2>2, <2>3, CommandStep
<1> QED BY <1>1, <1>2, <1>3, <1>4, <1>5, <1>6, <1>7, <1>8, <1>9, <1>10, <1>11, <1>12
        DEF Next, CLI

\* Whatever the stream brings and in whatever order the chat takes it, the maps and the
\* stack of the transcript fit its segments and what the CLI has running.
THEOREM Invariance == Spec => []IInv
<1> QED BY InitIInv, NextIInv, PTL DEF Spec

\* The types of Transcript.
THEOREM TypeCorrect == Spec => []TypeOK
<1>1. IInv => TypeOK
  BY DEF IInv
<1> QED BY <1>1, Invariance, PTL

\* The pieces of a segment, wherever they are.
LEMMA PieceOf ==
    ASSUME NEW x \in Pieces
    PROVE  /\ x[1] \in DOMAIN t.segments
           /\ \E j \in DOMAIN t.segments[x[1]].pieces : x[2] = t.segments[x[1]].pieces[j]
<1>1. PICK n \in DOMAIN t.segments : x \in {<<n, p>> : p \in ToSet(t.segments[n].pieces)}
  BY DEF Pieces
<1>2. PICK p \in ToSet(t.segments[n].pieces) : x = <<n, p>>
  BY <1>1
<1>3. PICK j \in DOMAIN t.segments[n].pieces : p = t.segments[n].pieces[j]
  BY <1>2 DEF ToSet
<1> QED BY <1>2, <1>3

\* The segments stand in the order of the stream and hold no piece of another block
\* (apply in messaging/transcript.py), for any number of indices, calls and events.
THEOREM Order == Spec => []InOrder
<1>1. IInv => InOrder
  <2> SUFFICES ASSUME IInv, Nested PROVE /\ \A m, n \in DOMAIN t.segments :
                                               m < n => t.segments[m].no <= t.segments[n].no
                                         /\ \A x \in Pieces : x[2].no = t.segments[x[1]].no
    BY DEF InOrder
  <2>1. PICK no \in Nat : Ordered(t.segments, no)
    BY DEF IInv
  <2>2. \A x \in Pieces : x[2].no = t.segments[x[1]].no
    <3>1. TAKE x \in Pieces
    <3>2. PICK j \in DOMAIN t.segments[x[1]].pieces : x[2] = t.segments[x[1]].pieces[j]
      BY PieceOf
    <3>3. x[1] \in DOMAIN t.segments
      BY PieceOf
    <3> QED BY <2>1, <3>2, <3>3 DEF Ordered
  <2> QED BY <2>1, <2>2 DEF Ordered
<1> QED BY <1>1, Invariance, PTL

\* Nothing a subagent writes is shown while subagents return youngest first
\* (_in_subagent and _subagent_stack in messaging/transcript.py).
THEOREM SubagentsHidden == Spec => []HidesSubagents
<1>1. IInv => HidesSubagents
  <2> SUFFICES ASSUME IInv, Nested, NEW x \in Pieces PROVE x[2].by # "sub"
    BY DEF HidesSubagents
  <2>1. PICK no \in Nat : Ordered(t.segments, no)
    BY DEF IInv
  <2>2. PICK j \in DOMAIN t.segments[x[1]].pieces : x[2] = t.segments[x[1]].pieces[j]
    BY PieceOf
  <2>3. x[1] \in DOMAIN t.segments
    BY PieceOf
  <2> QED BY <2>1, <2>2, <2>3 DEF Ordered
<1> QED BY <1>1, Invariance, PTL

\* With no subagent running the stack of the transcript is empty, in whatever order they
\* returned and whichever ids were missing or late, as long as the id of a task, where it
\* has one, contains "task" (IdAssumption; _subagent_pop).
THEOREM DepthIsRight == Spec => []NoDepthDrift
<1>1. IInv => NoDepthDrift
  <2> SUFFICES ASSUME IInv, parsed = << >>, tasks = << >>, ~over PROVE t.stack = << >>
    BY DEF NoDepthDrift, InSubagent
  <2> QED BY Speaking DEF Speaker
<1> QED BY <1>1, Invariance, PTL

------------------------------------------------------------------------------
(* What is shown.                                                          *)

LEMMA Numbers ==
    /\ Limit \in Nat /\ TailMax \in Nat /\ MarkerSize \in Nat /\ StatusSize \in Nat
    /\ MinTail \in Nat
    /\ \A status : StatusLength(status) \in Nat /\ StatusLength(status) <= StatusSize
BY IdAssumption DEF StatusLength

LEMMA VisibleFacts ==
    ASSUME NEW b, Standing(b)
    PROVE  /\ Visible(b) \subseteq 1..Len(b.segments) /\ Len(b.segments) \in Nat
           /\ Visible(b) \in SUBSET Nat
           /\ Visible(b) # {} => /\ Max(Visible(b)) \in Visible(b)
                                 /\ \A n \in Visible(b) : n <= Max(Visible(b))
<1>1. b \in Buffer
  BY DEF Standing
<1>2. b.segments \in Seq(Segment)
  BY <1>1 DEF Buffer
<1>3. Visible(b) \subseteq 1..Len(b.segments) /\ Len(b.segments) \in Nat
  BY <1>2 DEF Visible
<1>4. Visible(b) \in SUBSET Nat
  BY <1>3
<1>5. ASSUME Visible(b) # {}
      PROVE  /\ Max(Visible(b)) \in Visible(b)
             /\ \A n \in Visible(b) : Max(Visible(b)) >= n
  BY <1>3, <1>5, MaxFacts
<1> QED BY <1>3, <1>4, <1>5

\* What is rendered fits, or is the status alone; it ends with the newest segment when
\* there is room for a tail of one.
LEMMA RenderFacts ==
    ASSUME NEW b, Standing(b), NEW status, NEW r, r = Render(b, status)
    PROVE  /\ r.status = status
           /\ r.size <= Limit \/ r.size = StatusLength(status)
           /\ Visible(b) # {} /\ Limit > MarkerSize + StatusSize + MinTail
              => /\ Max(Visible(b)) \in DOMAIN r.parts
                 /\ r.parts[Max(Visible(b))] = b.segments[Max(Visible(b))]
<1> DEFINE V == Visible(b)
           top == Max(V)
           From(k) == {n \in V : n >= k}
           Newest(k) == Display(b, From(k), TRUE, Total(b, From(k)), status)
           fitting == {k \in V : Newest(k).size <= Limit}
           room == Limit - MarkerSize - StatusLength(status)
           few == Display(b, V, FALSE, Total(b, V), status)
           tail == Display(b, {top}, TRUE, room, status)
           none == Display(b, {}, V # {} /\ room >= 0, 0, status)
<1>1. r = IF Total(b, V) + StatusLength(status) <= Limit THEN few
          ELSE IF fitting # {} THEN Newest(Min(fitting))
          ELSE IF V # {} /\ room > MinTail THEN tail ELSE none
  BY DEF Render
<1>2. V \in SUBSET Nat /\ (V # {} => top \in V /\ \A n \in V : n <= top)
  BY VisibleFacts
<1>3. /\ Limit \in Nat /\ MarkerSize \in Nat /\ StatusSize \in Nat /\ MinTail \in Nat
      /\ StatusLength(status) \in Nat /\ StatusLength(status) <= StatusSize
  BY Numbers
<1>4. CASE Total(b, V) + StatusLength(status) <= Limit
  <2>1. r = few
    BY <1>1, <1>4
  <2> HIDE DEF V, top
  <2>d. few = Display(b, V, FALSE, Total(b, V), status)
    OBVIOUS
  <2> HIDE DEF few
  <2>2. /\ few.status = status /\ DOMAIN few.parts = V
        /\ \A n \in V : few.parts[n] = b.segments[n]
        /\ few.size = Total(b, V) + StatusLength(status)
    BY ONLY <2>d DEF Display
  <2> HIDE DEF few
  <2>3. r.status = status /\ r.size <= Limit
    BY <1>4, <2>1, <2>2
  <2>4. V # {} => top \in DOMAIN r.parts /\ r.parts[top] = b.segments[top]
    BY <1>2, <2>1, <2>2
  <2> QED BY <2>3, <2>4 DEF V, top
<1>5. CASE ~(Total(b, V) + StatusLength(status) <= Limit) /\ fitting # {}
  <2> DEFINE k == Min(fitting)
             d == Newest(k)
  <2>1. r = d
    BY <1>1, <1>5
  <2>2. k \in fitting
    <3>1. fitting \in SUBSET Nat
      BY <1>2
    <3> HIDE DEF fitting
    <3> QED BY <1>5, <3>1, MinFacts
  <2>3. k \in V /\ d.size <= Limit
    BY <2>2
  <2> HIDE DEF k, V, top
  <2>4. /\ d.status = status /\ DOMAIN d.parts = From(k)
        /\ \A n \in From(k) : d.parts[n] = b.segments[n]
    <3>1. d = Display(b, From(k), TRUE, Total(b, From(k)), status)
      OBVIOUS
    <3> DEFINE S == From(k)
    <3> HIDE DEF d, S
    <3>2. d = Display(b, S, TRUE, Total(b, S), status)
      BY <3>1 DEF S
    <3>3. /\ d.status = status /\ DOMAIN d.parts = S
          /\ \A n \in S : d.parts[n] = b.segments[n]
      BY ONLY <3>2 DEF Display
    <3> QED BY <3>3 DEF S
  <2> HIDE DEF d
  <2>5. top \in From(k) /\ V # {}
    BY <1>2, <2>3
  <2> HIDE DEF From
  <2>6. top \in DOMAIN r.parts /\ r.parts[top] = b.segments[top]
    BY <2>1, <2>4, <2>5
  <2>7. r.status = status /\ r.size <= Limit
    BY <2>1, <2>3, <2>4
  <2> QED BY <2>6, <2>7 DEF V, top
<1>6. CASE ~(Total(b, V) + StatusLength(status) <= Limit) /\ fitting = {} /\ V # {} /\ room > MinTail
  <2>1. r = tail
    BY <1>1, <1>6
  <2> HIDE DEF V, top, room
  <2>d. tail = Display(b, {top}, TRUE, room, status)
    OBVIOUS
  <2> HIDE DEF tail
  <2>2. /\ tail.status = status /\ DOMAIN tail.parts = {top}
        /\ \A n \in {top} : tail.parts[n] = b.segments[n]
        /\ tail.size = room + StatusLength(status) + MarkerSize
    BY ONLY <2>d DEF Display
  <2> HIDE DEF tail
  <2>3. room + StatusLength(status) + MarkerSize = Limit
    BY ONLY <1>3 DEF room
  <2>4. r.status = status /\ r.size <= Limit
    BY <1>3, <2>1, <2>2, <2>3
  <2>5. top \in DOMAIN r.parts /\ r.parts[top] = b.segments[top]
    BY <2>1, <2>2
  <2> QED BY <2>4, <2>5 DEF V, top
<1>7. CASE ~(Total(b, V) + StatusLength(status) <= Limit) /\ fitting = {} /\ ~(V # {} /\ room > MinTail)
  <2>1. r = none
    BY <1>1, <1>7
  <2> DEFINE marker == V # {} /\ room >= 0
  <2> HIDE DEF V, top, room
  <2>2. /\ none.status = status
        /\ marker => none.size = 0 + StatusLength(status) + MarkerSize
        /\ ~marker => none.size = 0 + StatusLength(status)
    <3>1. marker \in BOOLEAN
      OBVIOUS
    <3>2. none = Display(b, {}, marker, 0, status)
      OBVIOUS
    <3> HIDE DEF marker, none
    <3> QED BY ONLY <3>1, <3>2 DEF Display
  <2> HIDE DEF none
  <2>3. room >= 0 => StatusLength(status) + MarkerSize <= Limit
    BY ONLY <1>3 DEF room
  <2>4. r.status = status
    BY <2>1, <2>2
  <2>5. r.size <= Limit \/ r.size = StatusLength(status)
    BY <1>3, <2>1, <2>2, <2>3
  <2>6. Limit > MarkerSize + StatusSize + MinTail => room > MinTail
    BY ONLY <1>3 DEF room
  <2>7. ~(V # {} /\ Limit > MarkerSize + StatusSize + MinTail)
    BY <1>7, <2>6
  <2> QED BY <2>4, <2>5, <2>7 DEF V, top
<1> QED BY <1>4, <1>5, <1>6, <1>7

\* The last update of a run shows the transcript it ends with, and every update fits.
Shown ==
    /\ FinalIsShown
    /\ shown.size <= Limit \/ shown.size = StatusLength(shown.status)

LEMMA InitShown == Init => Shown
<1> SUFFICES ASSUME Init PROVE Shown
  OBVIOUS
<1>1. over = FALSE /\ shown = Nothing
  BY DEF Init
<1>2. Nothing.size = 0 /\ Limit \in Nat
  BY Numbers DEF Nothing
<1> QED BY <1>1, <1>2 DEF Shown, FinalIsShown

LEMMA NextShown ==
    ASSUME Shown, TypeOK', [Next]_vars
    PROVE  Shown'
<1>1. Standing(t')
  <2>1. Standing(t)'
    BY DEF TypeOK
  <2> QED BY <2>1 DEF Standing
<1>2. ASSUME NEW status, shown' = Render(t', status) PROVE Shown'
  <2>1. /\ shown'.status = status
        /\ shown'.size <= Limit \/ shown'.size = StatusLength(status)
    BY <1>1, <1>2, RenderFacts
  <2>2. StatusLength(shown'.status) = StatusLength(status)
    BY <2>1
  <2>3. (over => shown = Render(t, shown.status))'
    BY <1>2, <2>1
  <2>4. (shown.size <= Limit \/ shown.size = StatusLength(shown.status))'
    BY <2>1, <2>2
  <2> QED BY <2>3, <2>4 DEF Shown, FinalIsShown
<1>3. CASE Handle
  <2> DEFINE e == Head(parsed)
  <2>1. /\ shown' = Render(t', StatusOf(e)) \/ (~Forced(e) /\ shown' = Stale)
        /\ over' = (e.type = "complete")
    BY <1>3 DEF Handle
  <2>2. CASE shown' = Render(t', StatusOf(e))
    BY <1>2, <2>2
  <2>3. CASE ~Forced(e) /\ shown' = Stale
    <3>1. e.type # "complete"
      BY <2>3 DEF Forced, IsProgress
    <3>2. ~over'
      BY <2>1, <3>1
    <3>3. Stale.size = 0 /\ Limit \in Nat
      BY Numbers DEF Stale
    <3>4. (shown.size <= Limit)'
      BY <2>3, <3>3
    <3> QED BY <3>2, <3>4 DEF Shown, FinalIsShown
  <2> QED BY <2>1, <2>2, <2>3
<1>4. ASSUME NEW status, Abort(status) PROVE Shown'
  BY <1>2, <1>4 DEF Abort
<1>5. ASSUME ~over, over' = over, shown' = shown PROVE Shown'
  BY <1>5 DEF Shown, FinalIsShown, StatusLength
<1>6. CASE CLI
  <2>1. \E es : Send(es)
    BY <1>6 DEF CLI, Say, Open, Continue, End, CallOther, Launch, Call, ReturnOther, Return,
                Fail, Leave
  <2> QED BY <1>5, <2>1 DEF Send
<1>7. CASE Cancel \/ UNCHANGED vars
  <2>1. t' = t /\ shown' = shown /\ over' = over /\ edited' = edited
    BY <1>7 DEF Cancel, vars, buffer, command
  <2>2. FinalIsShown' = FinalIsShown
    BY <2>1 DEF FinalIsShown, JustStopped
  <2>3. StatusLength(shown.status)' = StatusLength(shown.status)
    BY <2>1 DEF StatusLength
  <2> QED BY <2>1, <2>2, <2>3 DEF Shown
<1>8. CASE EditStopped
  <2>1. edited' = TRUE /\ shown' = JustStopped
    BY <1>8 DEF EditStopped
  <2>2. FinalIsShown'
    BY <2>1 DEF FinalIsShown, JustStopped
  <2>3. shown'.size = StatusSize /\ shown'.status = "stopped"
    BY <2>1 DEF JustStopped
  <2>4. (shown.size = StatusLength(shown.status))'
    BY <2>3 DEF StatusLength
  <2> QED BY <2>2, <2>4 DEF Shown
<1> QED BY <1>3, <1>4, <1>6, <1>7, <1>8 DEF Next

\* When a run is over the chat shows its whole transcript, whichever updates were skipped
\* before (update_ui in messaging/handler.py), or, where a command's edit came last, its
\* "Stopped." alone (update_cancelled_nodes_ui).
THEOREM FinalShown == Spec => []FinalIsShown
<1>1. Shown /\ TypeOK' /\ [Next]_vars => Shown'
  BY NextShown
<1>2. Shown => FinalIsShown
  BY DEF Shown
<1> QED BY <1>1, <1>2, InitShown, TypeCorrect, PTL DEF Spec

\* The text fits the message and, but for such a "Stopped.", ends with the newest segment
\* (render in messaging/transcript.py), for every limit and every length of what is shown.
THEOREM NewestShown == Spec => []ShowsTheNewest
<1>1. Shown /\ TypeOK' /\ [Next]_vars => Shown'
  BY NextShown
<1>2. Shown /\ TypeOK => ShowsTheNewest
  <2> SUFFICES ASSUME Shown, TypeOK PROVE ShowsTheNewest
    OBVIOUS
  <2>1. ASSUME over, shown # JustStopped, Visible(t) # {}, Limit > MarkerSize + StatusSize + MinTail
        PROVE  /\ Max(Visible(t)) \in DOMAIN shown.parts
               /\ shown.parts[Max(Visible(t))] = t.segments[Max(Visible(t))]
    <3>1. shown = Render(t, shown.status)
      BY <2>1 DEF Shown, FinalIsShown
    <3>2. Standing(t)
      BY DEF TypeOK
    <3> QED BY <2>1, <3>1, <3>2, RenderFacts
  <2> QED BY <2>1 DEF Shown, ShowsTheNewest
<1> QED BY <1>1, <1>2, InitShown, TypeCorrect, PTL DEF Spec
==============================================================================
