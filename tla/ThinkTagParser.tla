--------------------------- MODULE ThinkTagParser ---------------------------
(***************************************************************************)
(* The streaming parser for <think>...</think>                             *)
(* (providers/common/think_parser.py).  Text arrives cut anywhere, also in *)
(* the middle of a tag; each piece is taken apart as far as possible, and  *)
(* what may be the beginning of a tag is held back.                        *)
(*                                                                         *)
(* A step is one turn of the loop in feed.  The tags are parameters: all   *)
(* the parser knows of them is what TagAssumption says.                    *)
(***************************************************************************)
EXTENDS Integers, FiniteSets, Sequences, SequencesExt

CONSTANTS Char,         \* the characters of the text
          OpenTag,      \* OPEN_TAG
          CloseTag,     \* CLOSE_TAG
          MaxPiece,     \* bound: the length of a piece
          MaxText       \* bound: the length of the whole text

Bracket == Head(OpenTag)
Piece == BoundedSeq(Char, MaxPiece) \ {<< >>}

ASSUME TagAssumption ==
    /\ MaxPiece \in Nat /\ MaxText \in Nat
    /\ \A tag \in {OpenTag, CloseTag} :
          /\ tag \in Seq(Char) \ {<< >>}
          /\ \A i \in 1..Len(tag) : tag[i] = Bracket <=> i = 1
    /\ ~IsPrefix(OpenTag, CloseTag) /\ ~IsPrefix(CloseTag, OpenTag)

VARIABLES
    buffer,     \* _buffer
    inThink,    \* _in_think_tag
    pc,         \* whether the caller is inside feed, or has called flush
    text,       \* all that was fed (history)
    out         \* all that was yielded, character by character (history)

vars == <<buffer, inThink, pc, text, out>>

Kind == {"text", "thinking"}

TypeOK ==
    /\ buffer \in Seq(Char) /\ Len(buffer) <= Len(text)
    /\ inThink \in BOOLEAN
    /\ pc \in {"idle", "feeding", "flushed"}
    /\ text \in Seq(Char) /\ Len(text) <= MaxText
    /\ out \in Seq(Kind \X Char)

Init ==
    /\ buffer = << >> /\ inThink = FALSE /\ pc = "idle"
    /\ text = << >> /\ out = << >>

------------------------------------------------------------------------------
\* str.find and str.startswith, at position i of s.
TagAt(tag, s, i) ==
    i + Len(tag) - 1 <= Len(s) /\ SubSeq(s, i, i + Len(tag) - 1) = tag

First(tag, i) ==
    /\ TagAt(tag, buffer, i)
    /\ \A j \in 1..i - 1 : ~TagAt(tag, buffer, j)

NotBefore(tag, i) == \A j \in 1..i - 1 : ~TagAt(tag, buffer, j)

\* The tags the parser looks for: an orphan </think> is stripped from the text.
Tags == IF inThink THEN {CloseTag} ELSE {OpenTag, CloseTag}
Mode == IF inThink THEN "thinking" ELSE "text"

Mark(kind, s) == [i \in 1..Len(s) |-> <<kind, s[i]>>]
Yield(s) == out' = out \o Mark(Mode, s)

Before(i) == SubSeq(buffer, 1, i - 1)
From(i) == SubSeq(buffer, i, Len(buffer))

\* The loop goes on as long as something is in the buffer.
GoOn == pc' = IF buffer' = << >> THEN "idle" ELSE "feeding"

------------------------------------------------------------------------------
Feed(chunk) ==
    /\ pc = "idle" /\ Len(text) + Len(chunk) <= MaxText
    /\ text' = text \o chunk
    /\ buffer' = buffer \o chunk
    /\ pc' = "feeding"
    /\ UNCHANGED <<inThink, out>>

\* A </think> outside: the text before it is yielded, the tag dropped.
OrphanClose ==
    /\ pc = "feeding" /\ ~inThink
    /\ \E i \in 1..Len(buffer) :
          /\ First(CloseTag, i) /\ NotBefore(OpenTag, i)
          /\ Yield(Before(i))
          /\ buffer' = From(i + Len(CloseTag))
    /\ GoOn
    /\ UNCHANGED <<inThink, text>>

OpenThink ==
    /\ pc = "feeding" /\ ~inThink
    /\ \E i \in 1..Len(buffer) :
          /\ First(OpenTag, i) /\ NotBefore(CloseTag, i)
          /\ Yield(Before(i))
          /\ buffer' = From(i + Len(OpenTag))
    /\ inThink' = TRUE
    /\ GoOn
    /\ UNCHANGED text

CloseThink ==
    /\ pc = "feeding" /\ inThink
    /\ \E i \in 1..Len(buffer) :
          /\ First(CloseTag, i)
          /\ Yield(Before(i))
          /\ buffer' = From(i + Len(CloseTag))
    /\ inThink' = FALSE
    /\ GoOn
    /\ UNCHANGED text

NoTag == \A tag \in Tags, i \in 1..Len(buffer) : ~TagAt(tag, buffer, i)

LastBracket(i) ==
    /\ buffer[i] = Bracket
    /\ \A j \in i + 1..Len(buffer) : buffer[j] # Bracket

\* Mutant: only <think> is expected to be cut.
PartialOpen(i) == LastBracket(i) /\ IsStrictPrefix(From(i), OpenTag)

\* The buffer ends with the beginning of a tag.
Partial(i) ==
    LastBracket(i) /\ \E tag \in Tags : IsStrictPrefix(From(i), tag)

\* No tag, but perhaps the beginning of one: the loop stops, for the next turn would
\* make no progress.
HoldBack ==
    /\ pc = "feeding" /\ NoTag
    /\ \E i \in 1..Len(buffer) :
          Partial(i) /\ Yield(Before(i)) /\ buffer' = From(i)
    /\ pc' = "idle"
    /\ UNCHANGED <<inThink, text>>

YieldAll ==
    /\ pc = "feeding" /\ NoTag
    /\ \A i \in 1..Len(buffer) : ~Partial(i)
    /\ Yield(buffer)
    /\ buffer' = << >>
    /\ GoOn
    /\ UNCHANGED <<inThink, text>>

\* The end of the stream: what was held back is no tag after all.
Flush ==
    /\ pc = "idle"
    /\ Yield(buffer)
    /\ buffer' = << >> /\ pc' = "flushed"
    /\ UNCHANGED <<inThink, text>>

Loop == OrphanClose \/ OpenThink \/ CloseThink \/ HoldBack \/ YieldAll

Next == Loop \/ Flush \/ \E chunk \in Piece : Feed(chunk)

Spec == Init /\ [][Next]_vars

------------------------------------------------------------------------------
(* Properties.                                                             *)

\* How a text without cuts is read: the character at i is thinking if a <think> has ended
\* before it and no </think> since; </think> is dropped wherever it is, <think> only
\* outside of thinking.
Thinking(s, i) ==
    \E j \in 1..Len(s) :
        /\ TagAt(OpenTag, s, j) /\ j + Len(OpenTag) <= i
        /\ \A k \in j..Len(s) : TagAt(CloseTag, s, k) => k + Len(CloseTag) > i

Covers(tag, s, j, i) == TagAt(tag, s, j) /\ i \in j..j + Len(tag) - 1
Dropped(s, i) ==
    \E j \in 1..Len(s) :
        \/ Covers(CloseTag, s, j, i)
        \/ Covers(OpenTag, s, j, i) /\ ~Thinking(s, j)

Kept(s, n) == {i \in 1..n : ~Dropped(s, i)}
Rank(i, S) == Cardinality({j \in S : j <= i})
Reading(s, i) == <<IF Thinking(s, i) THEN "thinking" ELSE "text", s[i]>>

Reads(o, s, n) ==
    /\ Len(o) = Cardinality(Kept(s, n))
    /\ \A i \in Kept(s, n) : o[Rank(i, Kept(s, n))] = Reading(s, i)

Seen == Len(text) - Len(buffer)
Held ==
    /\ pc = "idle" => \E tag \in {OpenTag, CloseTag} : IsStrictPrefix(buffer, tag)
    /\ pc = "flushed" => buffer = << >>

\* What is yielded does not depend on how the text was cut, and nothing is lost: all that
\* has left the buffer is yielded, in order and as in the reading of the text as a whole;
\* no more is held back between two pieces than the beginning of a tag, and nothing at
\* the end.
CutsDoNotMatter == Reads(out, text, Seen) /\ Held

==============================================================================
