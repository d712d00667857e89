------------------------ MODULE HeuristicToolParser ------------------------
(***************************************************************************)
(* The parser that finds tool calls written as text,                       *)
(*     * <function=Name><parameter=key>value</parameter>                   *)
(* and strips control tokens <|...|> (providers/common/                    *)
(* heuristic_tool_parser.py).  The text arrives cut anywhere.              *)
(*                                                                         *)
(* A step is one branch of the loop in feed.  Texts and what is searched   *)
(* in them are those of ToolText.                                          *)
(***************************************************************************)
EXTENDS ToolText

VARIABLES
    doc,        \* the text that is streamed
    fed,        \* how much of it has been fed
    buffer,     \* _buffer
    state,      \* _state
    name,       \* _current_function_name
    params,     \* _current_parameters
    pc,         \* whether the caller is inside feed, or has called flush
    shown,      \* the filtered text returned so far
    ordered,    \* it was returned in the order of the document (history)
    calls,      \* the detected tools returned so far
    torn,       \* a cut fell inside a control token (history)
    parted,     \* one fell where it parts a call from its parameter (history)
    crowded     \* a call with its parameter came in one piece behind an open one (history)

call == <<name, params>>
cuts == <<torn, parted, crowded>>
vars == <<doc, fed, buffer, state, call, pc, shown, ordered, calls, cuts>>

Init ==
    /\ doc \in Document /\ fed = 0
    /\ buffer = {} /\ state = "text"
    /\ name = {} /\ params = {}
    /\ pc = "idle" /\ shown = {} /\ ordered = TRUE /\ calls = << >>
    /\ torn = FALSE /\ parted = FALSE /\ crowded = FALSE

------------------------------------------------------------------------------
Show(S) ==
    /\ shown' = shown \cup S
    /\ ordered' = (ordered /\ \A p \in shown, q \in S : p < q)
ShowNothing == UNCHANGED <<shown, ordered>>

Emit == calls' = Append(calls, call)
Reading(s) == pc = "feeding" /\ state = s

\* A piece with a whole call and, in front of it, the end of another or nothing that
\* ended the one being read.
Crowds(piece) ==
    \E p \in piece :
        /\ doc[p].form \in WholeForm /\ Part(doc, p) \subseteq piece
        /\ \/ state = "parameters"
           \/ \E q \in piece : /\ q < p /\ q \notin Part(doc, p)
                               /\ doc[q].form \in {"bare"} \cup WholeForm
                                 /\ q = End(doc, q)

\* Behind the blank in front of a parameter, or between a bullet in a value and the end
\* of the parameter.
Parts(p) == doc[p].form = "loose" /\ doc[p].at \in {6} \cup 11..13

\* feed: the next n characters.
Feed(n) ==
    /\ pc = "idle" /\ n \in 1..Len(doc) - fed
    /\ fed' = fed + n
    /\ buffer' = Strip(doc, buffer \cup fed + 1..fed + n)
    /\ torn' = (torn \/ (doc[fed + n].form = "token" /\ fed + n # End(doc, fed + n)))
    /\ parted' = (parted \/ Parts(fed + n))
    /\ crowded' = (crowded \/ Crowds(fed + 1..fed + n))
    /\ pc' = "feeding"
    /\ ShowNothing
    /\ UNCHANGED <<doc, state, call, calls>>

FindBullet ==
    /\ Reading("text")
    /\ \E i \in buffer :
          /\ IsLeast(i, At(doc, buffer, "B"))
          /\ Show(Ahead(buffer, i)) /\ buffer' = Onward(buffer, i)
    /\ state' = "function"
    /\ UNCHANGED <<doc, fed, call, pc, calls, cuts>>

\* The last <| of the buffer, if the token is not complete.
OpenToken ==
    {p \in Pair(doc, buffer, "<", "|") : /\ \A q \in Pair(doc, buffer, "<", "|") : q <= p
                                         /\ \A k \in Pair(doc, buffer, "|", ">") : k < p}

\* Without a bullet everything is shown, but for an incomplete token; one that
\* begins the buffer is shown too.
ShowText ==
    /\ Reading("text") /\ At(doc, buffer, "B") = {}
    /\ \/ \E p \in OpenToken :
             /\ Ahead(buffer, p) # {}
             /\ Show(Ahead(buffer, p)) /\ buffer' = Onward(buffer, p)
       \/ /\ \A p \in OpenToken : Ahead(buffer, p) = {}
          /\ Show(buffer) /\ buffer' = {}
    /\ pc' = "idle"
    /\ UNCHANGED <<doc, fed, state, call, calls, cuts>>

\* The first bullet with a complete tag: what is in front of it is dropped.
FunctionTag ==
    /\ Reading("function")
    /\ \E i \in Functions(doc, buffer), q \in Word(doc, buffer, "F") :
          /\ \A j \in Functions(doc, buffer) : i <= j
          /\ Leads(doc, buffer, i, q)
          /\ \E e \in Close(doc, buffer, q) :
                name' = Between(buffer, q, e) /\ buffer' = Beyond(buffer, e)
    /\ params' = {}
    /\ state' = "parameters"
    /\ ShowNothing
    /\ UNCHANGED <<doc, fed, pc, calls, cuts>>

\* Without one the parser waits, or gives the bullet up.
WaitForTag ==
    /\ Reading("function") /\ Functions(doc, buffer) = {} /\ Cardinality(buffer) <= MaxTag
    /\ pc' = "idle"
    /\ ShowNothing
    /\ UNCHANGED <<doc, fed, buffer, state, call, calls, cuts>>

GiveUp ==
    /\ Reading("function") /\ Functions(doc, buffer) = {} /\ Cardinality(buffer) > MaxTag
    /\ \E i \in buffer : /\ IsLeast(i, buffer)
                         /\ Show({i}) /\ buffer' = Beyond(buffer, i)
    /\ state' = "text"
    /\ UNCHANGED <<doc, fed, call, pc, calls, cuts>>

\* Mutant: what precedes the parameter goes with it.
ParameterDropsText ==
    /\ Reading("parameters")
    /\ \E q \in Parameters(doc, buffer) :
          /\ \A j \in Parameters(doc, buffer) : q <= j
          /\ \E e \in Close(doc, buffer, q) : \E u \in ValueEnd(doc, buffer, e) :
                /\ \A w \in ValueEnd(doc, buffer, e) : u <= w
                /\ \E v \in buffer :
                      /\ Adjacent(buffer, u, v)
                      /\ params' = params \cup {<<Between(buffer, q, e), Value(buffer, e, u)>>}
                      /\ buffer' = Onward(buffer, v)
    /\ ShowNothing
    /\ UNCHANGED <<doc, fed, state, name, pc, calls, cuts>>

\* The first parameter that has its end.
Parameter ==
    /\ Reading("parameters")
    /\ \E q \in Parameters(doc, buffer) :
          /\ \A j \in Parameters(doc, buffer) : q <= j
          /\ \E e \in Close(doc, buffer, q) : \E u \in ValueEnd(doc, buffer, e) :
                /\ \A w \in ValueEnd(doc, buffer, e) : u <= w
                /\ \E p \in buffer, v \in buffer :
                      /\ Adjacent(buffer, p, q) /\ Adjacent(buffer, u, v)
                      /\ Show(Ahead(buffer, p))
                      /\ params' = params \cup {<<Between(buffer, q, e), Value(buffer, e, u)>>}
                      /\ buffer' = Beyond(buffer, v)
    /\ UNCHANGED <<doc, fed, state, name, pc, calls, cuts>>

NoParameter == Reading("parameters") /\ Parameters(doc, buffer) = {}

\* Another bullet ends the call.
NextBullet ==
    /\ NoParameter
    /\ \E i \in buffer :
          /\ IsLeast(i, At(doc, buffer, "B"))
          /\ Show(Ahead(buffer, i)) /\ buffer' = Onward(buffer, i)
    /\ Emit /\ state' = "text"
    /\ UNCHANGED <<doc, fed, call, pc, cuts>>

\* str.strip, str.startswith("<"); an empty buffer shows nothing.
LooksLikeTag ==
    \/ buffer = {}
    \/ \E i \in At(doc, buffer, "<") : \A j \in Ahead(buffer, i) : Letter(doc, j) = "S"
    \/ Word(doc, buffer, "Q") # {}

\* Mutant: the call ends with its tag, whatever follows.
TextAfterCallAtOnce ==
    /\ NoParameter /\ At(doc, buffer, "B") = {}
    /\ Show(buffer) /\ buffer' = {}
    /\ Emit /\ state' = "text"
    /\ UNCHANGED <<doc, fed, call, pc, cuts>>

\* Anything that is no tag ends the call.
TextAfterCall ==
    /\ NoParameter /\ At(doc, buffer, "B") = {} /\ ~LooksLikeTag
    /\ Show(buffer) /\ buffer' = {}
    /\ Emit /\ state' = "text"
    /\ UNCHANGED <<doc, fed, call, pc, cuts>>

WaitForMore ==
    /\ NoParameter /\ At(doc, buffer, "B") = {} /\ LooksLikeTag
    /\ pc' = "idle"
    /\ ShowNothing
    /\ UNCHANGED <<doc, fed, buffer, state, call, calls, cuts>>

\* What a parameter without its end has: all that follows its tag.
LastParameter(S) ==
    UNION {{<<Between(S, q, e), Beyond(S, e)>> : e \in Close(doc, S, q)} :
               q \in {q \in OpenParameters(doc, S) : \A j \in OpenParameters(doc, S) : q <= j}}

\* flush: the call that was being read is complete, with the parameter cut short.
Flush ==
    /\ pc = "idle" /\ fed = Len(doc)
    /\ LET S == Strip(doc, buffer)
       IN  \/ /\ state = "parameters"
              /\ calls' = Append(calls, <<name, params \cup LastParameter(S)>>)
              /\ buffer' = {} /\ state' = "text"
           \/ /\ state # "parameters"
              /\ buffer' = S
              /\ UNCHANGED <<state, calls>>
    /\ pc' = "flushed"
    /\ ShowNothing
    /\ UNCHANGED <<doc, fed, call, cuts>>

Loop == \/ FindBullet \/ ShowText \/ FunctionTag \/ WaitForTag \/ GiveUp
        \/ Parameter \/ NextBullet \/ TextAfterCall \/ WaitForMore

Next == Loop \/ Flush \/ \E n \in 1..Len(doc) - fed : Feed(n)

Spec == Init /\ [][Next]_vars

------------------------------------------------------------------------------
(* Properties.                                                             *)

Stretch == SUBSET (1..fed)
Call == Stretch \X SUBSET (Stretch \X Stretch)

TypeOK ==
    /\ doc \in Document /\ fed \in 0..Len(doc)
    /\ {buffer, shown} \subseteq Stretch
    /\ state \in {"text", "function", "parameters"}
    /\ pc \in {"idle", "feeding", "flushed"}
    /\ call \in Call /\ calls \in Seq(Call)
    /\ {ordered, torn, parted, crowded} \subseteq BOOLEAN

\* The comment of the parser ("Another bullet character (start of NEXT tool call)"): each
\* call is detected once, in order and with its own parameter, wherever the text was cut.
\* The code searches a parameter beyond the next bullet.
EachCallOnce ==
    pc = "flushed" =>
        /\ {calls[n] : n \in 1..Len(calls)} = {CallAt(doc, p) : p \in Bullets(doc)}
        /\ \A m, n \in 1..Len(calls) :
              m < n => \A p \in calls[m][1], q \in calls[n][1] : p < q

\* It holds when no piece brings a whole call behind an open one, and none ends with the
\* blank in front of a parameter or between a bullet in a value and the end of the
\* parameter: also next to bullets and brackets that are no calls and to torn control
\* tokens.
CallsSurviveCuts == ~crowded /\ ~parted => EachCallOnce

Prose == {p \in 1..Len(doc) : doc[p].form = "prose"}
Stray == {p \in 1..Len(doc) : doc[p].form \in StrayForm}
Blanks == {p \in 1..Len(doc) : doc[p].form = "loose" /\ doc[p].at = 6}

\* Wherever the text was cut, it is shown in order; and the prose in front of the first
\* stray bullet or bracket is, if no cut parts a call from its parameter.  Without any,
\* with control tokens in one piece and no crowded calls, the prose is shown whole and
\* nothing else but the blanks in front of parameters.
ProseSurvivesCuts ==
    /\ ordered
    /\ pc = "flushed" /\ ~parted =>
          /\ \A p \in Prose : (\A q \in Stray : p < q) => p \in shown
          /\ Stray = {} /\ ~torn /\ ~crowded => shown \subseteq Prose \cup Blanks

============================================================================
