------------------------------ MODULE ToolText ------------------------------
(***************************************************************************)
(* The texts that HeuristicToolParser reads, and the regular expressions   *)
(* it searches them with (providers/common/heuristic_tool_parser.py).      *)
(*                                                                         *)
(* A document is a sequence of parts without gaps; a character of it is a  *)
(* form of part and the place it has there.  The words "function=",        *)
(* "parameter=" and "/parameter" are letters of their own, written F, Q    *)
(* and E; the bullet is B and a blank is S.                                *)
(*                                                                         *)
(* The parser appends, cuts and drops and never moves a character.  So a   *)
(* text it holds is the set of the positions its characters have in the    *)
(* document, and what is shown or called can be compared with it.          *)
(***************************************************************************)
EXTENDS Integers, Sequences, FiniteSets

CONSTANTS Document,     \* the texts that may be streamed
          MaxTag        \* the length of a buffer that is no tool call any more

\* The parts a text is made of: prose, calls without and with a parameter, one with a
\* blank in front of its parameter and a bullet for the value, a call the end of the
\* stream cuts short, a control token, a bullet and a bracket of neither.
Form == [prose   |-> <<"x">>,
         bare    |-> <<"B", "<", "F", "n", ">">>,
         call    |-> <<"B", "S", "<", "F", "n", ">",
                       "<", "Q", "k", ">", "v", "<", "E", ">">>,
         loose   |-> <<"B", "<", "F", "n", ">", "S",
                       "<", "Q", "k", ">", "B", "<", "E", ">">>,
         cut     |-> <<"B", "<", "F", "n", ">", "<", "Q", "k", ">", "v">>,
         token   |-> <<"<", "|", "t", "|", ">">>,
         bullet  |-> <<"B", "x">>,
         bracket |-> <<"<", "x">>]

WholeForm == {"call", "loose"}
CallForm  == {"bare", "cut"} \cup WholeForm
StrayForm == {"bullet", "bracket"}

\* The part of t around p: all its characters are there, in the places they have.
Start(t, p) == p - t[p].at
End(t, p)   == Start(t, p) + Len(Form[t[p].form])
Part(t, p)  == Start(t, p) + 1..End(t, p)

Place == [form : DOMAIN Form, at : Nat]

IsText(t) ==
    /\ t \in Seq(Place)
    /\ \A p \in 1..Len(t) :
          /\ p \in Part(t, p) /\ Part(t, p) \subseteq 1..Len(t)
          /\ \A q \in Part(t, p) : t[q] = [form |-> t[p].form, at |-> q - Start(t, p)]
          /\ t[p].form = "cut" => End(t, p) = Len(t)

\* No function tag is as long as a buffer that is given up.
ASSUME DocumentAssumption ==
    /\ \A t \in Document : IsText(t)
    /\ MaxTag \in Nat /\ MaxTag >= 6

------------------------------------------------------------------------------
\* Python's slices.
Ahead(S, i)      == {p \in S : p < i}
Onward(S, i)     == {p \in S : p >= i}
Beyond(S, i)     == {p \in S : p > i}
Between(S, i, j) == {p \in S : i < p /\ p < j}
IsLeast(p, S)    == p \in S /\ \A q \in S : p <= q

Letter(t, p) == Form[t[p].form][t[p].at]
Adjacent(S, p, q) == p < q /\ Between(S, p, q) = {}

\* Where a letter stands, and where a pair of letters begins.
At(t, S, x) == {p \in S : Letter(t, p) = x}
Pair(t, S, x, y) == {p \in At(t, S, x) : \E q \in At(t, S, y) : Adjacent(S, p, q)}

\* The words that follow a bracket, and the > that closes the tag of one, with
\* something in between.
Word(t, S, x) == {q \in At(t, S, x) : \E p \in At(t, S, "<") : Adjacent(S, p, q)}
Close(t, S, q) ==
    {e \in At(t, S, ">") : /\ q < e /\ Between(S, q, e) # {}
                           /\ \A r \in Between(S, q, e) : Letter(t, r) # ">"}

\* _CONTROL_TOKEN_RE, from the <| at m[1] to the |> at m[2] with something in between,
\* and the text without such tokens.
Inside(S, m) == {k \in Between(S, m[1], m[2]) : ~Adjacent(S, m[1], k)}
Tokens(t, S) ==
    {m \in Pair(t, S, "<", "|") \X Pair(t, S, "|", ">") :
        /\ Inside(S, m) # {}
        /\ \A k \in Inside(S, m) : Letter(t, k) \notin {"|", ">"}}
Strip(t, S) ==
    LET tokens == Tokens(t, S)
    IN  {k \in S : \A m \in tokens : k < m[1] \/ (m[2] < k /\ ~Adjacent(S, m[2], k))}

\* _FUNC_START_PATTERN: a bullet at i, blanks, a bracket and the word at q.
Leads(t, S, i, q) ==
    i < q /\ \A r \in Between(S, i, q) :
                 Letter(t, r) = IF Adjacent(S, r, q) THEN "<" ELSE "S"
Functions(t, S) ==
    {i \in At(t, S, "B") : \E q \in Word(t, S, "F") : Leads(t, S, i, q) /\ Close(t, S, q) # {}}

\* _PARAM_PATTERN: the tags of parameters, the </parameter> behind a tag that is closed
\* at e, and the parameters that have one.
OpenParameters(t, S) == {q \in Word(t, S, "Q") : Close(t, S, q) # {}}
ValueEnd(t, S, e) ==
    {u \in Word(t, S, "E") : e < u /\ \E v \in At(t, S, ">") : Adjacent(S, u, v)}
Value(S, e, u) == {r \in Between(S, e, u) : ~Adjacent(S, r, u)}
Parameters(t, S) ==
    {q \in OpenParameters(t, S) : \E e \in Close(t, S, q) : ValueEnd(t, S, e) # {}}

------------------------------------------------------------------------------
\* What a document contains: the bullets of its calls, the value of the parameter of one,
\* and the call around p with the places of its name and of its parameter.
Bullets(t) == {p \in 1..Len(t) : t[p].form \in CallForm /\ t[p].at = 1}
ValueAt(f) == IF f = "cut" THEN 10 ELSE 11
CallAt(t, p) ==
    LET of(x) == At(t, Part(t, p), x)
        value == {q \in Part(t, p) : t[q].at = ValueAt(t[p].form)}
    IN  <<of("n"), IF t[p].form = "bare" THEN {} ELSE {<<of("k"), value>>}>>

=============================================================================
