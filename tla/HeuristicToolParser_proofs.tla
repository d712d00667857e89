---------------------- MODULE HeuristicToolParser_proofs ----------------------
(***************************************************************************)
(* Tool calls written as text, for any document made of the parts of       *)
(* ToolText and any way to cut it that no exception of the properties      *)
(* names (torn, parted, crowded): each call is detected once, in order and *)
(* with its own parameter, and the prose around the calls is shown in      *)
(* order.                                                                  *)
(***************************************************************************)
EXTENDS HeuristicToolParser, FiniteSetTheorems, TLAPS

\* No step of the loop looks at where the cuts fell.
USE DEF cuts

------------------------------------------------------------------------------
(* The inductive invariant.                                                *)

\* The place of the > that closes the tag of the function of a call.
TagEnd(t, p) == Start(t, p) + (IF t[p].form = "call" THEN 6 ELSE 5)

\* The place in front of its parameter.
ParamFrom(t, p) == Start(t, p) + (IF t[p].form \in WholeForm THEN 6 ELSE 5)

\* S is what is left of the first n characters of a text: from any of its characters on,
\* the part around that character is whole.
Solid(t, S, n) ==
    /\ IsText(t) /\ n \in 0..Len(t) /\ S \subseteq 1..n
    /\ \A p \in S : \A q \in Part(t, p) : (q <= n /\ \E r \in S : r <= q) => q \in S

\* What is still to be read: the buffer and what has not been fed.
Unread == buffer \cup (fed + 1..Len(doc))

\* The parts around it are whole to their ends, and no token in the buffer is complete.
LeftInv ==
    /\ Solid(doc, Unread, Len(doc))
    /\ \A p \in buffer : doc[p].form = "token" => ~(Part(doc, p) \subseteq buffer)

\* The call of which parameters are read.
Named(p) == state = "parameters" /\ name = CallAt(doc, p)[1]

\* Nothing is left of a call without its bullet but of the one that is being read; and a
\* bullet is being looked at in its place.
HeadInv ==
    /\ \A p \in Unread :
          doc[p].form \in CallForm => Start(doc, p) + 1 \in Unread \/ Named(p)
    /\ state = "function" /\ pc # "flushed" =>
          \E i \in buffer : IsLeast(i, buffer) /\ Letter(doc, i) = "B"

\* The call at b is being read: either its parameter is still to come, or nothing of it is.
Current(b) ==
    /\ Named(b)
    /\ \A q \in Unread : TagEnd(doc, b) < q
    /\ \/ /\ params = {} /\ doc[b].form # "bare"
          /\ \A q \in Part(doc, b) : TagEnd(doc, b) < q => q \in Unread
       \/ /\ \A q \in Part(doc, b) : q \notin Unread
          /\ ~crowded => call = CallAt(doc, b)

CurrentInv == state = "parameters" => \E b \in Bullets(doc) : Current(b)

\* What the parser waits with, and what it is left with at the end.
IdleInv ==
    /\ pc = "idle" =>
          /\ state = "text" => \A p \in buffer : doc[p].form = "token"
          /\ state = "function" => Functions(doc, buffer) = {}
          /\ state = "parameters" => /\ Parameters(doc, buffer) = {}
                                     /\ At(doc, buffer, "B") = {} /\ LooksLikeTag
    /\ pc = "flushed" =>
          fed = Len(doc) /\ state # "parameters" /\ buffer \cap Bullets(doc) = {}

\* A token that no cut fell into is never in the buffer.
TornInv == ~torn =>
    /\ \A p \in buffer : doc[p].form # "token"
    /\ fed # 0 /\ doc[fed].form = "token" => fed = End(doc, fed)

\* What is shown precedes what is left; prose goes nowhere else while no stray bullet
\* or bracket has been met.
ShownInv ==
    /\ ordered
    /\ \A p \in shown, q \in Unread : p < q
    /\ \A p \in Prose : (\A q \in Stray : p < q) =>
          p \in shown \/ (pc # "flushed" /\ p \in Unread)
    /\ Stray = {} /\ ~torn /\ ~crowded => shown \subseteq Prose \cup Blanks

\* A whole call in the buffer has no open call in front of it.
ApartInv == ~crowded =>
    \A p \in buffer : doc[p].form \in WholeForm /\ Part(doc, p) \subseteq buffer =>
        /\ state # "parameters"
        /\ \A q \in buffer : q < p /\ q \notin Part(doc, p) =>
              ~(doc[q].form \in {"bare"} \cup WholeForm /\ q = End(doc, q))

\* Every call is still to be read, being read, or detected.
CallsInv == ~crowded =>
    /\ \A b \in Bullets(doc) :
          b \in Unread \/ Named(b) \/ \E n \in 1..Len(calls) : calls[n] = CallAt(doc, b)
    /\ \A n \in 1..Len(calls) : \E b \in Bullets(doc) : calls[n] = CallAt(doc, b)
    /\ \A n \in 1..Len(calls) : \A p \in calls[n][1] :
          (\A q \in Unread : p < q) /\ (state = "parameters" => \A q \in name : p < q)
    /\ \A m, n \in 1..Len(calls) : m < n => \A p \in calls[m][1], q \in calls[n][1] : p < q

\* The last cut does not part a call from its parameter.
PartInv == fed # 0 => ~Parts(fed)

\* What holds as long as no cut does.
WholeInv == /\ TypeOK /\ LeftInv /\ HeadInv /\ CurrentInv /\ IdleInv
            /\ TornInv /\ ShownInv /\ ApartInv /\ CallsInv /\ PartInv

\* The order in which text is shown holds in any case.
OrderInv == ordered /\ \A p \in shown, q \in Unread : p < q

Inv == TypeOK /\ OrderInv /\ (~parted => WholeInv)

------------------------------------------------------------------------------
(* The letters of a text.                                                  *)

\* The forms and their lengths.
LEMMA FormLengths ==
    /\ DOMAIN Form = {"prose", "bare", "call", "loose", "cut", "token", "bullet", "bracket"}
    /\ Len(Form["prose"]) = 1 /\ Len(Form["bare"]) = 5 /\ Len(Form["call"]) = 14
    /\ Len(Form["loose"]) = 14
    /\ Len(Form["cut"]) = 10 /\ Len(Form["token"]) = 5 /\ Len(Form["bullet"]) = 2
    /\ Len(Form["bracket"]) = 2
  BY DEF Form

\* A form has at most fourteen letters.
LEMMA Lengths ==
    ASSUME NEW f \in DOMAIN Form
    PROVE  Len(Form[f]) \in 1..14
  BY FormLengths

\* Where each letter stands: x is the letter at the place o of a form f.
Marks(f, o, x) ==
    /\ x = "B" <=> \/ (o = 1 /\ f \in {"bare", "call", "loose", "cut", "bullet"})
                   \/ (o = 11 /\ f = "loose")
    /\ x = "S" <=> ((o = 2 /\ f = "call") \/ (o = 6 /\ f = "loose"))
    /\ x = "<" <=> \/ (o = 1 /\ f \in {"token", "bracket"})
                   \/ (o = 2 /\ f = "bare")
                   \/ (o \in {2, 6} /\ f = "cut")
                   \/ (o \in {3, 7, 12} /\ f = "call")
                   \/ (o \in {2, 7, 12} /\ f = "loose")
    /\ x = "F" <=> ((o = 3 /\ f \in {"bare", "loose", "cut"}) \/ (o = 4 /\ f = "call"))
    /\ x = "n" <=> ((o = 4 /\ f \in {"bare", "loose", "cut"}) \/ (o = 5 /\ f = "call"))
    /\ x = ">" <=> \/ (o = 5 /\ f \in {"bare", "token"})
                   \/ (o \in {5, 9} /\ f = "cut")
                   \/ (o \in {6, 10, 14} /\ f = "call")
                   \/ (o \in {5, 10, 14} /\ f = "loose")
    /\ x = "Q" <=> ((o = 7 /\ f = "cut") \/ (o = 8 /\ f \in {"call", "loose"}))
    /\ x = "k" <=> ((o = 8 /\ f = "cut") \/ (o = 9 /\ f \in {"call", "loose"}))
    /\ x = "E" <=> (o = 13 /\ f \in {"call", "loose"})
    /\ x = "|" <=> (o \in {2, 4} /\ f = "token")

\* The letter of prose.
LEMMA ProseLetters ==
    ASSUME NEW f, f = "prose", NEW o \in 1..1
    PROVE  Marks(f, o, Form[f][o])
<1>1. o = 1 /\ Form["prose"][1] = "x"
  BY DEF Form
<1> QED BY <1>1 DEF Marks

\* The letters of a call without a parameter.
LEMMA BareLetters ==
    ASSUME NEW f, f = "bare", NEW o \in 1..5
    PROVE  Marks(f, o, Form[f][o])
<1>1. o \in {1, 2, 3, 4, 5}
  OBVIOUS
<1>2. /\ Form["bare"][1] = "B" /\ Form["bare"][2] = "<" /\ Form["bare"][3] = "F"
      /\ Form["bare"][4] = "n" /\ Form["bare"][5] = ">"
  BY DEF Form
<1> QED BY <1>1, <1>2 DEF Marks

\* The letters of a whole call.
LEMMA CallLetters ==
    ASSUME NEW f, f = "call", NEW o \in 1..14
    PROVE  Marks(f, o, Form[f][o])
<1>1. o \in {1, 2, 3, 4, 5, 6, 7, 8, 9, 10, 11, 12, 13, 14}
  OBVIOUS
<1>2. /\ Form["call"][1] = "B" /\ Form["call"][2] = "S" /\ Form["call"][3] = "<"
      /\ Form["call"][4] = "F" /\ Form["call"][5] = "n" /\ Form["call"][6] = ">"
      /\ Form["call"][7] = "<" /\ Form["call"][8] = "Q" /\ Form["call"][9] = "k"
      /\ Form["call"][10] = ">" /\ Form["call"][11] = "v" /\ Form["call"][12] = "<"
      /\ Form["call"][13] = "E" /\ Form["call"][14] = ">"
  BY DEF Form
<1> QED BY <1>1, <1>2 DEF Marks

\* The letters of one with a blank and a bullet.
LEMMA LooseLetters ==
    ASSUME NEW f, f = "loose", NEW o \in 1..14
    PROVE  Marks(f, o, Form[f][o])
<1>1. o \in {1, 2, 3, 4, 5, 6, 7, 8, 9, 10, 11, 12, 13, 14}
  OBVIOUS
<1>2. /\ Form["loose"][1] = "B" /\ Form["loose"][2] = "<" /\ Form["loose"][3] = "F"
      /\ Form["loose"][4] = "n" /\ Form["loose"][5] = ">" /\ Form["loose"][6] = "S"
      /\ Form["loose"][7] = "<" /\ Form["loose"][8] = "Q" /\ Form["loose"][9] = "k"
      /\ Form["loose"][10] = ">" /\ Form["loose"][11] = "B" /\ Form["loose"][12] = "<"
      /\ Form["loose"][13] = "E" /\ Form["loose"][14] = ">"
  BY DEF Form
<1> QED BY <1>1, <1>2 DEF Marks

\* The letters of a call cut short.
LEMMA CutLetters ==
    ASSUME NEW f, f = "cut", NEW o \in 1..10
    PROVE  Marks(f, o, Form[f][o])
<1>1. o \in {1, 2, 3, 4, 5, 6, 7, 8, 9, 10}
  OBVIOUS
<1>2. /\ Form["cut"][1] = "B" /\ Form["cut"][2] = "<" /\ Form["cut"][3] = "F"
      /\ Form["cut"][4] = "n" /\ Form["cut"][5] = ">" /\ Form["cut"][6] = "<"
      /\ Form["cut"][7] = "Q" /\ Form["cut"][8] = "k" /\ Form["cut"][9] = ">"
      /\ Form["cut"][10] = "v"
  BY DEF Form
<1> QED BY <1>1, <1>2 DEF Marks

\* The letters of a control token.
LEMMA TokenLetters ==
    ASSUME NEW f, f = "token", NEW o \in 1..5
    PROVE  Marks(f, o, Form[f][o])
<1>1. o \in {1, 2, 3, 4, 5}
  OBVIOUS
<1>2. /\ Form["token"][1] = "<" /\ Form["token"][2] = "|" /\ Form["token"][3] = "t"
      /\ Form["token"][4] = "|" /\ Form["token"][5] = ">"
  BY DEF Form
<1> QED BY <1>1, <1>2 DEF Marks

\* The letters of a stray bullet.
LEMMA BulletLetters ==
    ASSUME NEW f, f = "bullet", NEW o \in 1..2
    PROVE  Marks(f, o, Form[f][o])
<1>1. o \in {1, 2}
  OBVIOUS
<1>2. /\ Form["bullet"][1] = "B" /\ Form["bullet"][2] = "x"
  BY DEF Form
<1> QED BY <1>1, <1>2 DEF Marks

\* The letters of a stray bracket.
LEMMA BracketLetters ==
    ASSUME NEW f, f = "bracket", NEW o \in 1..2
    PROVE  Marks(f, o, Form[f][o])
<1>1. o \in {1, 2}
  OBVIOUS
<1>2. /\ Form["bracket"][1] = "<" /\ Form["bracket"][2] = "x"
  BY DEF Form
<1> QED BY <1>1, <1>2 DEF Marks

\* A part has a first and a last place.
LEMMA Ends ==
    ASSUME NEW s \in Int, NEW o \in 1..14, NEW e, e = s + o
    PROVE  s + 1 \in s + 1..e /\ e \in s + 1..e
  OBVIOUS

\* The part around p, and that it is the part around each of its places.
LEMMA TextFacts ==
    ASSUME NEW t, IsText(t), NEW p \in 1..Len(t)
    PROVE  /\ Len(t) \in Nat
           /\ t[p].form \in DOMAIN Form /\ t[p].at \in 1..Len(Form[t[p].form])
           /\ Start(t, p) \in Nat /\ End(t, p) \in 1..Len(t)
           /\ Start(t, p) < p /\ p <= End(t, p) /\ p = Start(t, p) + t[p].at
           /\ End(t, p) = Start(t, p) + Len(Form[t[p].form])
           /\ p \in Part(t, p) /\ Part(t, p) \subseteq 1..Len(t)
           /\ \A q \in Part(t, p) :
                 /\ t[q].form = t[p].form /\ t[q].at = q - Start(t, p)
                 /\ Start(t, q) = Start(t, p) /\ End(t, q) = End(t, p)
                 /\ Part(t, q) = Part(t, p)
<1>1. t \in Seq(Place) /\ t[p] \in Place
  BY DEF IsText
<1>2. /\ p \in Part(t, p) /\ Part(t, p) \subseteq 1..Len(t)
      /\ \A q \in Part(t, p) : t[q] = [form |-> t[p].form, at |-> q - Start(t, p)]
  BY DEF IsText
<1>3. Len(t) \in Nat /\ t[p].form \in DOMAIN Form /\ t[p].at \in Nat
  BY <1>1 DEF Place
<1>4. Len(Form[t[p].form]) \in 1..14
  BY <1>3, Lengths
<1>5. Start(t, p) \in Int /\ End(t, p) \in Int /\ p = Start(t, p) + t[p].at
      /\ End(t, p) = Start(t, p) + Len(Form[t[p].form])
  BY <1>3, <1>4 DEF Start, End
<1>6. Start(t, p) < p /\ p <= End(t, p)
  BY <1>2, <1>5 DEF Part
<1>7. Start(t, p) + 1 \in Part(t, p) /\ End(t, p) \in Part(t, p)
  <2>1. PICK l \in 1..14 : l = Len(Form[t[p].form])
    BY <1>4
  <2> QED BY <1>5, <2>1, Ends DEF Part
<1>8. Start(t, p) \in Nat /\ End(t, p) \in 1..Len(t)
  BY <1>2, <1>3, <1>5, <1>7
<1>9. ASSUME NEW q \in Part(t, p)
      PROVE  /\ t[q].form = t[p].form /\ t[q].at = q - Start(t, p)
             /\ Start(t, q) = Start(t, p) /\ End(t, q) = End(t, p)
             /\ Part(t, q) = Part(t, p)
  <2>1. t[q] = [form |-> t[p].form, at |-> q - Start(t, p)]
    BY <1>2
  <2>2. t[q].form = t[p].form /\ t[q].at = q - Start(t, p)
    BY <2>1
  <2>3. q \in Int
    BY <1>5 DEF Part
  <2>4. Start(t, q) = Start(t, p)
    BY <1>5, <2>2, <2>3 DEF Start
  <2>5. End(t, q) = End(t, p)
    BY <2>2, <2>4 DEF End
  <2> QED BY <2>2, <2>4, <2>5 DEF Part
<1>10. t[p].at \in 1..Len(Form[t[p].form])
  <2>1. PICK l \in 1..14 : l = Len(Form[t[p].form])
    BY <1>4
  <2> QED BY <1>3, <1>5, <1>6, <2>1
<1> QED BY <1>2, <1>3, <1>5, <1>6, <1>8, <1>9, <1>10

\* Parts follow one another.
LEMMA PartsApart ==
    ASSUME NEW t, IsText(t), NEW p \in 1..Len(t), NEW q \in 1..Len(t), p < q,
           q \notin Part(t, p)
    PROVE  End(t, p) < q /\ End(t, p) <= Start(t, q) /\ p \notin Part(t, q)
<1>1. /\ Start(t, p) \in Nat /\ End(t, p) \in Nat /\ Start(t, p) < p /\ p <= End(t, p)
      /\ Start(t, q) \in Nat /\ End(t, q) \in Nat /\ Start(t, q) < q /\ q <= End(t, q)
  BY TextFacts
<1>2. End(t, p) < q
  BY <1>1 DEF Part
<1>3. Start(t, q) < End(t, p) => FALSE
  <2> SUFFICES ASSUME Start(t, q) < End(t, p) PROVE FALSE
    OBVIOUS
  <2> DEFINE e == End(t, p)
  <2>1. e \in Part(t, p) /\ e \in Part(t, q)
    BY <1>1, <1>2 DEF Part
  <2>2. Part(t, e) = Part(t, p) /\ Part(t, e) = Part(t, q) /\ q \in Part(t, q)
    BY <2>1, TextFacts
  <2> QED BY <2>2
<1> QED BY <1>1, <1>2, <1>3 DEF Part

\* The letter at each position of a text.
LEMMA Letters ==
    ASSUME NEW t, IsText(t), NEW p \in 1..Len(t)
    PROVE  Marks(t[p].form, t[p].at, Letter(t, p))
<1> DEFINE f == t[p].form
           o == t[p].at
<1>1. f \in DOMAIN Form /\ o \in 1..Len(Form[f]) /\ Letter(t, p) = Form[f][o]
  BY TextFacts DEF Letter
<1> HIDE DEF f, o
<1>2. Marks(f, o, Form[f][o])
  <2>1. CASE f = "prose"
    BY <1>1, <2>1, FormLengths, ProseLetters
  <2>2. CASE f = "bare"
    BY <1>1, <2>2, FormLengths, BareLetters
  <2>3. CASE f = "call"
    BY <1>1, <2>3, FormLengths, CallLetters
  <2>4. CASE f = "cut"
    BY <1>1, <2>4, FormLengths, CutLetters
  <2>5. CASE f = "token"
    BY <1>1, <2>5, FormLengths, TokenLetters
  <2>6. CASE f = "bullet"
    BY <1>1, <2>6, FormLengths, BulletLetters
  <2>7. CASE f = "bracket"
    BY <1>1, <2>7, FormLengths, BracketLetters
  <2>8. CASE f = "loose"
    BY <1>1, <2>8, FormLengths, LooseLetters
  <2> QED BY <1>1, <2>1, <2>2, <2>3, <2>4, <2>5, <2>6, <2>7, <2>8, FormLengths
<1> QED BY <1>1, <1>2 DEF f, o

\* What the letters of a call are, counted from the end of its tag and from its parameter.
LEMMA CallLetterAt ==
    ASSUME NEW t, IsText(t), NEW p \in 1..Len(t), t[p].form \in CallForm,
           NEW q \in Part(t, p), NEW g, g = TagEnd(t, p), NEW h, h = ParamFrom(t, p)
    PROVE  /\ Letter(t, q) = "B" <=> \/ q = Start(t, p) + 1
                                     \/ (t[p].form = "loose" /\ q = h + 5)
           /\ Letter(t, q) = "S" <=> \/ (t[p].form = "call" /\ q = Start(t, p) + 2)
                                     \/ (t[p].form = "loose" /\ q = h)
           /\ Letter(t, q) = "<" <=> \/ q = g - 3
                                     \/ (t[p].form # "bare" /\ q = h + 1)
                                     \/ (t[p].form \in WholeForm /\ q = h + 6)
           /\ Letter(t, q) = "F" <=> q = g - 2
           /\ Letter(t, q) = "n" <=> q = g - 1
           /\ Letter(t, q) = ">" <=> \/ q = g
                                     \/ (t[p].form # "bare" /\ q = h + 4)
                                     \/ (t[p].form \in WholeForm /\ q = h + 8)
           /\ Letter(t, q) = "Q" <=> (t[p].form # "bare" /\ q = h + 2)
           /\ Letter(t, q) = "k" <=> (t[p].form # "bare" /\ q = h + 3)
           /\ Letter(t, q) = "E" <=> (t[p].form \in WholeForm /\ q = h + 7)
           /\ Letter(t, q) # "|"
<1>1. /\ q \in 1..Len(t) /\ t[q].form = t[p].form /\ t[q].at = q - Start(t, p)
      /\ Start(t, p) \in Nat /\ Len(t) \in Nat
  BY TextFacts
<1>2. Marks(t[p].form, t[q].at, Letter(t, q))
  BY <1>1, Letters
<1>3. /\ t[p].form \in {"bare", "call", "loose", "cut"}
      /\ g = Start(t, p) + (IF t[p].form = "call" THEN 6 ELSE 5)
      /\ h = Start(t, p) + (IF t[p].form \in {"call", "loose"} THEN 6 ELSE 5)
  BY DEF CallForm, WholeForm, TagEnd, ParamFrom
<1>4. q \in Int /\ q = Start(t, p) + t[q].at /\ t[q].at \in Int
  BY <1>1
<1> DEFINE s == Start(t, p)
           f == t[p].form
           o == t[q].at
           x == Letter(t, q)
<1>5. /\ s \in Nat /\ f \in {"bare", "call", "loose", "cut"} /\ o \in Int /\ Marks(f, o, x)
      /\ q \in Int /\ q = s + o /\ g = s + (IF f = "call" THEN 6 ELSE 5)
      /\ h = s + (IF f \in {"call", "loose"} THEN 6 ELSE 5)
  BY <1>1, <1>2, <1>3, <1>4
<1> HIDE DEF s, f, o, x
<1>6. /\ x = "B" <=> (q = s + 1 \/ (f = "loose" /\ q = h + 5))
      /\ x = "S" <=> ((f = "call" /\ q = s + 2) \/ (f = "loose" /\ q = h))
      /\ x = "<" <=> \/ q = g - 3
                     \/ (f # "bare" /\ q = h + 1)
                     \/ (f \in {"call", "loose"} /\ q = h + 6)
      /\ x = "F" <=> q = g - 2
      /\ x = "n" <=> q = g - 1
      /\ x = ">" <=> \/ q = g
                     \/ (f # "bare" /\ q = h + 4)
                     \/ (f \in {"call", "loose"} /\ q = h + 8)
      /\ x = "Q" <=> (f # "bare" /\ q = h + 2)
      /\ x = "k" <=> (f # "bare" /\ q = h + 3)
      /\ x = "E" <=> (f \in {"call", "loose"} /\ q = h + 7)
      /\ x # "|"
  <2>1. CASE f = "bare"
    <3>1. /\ x = "B" <=> o = 1
          /\ x = "<" <=> o = 2
          /\ x = "F" <=> o = 3
          /\ x = "n" <=> o = 4
          /\ x = ">" <=> o = 5
          /\ x # "S" /\ x # "Q" /\ x # "k" /\ x # "E" /\ x # "|"
      BY <1>5, <2>1 DEF Marks
    <3>2. g = s + 5
      BY <1>5, <2>1
    <3> QED BY <1>5, <2>1, <3>1, <3>2
  <2>2. CASE f = "call"
    <3>1. /\ x = "B" <=> o = 1
          /\ x = "S" <=> o = 2
          /\ x = "<" <=> o \in {3, 7, 12}
          /\ x = "F" <=> o = 4
          /\ x = "n" <=> o = 5
          /\ x = ">" <=> o \in {6, 10, 14}
          /\ x = "Q" <=> o = 8
          /\ x = "k" <=> o = 9
          /\ x = "E" <=> o = 13
          /\ x # "|"
      BY <1>5, <2>2 DEF Marks
    <3>2. g = s + 6 /\ h = s + 6
      BY <1>5, <2>2
    <3> QED BY <1>5, <2>2, <3>1, <3>2
  <2>3. CASE f = "cut"
    <3>1. /\ x = "B" <=> o = 1
          /\ x = "<" <=> o \in {2, 6}
          /\ x = "F" <=> o = 3
          /\ x = "n" <=> o = 4
          /\ x = ">" <=> o \in {5, 9}
          /\ x = "Q" <=> o = 7
          /\ x = "k" <=> o = 8
          /\ x # "S" /\ x # "E" /\ x # "|"
      BY <1>5, <2>3 DEF Marks
    <3>2. g = s + 5 /\ h = s + 5
      BY <1>5, <2>3
    <3> QED BY <1>5, <2>3, <3>1, <3>2
  <2>4. CASE f = "loose"
    <3>1. /\ x = "B" <=> o \in {1, 11}
          /\ x = "S" <=> o = 6
          /\ x = "<" <=> o \in {2, 7, 12}
          /\ x = "F" <=> o = 3
          /\ x = "n" <=> o = 4
          /\ x = ">" <=> o \in {5, 10, 14}
          /\ x = "Q" <=> o = 8
          /\ x = "k" <=> o = 9
          /\ x = "E" <=> o = 13
          /\ x # "|"
      BY <1>5, <2>4 DEF Marks
    <3>2. g = s + 5 /\ h = s + 6
      BY <1>5, <2>4
    <3> QED BY <1>5, <2>4, <3>1, <3>2
  <2> QED BY <1>5, <2>1, <2>2, <2>3, <2>4
<1> QED BY <1>6 DEF s, f, o, x, WholeForm

\* The extent of a call.
LEMMA CallFacts ==
    ASSUME NEW t, IsText(t), NEW p \in 1..Len(t), t[p].form \in CallForm,
           NEW g, g = TagEnd(t, p), NEW h, h = ParamFrom(t, p)
    PROVE  /\ g \in 1..Len(t) /\ Start(t, p) + 5 <= g /\ g <= Start(t, p) + 6
           /\ h \in 1..Len(t) /\ g <= h /\ h <= g + 1
           /\ t[p].form # "loose" => h = g
           /\ t[p].form = "loose" => h = g + 1 /\ g = Start(t, p) + 5
           /\ {Start(t, p) + 1, g - 3, g - 2, g - 1, g, h} \subseteq Part(t, p)
           /\ t[p].form = "bare" => End(t, p) = g
           /\ t[p].form = "cut" => End(t, p) = h + 5 /\ End(t, p) = Len(t)
           /\ t[p].form \in WholeForm => End(t, p) = h + 8
           /\ g <= End(t, p) /\ h <= End(t, p)
           /\ \A q \in Part(t, p) : TagEnd(t, q) = g /\ ParamFrom(t, q) = h
<1> DEFINE s == Start(t, p)
           e == End(t, p)
           f == t[p].form
<1>1. /\ s \in Nat /\ e \in 1..Len(t) /\ Len(t) \in Nat /\ e = s + Len(Form[f])
      /\ Part(t, p) = s + 1..e /\ Part(t, p) \subseteq 1..Len(t)
  BY TextFacts DEF Part
<1>2. /\ f \in {"bare", "call", "loose", "cut"} /\ g = s + (IF f = "call" THEN 6 ELSE 5)
      /\ h = s + (IF f \in {"call", "loose"} THEN 6 ELSE 5)
  BY DEF CallForm, WholeForm, TagEnd, ParamFrom
<1>3. f = "cut" => e = Len(t)
  BY DEF IsText
<1>4. e = s + (IF f = "bare" THEN 5 ELSE IF f = "cut" THEN 10 ELSE 14)
  BY <1>1, <1>2, FormLengths
<1>5. \A q \in Part(t, p) : TagEnd(t, q) = g /\ ParamFrom(t, q) = h
  BY <1>2, TextFacts, ZenonT(60) DEF TagEnd, ParamFrom
<1> HIDE DEF s, e, f
<1>6. /\ s + 5 <= g /\ g <= s + 6 /\ g <= e /\ g \in Int /\ s \in Int /\ e \in Int
      /\ h \in Int /\ g <= h /\ h <= g + 1 /\ h <= e
      /\ f # "loose" => h = g
      /\ f = "loose" => h = g + 1 /\ g = s + 5
      /\ f = "bare" => e = g
      /\ f = "cut" => e = h + 5
      /\ f \in {"call", "loose"} => e = h + 8
  BY <1>1, <1>2, <1>4
<1> HIDE DEF Start
<1>7. /\ s + 1 \in s + 1..e /\ g - 3 \in s + 1..e /\ g - 2 \in s + 1..e
      /\ g - 1 \in s + 1..e /\ g \in s + 1..e /\ h \in s + 1..e
  BY <1>6, SMTT(30)
<1>8. g \in 1..Len(t) /\ h \in 1..Len(t)
  BY <1>1, <1>7
<1> QED BY <1>1, <1>3, <1>5, <1>6, <1>7, <1>8 DEF s, e, f, WholeForm

\* Only some forms have a letter.
LEMMA LetterForms ==
    ASSUME NEW t, IsText(t), NEW p \in 1..Len(t)
    PROVE  /\ Letter(t, p) = "B" => \/ /\ p = Start(t, p) + 1
                                       /\ t[p].form \in CallForm \cup {"bullet"}
                                    \/ t[p].form = "loose" /\ t[p].at = 11
           /\ Letter(t, p) \in {"F", "n"} => t[p].form \in CallForm
           /\ Letter(t, p) \in {"Q", "k"} => t[p].form \in {"cut"} \cup WholeForm
           /\ Letter(t, p) \in {"S", "E"} => t[p].form \in WholeForm
           /\ Letter(t, p) = "<" => \/ t[p].form \in CallForm
                                    \/ /\ t[p].form \in {"token", "bracket"}
                                       /\ p = Start(t, p) + 1
           /\ Letter(t, p) = ">" => \/ t[p].form \in CallForm
                                    \/ t[p].form = "token" /\ p = End(t, p)
           /\ Letter(t, p) = "|" => t[p].form = "token"
<1> DEFINE s == Start(t, p)
           f == t[p].form
           o == t[p].at
           x == Letter(t, p)
<1>1. p = s + o /\ s \in Nat /\ o \in Int /\ End(t, p) = s + Len(Form[f]) /\ f \in DOMAIN Form
  BY TextFacts
<1>2. Marks(f, o, x)
  BY Letters
<1>3. f = "token" => Len(Form[f]) = 5
  BY FormLengths
<1> HIDE DEF s, f, o, x
<1>4. /\ x = "B" => \/ (o = 1 /\ f \in {"bare", "call", "loose", "cut", "bullet"})
                    \/ (f = "loose" /\ o = 11)
      /\ x \in {"F", "n"} => f \in {"bare", "call", "loose", "cut"}
      /\ x \in {"Q", "k"} => f \in {"call", "loose", "cut"}
      /\ x \in {"S", "E"} => f \in {"call", "loose"}
  BY <1>2 DEF Marks
<1>5. /\ x = "<" => \/ f \in {"bare", "call", "loose", "cut"}
                    \/ f \in {"token", "bracket"} /\ o = 1
      /\ x = ">" => \/ f \in {"bare", "call", "loose", "cut"}
                    \/ f = "token" /\ o = 5
      /\ x = "|" => f = "token"
  BY <1>2 DEF Marks
<1> QED BY <1>1, <1>3, <1>4, <1>5 DEF CallForm, WholeForm, s, f, o, x

\* The extent and the letters of a token.
LEMMA TokenFacts ==
    ASSUME NEW t, IsText(t), NEW p \in 1..Len(t), t[p].form = "token", NEW s, s = Start(t, p)
    PROVE  /\ s \in Nat /\ End(t, p) = s + 5 /\ Part(t, p) = s + 1..s + 5
           /\ \A q \in Part(t, p) : /\ Letter(t, q) = "<" <=> q = s + 1
                                    /\ Letter(t, q) = "|" <=> q \in {s + 2, s + 4}
                                    /\ Letter(t, q) = ">" <=> q = s + 5
<1>1. s \in Nat /\ End(t, p) = s + Len(Form[t[p].form])
  BY TextFacts
<1>2. End(t, p) = s + 5
  BY <1>1, FormLengths
<1>3. Part(t, p) = s + 1..s + 5
  BY <1>2 DEF Part
<1>4. ASSUME NEW q \in Part(t, p)
      PROVE  /\ Letter(t, q) = "<" <=> q = s + 1
             /\ Letter(t, q) = "|" <=> q \in {s + 2, s + 4}
             /\ Letter(t, q) = ">" <=> q = s + 5
  <2>1. q \in 1..Len(t) /\ t[q].form = t[p].form /\ t[q].at = q - Start(t, p)
    BY TextFacts
  <2>2. q \in Int
    BY <1>1, <1>3
  <2>3. Marks("token", q - s, Letter(t, q))
    BY <2>1, Letters
  <2> DEFINE o == q - s
             x == Letter(t, q)
  <2>4. o \in Int /\ q = s + o
    BY <1>1, <2>2
  <2> HIDE DEF o, x
  <2>5. /\ x = "<" <=> o = 1
        /\ x = "|" <=> o \in {2, 4}
        /\ x = ">" <=> o = 5
    BY <2>3, <2>4 DEF Marks, o, x
  <2> QED BY <1>1, <2>4, <2>5, SMTT(30) DEF x
<1> QED BY <1>1, <1>2, <1>3, <1>4

------------------------------------------------------------------------------
(* What is left of a text.                                                 *)

\* Positions.
LEMMA SolidPlaces ==
    ASSUME NEW t, NEW S, NEW n, Solid(t, S, n)
    PROVE  /\ IsText(t) /\ Len(t) \in Nat /\ n \in Nat /\ n <= Len(t)
           /\ \A p \in S : p \in 1..n /\ p \in 1..Len(t) /\ p \in Int
<1>1. IsText(t) /\ n \in 0..Len(t) /\ S \subseteq 1..n
  BY DEF Solid
<1>2. Len(t) \in Nat
  BY <1>1 DEF IsText
<1> QED BY <1>1, <1>2

\* What stands between two characters that are next to each other, one of them inside
\* its part.
LEMMA Filled ==
    ASSUME NEW t, NEW S, NEW n, Solid(t, S, n), NEW p \in S, NEW q \in Part(t, p),
           q <= n, NEW r \in S, r <= q
    PROVE  q \in S
  BY DEF Solid

\* Inside a part the place before is left too, unless nothing before is.
LEMMA Behind ==
    ASSUME NEW t, NEW S, NEW n, Solid(t, S, n), NEW q \in S, q # Start(t, q) + 1,
           NEW r \in S, r < q
    PROVE  q - 1 \in S /\ q - 1 \in Part(t, q)
<1>1. q \in 1..n /\ q \in 1..Len(t) /\ r \in Int /\ n \in Nat /\ IsText(t)
  BY SolidPlaces
<1>2. Start(t, q) \in Nat /\ Start(t, q) < q /\ q <= End(t, q) /\ End(t, q) \in 1..Len(t)
  BY <1>1, TextFacts
<1>3. q - 1 \in Part(t, q)
  BY <1>1, <1>2 DEF Part
<1> QED BY <1>1, <1>3, Filled

\* What is next to each other, one of them inside its part.
LEMMA NextTo ==
    ASSUME NEW t, NEW S, NEW n, Solid(t, S, n), NEW p \in S, NEW q \in S
    PROVE  /\ q # Start(t, q) + 1 => (Adjacent(S, p, q) <=> p = q - 1)
           /\ p # End(t, p) => (Adjacent(S, p, q) <=> q = p + 1)
           /\ Adjacent(S, p, q) => (q - 1 \in S => p = q - 1) /\ (p + 1 \in S => q = p + 1)
           /\ q = p + 1 => Adjacent(S, p, q)
<1>1. p \in 1..n /\ p \in 1..Len(t) /\ q \in 1..n /\ n \in Nat /\ IsText(t)
  BY SolidPlaces
<1>2. \A k \in S : k \in Int
  BY SolidPlaces
<1>3. ASSUME q = p + 1 PROVE Adjacent(S, p, q)
  <2>1. \A k \in S : ~(p < k /\ k < q)
    BY <1>1, <1>2, <1>3
  <2>2. p < q
    BY <1>1, <1>3
  <2> QED BY <2>1, <2>2 DEF Adjacent, Between
<1>4. ASSUME Adjacent(S, p, q), q - 1 \in S PROVE p = q - 1
  <2>1. p < q /\ ~(p < q - 1 /\ q - 1 < q)
    BY <1>4 DEF Adjacent, Between
  <2> QED BY <1>1, <2>1
<1>5. ASSUME Adjacent(S, p, q), p + 1 \in S PROVE q = p + 1
  <2>1. p < q /\ ~(p < p + 1 /\ p + 1 < q)
    BY <1>5 DEF Adjacent, Between
  <2> QED BY <1>1, <2>1
<1>6. ASSUME q # Start(t, q) + 1, Adjacent(S, p, q) PROVE p = q - 1
  <2>1. p < q
    BY <1>6 DEF Adjacent
  <2>2. q - 1 \in S
    BY <1>6, <2>1, Behind
  <2> QED BY <1>4, <1>6, <2>2
<1>7. ASSUME p # End(t, p), Adjacent(S, p, q) PROVE q = p + 1
  <2>1. p < q
    BY <1>7 DEF Adjacent
  <2>2. Start(t, p) \in Nat /\ Start(t, p) < p /\ p <= End(t, p) /\ End(t, p) \in 1..Len(t)
    BY <1>1, TextFacts
  <2>3. p + 1 \in Part(t, p) /\ p <= p + 1 /\ p + 1 <= n
    BY <1>1, <1>7, <2>1, <2>2, SolidPlaces DEF Part
  <2>4. p + 1 \in S
    BY <2>3, Filled
  <2> QED BY <1>5, <1>7, <2>4
<1>8. p = q - 1 <=> q = p + 1
  BY <1>1
<1> QED BY <1>3, <1>4, <1>5, <1>6, <1>7, <1>8

\* The words stand behind their brackets.
LEMMA Words ==
    ASSUME NEW t, NEW S, NEW n, Solid(t, S, n), NEW x \in {"F", "Q", "E"}, NEW q
    PROVE  q \in Word(t, S, x) <=> (q \in S /\ Letter(t, q) = x /\ q - 1 \in S)
<1> SUFFICES ASSUME q \in S, Letter(t, q) = x
             PROVE  (\E p \in At(t, S, "<") : Adjacent(S, p, q)) <=> q - 1 \in S
  BY DEF Word, At
<1>1. q \in 1..n /\ q \in 1..Len(t) /\ IsText(t) /\ q \in Int
  BY SolidPlaces
<1>2. t[q].form \in CallForm
  BY <1>1, LetterForms DEF CallForm
<1> DEFINE g == TagEnd(t, q)
           h == ParamFrom(t, q)
<1>3. /\ Start(t, q) \in Nat /\ g \in 1..Len(t) /\ Start(t, q) + 5 <= g /\ g <= Start(t, q) + 6
      /\ q \in Part(t, q) /\ Start(t, q) < q /\ q <= End(t, q) /\ End(t, q) \in Nat
      /\ h \in 1..Len(t) /\ g <= h
  <2>1. /\ Start(t, q) \in Nat /\ q \in Part(t, q) /\ Start(t, q) < q
        /\ q <= End(t, q) /\ End(t, q) \in Nat
    BY <1>1, TextFacts
  <2>2. /\ g \in 1..Len(t) /\ Start(t, q) + 5 <= g /\ g <= Start(t, q) + 6
        /\ h \in 1..Len(t) /\ g <= h
    BY <1>1, <1>2, CallFacts
  <2> QED BY <2>1, <2>2
<1>4. \/ x = "F" /\ q = g - 2
      \/ x = "Q" /\ t[q].form # "bare" /\ q = h + 2
      \/ x = "E" /\ t[q].form \in WholeForm /\ q = h + 7
  BY <1>1, <1>2, <1>3, CallLetterAt, SMTT(30)
<1>5. q # Start(t, q) + 1 /\ q - 1 \in Part(t, q)
  <2> HIDE DEF g, h
  <2>1. /\ Start(t, q) \in Int /\ End(t, q) \in Int /\ g \in Int /\ h \in Int
        /\ q \in Int
    BY <1>1, <1>3
  <2>2. Start(t, q) + 3 <= q
    BY <1>3, <1>4, <2>1
  <2>3. Start(t, q) + 1 <= q - 1 /\ q - 1 <= End(t, q)
    BY <1>3, <2>1, <2>2
  <2> QED BY <2>1, <2>2, <2>3 DEF Part
<1>6. \/ q - 1 = g - 3
      \/ t[q].form # "bare" /\ q - 1 = h + 1
      \/ t[q].form \in WholeForm /\ q - 1 = h + 6
  <2> HIDE DEF g, h
  <2>1. g \in Int /\ h \in Int /\ q \in Int
    BY <1>1, <1>3
  <2>2. (q = g - 2 => q - 1 = g - 3) /\ (q = h + 2 => q - 1 = h + 1)
        /\ (q = h + 7 => q - 1 = h + 6)
    BY <2>1
  <2> QED BY <1>4, <2>2
<1>7. Letter(t, q - 1) = "<"
  BY <1>1, <1>2, <1>5, <1>6, CallLetterAt
<1>8. ASSUME NEW p \in At(t, S, "<"), Adjacent(S, p, q) PROVE q - 1 \in S
  <2>1. p \in S
    BY DEF At
  <2>2. p = q - 1
    BY <1>5, <1>8, <2>1, NextTo
  <2> QED BY <2>1, <2>2
<1>9. ASSUME q - 1 \in S PROVE \E p \in At(t, S, "<") : Adjacent(S, p, q)
  <2>1. q - 1 \in At(t, S, "<")
    BY <1>7, <1>9 DEF At
  <2>2. Adjacent(S, q - 1, q)
    BY <1>1, <1>5, <1>9, NextTo
  <2> QED BY <2>1, <2>2
<1> QED BY <1>8, <1>9

------------------------------------------------------------------------------
(* What the expressions find in it.                                        *)

\* The tag of a name or of a key is closed by the next > but one.
LEMMA Closes ==
    ASSUME NEW t, NEW S, NEW n, Solid(t, S, n), NEW q \in S, Letter(t, q) \in {"F", "Q"}
    PROVE  /\ q + 2 <= n => /\ Close(t, S, q) = {q + 2} /\ Between(S, q, q + 2) = {q + 1}
                            /\ q + 1 \in S /\ q + 2 \in S
           /\ n < q + 2 => Close(t, S, q) = {}
           /\ q + 2 \in Part(t, q)
<1>1. /\ q \in 1..n /\ q \in 1..Len(t) /\ IsText(t) /\ q \in Int /\ n \in Int
      /\ \A k \in S : k \in Int /\ k <= n
  BY SolidPlaces
<1>2. t[q].form \in CallForm
  BY <1>1, LetterForms DEF CallForm
<1> DEFINE g == TagEnd(t, q)
           h == ParamFrom(t, q)
<1>3. /\ Start(t, q) \in Nat /\ g \in 1..Len(t) /\ Start(t, q) + 5 <= g /\ g <= Start(t, q) + 6
      /\ q \in Part(t, q) /\ Start(t, q) < q /\ q <= End(t, q) /\ End(t, q) \in Nat
      /\ g <= End(t, q) /\ g \in Int /\ h \in Int /\ g <= h
  <2>1. /\ Start(t, q) \in Nat /\ q \in Part(t, q) /\ Start(t, q) < q
        /\ q <= End(t, q) /\ End(t, q) \in Nat
    BY <1>1, TextFacts
  <2>2. /\ g \in 1..Len(t) /\ Start(t, q) + 5 <= g /\ g <= Start(t, q) + 6
        /\ h \in 1..Len(t) /\ g <= h /\ g <= End(t, q)
    BY <1>1, <1>2, CallFacts
  <2> QED BY <2>1, <2>2
<1>4. \/ q = g - 2
      \/ t[q].form # "bare" /\ q = h + 2 /\ h + 5 <= End(t, q)
  <2>1. \/ q = g - 2
        \/ t[q].form # "bare" /\ q = h + 2
    BY <1>1, <1>2, <1>3, CallLetterAt
  <2>2. t[q].form # "bare" => End(t, q) = h + 5 \/ End(t, q) = h + 8
    BY <1>1, <1>2, CallFacts DEF CallForm
  <2>3. t[q].form # "bare" => h + 5 <= End(t, q)
    BY <1>3, <2>2
  <2> QED BY <2>1, <2>3
<1>5. q + 1 \in Part(t, q) /\ q + 2 \in Part(t, q)
  <2>1. q + 2 <= End(t, q) /\ Start(t, q) < q
    BY <1>1, <1>3, <1>4, SMTT(30)
  <2> QED BY <1>1, <1>3, <2>1 DEF Part
<1> HIDE DEF g, h
<1>6. \/ q + 1 = g - 1 /\ q + 2 = g
      \/ t[q].form # "bare" /\ q + 1 = h + 3 /\ q + 2 = h + 4
  BY <1>1, <1>3, <1>4
<1>7. Letter(t, q + 1) # ">" /\ Letter(t, q + 2) = ">"
  <2>1. Letter(t, q + 1) \in {"n", "k"} /\ Letter(t, q + 2) = ">"
    BY <1>1, <1>2, <1>5, <1>6, CallLetterAt DEF g, h
  <2> QED BY <2>1
<1>8. ASSUME NEW e \in Close(t, S, q) PROVE e = q + 2
  <2>1. /\ e \in S /\ Letter(t, e) = ">" /\ q < e
        /\ \A r \in S : (q < r /\ r < e) => Letter(t, r) # ">"
    BY DEF Close, At, Between
  <2>2. e # q + 1 /\ e \in Int /\ e <= n
    BY <1>1, <1>7, <2>1
  <2>3. q + 2 \in S
    BY <1>1, <1>5, <2>1, <2>2, Filled
  <2>4. ~(q + 2 < e)
    BY <1>1, <1>7, <2>1, <2>3
  <2> QED BY <1>1, <2>1, <2>2, <2>4
<1>9. ASSUME q + 2 <= n
      PROVE  /\ q + 1 \in S /\ q + 2 \in S /\ Between(S, q, q + 2) = {q + 1}
             /\ q + 2 \in Close(t, S, q)
  <2>1. q + 1 \in S /\ q + 2 \in S
    BY <1>1, <1>5, <1>9, Filled
  <2>2. \A k \in S : (q < k /\ k < q + 2) <=> k = q + 1
    BY <1>1
  <2>3. Between(S, q, q + 2) = {q + 1}
    BY <2>1, <2>2 DEF Between
  <2>4. q < q + 2
    BY <1>1
  <2> QED BY <1>7, <2>1, <2>3, <2>4 DEF Close, At
<1>10. ASSUME n < q + 2 PROVE Close(t, S, q) = {}
  <2>1. \A e \in Close(t, S, q) : e \in S /\ e = q + 2
    BY <1>8 DEF Close, At
  <2> QED BY <1>1, <1>10, <2>1
<1> QED BY <1>5, <1>8, <1>9, <1>10

\* A bullet leads to the tag of its own call only.
LEMMA LeadsToOwn ==
    ASSUME NEW t, NEW S, NEW n, Solid(t, S, n), NEW i \in S, Letter(t, i) = "B",
           NEW q \in Word(t, S, "F"), Leads(t, S, i, q)
    PROVE  /\ t[i].form \in CallForm /\ t[i].at = 1
           /\ q = TagEnd(t, i) - 2 /\ q \in Part(t, i)
<1>1. q \in S /\ Letter(t, q) = "F" /\ q - 1 \in S
  BY Words
<1>2. /\ q \in 1..n /\ q \in 1..Len(t) /\ i \in 1..n /\ i \in 1..Len(t) /\ IsText(t)
      /\ n \in Int
  BY <1>1, SolidPlaces
<1>3. t[q].form \in CallForm
  BY <1>1, <1>2, LetterForms
<1> DEFINE b == Start(t, q) + 1
<1>4. /\ b \in Part(t, q) /\ b <= q /\ b \in Int /\ q \in Part(t, q) /\ Letter(t, b) = "B"
  BY <1>2, <1>3, TextFacts, CallFacts, CallLetterAt, SMTT(30)
<1>5. /\ i < q
      /\ \A r \in S : (i < r /\ r < q) => Letter(t, r) \in {"<", "S"}
  BY DEF Leads, Between
<1>6. ~(i < b)
  <2> SUFFICES ASSUME i < b PROVE FALSE
    OBVIOUS
  <2>1. b \in S
    BY <1>1, <1>2, <1>4, Filled
  <2>2. b # q
    BY <1>1, <1>4
  <2> QED BY <1>2, <1>4, <1>5, <2>1, <2>2
<1>7. i \in Part(t, q)
  BY <1>2, <1>4, <1>5, <1>6, TextFacts DEF Part
<1>8. /\ t[i].form = t[q].form /\ Start(t, i) = Start(t, q) /\ Part(t, i) = Part(t, q)
      /\ TagEnd(t, i) = TagEnd(t, q)
  BY <1>2, <1>7, TextFacts, ZenonT(60) DEF TagEnd
<1>9. i = b /\ q = TagEnd(t, q) - 2
  <2> DEFINE g == TagEnd(t, q)
             h == ParamFrom(t, q)
  <2>1. g \in Int /\ h \in Int /\ g <= h
    BY <1>2, <1>3, CallFacts
  <2>2. q = g - 2
    BY <1>1, <1>2, <1>3, <1>4, CallLetterAt
  <2>3. i = b \/ i = h + 5
    BY <1>2, <1>3, <1>7, CallLetterAt
  <2> HIDE DEF g, h, b
  <2>4. i # h + 5
    BY <1>2, <1>5, <2>1, <2>2
  <2> QED BY <2>2, <2>3, <2>4 DEF g
<1>10. t[i].at = 1
  <2>1. i = Start(t, i) + t[i].at /\ t[i].at \in Int /\ Start(t, i) \in Int
    BY <1>2, TextFacts
  <2> QED BY <1>8, <1>9, <2>1
<1> QED BY <1>3, <1>4, <1>8, <1>9, <1>10

\* And the bullet of a call does.
LEMMA OwnLeads ==
    ASSUME NEW t, NEW S, NEW n, Solid(t, S, n), NEW i \in S, t[i].form \in CallForm,
           t[i].at = 1, NEW q, q = TagEnd(t, i) - 2, q <= n
    PROVE  q \in Word(t, S, "F") /\ Leads(t, S, i, q)
<1>1. i \in 1..n /\ i \in 1..Len(t) /\ IsText(t) /\ n \in Int /\ \A k \in S : k \in 1..Len(t)
  BY SolidPlaces
<1> DEFINE g == TagEnd(t, i)
           s == Start(t, i)
<1>2. /\ g \in Int /\ s \in Nat /\ s + 5 <= g /\ g <= s + 6
      /\ g - 2 \in Part(t, i) /\ g - 3 \in Part(t, i) /\ Part(t, i) = s + 1..End(t, i)
      /\ End(t, i) \in Int /\ i = s + 1 /\ q = g - 2
  <2>1. /\ g \in Int /\ s \in Nat /\ s + 5 <= g /\ g <= s + 6
        /\ g - 2 \in Part(t, i) /\ g - 3 \in Part(t, i)
    BY <1>1, CallFacts, TextFacts
  <2>2. End(t, i) \in Int /\ i = s + t[i].at
    BY <1>1, TextFacts
  <2> QED BY <2>1, <2>2 DEF Part
<1> HIDE DEF g, s
<1>3. q \in Int /\ q - 1 \in Int /\ q - 1 = g - 3 /\ i <= q - 1 /\ i <= q /\ q - 1 <= n
  BY <1>1, <1>2, SMTT(30)
<1>4. q \in S /\ q - 1 \in S
  BY <1>1, <1>2, <1>3, Filled, SMTT(30)
<1>5. Letter(t, q) = "F" /\ Letter(t, q - 1) = "<"
  BY <1>1, <1>2, <1>3, CallLetterAt, SMTT(30) DEF g
<1>6. q \in Word(t, S, "F")
  BY <1>4, <1>5, Words
<1>7. ASSUME NEW r \in Between(S, i, q)
      PROVE  Letter(t, r) = IF Adjacent(S, r, q) THEN "<" ELSE "S"
  <2>1. r \in S /\ i < r /\ r < q /\ r \in Int
    BY <1>1 DEF Between
  <2>2. r \in Part(t, i)
    BY <1>1, <1>2, <1>3, <2>1
  <2>3. Adjacent(S, r, q) <=> r = q - 1
    <3>1. Adjacent(S, r, q) => r = q - 1
      BY <1>4, <2>1, NextTo
    <3>2. r = q - 1 => q = r + 1
      BY <1>3
    <3> QED BY <1>4, <2>1, <3>1, <3>2, NextTo
  <2>4. CASE r = q - 1
    BY <1>5, <2>3, <2>4
  <2>5. CASE r # q - 1
    <3>1. t[i].form = "call" /\ r = s + 2
      <4>1. g = s + (IF t[i].form = "call" THEN 6 ELSE 5)
        BY DEF TagEnd, g, s
      <4>2. /\ g \in Int /\ s \in Int /\ r \in Int /\ i = s + 1 /\ q = g - 2
            /\ i < r /\ r < q /\ r # q - 1
        BY <1>2, <2>1, <2>5
      <4> QED BY <4>1, <4>2
    <3>2. \A k \in Part(t, i) : t[i].form = "call" /\ k = Start(t, i) + 2 => Letter(t, k) = "S"
      BY <1>1, CallLetterAt
    <3>3. Letter(t, r) = "S"
      BY <2>2, <3>1, <3>2 DEF s
    <3> QED BY <2>3, <2>5, <3>3
  <2> QED BY <2>4, <2>5
<1>8. i < q
  BY <1>1, <1>3
<1> QED BY <1>6, <1>7, <1>8 DEF Leads

\* The calls that FunctionTag finds are those whose tag is complete.
LEMMA FunctionsAre ==
    ASSUME NEW t, NEW S, NEW n, Solid(t, S, n), NEW i
    PROVE  i \in Functions(t, S) <=>
              i \in S /\ t[i].form \in CallForm /\ t[i].at = 1 /\ TagEnd(t, i) <= n
<1>1. ASSUME i \in Functions(t, S)
      PROVE  i \in S /\ t[i].form \in CallForm /\ t[i].at = 1 /\ TagEnd(t, i) <= n
  <2>1. i \in S /\ Letter(t, i) = "B"
    BY <1>1 DEF Functions, At
  <2>2. PICK q \in Word(t, S, "F") : Leads(t, S, i, q) /\ Close(t, S, q) # {}
    BY <1>1 DEF Functions
  <2>3. t[i].form \in CallForm /\ t[i].at = 1 /\ q = TagEnd(t, i) - 2
    BY <2>1, <2>2, LeadsToOwn
  <2>4. q \in S /\ Letter(t, q) = "F"
    BY Words
  <2>5. ~(n < q + 2)
    BY <2>2, <2>4, Closes
  <2>6. q + 2 = TagEnd(t, i) /\ q \in Int /\ n \in Int
    BY <2>1, <2>3, <2>4, SolidPlaces, CallFacts
  <2> QED BY <2>1, <2>3, <2>5, <2>6
<1>2. ASSUME i \in S, t[i].form \in CallForm, t[i].at = 1, TagEnd(t, i) <= n
      PROVE  i \in Functions(t, S)
  <2>1. i \in 1..Len(t) /\ IsText(t) /\ n \in Int
    BY <1>2, SolidPlaces
  <2> DEFINE q == TagEnd(t, i) - 2
  <2>2. TagEnd(t, i) \in Int /\ q \in Int /\ q <= n /\ q + 2 <= n
    BY <1>2, <2>1, CallFacts
  <2>3. q \in Word(t, S, "F") /\ Leads(t, S, i, q)
    BY <1>2, <2>2, OwnLeads
  <2>4. q \in S /\ Letter(t, q) = "F"
    BY <2>3, Words
  <2>5. Close(t, S, q) # {}
    BY <2>2, <2>4, Closes
  <2>6. i \in Part(t, i) /\ Letter(t, i) = "B"
    BY <1>2, <2>1, TextFacts, CallLetterAt
  <2> QED BY <1>2, <2>3, <2>5, <2>6 DEF Functions, At
<1> QED BY <1>1, <1>2

\* The layout of a parameter around its key word.
LEMMA KeyWord ==
    ASSUME NEW t, NEW S, NEW n, Solid(t, S, n), NEW q \in S, Letter(t, q) = "Q"
    PROVE  /\ t[q].form \in {"cut"} \cup WholeForm /\ t[q].form \in CallForm
           /\ ParamFrom(t, q) = q - 2 /\ q \in 1..n /\ q \in 1..Len(t) /\ n \in Int
           /\ q - 2 \in Part(t, q) /\ q \in Part(t, q)
           /\ t[q].form \in WholeForm => End(t, q) = q + 6
           /\ t[q].form = "cut" => End(t, q) = q + 3 /\ End(t, q) = Len(t)
           /\ \A k \in Int : (q <= k /\ k <= End(t, q)) => k \in Part(t, q)
           /\ \A k \in Int : (q <= k /\ k <= End(t, q) /\ k <= n) => k \in S
<1>1. q \in 1..n /\ q \in 1..Len(t) /\ n \in Int /\ IsText(t) /\ q \in Int
  BY SolidPlaces
<1>2. t[q].form \in {"cut"} \cup WholeForm /\ t[q].form \in CallForm
  BY <1>1, LetterForms DEF CallForm
<1>3. q \in Part(t, q) /\ Start(t, q) < q /\ Start(t, q) \in Int /\ End(t, q) \in Int
  BY <1>1, TextFacts
<1>4. q = ParamFrom(t, q) + 2
  BY <1>1, <1>2, <1>3, CallLetterAt
<1>5. /\ ParamFrom(t, q) \in Int /\ ParamFrom(t, q) \in Part(t, q)
      /\ t[q].form \in WholeForm => End(t, q) = ParamFrom(t, q) + 8
      /\ t[q].form = "cut" => End(t, q) = ParamFrom(t, q) + 5 /\ End(t, q) = Len(t)
  BY <1>1, <1>2, CallFacts
<1>6. ParamFrom(t, q) = q - 2
  BY <1>1, <1>4, <1>5
<1>7. /\ t[q].form \in WholeForm => End(t, q) = q + 6
      /\ t[q].form = "cut" => End(t, q) = q + 3
  BY <1>1, <1>5, <1>6
<1>8. \A k \in Int : (q <= k /\ k <= End(t, q)) => k \in Part(t, q)
  BY <1>1, <1>3 DEF Part
<1>9. \A k \in Int : (q <= k /\ k <= End(t, q) /\ k <= n) => k \in S
  BY <1>8, Filled
<1> QED BY <1>1, <1>2, <1>3, <1>5, <1>6, <1>7, <1>8, <1>9

\* The layout in front of the end of a call.
LEMMA EndWord ==
    ASSUME NEW t, NEW S, NEW n, Solid(t, S, n), NEW u \in S, Letter(t, u) = "E"
    PROVE  /\ t[u].form \in WholeForm /\ End(t, u) = u + 1 /\ ParamFrom(t, u) = u - 7
           /\ u \in 1..n /\ u \in 1..Len(t) /\ u \in Part(t, u)
<1>1. u \in 1..n /\ u \in 1..Len(t) /\ n \in Int /\ IsText(t) /\ u \in Int
  BY SolidPlaces
<1>2. t[u].form \in WholeForm /\ t[u].form \in CallForm
  BY <1>1, LetterForms DEF CallForm
<1>3. u \in Part(t, u)
  BY <1>1, TextFacts
<1>4. u = ParamFrom(t, u) + 7
  BY <1>1, <1>2, <1>3, CallLetterAt
<1>5. ParamFrom(t, u) \in Int /\ End(t, u) = ParamFrom(t, u) + 8
  BY <1>1, <1>2, CallFacts
<1>6. ParamFrom(t, u) = u - 7 /\ End(t, u) = u + 1
  BY <1>1, <1>4, <1>5
<1> QED BY <1>1, <1>2, <1>3, <1>6

\* The tags of parameters.
LEMMA OpenAre ==
    ASSUME NEW t, NEW S, NEW n, Solid(t, S, n), NEW q
    PROVE  q \in OpenParameters(t, S) <=>
              q \in S /\ Letter(t, q) = "Q" /\ q - 1 \in S /\ q + 2 <= n
<1>1. q \in Word(t, S, "Q") <=> q \in S /\ Letter(t, q) = "Q" /\ q - 1 \in S
  BY Words
<1>2. ASSUME q \in S, Letter(t, q) = "Q" PROVE Close(t, S, q) # {} <=> q + 2 <= n
  <2>1. q \in Int /\ n \in Int
    BY <1>2, KeyWord
  <2>2. q + 2 <= n \/ n < q + 2
    BY <2>1
  <2> QED BY <1>2, <2>1, <2>2, Closes
<1> QED BY <1>1, <1>2 DEF OpenParameters

\* The parameters that have their end are those of the calls that are there to the end.
LEMMA ParametersAre ==
    ASSUME NEW t, NEW S, NEW n, Solid(t, S, n), NEW q
    PROVE  q \in Parameters(t, S) <=>
              /\ q \in S /\ Letter(t, q) = "Q" /\ q - 1 \in S
              /\ t[q].form \in WholeForm /\ End(t, q) <= n
<1>1. ASSUME q \in Parameters(t, S)
      PROVE  /\ q \in S /\ Letter(t, q) = "Q" /\ q - 1 \in S
             /\ t[q].form \in WholeForm /\ End(t, q) <= n
  <2>1. PICK e \in Close(t, S, q) : ValueEnd(t, S, e) # {}
    BY <1>1 DEF Parameters
  <2>2. q \in S /\ Letter(t, q) = "Q" /\ q - 1 \in S /\ q + 2 <= n
    BY <1>1, OpenAre DEF Parameters
  <2>3. e = q + 2
    BY <2>1, <2>2, Closes
  <2>4. PICK u \in Word(t, S, "E") : e < u /\ \E v \in At(t, S, ">") : Adjacent(S, u, v)
    BY <2>1 DEF ValueEnd
  <2>5. PICK v \in S : Adjacent(S, u, v)
    BY <2>4 DEF At
  <2>6. u \in S /\ Letter(t, u) = "E"
    BY Words
  <2>7. /\ t[u].form \in WholeForm /\ End(t, u) = u + 1 /\ u \in 1..n /\ u \in 1..Len(t)
        /\ u \in Part(t, u)
    BY <2>6, EndWord
  <2>8. v = u + 1
    <3>1. u # End(t, u)
      BY <2>7
    <3> QED BY <2>5, <2>6, <3>1, NextTo
  <2>9. v \in 1..n /\ n <= Len(t) /\ IsText(t) /\ Len(t) \in Int
    BY SolidPlaces
  <2>14. n \in Int
    BY <2>2, KeyWord
  <2>10. /\ t[q].form \in {"cut"} \cup WholeForm /\ q \in 1..n /\ q \in 1..Len(t)
         /\ t[q].form = "cut" => End(t, q) = Len(t)
    BY <2>2, KeyWord
  <2>11. q < u
    BY <2>3, <2>4, <2>7, <2>10
  <2>12. CASE u \in Part(t, q)
    <3>1. t[u].form = t[q].form /\ End(t, u) = End(t, q)
      BY <2>9, <2>10, <2>12, TextFacts
    <3> QED BY <2>2, <2>7, <2>8, <2>9, <3>1
  <2>13. CASE u \notin Part(t, q)
    <3>1. End(t, q) < u
      BY <2>7, <2>9, <2>10, <2>11, <2>13, PartsApart
    <3>2. End(t, q) \in Int
      BY <2>9, <2>10, TextFacts
    <3> QED BY <2>2, <2>7, <2>9, <2>10, <2>14, <3>1, <3>2
  <2> QED BY <2>12, <2>13
<1>2. ASSUME q \in S, Letter(t, q) = "Q", q - 1 \in S, t[q].form \in WholeForm, End(t, q) <= n
      PROVE  q \in Parameters(t, S)
  <2>1. /\ ParamFrom(t, q) = q - 2 /\ q \in 1..n /\ q \in 1..Len(t) /\ n \in Int
        /\ End(t, q) = q + 6 /\ IsText(t) /\ q \in Int
        /\ \A k \in Int : (q <= k /\ k <= End(t, q)) => k \in Part(t, q)
        /\ \A k \in Int : (q <= k /\ k <= End(t, q) /\ k <= n) => k \in S
    BY <1>2, KeyWord, SolidPlaces
  <2> DEFINE u == q + 5
             v == q + 6
  <2>2. /\ u \in Int /\ v \in Int /\ q <= u /\ q <= v /\ u <= End(t, q) /\ v <= End(t, q)
        /\ q + 4 \in Int /\ q <= q + 4 /\ q + 4 <= End(t, q) /\ u - 1 = q + 4 /\ q + 2 <= n
        /\ u <= n /\ v <= n /\ q + 4 <= n /\ v = u + 1 /\ q + 2 < u
    BY <1>2, <2>1
  <2> HIDE DEF u, v
  <2>3. u \in S /\ v \in S /\ q + 4 \in S /\ u \in Part(t, q) /\ v \in Part(t, q)
    BY <2>1, <2>2
  <2>4. /\ u = ParamFrom(t, q) + 7 /\ v = ParamFrom(t, q) + 8
    BY <2>1, <2>2 DEF u, v
  <2>5. Letter(t, u) = "E" /\ Letter(t, v) = ">"
    BY <1>2, <2>1, <2>3, <2>4, CallLetterAt DEF CallForm
  <2>6. Adjacent(S, u, v)
    BY <2>2, <2>3, NextTo
  <2>7. u \in Word(t, S, "E")
    BY <2>2, <2>3, <2>5, Words
  <2>8. u \in ValueEnd(t, S, q + 2)
    BY <2>2, <2>3, <2>5, <2>6, <2>7 DEF ValueEnd, At
  <2>9. q + 2 \in Close(t, S, q)
    BY <1>2, <2>2, Closes
  <2>10. q \in OpenParameters(t, S)
    BY <1>2, <2>2, OpenAre
  <2> QED BY <2>8, <2>9, <2>10 DEF Parameters
<1> QED BY <1>1, <1>2

\* What Parameter takes: the value is the one character up to the </parameter>.
LEMMA FirstValue ==
    ASSUME NEW t, NEW S, NEW n, Solid(t, S, n), NEW q \in Parameters(t, S),
           NEW e \in Close(t, S, q), NEW u \in ValueEnd(t, S, e),
           \A w \in ValueEnd(t, S, e) : u <= w
    PROVE  /\ Between(S, q, e) = {q + 1} /\ Value(S, e, u) = {q + 3} /\ u = q + 5
           /\ q + 6 \in S
           /\ \A v \in S : Adjacent(S, u, v) <=> v = q + 6
           /\ \A p \in S : Adjacent(S, p, q) <=> p = q - 1
<1>1. /\ q \in S /\ Letter(t, q) = "Q" /\ q - 1 \in S
      /\ t[q].form \in WholeForm /\ End(t, q) <= n
  BY ParametersAre
<1>2. /\ ParamFrom(t, q) = q - 2 /\ q \in 1..n /\ q \in 1..Len(t) /\ n \in Int
      /\ End(t, q) = q + 6 /\ IsText(t) /\ q \in Int
      /\ \A k \in Int : (q <= k /\ k <= End(t, q)) => k \in Part(t, q)
      /\ \A k \in Int : (q <= k /\ k <= End(t, q) /\ k <= n) => k \in S
  BY <1>1, KeyWord, SolidPlaces
<1>3. /\ q + 2 <= n /\ q + 6 <= n /\ q + 5 <= n
      /\ \A k \in {q + 3, q + 4, q + 5, q + 6} : k \in S /\ k \in Part(t, q)
  BY <1>1, <1>2
<1>4. e = q + 2 /\ Between(S, q, e) = {q + 1}
  BY <1>1, <1>3, Closes
<1>5. u \in S /\ Letter(t, u) = "E" /\ e < u
  BY Words DEF ValueEnd
<1>6. u \in 1..n /\ u \in 1..Len(t) /\ u \in Part(t, u) /\ ParamFrom(t, u) = u - 7
  BY <1>5, EndWord
<1>7. q + 5 \in ValueEnd(t, S, e)
  <2> DEFINE w == q + 5
             v == q + 6
  <2>1. w = ParamFrom(t, q) + 7 /\ v = ParamFrom(t, q) + 8 /\ v = w + 1 /\ w - 1 = q + 4 /\ e < w
    BY <1>2, <1>4
  <2>2. w \in S /\ v \in S /\ w - 1 \in S /\ w \in Part(t, q) /\ v \in Part(t, q)
    BY <1>3, <2>1
  <2> HIDE DEF w, v
  <2>3. Letter(t, w) = "E" /\ Letter(t, v) = ">"
    BY <1>1, <1>2, <2>1, <2>2, CallLetterAt DEF CallForm
  <2>4. Adjacent(S, w, v)
    BY <2>1, <2>2, NextTo
  <2>5. w \in Word(t, S, "E")
    BY <2>2, <2>3, Words
  <2>6. w \in ValueEnd(t, S, e)
    BY <2>1, <2>2, <2>3, <2>4, <2>5 DEF ValueEnd, At
  <2> QED BY <2>6 DEF w
<1>8. u = q + 5
  <2>1. u <= q + 5
    BY <1>7
  <2>2. q < u
    BY <1>2, <1>4, <1>5, <1>6
  <2>3. u \in Part(t, q)
    BY <1>2, <1>6, <2>1, <2>2
  <2>4. ParamFrom(t, u) = ParamFrom(t, q)
    BY <1>2, <2>3, TextFacts, ZenonT(60) DEF ParamFrom
  <2> QED BY <1>2, <1>6, <2>4
<1>9. \A v \in S : Adjacent(S, u, v) <=> v = q + 6
  <2>1. u # End(t, u) /\ u + 1 = q + 6
    BY <1>2, <1>5, <1>8, EndWord
  <2> QED BY <1>5, <2>1, NextTo
<1>10. \A p \in S : Adjacent(S, p, q) <=> p = q - 1
  <2>1. \A p \in S : p = q - 1 => q = p + 1
    BY <1>2
  <2> QED BY <1>1, <2>1, NextTo
<1>11. \A k \in S : (e < k /\ k < u) <=> k \in {q + 3, q + 4}
  <2>1. \A k \in S : k \in Int
    BY SolidPlaces
  <2> QED BY <1>2, <1>4, <1>8, <2>1
<1>12. /\ Adjacent(S, q + 4, u)
       /\ ~Adjacent(S, q + 3, u)
  <2>1. u = q + 4 + 1 /\ u # q + 3 + 1
    BY <1>2, <1>8
  <2>2. u - 1 \in S /\ u - 1 # q + 3
    BY <1>2, <1>3, <1>8
  <2> QED BY <1>3, <1>5, <2>1, <2>2, NextTo
<1>13. Value(S, e, u) = {q + 3}
  BY <1>3, <1>11, <1>12 DEF Value, Between
<1> QED BY <1>3, <1>4, <1>8, <1>9, <1>10, <1>13

\* Where <| and |> stand.
LEMMA TokenPairs ==
    ASSUME NEW t, NEW S, NEW n, Solid(t, S, n), NEW p
    PROVE  /\ p \in Pair(t, S, "<", "|") <=>
                 p \in S /\ t[p].form = "token" /\ p = Start(t, p) + 1 /\ p + 1 \in S
           /\ p \in Pair(t, S, "|", ">") <=>
                 p \in S /\ t[p].form = "token" /\ p = Start(t, p) + 4 /\ p + 1 \in S
<1>1. \A q \in S : q \in 1..n /\ q \in 1..Len(t) /\ q \in Int
  BY SolidPlaces
<1>2. IsText(t)
  BY SolidPlaces
<1>3. ASSUME NEW q \in S, t[q].form = "token"
      PROVE  /\ Start(t, q) \in Nat /\ Start(t, q) < q /\ q <= Start(t, q) + 5
             /\ End(t, q) = Start(t, q) + 5
             /\ q \in Part(t, q)
             /\ Letter(t, q) = "<" <=> q = Start(t, q) + 1
             /\ Letter(t, q) = "|" <=> q \in {Start(t, q) + 2, Start(t, q) + 4}
             /\ Letter(t, q) = ">" <=> q = Start(t, q) + 5
  <2>1. q \in 1..Len(t)
    BY <1>1
  <2>2. q \in Part(t, q) /\ Start(t, q) \in Nat /\ Start(t, q) < q /\ q <= End(t, q)
    BY <1>2, <2>1, TextFacts
  <2> QED BY <1>2, <1>3, <2>1, <2>2, TokenFacts
<1>4. ASSUME p \in S, t[p].form = "token", NEW q \in S, q = p + 1, q <= End(t, p)
      PROVE  t[q].form = "token" /\ Start(t, q) = Start(t, p)
  <2>1. Start(t, p) \in Nat /\ End(t, p) \in Int /\ p \in Int /\ Start(t, p) < p
    BY <1>1, <1>3, <1>4
  <2>2. q \in Part(t, p)
    BY <1>4, <2>1 DEF Part
  <2> QED BY <1>1, <1>2, <1>4, <2>2, TextFacts
<1>5. ASSUME p \in Pair(t, S, "<", "|")
      PROVE  p \in S /\ t[p].form = "token" /\ p = Start(t, p) + 1 /\ p + 1 \in S
  <2>1. p \in S /\ Letter(t, p) = "<"
    BY <1>5 DEF Pair, At
  <2>2. PICK q \in S : Letter(t, q) = "|" /\ Adjacent(S, p, q)
    BY <1>5 DEF Pair, At
  <2>3. t[q].form = "token"
    BY <1>1, <1>2, <2>2, LetterForms
  <2>4. q = Start(t, q) + 2 \/ q = Start(t, q) + 4
    BY <1>3, <2>2, <2>3
  <2>5. q # Start(t, q) + 1
    BY <1>1, <1>3, <2>3, <2>4
  <2>6. p = q - 1
    BY <2>1, <2>2, <2>5, NextTo
  <2>7. p \in Part(t, q)
    BY <1>1, <1>3, <2>1, <2>3, <2>4, <2>6 DEF Part
  <2>8. t[p].form = "token" /\ Start(t, p) = Start(t, q)
    BY <1>1, <1>2, <2>3, <2>7, TextFacts, SMTT(30)
  <2>9. p + 1 = q
    BY <1>1, <2>6
  <2> QED BY <1>3, <2>1, <2>8, <2>9
<1>6. ASSUME p \in S, t[p].form = "token", p = Start(t, p) + 1, p + 1 \in S
      PROVE  p \in Pair(t, S, "<", "|")
  <2> DEFINE q == p + 1
             s == Start(t, p)
  <2>1. q \in S /\ q = p + 1 /\ q <= End(t, p) /\ s \in Nat /\ q = s + 2
    BY <1>1, <1>3, <1>6
  <2> HIDE DEF q, s
  <2>2. t[q].form = "token" /\ Start(t, q) = s
    BY <1>4, <1>6, <2>1 DEF s
  <2>3. Letter(t, q) = "|" /\ Letter(t, p) = "<"
    BY <1>3, <1>6, <2>1, <2>2
  <2>4. Adjacent(S, p, q)
    BY <1>6, <2>1, NextTo
  <2> QED BY <1>6, <2>1, <2>3, <2>4 DEF Pair, At
<1>7. ASSUME p \in Pair(t, S, "|", ">")
      PROVE  p \in S /\ t[p].form = "token" /\ p = Start(t, p) + 4 /\ p + 1 \in S
  <2>1. p \in S /\ Letter(t, p) = "|"
    BY <1>7 DEF Pair, At
  <2>2. PICK q \in S : Letter(t, q) = ">" /\ Adjacent(S, p, q)
    BY <1>7 DEF Pair, At
  <2>3. t[p].form = "token"
    BY <1>1, <1>2, <2>1, LetterForms
  <2>4. p = Start(t, p) + 2 \/ p = Start(t, p) + 4
    BY <1>3, <2>1, <2>3
  <2>5. p # End(t, p)
    BY <1>1, <1>3, <2>1, <2>3, <2>4
  <2>6. q = p + 1
    BY <2>1, <2>2, <2>5, NextTo
  <2>7. q <= End(t, p)
    BY <1>1, <1>3, <2>1, <2>3, <2>5, <2>6
  <2>8. t[q].form = "token" /\ Start(t, q) = Start(t, p)
    BY <1>4, <2>1, <2>2, <2>3, <2>6, <2>7
  <2>9. q = Start(t, p) + 5
    BY <1>3, <2>2, <2>8
  <2>10. p = Start(t, p) + 4
    BY <1>1, <1>3, <2>1, <2>3, <2>6, <2>9
  <2> QED BY <2>1, <2>2, <2>3, <2>6, <2>10
<1>8. ASSUME p \in S, t[p].form = "token", p = Start(t, p) + 4, p + 1 \in S
      PROVE  p \in Pair(t, S, "|", ">")
  <2> DEFINE q == p + 1
             s == Start(t, p)
  <2>1. q \in S /\ q = p + 1 /\ q <= End(t, p) /\ s \in Nat /\ q = s + 5
    BY <1>1, <1>3, <1>8
  <2> HIDE DEF q, s
  <2>2. t[q].form = "token" /\ Start(t, q) = s
    BY <1>4, <1>8, <2>1 DEF s
  <2>3. Letter(t, q) = ">" /\ Letter(t, p) = "|"
    BY <1>3, <1>8, <2>1, <2>2
  <2>4. Adjacent(S, p, q)
    BY <1>8, <2>1, NextTo
  <2> QED BY <1>8, <2>1, <2>3, <2>4 DEF Pair, At
<1> QED BY <1>5, <1>6, <1>7, <1>8

\* What is stripped from <| to |> is one token.
LEMMA TokenBounds ==
    ASSUME NEW t, NEW S, NEW n, Solid(t, S, n), NEW m \in Tokens(t, S)
    PROVE  /\ m[1] \in S /\ t[m[1]].form = "token" /\ Part(t, m[1]) \subseteq S
           /\ Part(t, m[1]) = m[1]..m[1] + 4 /\ m[2] = m[1] + 3 /\ m[1] \in Int
<1> DEFINE a == m[1]
           b == m[2]
<1>1. a \in Pair(t, S, "<", "|") /\ b \in Pair(t, S, "|", ">")
  BY DEF Tokens
<1>2. /\ Inside(S, m) # {}
      /\ \A k \in Inside(S, m) : Letter(t, k) # "|"
  BY DEF Tokens
<1>3. \A k : k \in Inside(S, m) <=> k \in S /\ a < k /\ k < b /\ ~Adjacent(S, a, k)
  BY DEF Inside, Between
<1> HIDE DEF a, b
<1>4. /\ a \in S /\ t[a].form = "token" /\ a = Start(t, a) + 1 /\ a + 1 \in S
      /\ b \in S /\ t[b].form = "token" /\ b = Start(t, b) + 4 /\ b + 1 \in S
  BY <1>1, TokenPairs
<1>5. /\ a \in 1..n /\ a \in 1..Len(t) /\ b \in 1..n /\ b \in 1..Len(t) /\ b + 1 \in 1..n
      /\ n \in Int /\ IsText(t)
  BY <1>4, SolidPlaces
<1>6. Part(t, a) = a..a + 4 /\ End(t, a) = a + 4
  <2>1. /\ Start(t, a) \in Nat /\ End(t, a) = Start(t, a) + 5
        /\ Part(t, a) = Start(t, a) + 1..Start(t, a) + 5
    BY <1>4, <1>5, TokenFacts
  <2>2. Start(t, a) = a - 1
    BY <1>4, <1>5, <2>1
  <2> QED BY <1>5, <2>1, <2>2
<1>7. a < b
  <2>1. PICK k \in S : a < k /\ k < b
    BY <1>2, <1>3
  <2>2. k \in Int
    BY SolidPlaces
  <2> QED BY <1>5, <2>1, <2>2
<1>8. b \in Part(t, a)
  <2> SUFFICES ASSUME b \notin Part(t, a) PROVE FALSE
    OBVIOUS
  <2>1. End(t, a) < b
    BY <1>5, <1>7, PartsApart
  <2> DEFINE k == a + 3
  <2>2. k \in Part(t, a) /\ a <= k /\ k <= n /\ a < k /\ k < b /\ k # a + 1 /\ k \in Int
    BY <1>5, <1>6, <2>1
  <2>3. k = Start(t, a) + 4
    <3>1. Start(t, a) \in Int
      BY <1>5, TextFacts
    <3> QED BY <1>4, <1>5, <3>1
  <2> HIDE DEF k
  <2>4. k \in S
    BY <1>4, <2>2, Filled
  <2>5. Letter(t, k) = "|"
    BY <1>4, <1>5, <2>2, <2>3, TokenFacts
  <2>6. ~Adjacent(S, a, k)
    BY <1>4, <2>2, <2>4, NextTo
  <2> QED BY <1>2, <1>3, <2>2, <2>4, <2>5, <2>6
<1>9. b = a + 3
  <2>1. Start(t, b) = Start(t, a) /\ Start(t, a) \in Int
    BY <1>5, <1>8, TextFacts
  <2> QED BY <1>4, <1>5, <2>1
<1>10. ASSUME NEW k \in Part(t, a) PROVE k \in S
  <2>1. k \in Int /\ a <= k /\ k <= n
    BY <1>5, <1>6, <1>9
  <2> QED BY <1>4, <2>1, Filled
<1> QED BY <1>4, <1>5, <1>6, <1>9, <1>10 DEF a, b

\* And a token that is there whole is stripped.
LEMMA WholeToken ==
    ASSUME NEW t, NEW S, NEW n, Solid(t, S, n), NEW p \in S, t[p].form = "token",
           Part(t, p) \subseteq S, NEW s, s = Start(t, p)
    PROVE  <<s + 1, s + 4>> \in Tokens(t, S) /\ s + 5 \in S
<1>1. p \in 1..Len(t) /\ IsText(t) /\ \A k \in S : k \in Int
  BY SolidPlaces
<1>2. /\ s \in Nat /\ Part(t, p) = s + 1..s + 5
      /\ \A q \in Part(t, p) : /\ Letter(t, q) = "<" <=> q = s + 1
                               /\ Letter(t, q) = "|" <=> q \in {s + 2, s + 4}
                               /\ Letter(t, q) = ">" <=> q = s + 5
  BY <1>1, TokenFacts
<1>3. \A q \in {s + 1, s + 2, s + 3, s + 4, s + 5} : q \in Part(t, p) /\ q \in S
  BY <1>2
<1>4. \A q \in Part(t, p) : t[q].form = "token" /\ Start(t, q) = s
  BY <1>1, TextFacts
<1> DEFINE a == s + 1
           b == s + 4
           m == <<a, b>>
<1>5. /\ a \in S /\ t[a].form = "token" /\ a = Start(t, a) + 1 /\ a + 1 \in S
      /\ b \in S /\ t[b].form = "token" /\ b = Start(t, b) + 4 /\ b + 1 \in S
  <2>1. a + 1 = s + 2 /\ b + 1 = s + 5
    BY <1>2
  <2> QED BY <1>3, <1>4, <2>1
<1>6. a + 2 \in S /\ a < a + 2 /\ a + 2 < b /\ a + 2 # a + 1
  <2>1. s \in Int
    BY <1>2
  <2>2. a + 2 = s + 3 /\ a < a + 2 /\ a + 2 < b /\ a + 2 # a + 1
    BY <2>1
  <2>3. s + 3 \in S
    BY <1>3
  <2> QED BY <2>2, <2>3
<1> HIDE DEF a, b
<1>7. a \in Pair(t, S, "<", "|") /\ b \in Pair(t, S, "|", ">")
  BY <1>5, TokenPairs
<1>8. ~Adjacent(S, a, a + 2)
  BY <1>5, <1>6, NextTo
<1>9. a + 2 \in Inside(S, m)
  BY <1>6, <1>8 DEF Inside, Between
<1>10. ASSUME NEW k \in Inside(S, m) PROVE Letter(t, k) \notin {"|", ">"}
  <2>1. k \in S /\ a < k /\ k < b /\ ~Adjacent(S, a, k)
    BY DEF Inside, Between
  <2>2. k # a + 1
    BY <1>5, <2>1, NextTo
  <2>3. k = s + 3
    BY <1>1, <1>2, <2>1, <2>2 DEF a, b
  <2>4. k \in Part(t, p) /\ k \notin {s + 2, s + 4} /\ k # s + 5
    BY <1>2, <1>3, <2>3, SMTT(30)
  <2> QED BY <1>2, <2>4
<1>11. m \in Tokens(t, S)
  BY <1>7, <1>9, <1>10 DEF Tokens
<1> QED BY <1>3, <1>11 DEF a, b

\* Strip takes the tokens that are there whole, and nothing else.
LEMMA StripIs ==
    ASSUME NEW t, NEW S, NEW n, Solid(t, S, n), NEW k
    PROVE  k \in Strip(t, S) <=>
              k \in S /\ (t[k].form = "token" => ~(Part(t, k) \subseteq S))
<1>1. k \in Strip(t, S) <=>
         /\ k \in S
         /\ \A m \in Tokens(t, S) : k < m[1] \/ (m[2] < k /\ ~Adjacent(S, m[2], k))
  BY DEF Strip
<1>2. ASSUME k \in S, t[k].form = "token", Part(t, k) \subseteq S
      PROVE  k \notin Strip(t, S)
  <2> DEFINE s == Start(t, k)
             m == <<s + 1, s + 4>>
  <2>1. m \in Tokens(t, S) /\ s + 5 \in S
    BY <1>2, WholeToken
  <2>2. k \in 1..Len(t) /\ IsText(t)
    BY <1>2, SolidPlaces
  <2>3. s \in Nat /\ s < k /\ k <= s + 5
    BY <1>2, <2>2, TextFacts, TokenFacts
  <2>4. m[1] = s + 1 /\ m[2] = s + 4
    OBVIOUS
  <2> HIDE DEF s, m
  <2>5. s + 4 \in S
    <3>1. s + 4 \in Part(t, k)
      BY <1>2, <2>2, <2>3, TokenFacts DEF s
    <3> QED BY <1>2, <3>1
  <2>6. ~(k < m[1])
    BY <2>2, <2>3, <2>4
  <2>7. m[2] < k => Adjacent(S, m[2], k)
    <3>1. m[2] < k => k = s + 4 + 1
      BY <2>2, <2>3, <2>4
    <3> QED BY <1>2, <2>4, <2>5, <3>1, NextTo
  <2> QED BY <1>1, <2>1, <2>6, <2>7
<1>3. ASSUME k \in S, k \notin Strip(t, S)
      PROVE  t[k].form = "token" /\ Part(t, k) \subseteq S
  <2>1. PICK m \in Tokens(t, S) : ~(k < m[1]) /\ (m[2] < k => Adjacent(S, m[2], k))
    BY <1>1, <1>3
  <2> DEFINE a == m[1]
             b == m[2]
  <2>2. /\ a \in S /\ t[a].form = "token" /\ Part(t, a) \subseteq S
        /\ Part(t, a) = a..a + 4 /\ b = a + 3 /\ a \in Int
    BY TokenBounds
  <2>3. ~(k < a) /\ (b < k => Adjacent(S, b, k))
    BY <2>1
  <2> HIDE DEF a, b
  <2>4. b \in S /\ b + 1 \in S /\ k \in Int /\ a \in 1..Len(t) /\ IsText(t)
    <3>1. b \in Part(t, a) /\ b + 1 \in Part(t, a)
      BY <2>2
    <3> QED BY <1>3, <2>2, <3>1, SolidPlaces
  <2>5. k <= a + 4
    <3>1. CASE b < k
      <4>1. k = b + 1
        <5>1. Adjacent(S, b, k)
          BY <2>3, <3>1
        <5>2. k \in S /\ b \in S /\ b + 1 \in S
          BY <1>3, <2>4
        <5> QED BY <5>1, <5>2, NextTo
      <4> QED BY <2>2, <2>4, <4>1
    <3>2. CASE ~(b < k)
      BY <2>2, <2>4, <3>2
    <3> QED BY <3>1, <3>2
  <2>6. k \in Part(t, a)
    BY <2>2, <2>3, <2>4, <2>5
  <2> QED BY <2>2, <2>4, <2>6, TextFacts
<1>4. k \in Strip(t, S) => k \in S
  BY <1>1
<1> QED BY <1>2, <1>3, <1>4

------------------------------------------------------------------------------
(* What is left of a text stays solid.                                     *)

\* A text stays solid when its beginning or whole tokens are taken from it.
LEMMA SolidBeyond ==
    ASSUME NEW t, NEW S, NEW n, Solid(t, S, n), NEW i \in Int
    PROVE  Solid(t, Beyond(S, i), n) /\ Solid(t, Onward(S, i), n)
<1>1. /\ IsText(t) /\ n \in 0..Len(t) /\ S \subseteq 1..n
      /\ \A p \in S : \A q \in Part(t, p) : (q <= n /\ \E r \in S : r <= q) => q \in S
  BY DEF Solid
<1>2. \A p \in S : p \in Int /\ \A q \in Part(t, p) : q \in Int
  <2> SUFFICES ASSUME NEW p \in S PROVE p \in Int /\ \A q \in Part(t, p) : q \in Int
    OBVIOUS
  <2>1. p \in 1..Len(t) /\ p \in Int
    BY SolidPlaces
  <2>2. Part(t, p) \subseteq 1..Len(t)
    BY <1>1, <2>1, TextFacts
  <2> QED BY <2>1, <2>2
<1>3. Solid(t, Beyond(S, i), n)
  <2>1. Beyond(S, i) \subseteq 1..n
    BY <1>1 DEF Beyond
  <2>2. ASSUME NEW p \in Beyond(S, i), NEW q \in Part(t, p), q <= n,
               NEW r \in Beyond(S, i), r <= q
        PROVE  q \in Beyond(S, i)
    <3>1. p \in S /\ r \in S /\ r > i
      BY DEF Beyond
    <3>2. q \in S /\ q \in Int /\ r \in Int
      BY <1>1, <1>2, <2>2, <3>1
    <3>3. q > i
      BY <2>2, <3>1, <3>2
    <3> QED BY <3>2, <3>3 DEF Beyond
  <2> QED BY <1>1, <2>1, <2>2 DEF Solid
<1>4. Solid(t, Onward(S, i), n)
  <2>1. Onward(S, i) \subseteq 1..n
    BY <1>1 DEF Onward
  <2>2. ASSUME NEW p \in Onward(S, i), NEW q \in Part(t, p), q <= n,
               NEW r \in Onward(S, i), r <= q
        PROVE  q \in Onward(S, i)
    <3>1. p \in S /\ r \in S /\ r >= i
      BY DEF Onward
    <3>2. q \in S /\ q \in Int /\ r \in Int
      BY <1>1, <1>2, <2>2, <3>1
    <3>3. q >= i
      BY <2>2, <3>1, <3>2
    <3> QED BY <3>2, <3>3 DEF Onward
  <2> QED BY <1>1, <2>1, <2>2 DEF Solid
<1> QED BY <1>3, <1>4

\* The part of it that has been fed is solid.
LEMMA SolidUpTo ==
    ASSUME NEW t, NEW U, NEW n, Solid(t, U, n), NEW m \in 0..n, NEW S, S \subseteq 1..m,
           U = S \cup (m + 1..n)
    PROVE  Solid(t, S, m)
<1>1. /\ IsText(t) /\ n \in 0..Len(t) /\ U \subseteq 1..n
      /\ \A p \in U : \A q \in Part(t, p) : (q <= n /\ \E r \in U : r <= q) => q \in U
  BY DEF Solid
<1>2. Len(t) \in Nat /\ n \in Nat /\ m \in 0..Len(t)
  BY <1>1, SolidPlaces
<1>3. ASSUME NEW p \in S, NEW q \in Part(t, p), q <= m, NEW r \in S, r <= q
      PROVE  q \in S
  <2>1. p \in U /\ r \in U /\ p \in 1..Len(t)
    BY <1>2
  <2>2. q \in Int
    BY <1>1, <2>1, TextFacts
  <2>3. q <= n
    BY <1>2, <1>3, <2>2
  <2>4. q \in U
    BY <1>1, <1>3, <2>1, <2>3
  <2> QED BY <1>2, <1>3, <2>2, <2>4
<1> QED BY <1>1, <1>2, <1>3 DEF Solid

\* So it stays when Strip takes tokens.
LEMMA SolidStrip ==
    ASSUME NEW t, NEW U, NEW n, Solid(t, U, n), NEW m \in 0..n, NEW S, S \subseteq 1..m,
           U = S \cup (m + 1..n)
    PROVE  Solid(t, Strip(t, S) \cup (m + 1..n), n)
<1> DEFINE V == Strip(t, S) \cup (m + 1..n)
<1>1. /\ IsText(t) /\ n \in 0..Len(t) /\ U \subseteq 1..n
      /\ \A p \in U : \A q \in Part(t, p) : (q <= n /\ \E r \in U : r <= q) => q \in U
  BY DEF Solid
<1>2. Len(t) \in Nat /\ n \in Nat /\ m \in Nat
  BY <1>1, SolidPlaces
<1>3. Solid(t, S, m)
  BY SolidUpTo
<1>4. \A k : k \in Strip(t, S) <=> k \in S /\ (t[k].form = "token" => ~(Part(t, k) \subseteq S))
  BY <1>3, StripIs
<1>5. V \subseteq U
  BY <1>4
<1> HIDE DEF V
<1>6. ASSUME NEW p \in V, NEW q \in Part(t, p), q <= n, NEW r \in V, r <= q
      PROVE  q \in V
  <2>1. p \in U /\ r \in U
    BY <1>5
  <2>2. q \in U
    BY <1>1, <1>6, <2>1
  <2> SUFFICES ASSUME q \notin V PROVE FALSE
    OBVIOUS
  <2>3. q \in S /\ q \notin Strip(t, S)
    BY <2>2 DEF V
  <2>4. t[q].form = "token" /\ Part(t, q) \subseteq S
    BY <1>4, <2>3
  <2>5. p \in 1..Len(t)
    BY <1>1, <1>2, <2>1
  <2>6. Part(t, q) = Part(t, p) /\ t[q].form = t[p].form /\ p \in Part(t, p)
    BY <1>1, <2>5, TextFacts
  <2>7. p \in S /\ p \notin Strip(t, S)
    BY <1>4, <2>4, <2>6
  <2>8. p \in 1..m /\ p \notin m + 1..n
    BY <1>2, <2>7
  <2> QED BY <2>7, <2>8 DEF V
<1>7. V \subseteq 1..n
  BY <1>1, <1>5
<1>8. Solid(t, V, n)
  BY <1>1, <1>6, <1>7 DEF Solid
<1> QED BY <1>8 DEF V

\* The bullet, the name and the parameter of a call.
LEMMA OwnBullet ==
    ASSUME NEW t, IsText(t), NEW p \in 1..Len(t), t[p].form \in CallForm,
           NEW b, b = Start(t, p) + 1
    PROVE  /\ b \in Bullets(t) /\ b \in 1..Len(t) /\ b \in Part(t, p) /\ b <= p
           /\ t[b].form = t[p].form /\ t[b].at = 1 /\ Letter(t, b) = "B"
           /\ Part(t, b) = Part(t, p) /\ TagEnd(t, b) = TagEnd(t, p) /\ End(t, b) = End(t, p)
           /\ CallAt(t, b) = CallAt(t, p) /\ ParamFrom(t, b) = ParamFrom(t, p)
<1>1. b \in Part(t, p)
  BY CallFacts
<1>2. /\ b \in 1..Len(t) /\ t[b].form = t[p].form /\ t[b].at = b - Start(t, p)
      /\ Start(t, b) = Start(t, p) /\ End(t, b) = End(t, p) /\ Part(t, b) = Part(t, p)
      /\ Start(t, p) \in Nat /\ Start(t, p) < p /\ p \in Int
  BY <1>1, TextFacts
<1>3. t[b].at = 1 /\ b <= p
  BY <1>2
<1>4. Letter(t, b) = "B"
  BY <1>1, CallLetterAt
<1>5. TagEnd(t, b) = TagEnd(t, p) /\ CallAt(t, b) = CallAt(t, p)
      /\ ParamFrom(t, b) = ParamFrom(t, p)
  BY <1>2 DEF TagEnd, CallAt, ParamFrom
<1> QED BY <1>1, <1>2, <1>3, <1>4, <1>5 DEF Bullets

\* A bullet is that of a call or a stray one.
LEMMA BulletIs ==
    ASSUME NEW t, IsText(t), NEW p
    PROVE  /\ p \in Bullets(t) => /\ p \in 1..Len(t) /\ t[p].form \in CallForm /\ t[p].at = 1
                                  /\ Letter(t, p) = "B" /\ Start(t, p) + 1 = p
           /\ p \in 1..Len(t) /\ Letter(t, p) = "B" =>
                 \/ (p \in Bullets(t) \/ t[p].form = "bullet") /\ t[p].at = 1
                 \/ t[p].form = "loose" /\ t[p].at = 11
<1>1. ASSUME p \in Bullets(t)
      PROVE  /\ p \in 1..Len(t) /\ t[p].form \in CallForm /\ t[p].at = 1
             /\ Letter(t, p) = "B" /\ Start(t, p) + 1 = p
  <2>1. p \in 1..Len(t) /\ t[p].form \in CallForm /\ t[p].at = 1
    BY <1>1 DEF Bullets
  <2>2. p = Start(t, p) + t[p].at /\ Start(t, p) \in Nat /\ p \in Part(t, p)
    BY <2>1, TextFacts
  <2>3. p = Start(t, p) + 1
    BY <2>1, <2>2
  <2> QED BY <2>1, <2>2, <2>3, CallLetterAt
<1>2. ASSUME p \in 1..Len(t), Letter(t, p) = "B"
      PROVE  \/ (p \in Bullets(t) \/ t[p].form = "bullet") /\ t[p].at = 1
             \/ t[p].form = "loose" /\ t[p].at = 11
  <2> SUFFICES ASSUME ~(t[p].form = "loose" /\ t[p].at = 11)
               PROVE  (p \in Bullets(t) \/ t[p].form = "bullet") /\ t[p].at = 1
    OBVIOUS
  <2>1. p = Start(t, p) + 1 /\ t[p].form \in CallForm \cup {"bullet"}
    BY <1>2, LetterForms
  <2>2. p = Start(t, p) + t[p].at /\ Start(t, p) \in Nat /\ t[p].at \in Int
    BY <1>2, TextFacts
  <2>3. t[p].at = 1
    BY <2>1, <2>2
  <2> QED BY <1>2, <2>1, <2>3 DEF Bullets
<1> QED BY <1>1, <1>2

\* What a call is.
LEMMA CallAtIs ==
    ASSUME NEW t, IsText(t), NEW p \in 1..Len(t), t[p].form \in CallForm,
           NEW g, g = TagEnd(t, p), NEW h, h = ParamFrom(t, p)
    PROVE  /\ CallAt(t, p)[1] = {g - 1}
           /\ t[p].form = "bare" => CallAt(t, p)[2] = {}
           /\ t[p].form # "bare" => CallAt(t, p)[2] = {<<{h + 3}, {h + 5}>>}
           /\ CallAt(t, p) = <<CallAt(t, p)[1], CallAt(t, p)[2]>>
<1> DEFINE of(x) == At(t, Part(t, p), x)
           value == {q \in Part(t, p) : t[q].at = ValueAt(t[p].form)}
<1>1. /\ g \in 1..Len(t) /\ h \in 1..Len(t) /\ Len(t) \in Nat
      /\ Part(t, p) = Start(t, p) + 1..End(t, p)
      /\ Start(t, p) \in Nat /\ End(t, p) \in Int /\ g - 1 \in Part(t, p)
      /\ Start(t, p) + 5 <= g /\ g <= h
      /\ t[p].form # "bare" => End(t, p) = h + 5 \/ End(t, p) = h + 8
  <2>1. Len(t) \in Nat /\ Start(t, p) \in Nat /\ End(t, p) \in Int
    BY TextFacts
  <2>2. /\ g \in 1..Len(t) /\ h \in 1..Len(t) /\ g - 1 \in Part(t, p)
        /\ Start(t, p) + 5 <= g /\ g <= h
    BY CallFacts
  <2>3. t[p].form # "bare" => End(t, p) = h + 5 \/ End(t, p) = h + 8
    BY CallFacts, SMTT(30) DEF CallForm
  <2> QED BY <2>1, <2>2, <2>3 DEF Part
<1>2. \A q \in Part(t, p) : /\ Letter(t, q) = "n" <=> q = g - 1
                            /\ Letter(t, q) = "k" <=> (t[p].form # "bare" /\ q = h + 3)
  BY CallLetterAt
<1>3. of("n") = {g - 1}
  BY <1>1, <1>2 DEF At
<1>4. ASSUME t[p].form # "bare" PROVE of("k") = {h + 3} /\ value = {h + 5}
  <2>1. h + 3 \in Part(t, p) /\ h + 5 \in Part(t, p)
    <3>1. PICK s, e : s = Start(t, p) /\ e = End(t, p)
      OBVIOUS
    <3>2. /\ s \in Int /\ e \in Int /\ h \in Int /\ g \in Int /\ s + 5 <= g /\ g <= h
          /\ e = h + 5 \/ e = h + 8
      BY <1>1, <1>4, <3>1
    <3>3. h + 3 \in s + 1..e /\ h + 5 \in s + 1..e
      BY <3>2
    <3> QED BY <1>1, <3>1, <3>3
  <2>2. /\ \A q \in Part(t, p) : t[q].at = q - Start(t, p)
        /\ \A q \in Part(t, p) : q \in Int
    <3>1. \A q \in Part(t, p) : t[q].at = q - Start(t, p)
      BY TextFacts
    <3>2. \A q \in Part(t, p) : q \in Int
      BY <1>1
    <3> QED BY <3>1, <3>2
  <2>3. ValueAt(t[p].form) = h + 5 - Start(t, p)
    <3> DEFINE s == Start(t, p)
    <3>1. s \in Int /\ h = s + (IF t[p].form = "cut" THEN 5 ELSE 6)
      BY <1>1, <1>4, SMTT(30) DEF ParamFrom, CallForm, WholeForm
    <3> HIDE DEF s
    <3>2. h + 5 - s = IF t[p].form = "cut" THEN 10 ELSE 11
      BY <3>1
    <3> QED BY <3>2 DEF s, ValueAt
  <2>4. \A q \in Part(t, p) : t[q].at = ValueAt(t[p].form) <=> q = h + 5
    <3> DEFINE s == Start(t, p)
    <3>1. s \in Int /\ h \in Int
      BY <1>1
    <3> HIDE DEF s
    <3>2. \A q \in Int : q - s = h + 5 - s <=> q = h + 5
      BY <3>1
    <3>3. \A q \in Part(t, p) : t[q].at = q - s /\ q \in Int
      BY <2>2 DEF s
    <3>4. ValueAt(t[p].form) = h + 5 - s
      BY <2>3 DEF s
    <3> QED BY <3>2, <3>3, <3>4
  <2>5. value = {h + 5}
    BY <2>1, <2>4
  <2>6. of("k") = {h + 3}
    BY <1>2, <1>4, <2>1 DEF At
  <2> QED BY <2>5, <2>6
<1>5. CallAt(t, p) = <<of("n"), IF t[p].form = "bare" THEN {} ELSE {<<of("k"), value>>}>>
  BY DEF CallAt
<1> HIDE DEF of, value
<1>6. CallAt(t, p)[1] = of("n") /\ CallAt(t, p) = <<CallAt(t, p)[1], CallAt(t, p)[2]>>
  BY <1>5
<1>7. CASE t[p].form = "bare"
  <2>1. CallAt(t, p)[2] = {}
    BY <1>5, <1>7
  <2> QED BY <1>3, <1>6, <1>7, <2>1
<1>8. CASE t[p].form # "bare"
  <2>1. CallAt(t, p)[2] = {<<of("k"), value>>}
    BY <1>5, <1>8
  <2> QED BY <1>3, <1>4, <1>6, <1>8, <2>1
<1> QED BY <1>7, <1>8

\* A name belongs to one call.
LEMMA SameName ==
    ASSUME NEW t, IsText(t), NEW p \in 1..Len(t), t[p].form \in CallForm,
           NEW q \in 1..Len(t), t[q].form \in CallForm, CallAt(t, p)[1] = CallAt(t, q)[1]
    PROVE  Part(t, p) = Part(t, q)
<1> DEFINE g == TagEnd(t, p) - 1
           h == TagEnd(t, q) - 1
<1>1. g \in Part(t, p) /\ h \in Part(t, q)
  BY CallFacts
<1>2. CallAt(t, p)[1] = {g} /\ CallAt(t, q)[1] = {h}
  BY CallAtIs
<1>3. g = h
  BY <1>2
<1> QED BY <1>1, <1>3, TextFacts

\* A bullet whose tag is not complete is no reason to give it up.
LEMMA FewLetters ==
    ASSUME NEW t, NEW S, NEW n, Solid(t, S, n), NEW i, IsLeast(i, S),
           t[i].form \in CallForm, t[i].at = 1, i \notin Functions(t, S)
    PROVE  Cardinality(S) <= 5
<1>1. i \in S /\ \A k \in S : i <= k
  BY DEF IsLeast
<1>2. i \in 1..Len(t) /\ IsText(t) /\ n \in Nat /\ i \in Int /\ \A k \in S : k \in Int /\ k <= n
  BY <1>1, SolidPlaces
<1>3. n < TagEnd(t, i)
  <2>1. ~(TagEnd(t, i) <= n)
    BY <1>1, FunctionsAre
  <2>2. TagEnd(t, i) \in Int
    BY <1>2, CallFacts
  <2> QED BY <1>2, <2>1, <2>2
<1>4. TagEnd(t, i) <= i + 5
  <2>1. TagEnd(t, i) \in Int /\ TagEnd(t, i) <= Start(t, i) + 6
    BY <1>2, CallFacts
  <2>2. i = Start(t, i) + t[i].at /\ Start(t, i) \in Int
    BY <1>2, TextFacts
  <2> QED BY <1>2, <2>1, <2>2
<1>5. S \subseteq i..i + 4
  <2>1. TagEnd(t, i) \in Int
    BY <1>2, CallFacts
  <2> QED BY <1>1, <1>2, <1>3, <1>4, <2>1
<1>6. IsFiniteSet(i..i + 4) /\ Cardinality(i..i + 4) = 5
  <2> DEFINE j == i + 4
  <2>1. i \in Int /\ j \in Int /\ ~(i > j) /\ j - i + 1 = 5
    BY <1>2
  <2> HIDE DEF j
  <2>2. IsFiniteSet(i..j) /\ Cardinality(i..j) = 5
    BY <2>1, FS_Interval
  <2> QED BY <2>2 DEF j
<1>7. Cardinality(S) <= Cardinality(i..i + 4)
  BY <1>5, <1>6, FS_Subset
<1> QED BY <1>6, <1>7

------------------------------------------------------------------------------
(* What the invariant says of the positions.                               *)

\* The ranges of the variables.
LEMMA Basics ==
    ASSUME TypeOK, LeftInv
    PROVE  /\ IsText(doc) /\ Len(doc) \in Nat /\ fed \in Nat /\ fed <= Len(doc)
           /\ Solid(doc, buffer, fed) /\ Solid(doc, Unread, Len(doc))
           /\ \A p \in buffer : p \in 1..Len(doc) /\ p \in Int /\ p <= fed /\ p \in Unread
           /\ \A p \in Unread : p \in 1..Len(doc) /\ p \in Int /\ (p <= fed => p \in buffer)
           /\ \A p \in 1..Len(doc) : fed < p => p \in Unread
<1>1. doc \in Document /\ fed \in 0..Len(doc) /\ buffer \subseteq 1..fed
  BY DEF TypeOK, Stretch
<1>2. IsText(doc)
  BY <1>1, DocumentAssumption
<1>3. Len(doc) \in Nat
  BY <1>2 DEF IsText
<1>4. Solid(doc, Unread, Len(doc))
  BY DEF LeftInv
<1>5. Solid(doc, buffer, fed)
  BY <1>1, <1>4, SolidUpTo DEF Unread
<1> QED BY <1>1, <1>2, <1>3, <1>4, <1>5 DEF Unread

\* The steps of the loop take the buffer up to i away.
Cut(i) == i \in 0..fed /\ buffer' = Beyond(buffer, i) /\ UNCHANGED <<doc, fed>>

\* What is left is solid again.
LEMMA CutLeaves ==
    ASSUME TypeOK, LeftInv, NEW i, Cut(i)
    PROVE  /\ \A p : p \in Unread' <=> p \in Unread /\ i < p
           /\ \A p : p \in buffer' <=> p \in buffer /\ i < p
           /\ LeftInv' /\ i \in Int /\ i <= fed
<1>1. /\ Len(doc) \in Nat /\ fed \in Nat /\ fed <= Len(doc)
      /\ Solid(doc, Unread, Len(doc)) /\ \A p \in buffer : p \in Int
  BY Basics
<1>2. i \in 0..fed /\ buffer' = Beyond(buffer, i) /\ doc' = doc /\ fed' = fed
  BY DEF Cut
<1>3. \A p : p \in buffer' <=> p \in buffer /\ i < p
  BY <1>1, <1>2 DEF Beyond
<1>4. \A p \in fed + 1..Len(doc) : i < p
  BY <1>1, <1>2
<1>5. Unread' = Beyond(Unread, i)
  BY <1>1, <1>2, <1>3, <1>4 DEF Unread, Beyond
<1>6. \A p : p \in Unread' <=> p \in Unread /\ i < p
  BY <1>2, <1>3, <1>4 DEF Unread
<1>7. Solid(doc, Unread', Len(doc))
  BY <1>1, <1>2, <1>5, SolidBeyond
<1>8. ASSUME NEW p \in buffer', doc[p].form = "token" PROVE ~(Part(doc, p) \subseteq buffer')
  BY <1>3, <1>8 DEF LeftInv
<1>9. LeftInv'
  BY <1>2, <1>7, <1>8 DEF LeftInv
<1> QED BY <1>1, <1>2, <1>3, <1>6, <1>9

------------------------------------------------------------------------------
(* Types.                                                                  *)

\* At first nothing is fed.
LEMMA InitType == Init => TypeOK
<1> SUFFICES ASSUME Init PROVE TypeOK
  OBVIOUS
<1>1. IsText(doc)
  BY DocumentAssumption DEF Init
<1>2. Len(doc) \in Nat
  BY <1>1 DEF IsText
<1>3. << >> \in Seq(Call)
  OBVIOUS
<1>4. call \in Call
  BY DEF Init, call, Call, Stretch
<1>5. {} \in Stretch
  BY DEF Stretch
<1>6. fed \in 0..Len(doc)
  BY <1>2 DEF Init
<1> QED BY <1>3, <1>4, <1>5, <1>6 DEF Init, TypeOK

\* A step may keep what has been fed, and then the types stay the same.
LEMMA KeepsType ==
    ASSUME TypeOK, UNCHANGED <<doc, fed, cuts>>,
           buffer' \in Stretch, shown' \in Stretch, ordered' \in BOOLEAN,
           state' \in {"text", "function", "parameters"},
           pc' \in {"idle", "feeding", "flushed"},
           name' \in Stretch, params' \subseteq Stretch \X Stretch,
           calls' \in Seq(Call)
    PROVE  TypeOK'
<1>1. Stretch' = Stretch /\ Call' = Call
  BY DEF Stretch, Call
<1>2. call' \in Call
  BY DEF call, Call
<1> QED BY <1>1, <1>2 DEF TypeOK

\* The pieces of the buffer have been fed.
LEMMA Pieces ==
    ASSUME TypeOK
    PROVE  /\ name \in Stretch /\ params \subseteq Stretch \X Stretch
           /\ \A i : {Ahead(buffer, i), Onward(buffer, i), Beyond(buffer, i)} \subseteq Stretch
           /\ \A i, j : {Between(buffer, i, j), Value(buffer, i, j)} \subseteq Stretch
           /\ \A S \in Stretch : shown \cup S \in Stretch
           /\ {} \in Stretch /\ buffer \in Stretch /\ \A i \in buffer : {i} \in Stretch
           /\ Append(calls, call) \in Seq(Call)
<1>1. name \in Stretch /\ params \subseteq Stretch \X Stretch
  BY DEF TypeOK, call, Call
<1>2. buffer \in Stretch /\ shown \in Stretch
  BY DEF TypeOK
<1>3. \A i : {Ahead(buffer, i), Onward(buffer, i), Beyond(buffer, i)} \subseteq Stretch
  BY <1>2 DEF Ahead, Onward, Beyond, Stretch
<1>4. \A i, j : {Between(buffer, i, j), Value(buffer, i, j)} \subseteq Stretch
  BY <1>2 DEF Between, Value, Stretch
<1>5. Append(calls, call) \in Seq(Call)
  BY DEF TypeOK
<1> QED BY <1>1, <1>2, <1>3, <1>4, <1>5 DEF Stretch

\* Each step of the loop.
LEMMA LoopType == TypeOK /\ Loop => TypeOK'
<1> SUFFICES ASSUME TypeOK, Loop PROVE TypeOK'
  OBVIOUS
<1>0. /\ buffer \in Stretch /\ shown \in Stretch /\ ordered \in BOOLEAN
      /\ state \in {"text", "function", "parameters"}
      /\ pc \in {"idle", "feeding", "flushed"}
      /\ name \in Stretch /\ params \subseteq Stretch \X Stretch /\ calls \in Seq(Call)
  BY Pieces DEF TypeOK
<1>1. CASE FindBullet
  <2>1. shown' \in Stretch /\ buffer' \in Stretch /\ ordered' \in BOOLEAN
    BY <1>0, <1>1, Pieces DEF FindBullet, Show
  <2> QED BY <1>0, <1>1, <2>1, KeepsType DEF FindBullet, call
<1>2. CASE ShowText
  <2>1. shown' \in Stretch /\ buffer' \in Stretch /\ ordered' \in BOOLEAN
    BY <1>0, <1>2, Pieces DEF ShowText, Show
  <2> QED BY <1>0, <1>2, <2>1, KeepsType DEF ShowText, call
<1>3. CASE FunctionTag
  <2>1. name' \in Stretch /\ buffer' \in Stretch
    BY <1>3, Pieces DEF FunctionTag
  <2> QED BY <1>0, <1>3, <2>1, KeepsType DEF FunctionTag, ShowNothing
<1>4. CASE WaitForTag
  BY <1>0, <1>4, KeepsType DEF WaitForTag, ShowNothing, call
<1>5. CASE GiveUp
  <2>1. shown' \in Stretch /\ buffer' \in Stretch /\ ordered' \in BOOLEAN
    BY <1>0, <1>5, Pieces DEF GiveUp, Show
  <2> QED BY <1>0, <1>5, <2>1, KeepsType DEF GiveUp, call
<1>6. CASE Parameter
  <2>1. PICK q, e, u, p, v :
           /\ Show(Ahead(buffer, p))
           /\ params' = params \cup {<<Between(buffer, q, e), Value(buffer, e, u)>>}
           /\ buffer' = Beyond(buffer, v)
    BY <1>6 DEF Parameter
  <2>2. shown' \in Stretch /\ buffer' \in Stretch /\ ordered' \in BOOLEAN
    BY <1>0, <2>1, Pieces DEF Show
  <2>3. params' \subseteq Stretch \X Stretch
    BY <1>0, <2>1, Pieces
  <2> QED BY <1>0, <1>6, <2>2, <2>3, KeepsType DEF Parameter
<1>7. CASE NextBullet
  <2>1. shown' \in Stretch /\ buffer' \in Stretch /\ ordered' \in BOOLEAN
    BY <1>0, <1>7, Pieces DEF NextBullet, Show
  <2> QED BY <1>0, <1>7, <2>1, Pieces, KeepsType DEF NextBullet, Emit, call
<1>8. CASE TextAfterCall
  <2>1. shown' \in Stretch /\ buffer' \in Stretch /\ ordered' \in BOOLEAN
    BY <1>0, <1>8, Pieces DEF TextAfterCall, Show
  <2> QED BY <1>0, <1>8, <2>1, Pieces, KeepsType DEF TextAfterCall, Emit, call
<1>9. CASE WaitForMore
  BY <1>0, <1>9, KeepsType DEF WaitForMore, ShowNothing, call
<1> QED BY <1>1, <1>2, <1>3, <1>4, <1>5, <1>6, <1>7, <1>8, <1>9 DEF Loop

\* The next piece.
LEMMA FeedType == ASSUME TypeOK, NEW n, Feed(n) PROVE TypeOK'
<1>1. Len(doc) \in Nat /\ fed \in Nat
  BY DocumentAssumption DEF TypeOK, IsText
<1>2. n \in 1..Len(doc) - fed /\ fed' = fed + n /\ doc' = doc
  BY DEF Feed
<1>3. fed' \in 0..Len(doc) /\ Stretch \subseteq Stretch'
  BY <1>1, <1>2 DEF Stretch
<1>4. buffer' \in Stretch'
  <2>1. buffer \cup fed + 1..fed + n \subseteq 1..fed'
    BY <1>1, <1>2 DEF TypeOK, Stretch
  <2> QED BY <1>2, <2>1 DEF Feed, Strip, Stretch
<1>5. shown' \in Stretch' /\ ordered' \in BOOLEAN
  BY <1>3 DEF TypeOK, Feed, ShowNothing
<1>6. call' \in Call'
  BY <1>3 DEF TypeOK, Feed, call, Call
<1>7. calls' \in Seq(Call')
  <2>1. Call \subseteq Call'
    BY <1>3 DEF Call
  <2>2. calls' = calls /\ calls \in Seq(Call)
    BY DEF Feed, TypeOK
  <2> QED BY <2>1, <2>2
<1>8. torn' \in BOOLEAN /\ parted' \in BOOLEAN /\ crowded' \in BOOLEAN
  BY DEF TypeOK, Feed
<1>9. state' = state /\ pc' = "feeding"
  BY DEF Feed
<1> QED BY <1>2, <1>3, <1>4, <1>5, <1>6, <1>7, <1>8, <1>9 DEF TypeOK

\* The end.
LEMMA FlushType == TypeOK /\ Flush => TypeOK'
<1> SUFFICES ASSUME TypeOK, Flush PROVE TypeOK'
  OBVIOUS
<1>0. /\ buffer \in Stretch /\ shown \in Stretch /\ ordered \in BOOLEAN
      /\ state \in {"text", "function", "parameters"}
      /\ name \in Stretch /\ params \subseteq Stretch \X Stretch /\ calls \in Seq(Call)
      /\ {} \in Stretch
  BY Pieces DEF TypeOK
<1> DEFINE S == Strip(doc, buffer)
<1>1. S \in Stretch
  BY <1>0 DEF Strip, Stretch
<1>2. LastParameter(S) \subseteq Stretch \X Stretch
  BY <1>1 DEF LastParameter, Between, Beyond, Stretch
<1>3. Append(calls, <<name, params \cup LastParameter(S)>>) \in Seq(Call)
  <2>1. <<name, params \cup LastParameter(S)>> \in Call
    BY <1>0, <1>2 DEF Call
  <2> QED BY <1>0, <2>1
<1>4. buffer' \in Stretch /\ state' \in {"text", "function", "parameters"}
      /\ calls' \in Seq(Call)
  BY <1>0, <1>1, <1>3 DEF Flush
<1>5. UNCHANGED <<doc, fed, cuts, shown, ordered, name, params>> /\ pc' = "flushed"
  BY DEF Flush, ShowNothing, call
<1> QED BY <1>0, <1>4, <1>5, KeepsType

\* Every step.
LEMMA NextType == TypeOK /\ [Next]_vars => TypeOK'
<1>1. ASSUME TypeOK, UNCHANGED vars PROVE TypeOK'
  BY <1>1 DEF TypeOK, vars, call, Call, Stretch
<1> QED BY <1>1, LoopType, FeedType, FlushType DEF Next

\* Types: nothing is held, shown or called that has not been fed (feed and flush).
THEOREM TypeCorrect == Spec => []TypeOK
  BY InitType, NextType, PTL DEF Spec

------------------------------------------------------------------------------
(* What the steps of the loop have in common.                              *)

\* No token comes back.
LEMMA CutKeepsTorn ==
    ASSUME TypeOK, LeftInv, TornInv, NEW i, Cut(i), UNCHANGED torn
    PROVE  TornInv'
<1>1. doc' = doc /\ fed' = fed /\ \A p : p \in buffer' => p \in buffer
  BY CutLeaves DEF Cut
<1>2. End(doc, fed)' = End(doc, fed)
  BY <1>1
<1> QED BY <1>1, <1>2 DEF TornInv

\* Nor is a call completed.
LEMMA CutKeepsApart ==
    ASSUME TypeOK, LeftInv, ApartInv, NEW i, Cut(i), UNCHANGED crowded,
           state' = "parameters" => state = "parameters"
    PROVE  ApartInv'
<1>1. doc' = doc /\ fed' = fed /\ \A p : p \in buffer' => p \in buffer
  BY CutLeaves DEF Cut
<1> SUFFICES ASSUME ~crowded,
                    NEW p \in buffer', doc[p].form \in WholeForm /\ Part(doc, p) \subseteq buffer'
             PROVE  /\ state' # "parameters"
                    /\ \A q \in buffer' : q < p /\ q \notin Part(doc, p) =>
                          ~(doc[q].form \in {"bare"} \cup WholeForm /\ q = End(doc, q))
  BY <1>1 DEF ApartInv
<1>2. p \in buffer /\ Part(doc, p) \subseteq buffer
  BY <1>1
<1> QED BY <1>1, <1>2 DEF ApartInv

\* What is cut off is shown or was not prose.
LEMMA CutKeepsShown ==
    ASSUME TypeOK, LeftInv, ShownInv, NEW i, Cut(i), NEW W, Show(W),
           UNCHANGED <<torn, crowded>>, pc # "flushed", pc' # "flushed",
           \A p \in W : p \in buffer /\ p <= i,
           \A p \in buffer :
              (p <= i /\ doc[p].form = "prose" /\ \A q \in Stray : p < q) => p \in W,
           Stray = {} /\ ~torn /\ ~crowded => \A p \in W : doc[p].form = "prose" \/ p \in Blanks
    PROVE  ShownInv'
<1>1. /\ doc' = doc /\ i \in Int /\ Prose' = Prose /\ Stray' = Stray /\ Blanks' = Blanks
      /\ \A p : p \in Unread' <=> p \in Unread /\ i < p
  BY CutLeaves DEF Cut, Prose, Stray, Blanks
<1>2. /\ \A p \in buffer : p \in 1..Len(doc) /\ p \in Int /\ p \in Unread
      /\ \A p \in Unread : p \in Int /\ (p <= fed => p \in buffer)
      /\ i <= fed /\ fed \in Int
  BY Basics, CutLeaves
<1>3. /\ shown' = shown \cup W
      /\ ordered' = (ordered /\ \A p \in shown, q \in W : p < q)
  BY DEF Show
<1>4. ordered'
  BY <1>2, <1>3 DEF ShownInv
<1>5. ASSUME NEW p \in shown', NEW q \in Unread' PROVE p < q
  <2>1. CASE p \in shown
    BY <1>1, <2>1 DEF ShownInv
  <2>2. CASE p \in W
    <3>1. p <= i /\ i < q /\ p \in Int /\ q \in Int
      BY <1>1, <1>2, <2>2
    <3> QED BY <1>1, <3>1
  <2> QED BY <1>3, <2>1, <2>2
<1>6. ASSUME NEW p \in Prose, \A q \in Stray : p < q PROVE p \in shown' \/ p \in Unread'
  <2>1. CASE p \in shown
    BY <1>3, <2>1
  <2>2. CASE p \in Unread /\ i < p
    BY <1>1, <2>2
  <2>3. CASE p \in Unread /\ ~(i < p)
    <3>1. p <= i /\ p <= fed /\ p \in buffer
      BY <1>1, <1>2, <2>3
    <3>2. doc[p].form = "prose"
      BY DEF Prose
    <3> QED BY <1>3, <1>6, <3>1, <3>2
  <2>4. p \in shown \/ p \in Unread
    BY <1>6 DEF ShownInv
  <2> QED BY <2>1, <2>2, <2>3, <2>4
<1>7. ASSUME Stray = {}, ~torn, ~crowded PROVE shown' \subseteq Prose \cup Blanks
  BY <1>2, <1>3, <1>7 DEF ShownInv, Prose
<1> QED BY <1>1, <1>4, <1>5, <1>6, <1>7 DEF ShownInv

\* Showing nothing is showing the empty text.
LEMMA ShownNothing == ASSUME TypeOK, ShowNothing PROVE Show({})
  BY DEF TypeOK, ShowNothing, Show

\* The bullets of the calls that are left are where they were.
LEMMA CutKeepsHead ==
    ASSUME TypeOK, LeftInv, HeadInv, NEW i, Cut(i),
           state' # "function" \/ \E k \in buffer' : IsLeast(k, buffer') /\ Letter(doc, k) = "B",
           \A p \in Unread : (/\ i < p /\ doc[p].form \in CallForm
                              /\ \/ Named(p)
                                 \/ Start(doc, p) + 1 \in Unread /\ Start(doc, p) + 1 <= i)
                             => Named(p)'
    PROVE  HeadInv'
<1>1. /\ doc' = doc /\ i \in Int
      /\ \A p : p \in Unread' <=> p \in Unread /\ i < p
      /\ \A p \in Unread : p \in Int
  BY Basics, CutLeaves DEF Cut
<1>2. ASSUME NEW p \in Unread', doc[p].form \in CallForm
      PROVE  Start(doc, p) + 1 \in Unread' \/ Named(p)'
  <2> DEFINE h == Start(doc, p) + 1
  <2>1. p \in Unread /\ i < p
    BY <1>1
  <2>2. Start(doc, p) + 1 \in Unread \/ Named(p)
    BY <1>2, <2>1 DEF HeadInv
  <2>3. CASE Named(p)
    BY <1>2, <2>1, <2>3
  <2>4. CASE h \in Unread /\ h <= i
    BY <1>2, <2>1, <2>4
  <2>5. CASE h \in Unread /\ ~(h <= i)
    <3> HIDE DEF h
    <3>1. i < h
      BY <1>1, <2>5
    <3>2. h \in Unread'
      BY <1>1, <2>5, <3>1
    <3> QED BY <3>2 DEF h
  <2> QED BY <2>2, <2>3, <2>4, <2>5
<1> QED BY <1>1, <1>2 DEF HeadInv

\* No call is lost while none is detected.
LEMMA CutKeepsCalls ==
    ASSUME TypeOK, LeftInv, CallsInv, NEW i, Cut(i), UNCHANGED <<calls, crowded>>,
           ~crowded => \A b \in Bullets(doc) : Named(b) \/ (b \in buffer /\ b <= i) => Named(b)',
           \/ state' # "parameters"
           \/ state = "parameters" /\ name' = name
           \/ name' \subseteq Unread
    PROVE  CallsInv'
<1>1. /\ doc' = doc /\ i \in Int /\ fed \in Int /\ i <= fed
      /\ \A p : p \in Unread' <=> p \in Unread /\ i < p
      /\ \A p \in Unread : p \in Int /\ (p <= fed => p \in buffer)
  BY Basics, CutLeaves DEF Cut
<1> SUFFICES ASSUME ~crowded PROVE CallsInv'
  BY DEF CallsInv
<1>2. ASSUME NEW b \in Bullets(doc)
      PROVE  b \in Unread' \/ Named(b)' \/ \E n \in 1..Len(calls) : calls[n] = CallAt(doc, b)
  <2>1. CASE Named(b)
    BY <2>1
  <2>2. CASE b \in Unread /\ i < b
    BY <1>1, <2>2
  <2>3. CASE b \in Unread /\ ~(i < b)
    <3>1. b <= i /\ b <= fed /\ b \in buffer
      BY <1>1, <2>3
    <3> QED BY <3>1
  <2> QED BY <2>1, <2>2, <2>3 DEF CallsInv
<1>3. ASSUME NEW n \in 1..Len(calls), NEW p \in calls[n][1]
      PROVE  (\A q \in Unread' : p < q) /\ (state' = "parameters" => \A q \in name' : p < q)
  BY <1>1 DEF CallsInv
<1>4. \A n \in 1..Len(calls) : \E b \in Bullets(doc) : calls[n] = CallAt(doc, b)
  BY DEF CallsInv
<1>5. \A m, n \in 1..Len(calls) : m < n => \A p \in calls[m][1], q \in calls[n][1] : p < q
  BY DEF CallsInv
<1> QED BY <1>1, <1>2, <1>3, <1>4, <1>5 DEF CallsInv

\* The call that was being read is the next one.
LEMMA NextCall ==
    ASSUME TypeOK, LeftInv, CallsInv, NEW i, Cut(i), UNCHANGED crowded, NEW c,
           calls' = Append(calls, c), state' # "parameters",
           NEW b \in Bullets(doc), Named(b), \A q \in Unread : TagEnd(doc, b) < q,
           ~crowded => /\ c = CallAt(doc, b)
                       /\ \A p \in buffer : p <= i => p \notin Bullets(doc)
    PROVE  CallsInv'
<1> SUFFICES ASSUME ~crowded PROVE CallsInv'
  BY DEF CallsInv
<1> DEFINE g == TagEnd(doc, b)
<1>1. /\ doc' = doc /\ i \in Int /\ fed \in Int /\ i <= fed /\ IsText(doc)
      /\ \A p : p \in Unread' <=> p \in Unread /\ i < p
      /\ \A p \in Unread : p \in Int /\ (p <= fed => p \in buffer)
  BY Basics, CutLeaves DEF Cut
<1>2. b \in 1..Len(doc) /\ doc[b].form \in CallForm /\ Start(doc, b) + 1 = b
  BY <1>1, BulletIs
<1>3. g \in Int /\ CallAt(doc, b)[1] = {g - 1} /\ name = {g - 1} /\ c = CallAt(doc, b)
  BY <1>1, <1>2, CallFacts, CallAtIs DEF Named
<1>4. /\ calls \in Seq(Call) /\ Len(calls) \in Nat /\ Len(calls') = Len(calls) + 1
      /\ calls'[Len(calls) + 1] = c /\ \A n \in 1..Len(calls) : calls'[n] = calls[n]
  BY DEF TypeOK
<1> HIDE DEF g
<1>5. ASSUME NEW a \in Bullets(doc)
      PROVE  a \in Unread' \/ \E n \in 1..Len(calls') : calls'[n] = CallAt(doc, a)
  <2>1. CASE a \in Unread /\ i < a
    BY <1>1, <2>1
  <2>2. CASE a \in Unread /\ ~(i < a)
    <3>1. a <= i /\ a <= fed /\ a \in buffer
      BY <1>1, <2>2
    <3> QED BY <3>1
  <2>3. CASE Named(a)
    <3>1. a \in 1..Len(doc) /\ doc[a].form \in CallForm /\ Start(doc, a) + 1 = a
      BY <1>1, BulletIs
    <3>2. Part(doc, a) = Part(doc, b)
      BY <1>1, <1>2, <2>3, <3>1, SameName DEF Named
    <3>3. a \in Part(doc, b) /\ Start(doc, a) = Start(doc, b)
      BY <1>1, <1>2, <3>1, <3>2, TextFacts
    <3>4. a = b
      BY <1>2, <3>1, <3>3
    <3> QED BY <1>3, <1>4, <3>4
  <2>4. CASE \E n \in 1..Len(calls) : calls[n] = CallAt(doc, a)
    BY <1>4, <2>4
  <2> QED BY <2>1, <2>2, <2>3, <2>4 DEF CallsInv
<1>6. ASSUME NEW n \in 1..Len(calls')
      PROVE  \E a \in Bullets(doc) : calls'[n] = CallAt(doc, a)
  <2>1. CASE n = Len(calls) + 1
    BY <1>3, <1>4, <2>1
  <2>2. CASE n \in 1..Len(calls)
    BY <1>4, <2>2 DEF CallsInv
  <2> QED BY <1>4, <2>1, <2>2
<1>7. ASSUME NEW n \in 1..Len(calls'), NEW p \in calls'[n][1], NEW q \in Unread'
      PROVE  p < q
  <2>0. q \in Unread /\ q \in Int /\ g < q
    BY <1>1 DEF g
  <2>1. CASE n = Len(calls) + 1
    <3>1. p = g - 1
      BY <1>3, <1>4, <2>1
    <3> QED BY <1>3, <2>0, <3>1
  <2>2. CASE n \in 1..Len(calls)
    BY <1>4, <2>0, <2>2 DEF CallsInv
  <2> QED BY <1>4, <2>1, <2>2
<1>8. ASSUME NEW m \in 1..Len(calls'), NEW n \in 1..Len(calls'), m < n,
             NEW p \in calls'[m][1], NEW q \in calls'[n][1]
      PROVE  p < q
  <2>1. m \in 1..Len(calls) /\ calls'[m] = calls[m]
    BY <1>4, <1>8
  <2>2. CASE n = Len(calls) + 1
    <3>1. q \in name
      BY <1>3, <1>4, <2>2
    <3> QED BY <2>1, <3>1 DEF CallsInv, Named
  <2>3. CASE n \in 1..Len(calls)
    BY <1>4, <1>8, <2>1, <2>3 DEF CallsInv
  <2> QED BY <1>4, <2>2, <2>3
<1> QED BY <1>1, <1>5, <1>6, <1>7, <1>8 DEF CallsInv

------------------------------------------------------------------------------
(* The steps that show what is in front of a bullet, or everything.        *)

\* A slice up to a position, either way.
LEMMA FrontOf ==
    ASSUME NEW S, NEW i \in Int, \A p \in S : p \in Int
    PROVE  /\ Onward(S, i) = Beyond(S, i - 1)
           /\ \A p : p \in Ahead(S, i) <=> p \in S /\ p <= i - 1
<1>1. \A p \in S : (p >= i <=> p > i - 1) /\ (p < i <=> p <= i - 1)
  OBVIOUS
<1> QED BY <1>1 DEF Onward, Beyond, Ahead

\* Before the first bullet nothing is left of a call but of the one that is being read.
LEMMA NoBulletNoCall ==
    ASSUME TypeOK, LeftInv, HeadInv, NEW i, \A p \in buffer : p <= i => Letter(doc, p) # "B",
           i <= fed, i \in Int
    PROVE  /\ \A p \in Unread : doc[p].form \in CallForm /\ ~Named(p) => i < Start(doc, p) + 1
           /\ \A p \in buffer : p <= i => p \notin Bullets(doc)
<1>1. /\ IsText(doc) /\ fed \in Int
      /\ \A p \in buffer : p \in 1..Len(doc)
      /\ \A p \in Unread : p \in 1..Len(doc) /\ (p <= fed => p \in buffer)
  BY Basics
<1>2. ASSUME NEW p \in Unread, doc[p].form \in CallForm, ~Named(p), NEW h,
             h = Start(doc, p) + 1
      PROVE  i < h
  <2>1. h \in Unread
    BY <1>2 DEF HeadInv
  <2>2. Letter(doc, h) = "B" /\ h \in Int
    BY <1>1, <1>2, OwnBullet
  <2>3. h <= fed => h \in buffer
    BY <1>1, <2>1
  <2> QED BY <1>1, <2>2, <2>3
<1>3. ASSUME NEW p \in buffer, p <= i PROVE p \notin Bullets(doc)
  BY <1>1, <1>3, BulletIs
<1> QED BY <1>2, <1>3

\* In state text, up to the first bullet, and in state parameters when nothing of the
\* call is left.
LEMMA ShowsTheFront ==
    ASSUME TypeOK, LeftInv, HeadInv, TornInv, ShownInv, ApartInv,
           \A p \in Unread : doc[p].form \in CallForm => ~Named(p),
           NEW i, Cut(i), NEW W, Show(W), \A p : p \in W <=> p \in buffer /\ p <= i,
           \A p \in W : Letter(doc, p) # "B",
           UNCHANGED <<torn, crowded>>, pc # "flushed", pc' # "flushed",
           state' # "parameters",
           state' # "function" \/ \E k \in buffer' : IsLeast(k, buffer') /\ Letter(doc, k) = "B"
    PROVE  LeftInv' /\ HeadInv' /\ TornInv' /\ ShownInv' /\ ApartInv'
<1>1. /\ IsText(doc) /\ i \in Int /\ i <= fed
      /\ \A p \in buffer : p \in 1..Len(doc) /\ p \in Unread
  BY Basics, CutLeaves
<1>2. \A p \in Unread : doc[p].form \in CallForm => i < Start(doc, p) + 1
  BY <1>1, NoBulletNoCall
<1>3. HeadInv'
  <2>1. ASSUME NEW p \in Unread, doc[p].form \in CallForm,
               Named(p) \/ (Start(doc, p) + 1 \in Unread /\ Start(doc, p) + 1 <= i)
        PROVE  FALSE
    <3>1. p \in 1..Len(doc)
      BY Basics
    <3>2. Start(doc, p) \in Int
      BY <1>1, <3>1, TextFacts
    <3> QED BY <1>1, <1>2, <2>1, <3>2
  <2> QED BY <2>1, CutKeepsHead
<1>4. ASSUME Stray = {}, ~torn, NEW p \in W PROVE doc[p].form = "prose"
  <2>1. p \in buffer /\ p <= i /\ p \in 1..Len(doc) /\ p \in Unread
    BY <1>1
  <2>2. /\ doc[p].form \in DOMAIN Form /\ p \in Int
        /\ Start(doc, p) + 1 <= p /\ Start(doc, p) \in Int
    BY <1>1, <2>1, TextFacts
  <2>3. doc[p].form # "token"
    BY <1>4, <2>1 DEF TornInv
  <2>4. doc[p].form \notin CallForm
    BY <1>1, <1>2, <2>1, <2>2
  <2>5. doc[p].form \notin StrayForm
    BY <1>4, <2>1 DEF Stray
  <2> QED BY <2>2, <2>3, <2>4, <2>5, FormLengths DEF CallForm, WholeForm, StrayForm
<1>5. ShownInv'
  BY <1>4, CutKeepsShown
<1> QED BY <1>3, <1>5, CutLeaves, CutKeepsTorn, CutKeepsApart

\* No cut comes in front of another piece.
LEMMA KeepsPart == ASSUME PartInv, UNCHANGED <<doc, fed>> PROVE PartInv'
  BY DEF PartInv, Parts

\* The first bullet is not that of a value, unless it is of the parameter being read.
LEMMA NoValueFirst ==
    ASSUME TypeOK, LeftInv, HeadInv, NEW i \in buffer, Letter(doc, i) = "B", ~Named(i),
           \A p \in buffer : Letter(doc, p) = "B" => i <= p
    PROVE  (i \in Bullets(doc) \/ doc[i].form = "bullet") /\ doc[i].at = 1
<1>1. /\ IsText(doc) /\ i \in 1..Len(doc) /\ i \in Int /\ i \in Unread /\ i <= fed
      /\ fed \in Int /\ \A p \in Unread : p \in Int /\ (p <= fed => p \in buffer)
  BY Basics
<1>2. ASSUME doc[i].form = "loose", doc[i].at = 11 PROVE FALSE
  <2> DEFINE b == Start(doc, i) + 1
  <2>1. doc[i].form \in CallForm
    BY <1>2 DEF CallForm, WholeForm
  <2>2. b \in Unread
    BY <1>1, <2>1 DEF HeadInv
  <2>3. Letter(doc, b) = "B" /\ Start(doc, i) \in Int /\ i = Start(doc, i) + 11
    <3>1. Start(doc, i) \in Int /\ i = Start(doc, i) + doc[i].at
      BY <1>1, TextFacts
    <3>2. Letter(doc, b) = "B"
      BY <1>1, <2>1, OwnBullet
    <3> QED BY <1>2, <3>1, <3>2
  <2>4. b < i
    BY <1>1, <2>3
  <2> HIDE DEF b
  <2>5. b \in buffer
    BY <1>1, <2>2, <2>4
  <2>6. i <= b
    BY <2>3, <2>5
  <2> QED BY <1>1, <2>2, <2>4, <2>6
<1> QED BY <1>1, <1>2, BulletIs

\* feed, state text, with a bullet.
LEMMA FindBulletKeeps == WholeInv /\ FindBullet => WholeInv'
<1> SUFFICES ASSUME WholeInv, FindBullet PROVE WholeInv'
  OBVIOUS
<1>0. /\ TypeOK /\ LeftInv /\ HeadInv /\ CurrentInv /\ IdleInv
      /\ TornInv /\ ShownInv /\ ApartInv /\ CallsInv /\ PartInv
  BY DEF WholeInv
<1>1. PICK i \in buffer : /\ IsLeast(i, At(doc, buffer, "B"))
                          /\ Show(Ahead(buffer, i)) /\ buffer' = Onward(buffer, i)
  BY DEF FindBullet
<1>2. /\ state = "text" /\ state' = "function" /\ pc = "feeding" /\ pc' = "feeding"
      /\ UNCHANGED <<doc, fed, call, calls, torn, crowded>>
  BY DEF FindBullet, Reading
<1>3. /\ IsText(doc) /\ fed \in Int /\ i \in Int /\ 1 <= i /\ i <= fed
      /\ \A p \in buffer : p \in Int
  BY <1>0, Basics
<1>4. /\ Letter(doc, i) = "B" /\ \A p \in buffer : Letter(doc, p) = "B" => i <= p
  BY <1>1 DEF IsLeast, At
<1>5. Cut(i - 1)
  <2>1. Onward(buffer, i) = Beyond(buffer, i - 1)
    BY <1>3, FrontOf
  <2> QED BY <1>1, <1>2, <1>3, <2>1 DEF Cut
<1>6. \A p : p \in Ahead(buffer, i) <=> p \in buffer /\ p <= i - 1
  BY <1>3, FrontOf
<1>7. \A p \in Ahead(buffer, i) : Letter(doc, p) # "B"
  BY <1>3, <1>4 DEF Ahead
<1>8. \E k \in buffer' : IsLeast(k, buffer') /\ Letter(doc, k) = "B"
  BY <1>1, <1>3, <1>4 DEF Onward, IsLeast
<1>9. \A p : ~Named(p)
  BY <1>2 DEF Named
<1>10. LeftInv' /\ HeadInv' /\ TornInv' /\ ShownInv' /\ ApartInv'
  BY <1>0, <1>1, <1>2, <1>5, <1>6, <1>7, <1>8, <1>9, ShowsTheFront
<1>11. CallsInv'
  <2>1. \A p \in buffer : p <= i - 1 => p \notin Bullets(doc)
    <3>1. \A p \in buffer : p <= i - 1 => Letter(doc, p) # "B"
      BY <1>3, <1>4
    <3>2. i - 1 \in Int /\ i - 1 <= fed
      BY <1>3
    <3> QED BY <1>0, <3>1, <3>2, NoBulletNoCall
  <2> QED BY <1>0, <1>2, <1>5, <1>9, <2>1, CutKeepsCalls
<1>12. TypeOK'
  BY <1>0, LoopType DEF Loop
<1> QED BY <1>0, <1>2, <1>10, <1>11, <1>12, KeepsPart
       DEF WholeInv, CurrentInv, IdleInv

\* feed, state text, without a bullet.
LEMMA ShowTextKeeps == WholeInv /\ ShowText => WholeInv'
<1> SUFFICES ASSUME WholeInv, ShowText PROVE WholeInv'
  OBVIOUS
<1>0. /\ TypeOK /\ LeftInv /\ HeadInv /\ CurrentInv /\ IdleInv
      /\ TornInv /\ ShownInv /\ ApartInv /\ CallsInv /\ PartInv
  BY DEF WholeInv
<1>2. /\ state = "text" /\ state' = "text" /\ pc = "feeding" /\ pc' = "idle"
      /\ UNCHANGED <<doc, fed, call, calls, torn, crowded>>
      /\ \A p \in buffer : Letter(doc, p) # "B"
  BY DEF ShowText, Reading, At
<1>3. /\ IsText(doc) /\ fed \in Nat /\ Solid(doc, buffer, fed)
      /\ \A p \in buffer : p \in Int /\ p \in 1..Len(doc) /\ 1 <= p /\ p <= fed
  BY <1>0, Basics
<1>4. PICK i : /\ Cut(i) /\ Show({p \in buffer : p <= i})
               /\ \A q \in buffer' : doc[q].form = "token"
  <2>1. CASE \E p \in OpenToken : /\ Ahead(buffer, p) # {}
                                  /\ Show(Ahead(buffer, p)) /\ buffer' = Onward(buffer, p)
    <3>1. PICK p \in OpenToken : Show(Ahead(buffer, p)) /\ buffer' = Onward(buffer, p)
      BY <2>1
    <3>2. /\ p \in Pair(doc, buffer, "<", "|")
          /\ \A k \in Pair(doc, buffer, "|", ">") : k < p
      BY DEF OpenToken
    <3>3. p \in buffer /\ doc[p].form = "token" /\ p = Start(doc, p) + 1
      BY <1>3, <3>2, TokenPairs
    <3>4. p \in Int /\ 1 <= p /\ p <= fed /\ p \in 1..Len(doc)
      BY <1>3, <3>3
    <3>5. Ahead(buffer, p) = {q \in buffer : q <= p - 1}
      BY <1>3, <3>4 DEF Ahead
    <3>6. Onward(buffer, p) = Beyond(buffer, p - 1)
      BY <1>3, <3>4 DEF Onward, Beyond
    <3>7. ASSUME NEW q \in buffer, p <= q PROVE doc[q].form = "token"
      <4>1. q \in Int /\ q \in 1..Len(doc) /\ q <= fed
        BY <1>3
      <4>2. CASE q \in Part(doc, p)
        BY <1>3, <3>3, <3>4, <4>2, TextFacts
      <4>3. CASE q \notin Part(doc, p)
        <5>0. PICK s : s = Start(doc, p)
          OBVIOUS
        <5>1. /\ s \in Nat /\ End(doc, p) = s + 5 /\ Part(doc, p) = s + 1..s + 5
              /\ \A r \in Part(doc, p) : doc[r].form = "token" /\ Start(doc, r) = s
          <6>1. s \in Nat /\ End(doc, p) = s + 5 /\ Part(doc, p) = s + 1..s + 5
            BY <1>3, <3>3, <3>4, <5>0, TokenFacts
          <6>2. \A r \in Part(doc, p) : doc[r].form = "token" /\ Start(doc, r) = s
            BY <1>3, <3>3, <3>4, <5>0, TextFacts
          <6> QED BY <6>1, <6>2
        <5>2. p # q
          BY <1>3, <3>4, <4>3, TextFacts
        <5>3. End(doc, p) < q
          BY <1>3, <3>4, <4>1, <4>3, <5>2, <3>7, PartsApart
        <5>4. /\ s + 4 \in Part(doc, p) /\ s + 5 \in Part(doc, p)
              /\ s + 4 <= fed /\ s + 5 <= fed /\ p <= s + 4 /\ p <= s + 5 /\ p < s + 4
          <6>1. p = s + 1
            BY <3>3, <5>0
          <6>2. s + 4 \in s + 1..s + 5 /\ s + 5 \in s + 1..s + 5
            BY <5>1
          <6>3. s + 4 <= fed /\ s + 5 <= fed
            BY <1>3, <4>1, <5>1, <5>3
          <6> QED BY <5>1, <6>1, <6>2, <6>3
        <5>5. s + 4 \in buffer /\ s + 5 \in buffer
          BY <1>3, <3>3, <5>4, Filled
        <5>6. s + 4 \in Pair(doc, buffer, "|", ">")
          <6>1. s + 4 \in 1..Len(doc)
            BY <1>3, <5>5
          <6>2. doc[s + 4].form = "token" /\ Start(doc, s + 4) = s
            BY <5>1, <5>4
          <6>3. s + 4 + 1 \in buffer
            BY <5>1, <5>5
          <6> QED BY <1>3, <5>5, <6>2, <6>3, TokenPairs
        <5>7. s + 4 < p
          BY <3>2, <5>6
        <5> QED BY <3>4, <5>1, <5>4, <5>7
      <4> QED BY <4>2, <4>3
    <3>8. p - 1 \in 0..fed
      BY <1>3, <3>4
    <3>9. Cut(p - 1)
      BY <1>2, <3>1, <3>6, <3>8 DEF Cut
    <3> QED BY <3>1, <3>5, <3>7, <3>9 DEF Onward
  <2>2. CASE Show(buffer) /\ buffer' = {}
    <3>1. buffer = {p \in buffer : p <= fed} /\ {} = Beyond(buffer, fed)
      BY <1>3 DEF Beyond
    <3>2. Cut(fed)
      BY <1>2, <1>3, <2>2, <3>1 DEF Cut
    <3> QED BY <2>2, <3>1, <3>2
  <2> QED BY <2>1, <2>2 DEF ShowText
<1>5. \A p : ~Named(p)
  BY <1>2 DEF Named
<1>6. LeftInv' /\ HeadInv' /\ TornInv' /\ ShownInv' /\ ApartInv'
  BY <1>0, <1>2, <1>4, <1>5, ShowsTheFront
<1>7. CallsInv'
  <2>1. i \in Int /\ i <= fed
    BY <1>0, <1>4, CutLeaves
  <2>2. \A p \in buffer : p <= i => p \notin Bullets(doc)
    BY <1>0, <1>2, <2>1, NoBulletNoCall
  <2> QED BY <1>0, <1>2, <1>4, <1>5, <2>2, CutKeepsCalls
<1>8. TypeOK'
  BY <1>0, LoopType DEF Loop
<1> QED BY <1>0, <1>2, <1>4, <1>6, <1>7, <1>8, KeepsPart DEF WholeInv, CurrentInv, IdleInv

------------------------------------------------------------------------------
(* The steps at a bullet.                                                  *)

\* feed waits for more.
LEMMA WaitKeeps ==
    ASSUME WholeInv, pc = "feeding", pc' = "idle", IdleInv',
           UNCHANGED <<doc, fed, buffer, state, call, shown, ordered, calls, torn, crowded>>,
           TypeOK'
    PROVE  WholeInv'
<1>1. /\ TypeOK /\ LeftInv /\ HeadInv /\ CurrentInv /\ IdleInv
      /\ TornInv /\ ShownInv /\ ApartInv /\ CallsInv /\ PartInv
  BY DEF WholeInv
<1>2. name' = name /\ params' = params
  BY DEF call
<1>3. Unread' = Unread /\ Prose' = Prose /\ Stray' = Stray
      /\ Blanks' = Blanks
  BY DEF Unread, Prose, Stray, Blanks
<1>4. LeftInv'
  BY <1>1, <1>3 DEF LeftInv
<1>5. HeadInv'
  BY <1>1, <1>2, <1>3 DEF HeadInv, Named
<1>6. CurrentInv'
  BY <1>1, <1>2, <1>3 DEF CurrentInv, Current, Named
<1>7. TornInv'
  BY <1>1 DEF TornInv
<1>8. ShownInv'
  BY <1>1, <1>3 DEF ShownInv
<1>9. ApartInv'
  BY <1>1 DEF ApartInv
<1>10. CallsInv'
  BY <1>1, <1>2, <1>3 DEF CallsInv, Named
<1> QED BY <1>1, <1>4, <1>5, <1>6, <1>7, <1>8, <1>9, <1>10, KeepsPart DEF WholeInv

\* feed, state function, without a complete tag.
LEMMA WaitForTagKeeps == WholeInv /\ WaitForTag => WholeInv'
<1> SUFFICES ASSUME WholeInv, WaitForTag PROVE WholeInv'
  OBVIOUS
<1>1. /\ state = "function" /\ pc = "feeding" /\ pc' = "idle" /\ Functions(doc, buffer) = {}
      /\ UNCHANGED <<doc, fed, buffer, state, call, shown, ordered, calls, torn, crowded>>
  BY DEF WaitForTag, Reading, ShowNothing
<1>2. IdleInv'
  BY <1>1 DEF IdleInv
<1>3. TypeOK'
  BY LoopType DEF Loop, WholeInv
<1> QED BY <1>1, <1>2, <1>3, WaitKeeps

\* feed, state parameters, when more may follow.
LEMMA WaitForMoreKeeps == WholeInv /\ WaitForMore => WholeInv'
<1> SUFFICES ASSUME WholeInv, WaitForMore PROVE WholeInv'
  OBVIOUS
<1>1. /\ state = "parameters" /\ pc = "feeding" /\ pc' = "idle"
      /\ Parameters(doc, buffer) = {} /\ At(doc, buffer, "B") = {} /\ LooksLikeTag
      /\ UNCHANGED <<doc, fed, buffer, state, call, shown, ordered, calls, torn, crowded>>
  BY DEF WaitForMore, NoParameter, Reading, ShowNothing
<1>2. LooksLikeTag'
  BY <1>1 DEF LooksLikeTag
<1>3. IdleInv'
  BY <1>1, <1>2 DEF IdleInv
<1>4. TypeOK'
  BY LoopType DEF Loop, WholeInv
<1> QED BY <1>1, <1>3, <1>4, WaitKeeps

\* The bullet that is given up is none of a call: the buffer is too long for that.
LEMMA GiveUpKeeps == WholeInv /\ GiveUp => WholeInv'
<1> SUFFICES ASSUME WholeInv, GiveUp PROVE WholeInv'
  OBVIOUS
<1>0. /\ TypeOK /\ LeftInv /\ HeadInv /\ CurrentInv /\ IdleInv
      /\ TornInv /\ ShownInv /\ ApartInv /\ CallsInv /\ PartInv
  BY DEF WholeInv
<1>1. PICK i \in buffer : IsLeast(i, buffer) /\ Show({i}) /\ buffer' = Beyond(buffer, i)
  BY DEF GiveUp
<1>2. /\ state = "function" /\ state' = "text" /\ pc = "feeding" /\ pc' = "feeding"
      /\ Functions(doc, buffer) = {} /\ Cardinality(buffer) > MaxTag
      /\ UNCHANGED <<doc, fed, call, calls, torn, crowded>>
  BY DEF GiveUp, Reading
<1>3. /\ IsText(doc) /\ fed \in Nat /\ Solid(doc, buffer, fed)
      /\ \A p \in buffer : p \in Int /\ p \in 1..Len(doc) /\ 1 <= p /\ p <= fed
      /\ \A p \in Unread : p \in 1..Len(doc) /\ (p <= fed => p \in buffer)
  BY <1>0, Basics
<1>4. i \in Int /\ \A p \in buffer : i <= p
  BY <1>1, <1>3 DEF IsLeast
<1>5. Letter(doc, i) = "B"
  <2>1. PICK k \in buffer : IsLeast(k, buffer) /\ Letter(doc, k) = "B"
    BY <1>0, <1>2 DEF HeadInv
  <2>2. k = i
    BY <1>1, <1>3, <2>1 DEF IsLeast
  <2> QED BY <2>1, <2>2
<1>6. doc[i].form = "bullet"
  <2>1. i \in Bullets(doc) \/ doc[i].form = "bullet"
    BY <1>0, <1>2, <1>4, <1>5, NoValueFirst DEF Named
  <2>2. ASSUME i \in Bullets(doc) PROVE FALSE
    <3>1. doc[i].form \in CallForm /\ doc[i].at = 1
      BY <1>3, <2>2, BulletIs
    <3>2. Cardinality(buffer) <= 5
      BY <1>1, <1>2, <1>3, <3>1, FewLetters
    <3>3. Cardinality(buffer) \in Nat
      <4>1. IsFiniteSet(1..fed) /\ buffer \subseteq 1..fed
        BY <1>3, FS_Interval
      <4> QED BY <4>1, FS_Subset, FS_CardinalityType
    <3> QED BY <1>2, <3>2, <3>3, DocumentAssumption
  <2> QED BY <2>1, <2>2
<1>7. Cut(i)
  BY <1>1, <1>2, <1>3 DEF Cut
<1>8. i \in Stray
  BY <1>3, <1>6 DEF Stray, StrayForm
<1>9. /\ i \in buffer /\ i <= i
      /\ \A p \in buffer : p <= i => p = i
  <2>1. ASSUME NEW p \in buffer, p <= i PROVE p = i
    <3>1. p \in Int /\ i <= p
      BY <1>3, <1>4
    <3> QED BY <1>4, <2>1, <3>1
  <2> QED BY <1>1, <1>4, <2>1
<1>10. LeftInv'
  BY <1>0, <1>7, CutLeaves
<1>11. HeadInv'
  <2>1. ASSUME NEW p \in Unread, i < p, doc[p].form \in CallForm,
               Named(p) \/ (Start(doc, p) + 1 \in Unread /\ Start(doc, p) + 1 <= i)
        PROVE  FALSE
    <3> DEFINE h == Start(doc, p) + 1
    <3>1. p \in 1..Len(doc) /\ ~Named(p)
      BY <1>2, <1>3 DEF Named
    <3>2. h \in Int /\ doc[h].form = doc[p].form
      BY <1>3, <2>1, <3>1, OwnBullet
    <3>3. h \in Unread /\ h <= i
      BY <2>1, <3>1
    <3> HIDE DEF h
    <3>4. h \in buffer
      BY <1>3, <1>4, <3>2, <3>3
    <3>5. h = i
      BY <1>9, <3>3, <3>4
    <3> QED BY <1>6, <2>1, <3>2, <3>5 DEF CallForm, WholeForm
  <2> QED BY <1>0, <1>2, <1>7, <2>1, CutKeepsHead
<1>12. ShownInv'
  BY <1>0, <1>1, <1>2, <1>7, <1>8, <1>9, CutKeepsShown
<1>13. CallsInv'
  <2>1. \A b \in Bullets(doc) : ~(Named(b) \/ (b \in buffer /\ b <= i))
    BY <1>2, <1>3, <1>6, <1>9, BulletIs DEF Named, CallForm, WholeForm
  <2> QED BY <1>0, <1>2, <1>7, <2>1, CutKeepsCalls
<1>14. TornInv' /\ ApartInv'
  BY <1>0, <1>2, <1>7, CutKeepsTorn, CutKeepsApart
<1>15. TypeOK'
  BY <1>0, LoopType DEF Loop
<1> QED BY <1>0, <1>2, <1>10, <1>11, <1>12, <1>13, <1>14, <1>15, KeepsPart
       DEF WholeInv, CurrentInv, IdleInv

\* The tag that is found belongs to the first bullet, unless a stray one precedes it.
LEMMA FirstTag ==
    ASSUME TypeOK, LeftInv, HeadInv, state = "function", pc # "flushed",
           NEW i \in Functions(doc, buffer), \A j \in Functions(doc, buffer) : i <= j
    PROVE  /\ \A p \in buffer : p < i => p \notin Bullets(doc)
           /\ (\A p \in buffer : i <= p) \/ \E k \in Stray : \A p \in buffer : k <= p
<1>1. /\ IsText(doc) /\ fed \in Nat /\ Solid(doc, buffer, fed)
      /\ \A p \in buffer : p \in Int /\ p \in 1..Len(doc) /\ 1 <= p /\ p <= fed
  BY Basics
<1>2. i \in buffer /\ doc[i].form \in CallForm /\ doc[i].at = 1 /\ TagEnd(doc, i) <= fed
  BY <1>1, FunctionsAre
<1>3. ASSUME NEW p \in buffer, p < i, p \in Bullets(doc) PROVE FALSE
  <2>1. doc[p].form \in CallForm /\ doc[p].at = 1 /\ Start(doc, p) + 1 = p
    BY <1>1, <1>3, BulletIs
  <2>2. p \in Int /\ i \in Int /\ p \in 1..Len(doc) /\ i \in 1..Len(doc) /\ i <= fed
    BY <1>1, <1>2
  <2>3. i \notin Part(doc, p)
    <3>1. i \in Part(doc, p) => Start(doc, i) = Start(doc, p)
      BY <1>1, <2>2, TextFacts
    <3>2. i = Start(doc, i) + doc[i].at /\ Start(doc, i) \in Int
      BY <1>1, <2>2, TextFacts
    <3> QED BY <1>2, <1>3, <2>1, <2>2, <3>1, <3>2
  <2>4. End(doc, p) < i
    BY <1>1, <1>3, <2>2, <2>3, PartsApart
  <2>5. TagEnd(doc, p) <= End(doc, p) /\ TagEnd(doc, p) \in Int
    BY <1>1, <2>1, <2>2, CallFacts
  <2>6. End(doc, p) \in Int
    BY <1>1, <2>2, TextFacts
  <2>7. TagEnd(doc, p) <= fed
    BY <1>1, <2>2, <2>4, <2>5, <2>6
  <2>8. p \in Functions(doc, buffer)
    BY <1>1, <2>1, <2>7, FunctionsAre
  <2>9. i <= p
    BY <2>8
  <2> QED BY <1>3, <2>2, <2>9
<1>4. PICK k \in buffer : IsLeast(k, buffer) /\ Letter(doc, k) = "B"
  BY DEF HeadInv
<1>5. k \in 1..Len(doc) /\ k \in Int /\ i \in Int /\ k <= i /\ \A p \in buffer : k <= p
  BY <1>1, <1>2, <1>4 DEF IsLeast
<1>6. CASE k \in Bullets(doc)
  <2>1. k = i
    BY <1>3, <1>5, <1>6
  <2> QED BY <1>3, <1>5, <2>1
<1>7. CASE k \notin Bullets(doc)
  <2>1. k \in Stray
    BY <1>4, <1>5, <1>7, NoValueFirst DEF Named, Stray, StrayForm
  <2> QED BY <1>3, <1>5, <2>1
<1> QED BY <1>6, <1>7

\* feed, state function, with a complete tag.
LEMMA FunctionTagKeeps == WholeInv /\ FunctionTag => WholeInv'
<1> SUFFICES ASSUME WholeInv, FunctionTag PROVE WholeInv'
  OBVIOUS
<1>0. /\ TypeOK /\ LeftInv /\ HeadInv /\ CurrentInv /\ IdleInv
      /\ TornInv /\ ShownInv /\ ApartInv /\ CallsInv /\ PartInv
  BY DEF WholeInv
<1>1. PICK i \in Functions(doc, buffer), q \in Word(doc, buffer, "F") :
         /\ \A j \in Functions(doc, buffer) : i <= j
         /\ Leads(doc, buffer, i, q)
         /\ \E e \in Close(doc, buffer, q) :
               name' = Between(buffer, q, e) /\ buffer' = Beyond(buffer, e)
  BY DEF FunctionTag
<1>2. /\ state = "function" /\ state' = "parameters" /\ pc = "feeding" /\ pc' = "feeding"
      /\ params' = {} /\ ShowNothing
      /\ UNCHANGED <<doc, fed, calls, torn, crowded>>
  BY DEF FunctionTag, Reading
<1>3. /\ IsText(doc) /\ fed \in Nat /\ Solid(doc, buffer, fed) /\ Solid(doc, Unread, Len(doc))
      /\ \A p \in buffer : p \in Int /\ p \in 1..Len(doc) /\ 1 <= p /\ p <= fed
      /\ \A p \in Unread : p \in Int /\ p \in 1..Len(doc) /\ (p <= fed => p \in buffer)
      /\ \A p \in 1..Len(doc) : fed < p => p \in Unread
      /\ \A p \in buffer : p \in Unread
  BY <1>0, Basics
<1>4. PICK g : g = TagEnd(doc, i)
  OBVIOUS
<1>5. i \in buffer /\ doc[i].form \in CallForm /\ doc[i].at = 1 /\ g <= fed
  BY <1>3, <1>4, FunctionsAre
<1>6. /\ i \in Int /\ i \in 1..Len(doc) /\ i <= fed /\ i \in Part(doc, i)
      /\ Letter(doc, i) = "B" /\ Start(doc, i) + 1 = i /\ i \in Bullets(doc)
  <2>1. i \in 1..Len(doc) /\ i <= fed /\ i \in Int
    BY <1>3, <1>5
  <2>2. i = Start(doc, i) + doc[i].at /\ Start(doc, i) \in Int /\ i \in Part(doc, i)
    BY <1>3, <2>1, TextFacts
  <2>3. Start(doc, i) + 1 = i
    BY <1>5, <2>2
  <2> QED BY <1>3, <1>5, <2>1, <2>2, <2>3, OwnBullet
<1>7. /\ g \in Int /\ i + 4 <= g /\ g <= i + 5 /\ g - 1 \in Part(doc, i) /\ g \in Part(doc, i)
      /\ g <= End(doc, i) /\ End(doc, i) \in Int
      /\ doc[i].form = "bare" => End(doc, i) = g
      /\ doc[i].form = "cut" => End(doc, i) = Len(doc)
  <2>1. End(doc, i) \in Int /\ Start(doc, i) \in Int
    BY <1>3, <1>6, TextFacts
  <2>2. /\ g \in Int /\ Start(doc, i) + 5 <= g /\ g <= Start(doc, i) + 6
        /\ g - 1 \in Part(doc, i) /\ g \in Part(doc, i)
        /\ g <= End(doc, i)
        /\ doc[i].form = "bare" => End(doc, i) = g
        /\ doc[i].form = "cut" => End(doc, i) = Len(doc)
    BY <1>3, <1>4, <1>5, <1>6, CallFacts
  <2>3. Start(doc, i) = i - 1
    BY <1>6, <2>1
  <2>4. i + 4 <= g /\ g <= i + 5
    BY <1>6, <2>2, <2>3
  <2> QED BY <2>1, <2>2, <2>4
<1>8. q \in buffer /\ Letter(doc, q) = "F" /\ q = g - 2
  <2>1. q \in buffer /\ Letter(doc, q) = "F"
    BY <1>3, Words
  <2> QED BY <1>1, <1>3, <1>4, <1>5, <1>6, <2>1, LeadsToOwn
<1>9. name' = {g - 1} /\ buffer' = Beyond(buffer, g)
  <2>1. Close(doc, buffer, q) = {q + 2} /\ Between(buffer, q, q + 2) = {q + 1}
    BY <1>3, <1>5, <1>7, <1>8, Closes
  <2>2. q + 2 = g /\ q + 1 = g - 1
    BY <1>7, <1>8
  <2> QED BY <1>1, <2>1, <2>2
<1>10. Cut(g)
  BY <1>2, <1>3, <1>5, <1>6, <1>7, <1>9 DEF Cut
<1>11. \A p : p \in Unread' <=> p \in Unread /\ g < p
  BY <1>0, <1>10, CutLeaves
<1>12. ASSUME NEW p \in 1..Len(doc), Part(doc, p) = Part(doc, i), doc[p].form \in CallForm
       PROVE  Named(p)'
  <2>1. i \in Part(doc, p)
    BY <1>6, <1>12
  <2>2. TagEnd(doc, p) = g
    BY <1>3, <1>4, <1>12, <2>1, CallFacts
  <2>3. CallAt(doc, p)[1] = {g - 1}
    BY <1>3, <1>12, <2>2, CallAtIs
  <2> QED BY <1>2, <1>9, <2>3 DEF Named
<1>13. ASSUME NEW p \in 1..Len(doc), i < p, p \notin Part(doc, i)
       PROVE  End(doc, i) < p /\ End(doc, i) <= Start(doc, p) /\ g < Start(doc, p) + 1
  <2>1. End(doc, i) < p /\ End(doc, i) <= Start(doc, p)
    BY <1>3, <1>6, <1>13, PartsApart
  <2>2. Start(doc, p) \in Int
    BY <1>3, TextFacts
  <2> QED BY <1>7, <2>1, <2>2
<1>14. HeadInv'
  <2>1. ASSUME NEW p \in Unread, g < p, doc[p].form \in CallForm,
               Named(p) \/ (Start(doc, p) + 1 \in Unread /\ Start(doc, p) + 1 <= g)
        PROVE  Named(p)'
    <3>1. p \in 1..Len(doc) /\ p \in Int /\ i < p
      BY <1>3, <1>6, <1>7, <2>1
    <3>2. ~Named(p) /\ Start(doc, p) + 1 <= g
      BY <1>2, <2>1 DEF Named
    <3>3. p \in Part(doc, i)
      <4>1. Start(doc, p) \in Int
        BY <1>3, <3>1, TextFacts
      <4> QED BY <1>7, <1>13, <3>1, <3>2, <4>1
    <3>4. Part(doc, p) = Part(doc, i)
      BY <1>3, <1>6, <3>3, TextFacts
    <3> QED BY <1>12, <2>1, <3>1, <3>4
  <2> QED BY <1>0, <1>2, <1>10, <2>1, CutKeepsHead
<1>15. CurrentInv'
  <2>1. Named(i)'
    BY <1>5, <1>6, <1>12
  <2>2. TagEnd(doc', i) = g /\ Part(doc, i)' = Part(doc, i)
    BY <1>2, <1>4
  <2>3. \A p \in Unread' : TagEnd(doc', i) < p
    BY <1>11, <2>2
  <2>4. CASE doc[i].form = "bare"
    <3>1. \A p \in Part(doc, i) : p <= g
      <4>1. \A p \in Part(doc, i) : p \in 1..Len(doc) /\ End(doc, p) = End(doc, i)
        BY <1>3, <1>6, TextFacts
      <4>2. \A p \in Part(doc, i) : p <= End(doc, p)
        BY <1>3, <4>1, TextFacts
      <4> QED BY <1>7, <2>4, <4>1, <4>2
    <3>2. \A p \in Part(doc, i) : p \notin Unread'
      <4>1. \A p \in Unread' : p \in Int /\ g < p
        BY <1>3, <1>11
      <4> QED BY <1>7, <3>1, <4>1
    <3>3. call' = CallAt(doc, i)
      <4>1. CallAt(doc, i) = <<{g - 1}, {}>>
        BY <1>3, <1>4, <1>5, <1>6, <2>4, CallAtIs
      <4> QED BY <1>2, <1>9, <4>1 DEF call
    <3>4. Current(i)'
      BY <1>2, <2>1, <2>2, <2>3, <3>2, <3>3 DEF Current
    <3> QED BY <1>2, <1>6, <3>4 DEF CurrentInv
  <2>5. CASE doc[i].form # "bare"
    <3>1. ASSUME NEW p \in Part(doc, i), g < p PROVE p \in Unread'
      <4>1. p \in 1..Len(doc) /\ p \in Int
        BY <1>3, <1>6, TextFacts
      <4>2. CASE p <= fed
        <5>1. i <= p
          BY <1>6, <1>7, <3>1, <4>1
        <5>2. p \in buffer
          BY <1>3, <1>5, <4>2, <5>1, Filled
        <5> QED BY <1>3, <1>11, <3>1, <5>2
      <4>3. CASE fed < p
        BY <1>3, <1>11, <3>1, <4>1, <4>3
      <4> QED BY <1>3, <4>1, <4>2, <4>3
    <3>2. Current(i)'
      BY <1>2, <2>1, <2>2, <2>3, <2>5, <3>1 DEF Current
    <3> QED BY <1>2, <1>6, <3>2 DEF CurrentInv
  <2> QED BY <2>4, <2>5
<1>16. ShownInv'
  <2>1. ASSUME NEW p \in buffer, p <= g, doc[p].form = "prose", \A k \in Stray : p < k
        PROVE  FALSE
    <3>1. p \in 1..Len(doc) /\ p \in Int
      BY <1>3
    <3>2. i <= p
      <4>1. CASE \E k \in Stray : \A r \in buffer : k <= r
        <5>1. PICK k \in Stray : k <= p
          BY <4>1
        <5>2. k \in Int /\ p < k
          BY <2>1 DEF Stray
        <5> QED BY <3>1, <5>1, <5>2
      <4> QED BY <1>0, <1>1, <1>2, <4>1, FirstTag
    <3>3. p \in Part(doc, i)
      <4>1. p # i
        BY <1>5, <2>1 DEF CallForm, WholeForm
      <4>2. i < p
        BY <1>6, <3>1, <3>2, <4>1
      <4>3. p \notin Part(doc, i) => End(doc, i) < p
        BY <1>13, <3>1, <4>2
      <4> QED BY <1>7, <2>1, <3>1, <4>3
    <3>4. doc[p].form = doc[i].form
      BY <1>3, <1>6, <3>3, TextFacts
    <3> QED BY <1>5, <2>1, <3>4 DEF CallForm, WholeForm
  <2>2. Show({})
    BY <1>0, <1>2, ShownNothing
  <2> QED BY <1>0, <1>2, <1>10, <2>1, <2>2, CutKeepsShown
<1>17. ApartInv'
  <2> SUFFICES ASSUME ~crowded, NEW p \in buffer', doc[p].form \in WholeForm,
                      Part(doc, p) \subseteq buffer'
               PROVE  FALSE
    BY <1>2 DEF ApartInv
  <2>1. \A r \in buffer' : r \in buffer /\ g < r
    BY <1>9 DEF Beyond
  <2>2. p \in Int /\ p \in 1..Len(doc) /\ p <= fed /\ g < p /\ i < p /\ p \in buffer
    BY <1>3, <1>6, <1>7, <2>1
  <2>3. i \notin Part(doc, p)
    <3>1. i \in Part(doc, p) => g < i
      BY <2>1
    <3> QED BY <1>6, <1>7, <3>1
  <2>4. \A r \in 1..Len(doc) : Part(doc, r) = Part(doc, i) => r \notin Part(doc, p)
    BY <1>3, <1>6, <2>2, <2>3, TextFacts
  <2>5. p \notin Part(doc, i)
    <3>1. p \in Part(doc, i) => Part(doc, p) = Part(doc, i)
      BY <1>3, <1>6, TextFacts
    <3> QED BY <1>6, <2>3, <3>1
  <2>6. End(doc, i) < p
    BY <1>13, <2>2, <2>5
  <2> DEFINE z == End(doc, i)
  <2>7. /\ z \in Part(doc, i) /\ z \in 1..Len(doc) /\ doc[z].form = doc[i].form
        /\ Part(doc, z) = Part(doc, i) /\ End(doc, z) = z
    <3>1. z = Start(doc, i) + Len(Form[doc[i].form]) /\ Start(doc, i) \in Nat
          /\ doc[i].form \in DOMAIN Form
      BY <1>3, <1>6, TextFacts
    <3>2. Len(Form[doc[i].form]) \in 1..14
      BY <3>1, Lengths
    <3>3. z \in Start(doc, i) + 1..z
      <4>1. PICK s, o : s = Start(doc, i) /\ o = Len(Form[doc[i].form])
        OBVIOUS
      <4>2. s \in Int /\ o \in 1..14 /\ z = s + o
        BY <3>1, <3>2, <4>1
      <4>3. z \in s + 1..z
        BY <4>2, Ends
      <4> QED BY <4>1, <4>3
    <3>4. z \in Part(doc, i)
      BY <3>3 DEF Part
    <3> QED BY <1>3, <1>6, <3>4, TextFacts
  <2> HIDE DEF z
  <2>8. z \in buffer
    <3>1. z \in Part(doc, i) /\ z <= fed /\ i <= z
      BY <1>3, <1>6, <1>7, <2>2, <2>6, <2>7 DEF z
    <3> QED BY <1>3, <1>5, <3>1, Filled
  <2>9. z \notin Part(doc, p)
    BY <2>4, <2>7
  <2>10. doc[z].form \in {"bare"} \cup WholeForm
    <3>1. doc[i].form # "cut"
      <4>1. p <= Len(doc) /\ Len(doc) \in Int
        BY <1>3, <2>2 DEF IsText
      <4> QED BY <1>7, <2>2, <2>6, <4>1
    <3> QED BY <1>5, <2>7, <3>1 DEF CallForm, WholeForm
  <2>11. Part(doc, p) \subseteq buffer
    BY <2>1
  <2> QED BY <1>0, <2>2, <2>6, <2>7, <2>8, <2>9, <2>10, <2>11 DEF ApartInv, z
<1>18. CallsInv'
  <2>1. ASSUME NEW b \in Bullets(doc), Named(b) \/ (b \in buffer /\ b <= g) PROVE Named(b)'
    <3>1. b \in buffer /\ b <= g
      BY <1>2, <2>1 DEF Named
    <3>2. b \in Int /\ b \in 1..Len(doc) /\ doc[b].form \in CallForm /\ Start(doc, b) + 1 = b
      BY <1>3, <3>1, BulletIs
    <3>3. i <= b
      <4>1. ~(b < i)
        BY <1>0, <1>1, <1>2, <3>1, FirstTag
      <4> QED BY <1>6, <3>2, <4>1
    <3>4. CASE b \in Part(doc, i)
      <4>1. Part(doc, b) = Part(doc, i)
        BY <1>3, <1>6, <3>4, TextFacts
      <4> QED BY <1>12, <3>2, <4>1
    <3>5. CASE b \notin Part(doc, i)
      <4>1. b # i
        BY <1>6, <3>5
      <4>2. i < b
        BY <1>6, <3>2, <3>3, <4>1
      <4>3. g < b
        BY <1>13, <3>2, <3>5, <4>2
      <4> QED BY <1>7, <3>1, <3>2, <4>3
    <3> QED BY <3>4, <3>5
  <2>2. name' \subseteq Unread
    <3>1. g - 1 \in buffer
      <4>1. g - 1 <= fed /\ i <= g - 1
        BY <1>3, <1>5, <1>6, <1>7
      <4> QED BY <1>3, <1>5, <1>7, <4>1, Filled
    <3> QED BY <1>3, <1>9, <3>1
  <2> QED BY <1>0, <1>2, <1>10, <2>1, <2>2, CutKeepsCalls
<1>19. LeftInv' /\ TornInv'
  BY <1>0, <1>2, <1>10, CutLeaves, CutKeepsTorn
<1>20. TypeOK'
  BY <1>0, LoopType DEF Loop
<1> QED BY <1>0, <1>2, <1>14, <1>15, <1>16, <1>17, <1>18,
           <1>19, <1>20, KeepsPart
     DEF WholeInv, IdleInv

------------------------------------------------------------------------------
(* The steps after the tag of a call.                                      *)

\* What is left of the call that is being read.
LEMMA CurrentCall ==
    ASSUME TypeOK, LeftInv, CurrentInv, state = "parameters"
    PROVE  \E b \in Bullets(doc) : \E g \in Int :
              /\ Current(b) /\ g = TagEnd(doc, b) /\ b \in 1..Len(doc) /\ b \in Int
              /\ doc[b].form \in CallForm /\ b + 4 <= g /\ Start(doc, b) + 1 = b
              /\ name = {g - 1} /\ CallAt(doc, b)[1] = name
              /\ \A q \in Unread :
                    g < q /\ (Named(q) /\ doc[q].form \in CallForm => q \in Part(doc, b))
              /\ \A q \in Unread : q \in Part(doc, b) => params = {} /\ doc[b].form # "bare"
<1>1. PICK b \in Bullets(doc) : Current(b)
  BY DEF CurrentInv
<1>2. IsText(doc) /\ \A q \in Unread : q \in 1..Len(doc)
  BY Basics
<1>3. b \in 1..Len(doc) /\ doc[b].form \in CallForm /\ Start(doc, b) + 1 = b
  BY <1>2, BulletIs
<1>4. PICK g : g = TagEnd(doc, b)
  OBVIOUS
<1>5. g \in 1..Len(doc) /\ Start(doc, b) + 5 <= g
  BY <1>2, <1>3, <1>4, CallFacts
<1>6. Start(doc, b) \in Int
  BY <1>2, <1>3, TextFacts
<1>7. name = CallAt(doc, b)[1]
  BY <1>1 DEF Current, Named
<1>8. CallAt(doc, b)[1] = {g - 1}
  BY <1>2, <1>3, <1>4, CallAtIs
<1>9. ASSUME NEW q \in Unread, Named(q), doc[q].form \in CallForm PROVE q \in Part(doc, b)
  <2>1. CallAt(doc, q)[1] = CallAt(doc, b)[1]
    BY <1>7, <1>9 DEF Named
  <2>2. Part(doc, q) = Part(doc, b)
    BY <1>2, <1>3, <1>9, <2>1, SameName
  <2> QED BY <1>2, <2>2, TextFacts
<1>10. \A q \in Unread : q \in Part(doc, b) => params = {} /\ doc[b].form # "bare"
  BY <1>1 DEF Current
<1>11. \A q \in Unread : g < q
  BY <1>1, <1>4 DEF Current
<1>12. b + 4 <= g /\ g \in Int /\ b \in Int
  BY <1>3, <1>5, <1>6
<1> QED BY <1>1, <1>3, <1>4, <1>7, <1>8, <1>9, <1>10, <1>11, <1>12

\* If anything of the call is left, all of its parameter is.
LEMMA WholeParameter ==
    ASSUME TypeOK, LeftInv, NEW b \in Bullets(doc), Current(b), NEW g, g = TagEnd(doc, b),
           NEW h, h = ParamFrom(doc, b), NEW p \in Unread, p \in Part(doc, b)
    PROVE  /\ doc[b].form \in {"cut"} \cup WholeForm
           /\ g \in Int /\ h \in Int /\ h = g + (IF doc[b].form = "loose" THEN 1 ELSE 0)
           /\ doc[b].form = "loose" => h = Start(doc, b) + 6 /\ Letter(doc, h) = "S"
           /\ \A k \in Int : g < k /\ k <= End(doc, b) => k \in Unread /\ k \in Part(doc, b)
           /\ doc[b].form \in WholeForm => End(doc, b) = h + 8
           /\ doc[b].form = "cut" => End(doc, b) = h + 5 /\ End(doc, b) = Len(doc)
           /\ Letter(doc, h + 1) = "<" /\ Letter(doc, h + 2) = "Q" /\ h + 5 <= End(doc, b)
<1>1. IsText(doc)
  BY Basics
<1>2. b \in 1..Len(doc) /\ doc[b].form \in CallForm /\ Start(doc, b) + 1 = b
  BY <1>1, BulletIs
<1>3. /\ doc[b].form # "bare"
      /\ \A q \in Part(doc, b) : g < q => q \in Unread
  BY DEF Current
<1>4. doc[b].form \in {"cut"} \cup WholeForm
  BY <1>2, <1>3 DEF CallForm
<1>5. /\ g \in 1..Len(doc) /\ Start(doc, b) + 5 <= g /\ h \in 1..Len(doc)
      /\ h \in Part(doc, b)
      /\ doc[b].form # "loose" => h = g
      /\ doc[b].form = "loose" => h = g + 1 /\ g = Start(doc, b) + 5
      /\ doc[b].form = "cut" => End(doc, b) = h + 5 /\ End(doc, b) = Len(doc)
      /\ doc[b].form \in WholeForm => End(doc, b) = h + 8
  BY <1>1, <1>2, CallFacts
<1>6. Start(doc, b) \in Int /\ End(doc, b) \in Int
  BY <1>1, <1>2, TextFacts
<1>7. ASSUME NEW k \in Int, g < k, k <= End(doc, b) PROVE k \in Unread /\ k \in Part(doc, b)
  <2>1. k \in Part(doc, b)
    BY <1>5, <1>6, <1>7 DEF Part
  <2> QED BY <1>3, <1>7, <2>1
<1>8. g \in Int /\ h \in Int /\ g <= h /\ h + 5 <= End(doc, b)
  BY <1>4, <1>5
<1>9. h + 1 \in Part(doc, b) /\ h + 2 \in Part(doc, b)
  BY <1>6, <1>7, <1>8
<1>10. Letter(doc, h + 1) = "<" /\ Letter(doc, h + 2) = "Q"
  BY <1>1, <1>2, <1>3, <1>9, CallLetterAt
<1>11. doc[b].form = "loose" => Letter(doc, h) = "S"
  BY <1>1, <1>2, <1>5, CallLetterAt
<1>12. /\ h = g + (IF doc[b].form = "loose" THEN 1 ELSE 0)
       /\ doc[b].form = "loose" => h = Start(doc, b) + 6
  BY <1>5, <1>6, <1>8
<1> QED BY <1>4, <1>5, <1>7, <1>8, <1>10, <1>11, <1>12

\* When no parameter is complete, a call of which there is anything left is cut short.
LEMMA NothingLeft ==
    ASSUME TypeOK, LeftInv, NEW b \in Bullets(doc), Current(b),
           Parameters(doc, buffer) = {}, NEW p \in Unread, p \in Part(doc, b)
    PROVE  fed < End(doc, b) \/ (doc[b].form = "cut" /\ End(doc, b) = Len(doc))
<1>1. PICK g, h : g = TagEnd(doc, b) /\ h = ParamFrom(doc, b)
  OBVIOUS
<1> SUFFICES ASSUME ~(fed < End(doc, b)), doc[b].form # "cut" PROVE FALSE
  BY <1>1, WholeParameter
<1>2. /\ doc[b].form \in WholeForm /\ g \in Int /\ h \in Int /\ g <= h
      /\ End(doc, b) = h + 8 /\ Letter(doc, h + 2) = "Q"
      /\ \A k \in Int : g < k /\ k <= End(doc, b) => k \in Unread /\ k \in Part(doc, b)
  <2>1. /\ doc[b].form \in WholeForm /\ g \in Int /\ h \in Int
        /\ h = g + (IF doc[b].form = "loose" THEN 1 ELSE 0)
        /\ End(doc, b) = h + 8 /\ Letter(doc, h + 2) = "Q"
        /\ \A k \in Int : g < k /\ k <= End(doc, b) => k \in Unread /\ k \in Part(doc, b)
    BY <1>1, WholeParameter
  <2>2. g <= h
    BY <2>1
  <2> QED BY <2>1, <2>2
<1>3. /\ IsText(doc) /\ fed \in Int /\ Solid(doc, buffer, fed)
      /\ \A k \in Unread : k <= fed => k \in buffer
  BY Basics
<1>4. End(doc, b) <= fed
  BY <1>2, <1>3
<1>5. h + 1 \in Unread /\ h + 2 \in Unread /\ h + 2 \in Part(doc, b)
  <2>1. g < h + 1 /\ h + 1 <= End(doc, b) /\ g < h + 2 /\ h + 2 <= End(doc, b)
        /\ h + 1 \in Int /\ h + 2 \in Int
    BY <1>2
  <2> QED BY <1>2, <2>1
<1>6. h + 1 \in buffer /\ h + 2 \in buffer
  <2>1. h + 1 <= fed /\ h + 2 <= fed
    BY <1>2, <1>3, <1>4
  <2> QED BY <1>3, <1>5, <2>1
<1>7. doc[h + 2].form \in WholeForm /\ End(doc, h + 2) = End(doc, b)
  <2>1. b \in 1..Len(doc)
    BY <1>3, BulletIs
  <2> QED BY <1>2, <1>3, <1>5, <2>1, TextFacts
<1>8. (h + 2) - 1 = h + 1
  BY <1>2
<1>9. h + 2 \in Parameters(doc, buffer)
  BY <1>2, <1>3, <1>4, <1>6, <1>7, <1>8, ParametersAre
<1> QED BY <1>9

\* Another bullet, or text that is no tag: the call is complete.
LEMMA CallEnds ==
    ASSUME WholeInv, state = "parameters", state' = "text", pc = "feeding", pc' = "feeding",
           UNCHANGED <<doc, fed, call, torn, crowded>>, Emit,
           NEW i, Cut(i), NEW W, Show(W), \A p : p \in W <=> p \in buffer /\ p <= i,
           \A p \in W : Letter(doc, p) # "B", TypeOK',
           \A b \in Bullets(doc) : Current(b) => \A p \in Unread : p \notin Part(doc, b)
    PROVE  WholeInv'
<1>0. /\ TypeOK /\ LeftInv /\ HeadInv /\ CurrentInv /\ IdleInv
      /\ TornInv /\ ShownInv /\ ApartInv /\ CallsInv /\ PartInv
  BY DEF WholeInv
<1>1. PICK b \in Bullets(doc) :
         /\ Current(b)
         /\ \A q \in Unread : Named(q) /\ doc[q].form \in CallForm => q \in Part(doc, b)
  BY <1>0, CurrentCall
<1>2. \A p \in Unread : doc[p].form \in CallForm => ~Named(p)
  BY <1>1
<1>3. LeftInv' /\ HeadInv' /\ TornInv' /\ ShownInv' /\ ApartInv'
  BY <1>0, <1>2, ShowsTheFront
<1>4. CallsInv'
  <2>1. i \in Int /\ i <= fed
    BY <1>0, CutLeaves
  <2>2. \A p \in buffer : p <= i => p \notin Bullets(doc)
    BY <1>0, <2>1, NoBulletNoCall
  <2>3. b \in Part(doc, b)
    <3>1. IsText(doc)
      BY <1>0, Basics
    <3> QED BY <3>1, BulletIs, TextFacts
  <2>4. Named(b) /\ (\A q \in Unread : TagEnd(doc, b) < q) /\ (~crowded => call = CallAt(doc, b))
    <3>1. /\ Named(b) /\ \A q \in Unread : TagEnd(doc, b) < q
      BY <1>1 DEF Current
    <3>2. ASSUME doc[b].form # "bare", \A q \in Part(doc, b) : TagEnd(doc, b) < q => q \in Unread
          PROVE  FALSE
      <4>1. IsText(doc)
        BY <1>0, Basics
      <4>2. b \in 1..Len(doc) /\ doc[b].form \in CallForm
        BY <4>1, BulletIs
      <4>3. PICK g, h : g = TagEnd(doc, b) /\ h = ParamFrom(doc, b)
        OBVIOUS
      <4>4. /\ g \in 1..Len(doc) /\ Start(doc, b) + 5 <= g
            /\ h \in 1..Len(doc) /\ g <= h
            /\ doc[b].form = "cut" => End(doc, b) = h + 5
            /\ doc[b].form \in WholeForm => End(doc, b) = h + 8
        BY <4>1, <4>2, <4>3, CallFacts
      <4>5. Start(doc, b) \in Int /\ End(doc, b) \in Int
        BY <4>1, <4>2, TextFacts
      <4>6. g + 5 <= End(doc, b)
        BY <3>2, <4>2, <4>4 DEF CallForm
      <4>7. g + 1 \in Part(doc, b) /\ g < g + 1
        BY <4>4, <4>5, <4>6 DEF Part
      <4> QED BY <1>1, <3>2, <4>3, <4>7
    <3> QED BY <1>1, <3>1, <3>2 DEF Current
  <2> QED BY <1>0, <2>2, <2>4, NextCall DEF Emit
<1> QED BY <1>0, <1>3, <1>4, KeepsPart DEF WholeInv, CurrentInv, IdleInv

\* feed, state parameters, with another bullet.
LEMMA NextBulletKeeps == WholeInv /\ NextBullet => WholeInv'
<1> SUFFICES ASSUME WholeInv, NextBullet PROVE WholeInv'
  OBVIOUS
<1>0. TypeOK /\ LeftInv /\ PartInv
  BY DEF WholeInv
<1>1. PICK i \in buffer : /\ IsLeast(i, At(doc, buffer, "B"))
                          /\ Show(Ahead(buffer, i)) /\ buffer' = Onward(buffer, i)
  BY DEF NextBullet
<1>2. /\ state = "parameters" /\ state' = "text" /\ pc = "feeding" /\ pc' = "feeding"
      /\ UNCHANGED <<doc, fed, call, torn, crowded>> /\ Emit
      /\ Parameters(doc, buffer) = {}
  BY DEF NextBullet, NoParameter, Reading
<1>3. /\ IsText(doc) /\ fed \in Int /\ i \in Int /\ 1 <= i /\ i <= fed /\ i \in 1..Len(doc)
      /\ \A p \in buffer : p \in Int /\ p \in Unread
      /\ Len(doc) \in Int /\ fed <= Len(doc)
  BY <1>0, Basics
<1>4. /\ Letter(doc, i) = "B" /\ \A p \in buffer : Letter(doc, p) = "B" => i <= p
  BY <1>1 DEF IsLeast, At
<1>5. Cut(i - 1)
  <2>1. Onward(buffer, i) = Beyond(buffer, i - 1)
    BY <1>3, FrontOf
  <2> QED BY <1>1, <1>2, <1>3, <2>1 DEF Cut
<1>6. \A p : p \in Ahead(buffer, i) <=> p \in buffer /\ p <= i - 1
  BY <1>3, FrontOf
<1>7. \A p \in Ahead(buffer, i) : Letter(doc, p) # "B"
  BY <1>3, <1>4 DEF Ahead
<1>8. ASSUME NEW b \in Bullets(doc), Current(b), NEW p \in Unread, p \in Part(doc, b)
      PROVE  FALSE
  <2>1. b \in 1..Len(doc) /\ doc[b].form \in CallForm /\ Start(doc, b) + 1 = b
    BY <1>3, BulletIs
  <2>2. TagEnd(doc, b) < i /\ i \in Unread
    BY <1>3, <1>8 DEF Current
  <2>3. TagEnd(doc, b) \in Int /\ Start(doc, b) + 5 <= TagEnd(doc, b)
    BY <1>3, <2>1, CallFacts
  <2>4. Start(doc, b) \in Int
    BY <1>3, <2>1, TextFacts
  <2>5. b < i
    BY <1>3, <2>1, <2>2, <2>3, <2>4
  <2>9. PICK h : h = ParamFrom(doc, b)
    OBVIOUS
  <2>6. i \notin Part(doc, b)
    <3> SUFFICES ASSUME i \in Part(doc, b) PROVE FALSE
      OBVIOUS
    <3>1. doc[b].form = "loose" /\ i = h + 5
      BY <1>3, <1>4, <2>1, <2>5, <2>9, CallLetterAt
    <3>2. h \in Int /\ h = Start(doc, b) + 6 /\ End(doc, b) = h + 8
      BY <1>0, <1>8, <2>9, <3>1, WholeParameter DEF WholeForm
    <3>3. fed < End(doc, b)
      BY <1>0, <1>2, <1>8, <3>1, NothingLeft
    <3>4. fed \in Part(doc, b)
      BY <1>3, <2>4, <3>1, <3>2, <3>3 DEF Part
    <3>5. doc[fed].form = "loose" /\ doc[fed].at = fed - Start(doc, b)
      BY <1>3, <2>1, <3>1, <3>4, TextFacts
    <3>6. doc[fed].at \in 11..13 /\ fed # 0
      <4> DEFINE s == Start(doc, b)
                 a == doc[fed].at
      <4>1. s \in Int /\ a = fed - s /\ h = s + 6 /\ i = h + 5 /\ i <= fed /\ fed < h + 8
        BY <1>3, <2>4, <3>1, <3>2, <3>3, <3>5
      <4> HIDE DEF s, a
      <4>2. a \in 11..13 /\ fed # 0
        BY <1>3, <4>1
      <4> QED BY <4>2 DEF a
    <3> QED BY <1>0, <3>5, <3>6 DEF PartInv, Parts
  <2>7. End(doc, b) < i /\ End(doc, b) \in Int
    BY <1>3, <2>1, <2>5, <2>6, PartsApart, TextFacts
  <2>8. fed < End(doc, b) \/ End(doc, b) = Len(doc)
    BY <1>0, <1>2, <1>8, NothingLeft
  <2> QED BY <1>3, <2>7, <2>8
<1>9. TypeOK'
  BY <1>0, LoopType DEF Loop
<1> QED BY <1>1, <1>2, <1>5, <1>6, <1>7, <1>8, <1>9, CallEnds

\* feed, state parameters, with text that is no tag.
LEMMA TextAfterCallKeeps == WholeInv /\ TextAfterCall => WholeInv'
<1> SUFFICES ASSUME WholeInv, TextAfterCall PROVE WholeInv'
  OBVIOUS
<1>0. TypeOK /\ LeftInv /\ PartInv
  BY DEF WholeInv
<1>1. /\ state = "parameters" /\ state' = "text" /\ pc = "feeding" /\ pc' = "feeding"
      /\ UNCHANGED <<doc, fed, call, torn, crowded>> /\ Emit
      /\ \A p \in buffer : Letter(doc, p) # "B"
      /\ Parameters(doc, buffer) = {} /\ ~LooksLikeTag /\ Show(buffer) /\ buffer' = {}
  BY DEF TextAfterCall, NoParameter, Reading, At
<1>2. /\ IsText(doc) /\ fed \in Nat
      /\ \A p \in buffer : p \in Int /\ p \in Unread /\ p <= fed
      /\ \A p \in Unread : p \in Int /\ (p <= fed => p \in buffer)
  BY <1>0, Basics
<1>3. Cut(fed)
  <2>1. {} = Beyond(buffer, fed)
    BY <1>2 DEF Beyond
  <2> QED BY <1>1, <1>2, <2>1 DEF Cut
<1>4. ASSUME NEW b \in Bullets(doc), Current(b), NEW p \in Unread, p \in Part(doc, b)
      PROVE  FALSE
  <2>1. PICK g, h : g = TagEnd(doc, b) /\ h = ParamFrom(doc, b)
    OBVIOUS
  <2>2. /\ g \in Int /\ h \in Int /\ h = g + (IF doc[b].form = "loose" THEN 1 ELSE 0)
        /\ doc[b].form = "loose" => h = Start(doc, b) + 6 /\ Letter(doc, h) = "S"
        /\ Letter(doc, h + 1) = "<" /\ h + 5 <= End(doc, b)
        /\ \A k \in Int : g < k /\ k <= End(doc, b) => k \in Unread /\ k \in Part(doc, b)
    BY <1>0, <1>4, <2>1, WholeParameter
  <2>3. b \in 1..Len(doc) /\ Start(doc, b) \in Int /\ End(doc, b) \in Int
    BY <1>2, BulletIs, TextFacts
  <2>4. PICK r \in buffer : TRUE
    BY <1>1 DEF LooksLikeTag
  <2>5. \A k \in buffer : k \in Int /\ g < k
    BY <1>2, <1>4, <2>1 DEF Current
  <2>6. fed # h \/ doc[b].form # "loose"
    <3> SUFFICES ASSUME fed = h, doc[b].form = "loose" PROVE FALSE
      BY <2>2
    <3>1. h \in Part(doc, b)
      BY <2>2, <2>3
    <3>2. doc[fed].form = "loose" /\ doc[fed].at = fed - Start(doc, b)
      BY <1>2, <2>3, <3>1, TextFacts
    <3>3. doc[fed].at = 6 /\ fed # 0
      <4>1. r \in Int /\ r <= fed /\ r \in 1..Len(doc)
        BY <1>0, <1>2, <2>4, Basics
      <4> QED BY <2>2, <2>3, <3>2, <4>1
    <3> QED BY <1>0, <3>2, <3>3 DEF PartInv, Parts
  <2>7. h + 1 <= fed
    <3>1. r \in Int /\ g < r /\ r <= fed
      BY <1>2, <2>4, <2>5
    <3> QED BY <1>2, <2>2, <2>6, <3>1
  <2>8. h + 1 \in At(doc, buffer, "<")
    <3>1. h + 1 \in Int /\ g < h + 1 /\ h + 1 <= End(doc, b)
      BY <2>2, <2>3
    <3> QED BY <1>2, <2>2, <2>7, <3>1 DEF At
  <2>9. \A k \in Ahead(buffer, h + 1) : Letter(doc, k) = "S"
    <3>1. ASSUME NEW k \in buffer, k < h + 1 PROVE Letter(doc, k) = "S"
      <4>1. k \in Int /\ g < k
        BY <2>5
      <4>2. doc[b].form = "loose" /\ k = h
        BY <2>2, <3>1, <4>1
      <4> QED BY <2>2, <4>2
    <3> QED BY <3>1 DEF Ahead
  <2> QED BY <1>1, <2>8, <2>9 DEF LooksLikeTag
<1>5. \A p : p \in buffer <=> p \in buffer /\ p <= fed
  BY <1>2
<1>6. TypeOK'
  BY <1>0, LoopType DEF Loop
<1> QED BY <1>1, <1>3, <1>4, <1>5, <1>6, CallEnds

\* Without crowded calls the parameter that is found is that of the call being read.
LEMMA OwnParameter ==
    ASSUME TypeOK, LeftInv, HeadInv, ApartInv, state = "parameters", ~crowded,
           NEW b \in Bullets(doc), NEW q \in Parameters(doc, buffer),
           Named(q) => q \in Part(doc, b)
    PROVE  q \in Part(doc, b)
<1>1. /\ IsText(doc) /\ fed \in Int /\ Solid(doc, buffer, fed)
      /\ \A k \in buffer : k \in Unread /\ k \in 1..Len(doc) /\ k <= fed
      /\ \A k \in Unread : k <= fed => k \in buffer
  BY Basics
<1>2. q \in buffer /\ doc[q].form \in WholeForm /\ End(doc, q) <= fed
  BY <1>1, ParametersAre
<1>3. q \in 1..Len(doc) /\ q \in Unread /\ q <= fed
  BY <1>1, <1>2
<1> SUFFICES ASSUME ~Named(q) PROVE FALSE
  OBVIOUS
<1> DEFINE h == Start(doc, q) + 1
<1>4. h \in Unread
  BY <1>2, <1>3 DEF HeadInv, CallForm, WholeForm
<1>5. /\ h \in Part(doc, q) /\ h <= q /\ h \in Int /\ Part(doc, h) = Part(doc, q)
  BY <1>1, <1>2, <1>3, OwnBullet DEF CallForm, WholeForm
<1> HIDE DEF h
<1>6. h \in buffer
  <2>1. h <= fed
    BY <1>1, <1>3, <1>5
  <2> QED BY <1>1, <1>4, <2>1
<1>7. ASSUME NEW k \in Part(doc, q) PROVE k \in buffer
  <2>1. k <= fed /\ h <= k /\ k \in Part(doc, h)
    <3>1. k \in 1..Len(doc) /\ End(doc, k) = End(doc, q) /\ Start(doc, k) = Start(doc, q)
      BY <1>1, <1>3, TextFacts
    <3>2. k <= End(doc, k) /\ Start(doc, k) < k /\ End(doc, k) \in Int /\ Start(doc, k) \in Int
      BY <1>1, <3>1, TextFacts
    <3> QED BY <1>1, <1>2, <1>5, <3>1, <3>2 DEF h
  <2> QED BY <1>1, <1>6, <2>1, Filled
<1> QED BY <1>2, <1>7 DEF ApartInv

\* feed, state parameters, with a complete parameter.
LEMMA ParameterKeeps == WholeInv /\ Parameter => WholeInv'
<1> SUFFICES ASSUME WholeInv, Parameter PROVE WholeInv'
  OBVIOUS
<1>0. /\ TypeOK /\ LeftInv /\ HeadInv /\ CurrentInv /\ IdleInv
      /\ TornInv /\ ShownInv /\ ApartInv /\ CallsInv /\ PartInv
  BY DEF WholeInv
<1>1. /\ state = "parameters" /\ state' = "parameters" /\ pc = "feeding" /\ pc' = "feeding"
      /\ UNCHANGED <<doc, fed, name, calls, torn, crowded>>
  BY DEF Parameter, Reading
<1>2. /\ IsText(doc) /\ fed \in Nat /\ Solid(doc, buffer, fed)
      /\ \A k \in buffer : k \in Int /\ k \in 1..Len(doc) /\ 1 <= k /\ k <= fed /\ k \in Unread
      /\ \A k \in Unread : k \in Int /\ k \in 1..Len(doc) /\ (k <= fed => k \in buffer)
  BY <1>0, Basics
<1>3. PICK q \in Parameters(doc, buffer) :
         /\ Show(Ahead(buffer, q - 1))
         /\ params' = params \cup {<<{q + 1}, {q + 3}>>}
         /\ buffer' = Beyond(buffer, q + 6)
         /\ q + 6 \in buffer
  <2>1. PICK q \in Parameters(doc, buffer) :
           \E e \in Close(doc, buffer, q) : \E u \in ValueEnd(doc, buffer, e) :
              /\ \A w \in ValueEnd(doc, buffer, e) : u <= w
              /\ \E p \in buffer, v \in buffer :
                    /\ Adjacent(buffer, p, q) /\ Adjacent(buffer, u, v)
                    /\ Show(Ahead(buffer, p))
                    /\ params' = params \cup {<<Between(buffer, q, e), Value(buffer, e, u)>>}
                    /\ buffer' = Beyond(buffer, v)
    BY DEF Parameter
  <2>2. PICK e \in Close(doc, buffer, q) : \E u \in ValueEnd(doc, buffer, e) :
              /\ \A w \in ValueEnd(doc, buffer, e) : u <= w
              /\ \E p \in buffer, v \in buffer :
                    /\ Adjacent(buffer, p, q) /\ Adjacent(buffer, u, v)
                    /\ Show(Ahead(buffer, p))
                    /\ params' = params \cup {<<Between(buffer, q, e), Value(buffer, e, u)>>}
                    /\ buffer' = Beyond(buffer, v)
    BY <2>1
  <2>3. PICK u \in ValueEnd(doc, buffer, e), p \in buffer, v \in buffer :
           /\ \A w \in ValueEnd(doc, buffer, e) : u <= w
           /\ Adjacent(buffer, p, q) /\ Adjacent(buffer, u, v)
           /\ Show(Ahead(buffer, p))
           /\ params' = params \cup {<<Between(buffer, q, e), Value(buffer, e, u)>>}
           /\ buffer' = Beyond(buffer, v)
    BY <2>2
  <2>4. /\ Between(buffer, q, e) = {q + 1} /\ Value(buffer, e, u) = {q + 3}
        /\ q + 6 \in buffer /\ v = q + 6 /\ p = q - 1
    BY <1>2, <2>3, FirstValue
  <2> QED BY <2>3, <2>4
<1>4. /\ q \in buffer /\ Letter(doc, q) = "Q" /\ q - 1 \in buffer
      /\ doc[q].form \in WholeForm /\ End(doc, q) <= fed
  BY <1>2, ParametersAre
<1>5. /\ q \in Int /\ q \in 1..Len(doc) /\ q <= fed /\ q \in Unread /\ q + 6 <= fed /\ 1 <= q
      /\ doc[q].form \in CallForm
  BY <1>2, <1>3, <1>4 DEF CallForm, WholeForm
<1>6. /\ ParamFrom(doc, q) = q - 2 /\ End(doc, q) = q + 6 /\ q - 2 \in Part(doc, q)
      /\ \A k \in Int : (q <= k /\ k <= q + 6) => k \in Part(doc, q)
  <2>1. /\ ParamFrom(doc, q) = q - 2 /\ End(doc, q) = q + 6 /\ q - 2 \in Part(doc, q)
        /\ \A k \in Int : (q <= k /\ k <= End(doc, q)) => k \in Part(doc, q)
    BY <1>2, <1>4, KeyWord
  <2> QED BY <2>1
<1>7. \A k \in Int : (q - 1 <= k /\ k <= q + 6) => k \in Part(doc, q)
  <2>1. q - 1 \in Part(doc, q)
    <3>1. Start(doc, q) \in Int
      BY <1>2, <1>5, TextFacts
    <3> QED BY <1>5, <1>6, <3>1 DEF Part
  <2> QED BY <1>5, <1>6, <2>1
<1>8. Cut(q + 6)
  BY <1>1, <1>2, <1>3, <1>5 DEF Cut
<1>9. \A k : k \in Unread' <=> k \in Unread /\ q + 6 < k
  BY <1>0, <1>8, CutLeaves
<1>10. PICK b \in Bullets(doc), g \in Int :
         /\ Current(b) /\ g = TagEnd(doc, b) /\ b \in 1..Len(doc) /\ b \in Int
         /\ doc[b].form \in CallForm /\ b + 4 <= g /\ Start(doc, b) + 1 = b
         /\ name = {g - 1} /\ CallAt(doc, b)[1] = name
         /\ \A k \in Unread :
               g < k /\ (Named(k) /\ doc[k].form \in CallForm => k \in Part(doc, b))
         /\ \A k \in Unread : k \in Part(doc, b) => params = {} /\ doc[b].form # "bare"
  BY <1>0, <1>1, CurrentCall
<1>11. ~crowded => q \in Part(doc, b)
  <2>1. Named(q) => q \in Part(doc, b)
    BY <1>5, <1>10
  <2> QED BY <1>0, <1>1, <1>3, <2>1, OwnParameter
<1>12. q \in Part(doc, b) => /\ ParamFrom(doc, b) = q - 2 /\ Part(doc, q) = Part(doc, b)
                             /\ q - 2 = g + (IF doc[b].form = "loose" THEN 1 ELSE 0)
                             /\ doc[b].form = "loose" => q - 2 \in Blanks
  <2> SUFFICES ASSUME q \in Part(doc, b)
               PROVE  /\ ParamFrom(doc, b) = q - 2 /\ Part(doc, q) = Part(doc, b)
                      /\ q - 2 = g + (IF doc[b].form = "loose" THEN 1 ELSE 0)
                      /\ doc[b].form = "loose" => q - 2 \in Blanks
    OBVIOUS
  <2>1. PICK h : h = ParamFrom(doc, b)
    OBVIOUS
  <2>2. h = q - 2
    BY <1>2, <1>6, <1>10, <2>1, CallFacts
  <2>3. Part(doc, q) = Part(doc, b)
    BY <1>2, <1>10, TextFacts
  <2>4. /\ h = g + (IF doc[b].form = "loose" THEN 1 ELSE 0)
        /\ doc[b].form = "loose" => h = Start(doc, b) + 6
    BY <1>0, <1>5, <1>10, <2>1, WholeParameter, SMTT(30)
  <2>5. ASSUME doc[b].form = "loose" PROVE q - 2 \in Blanks
    <3>1. q - 2 \in Part(doc, b)
      BY <1>6, <2>3
    <3>2. /\ q - 2 \in 1..Len(doc) /\ doc[q - 2].form = "loose"
          /\ doc[q - 2].at = (q - 2) - Start(doc, b) /\ Start(doc, b) \in Int
      <4>1. PICK k : k = q - 2
        OBVIOUS
      <4>2. /\ k \in 1..Len(doc) /\ doc[k].form = "loose"
            /\ doc[k].at = k - Start(doc, b) /\ Start(doc, b) \in Int
        <5>1. \A r \in Part(doc, b) : /\ doc[r].form = doc[b].form
                                     /\ doc[r].at = r - Start(doc, b)
          BY <1>2, <1>10, TextFacts
        <5>2. Part(doc, b) \subseteq 1..Len(doc) /\ Start(doc, b) \in Int
          BY <1>2, <1>10, TextFacts
        <5> QED BY <2>5, <3>1, <4>1, <5>1, <5>2
      <4> QED BY <4>1, <4>2
    <3>3. q - 2 = Start(doc, b) + 6
      BY <2>2, <2>4, <2>5
    <3>4. doc[q - 2].at = 6
      BY <3>2, <3>3
    <3> QED BY <3>2, <3>4 DEF Blanks
  <2> QED BY <2>1, <2>2, <2>3, <2>4, <2>5
<1>13. ~crowded => \A k \in Unread : q - 2 <= k /\ (q - 1 <= k \/ k \in Blanks)
  <2>1. ASSUME ~crowded, NEW k \in Unread
        PROVE  q - 2 <= k /\ (q - 1 <= k \/ k \in Blanks)
    <3>1. /\ k \in Int /\ g < k
          /\ q - 2 = g + (IF doc[b].form = "loose" THEN 1 ELSE 0)
          /\ doc[b].form = "loose" => q - 2 \in Blanks
      BY <1>2, <1>10, <1>11, <1>12, <2>1
    <3>2. CASE doc[b].form = "loose"
      <4>1. q - 2 <= k /\ (q - 1 <= k \/ k = q - 2)
        BY <1>5, <1>10, <3>1, <3>2
      <4> QED BY <3>1, <3>2, <4>1
    <3>3. CASE doc[b].form # "loose"
      <4>1. q - 1 <= k
        BY <1>5, <1>10, <3>1, <3>3
      <4> QED BY <1>5, <3>1, <4>1
    <3> QED BY <3>2, <3>3
  <2> QED BY <2>1
<1>14. ShownInv'
  <2>1. ASSUME NEW p \in buffer, p <= q + 6, doc[p].form = "prose"
        PROVE  p \in Ahead(buffer, q - 1)
    <3>1. p \notin Part(doc, q)
      BY <1>2, <1>4, <1>5, <2>1, TextFacts DEF WholeForm
    <3>2. p \in Int
      BY <1>2
    <3>3. p < q - 1
      BY <1>5, <1>7, <2>1, <3>1, <3>2
    <3> QED BY <3>3 DEF Ahead
  <2>2. \A p \in Ahead(buffer, q - 1) : p \in buffer /\ p <= q + 6
    <3>1. ASSUME NEW p \in buffer, p < q - 1 PROVE p <= q + 6
      <4>1. p \in Int
        BY <1>2
      <4> QED BY <1>5, <3>1, <4>1
    <3> QED BY <3>1 DEF Ahead
  <2>3. ASSUME ~crowded PROVE \A p \in Ahead(buffer, q - 1) : p \in Blanks
    <3>1. ASSUME NEW p \in buffer, p < q - 1 PROVE p \in Blanks
      <4>1. p \in Int /\ (q - 1 <= p \/ p \in Blanks)
        BY <1>2, <1>13, <2>3
      <4> QED BY <1>5, <3>1, <4>1
    <3> QED BY <3>1 DEF Ahead
  <2> QED BY <1>0, <1>1, <1>3, <1>8, <2>1, <2>2, <2>3, CutKeepsShown
<1>15. HeadInv'
  <2>1. ASSUME NEW p \in Unread, q + 6 < p, doc[p].form \in CallForm,
               Named(p) \/ (Start(doc, p) + 1 \in Unread /\ Start(doc, p) + 1 <= q + 6)
        PROVE  Named(p)'
    <3>1. CASE Named(p)
      BY <1>1, <3>1 DEF Named
    <3>2. CASE Start(doc, p) + 1 <= q + 6
      <4>1. p \in 1..Len(doc) /\ p \in Int /\ q < p
        BY <1>2, <1>5, <2>1
      <4>2. p \notin Part(doc, q)
        <5>1. p \in Part(doc, q) => End(doc, p) = q + 6 /\ p <= End(doc, p)
          BY <1>2, <1>5, <1>6, <4>1, TextFacts
        <5> QED BY <1>5, <2>1, <4>1, <5>1
      <4>3. End(doc, q) <= Start(doc, p) /\ Start(doc, p) \in Int
        BY <1>2, <1>5, <4>1, <4>2, PartsApart, TextFacts
      <4> QED BY <1>5, <1>6, <3>2, <4>3
    <3> QED BY <2>1, <3>1, <3>2
  <2> QED BY <1>0, <1>1, <1>8, <2>1, CutKeepsHead
<1>16. CurrentInv'
  <2>1. /\ Named(b)' /\ TagEnd(doc', b) = g /\ Part(doc, b)' = Part(doc, b)
        /\ Bullets(doc)' = Bullets(doc) /\ CallAt(doc, b)' = CallAt(doc, b)
    BY <1>1, <1>10 DEF Named
  <2>2. \A k \in Unread' : TagEnd(doc', b) < k
    BY <1>9, <1>10, <2>1
  <2>3. \A k \in Part(doc, b) : k \notin Unread'
    <3>1. CASE q \in Part(doc, b)
      <4>1. \A k \in Part(doc, b) : k \in Int /\ k <= q + 6
        <5>1. \A k \in Part(doc, q) : k \in 1..Len(doc) /\ End(doc, k) = q + 6
          BY <1>2, <1>5, <1>6, TextFacts
        <5>2. \A k \in Part(doc, q) : k <= End(doc, k)
          BY <1>2, <5>1, TextFacts
        <5> QED BY <1>12, <3>1, <5>1, <5>2
      <4> QED BY <1>5, <1>9, <4>1
    <3>2. CASE q \notin Part(doc, b)
      <4>1. b < q
        <5>1. g < q
          BY <1>5, <1>10
        <5> QED BY <1>5, <1>10, <5>1
      <4>2. End(doc, b) < q /\ End(doc, b) \in Int
        BY <1>2, <1>5, <1>10, <3>2, <4>1, PartsApart, TextFacts
      <4>3. \A k \in Part(doc, b) : k \in Int /\ k <= End(doc, b)
        <5>1. \A k \in Part(doc, b) : k \in 1..Len(doc) /\ End(doc, k) = End(doc, b)
          BY <1>2, <1>10, TextFacts
        <5>2. \A k \in Part(doc, b) : k <= End(doc, k)
          BY <1>2, <5>1, TextFacts
        <5> QED BY <5>1, <5>2
      <4>4. ASSUME NEW k \in Part(doc, b) PROVE ~(q + 6 < k)
        BY <1>5, <4>2, <4>3
      <4> QED BY <1>9, <4>4
    <3> QED BY <3>1, <3>2
  <2>4. ASSUME ~crowded PROVE call' = CallAt(doc, b)
    <3>1. q \in Part(doc, b) /\ ParamFrom(doc, b) = q - 2
      BY <1>11, <1>12, <2>4
    <3>2. params = {} /\ doc[b].form # "bare"
      BY <1>5, <1>10, <3>1
    <3>7. PICK h : h = ParamFrom(doc, b)
      OBVIOUS
    <3>3. /\ CallAt(doc, b)[2] = {<<{h + 3}, {h + 5}>>}
          /\ CallAt(doc, b) = <<CallAt(doc, b)[1], CallAt(doc, b)[2]>>
      BY <1>2, <1>10, <3>2, <3>7, CallAtIs
    <3>4. h + 3 = q + 1 /\ h + 5 = q + 3
      BY <1>5, <3>1, <3>7
    <3>5. params' = {<<{q + 1}, {q + 3}>>}
      BY <1>3, <3>2
    <3>6. call' = <<CallAt(doc, b)[1], params'>>
      BY <1>1, <1>10 DEF call
    <3> QED BY <3>3, <3>4, <3>5, <3>6
  <2>5. Current(b)'
    BY <1>1, <2>1, <2>2, <2>3, <2>4 DEF Current
  <2> QED BY <2>1, <2>5 DEF CurrentInv
<1>17. CallsInv'
  <2>1. ASSUME ~crowded, NEW a \in Bullets(doc), Named(a) \/ (a \in buffer /\ a <= q + 6)
        PROVE  Named(a)'
    <3>1. CASE Named(a)
      BY <1>1, <3>1 DEF Named
    <3>2. CASE a \in buffer /\ a <= q + 6
      <4>1. a \in Int /\ a \in Unread /\ q - 2 <= a
        BY <1>2, <1>13, <2>1, <3>2
      <4>2. a \in Part(doc, q)
        <5>1. a = q - 2 \/ q - 1 <= a
          BY <1>5, <4>1
        <5> QED BY <1>6, <1>7, <3>2, <4>1, <5>1
      <4>3. Start(doc, a) = Start(doc, q) /\ Start(doc, a) + 1 = a
        BY <1>2, <1>5, <4>2, BulletIs, TextFacts
      <4>4. Start(doc, q) + 5 <= q - 2 /\ Start(doc, q) \in Int
        <5>1. PICK h, d : h = ParamFrom(doc, q) /\ d = TagEnd(doc, q)
          OBVIOUS
        <5>2. Start(doc, q) + 5 <= d /\ d <= h /\ d \in Int /\ Start(doc, q) \in Int
          BY <1>2, <1>5, <5>1, CallFacts, TextFacts
        <5> QED BY <1>5, <1>6, <5>1, <5>2
      <4> QED BY <1>5, <4>1, <4>3, <4>4
    <3> QED BY <2>1, <3>1, <3>2
  <2> QED BY <1>0, <1>1, <1>8, <2>1, CutKeepsCalls
<1>18. LeftInv' /\ TornInv' /\ ApartInv'
  BY <1>0, <1>1, <1>8, CutLeaves, CutKeepsTorn, CutKeepsApart
<1>19. TypeOK'
  BY <1>0, LoopType DEF Loop
<1> QED BY <1>0, <1>1, <1>14, <1>15, <1>16, <1>17, <1>18, <1>19, KeepsPart DEF WholeInv, IdleInv

------------------------------------------------------------------------------
(* The next piece, and the end of the stream.                              *)

\* feed appends the piece and takes the tokens away that are complete.
LEMMA FeedLeaves ==
    ASSUME TypeOK, LeftInv, NEW n, Feed(n), NEW B1, B1 = buffer \cup (fed + 1..fed + n)
    PROVE  /\ n \in Int /\ 1 <= n /\ fed + n <= Len(doc) /\ fed' = fed + n /\ doc' = doc
           /\ Solid(doc, B1, fed + n) /\ LeftInv'
           /\ \A p : p \in buffer' <=>
                 p \in B1 /\ (doc[p].form = "token" => ~(Part(doc, p) \subseteq B1))
           /\ \A p : p \in B1 <=> p \in buffer \/ p \in fed + 1..fed + n
           /\ \A p \in Unread' : p \in Unread
           /\ \A p \in Unread : doc[p].form # "token" => p \in Unread'
<1>1. /\ IsText(doc) /\ fed \in Nat /\ Len(doc) \in Nat /\ fed <= Len(doc)
      /\ Solid(doc, Unread, Len(doc)) /\ buffer \subseteq 1..fed
      /\ \A p \in buffer : p \in Int /\ p <= fed
  BY Basics DEF TypeOK, Stretch
<1>2. /\ n \in 1..Len(doc) - fed /\ fed' = fed + n /\ doc' = doc
      /\ buffer' = Strip(doc, B1)
  BY DEF Feed
<1>3. n \in Int /\ 1 <= n /\ fed + n <= Len(doc) /\ fed + n \in 0..Len(doc)
  BY <1>1, <1>2
<1>4. B1 \subseteq 1..fed + n
  BY <1>1, <1>3
<1>5. fed + 1..Len(doc) = (fed + 1..fed + n) \cup (fed + n + 1..Len(doc))
  BY <1>1, <1>3
<1>6. Unread = B1 \cup (fed + n + 1..Len(doc))
  BY <1>5 DEF Unread
<1>7. Solid(doc, B1, fed + n)
  BY <1>1, <1>3, <1>4, <1>6, SolidUpTo
<1>8. Unread' = Strip(doc, B1) \cup (fed + n + 1..Len(doc))
  BY <1>2 DEF Unread
<1>9. Solid(doc, Unread', Len(doc))
  BY <1>1, <1>3, <1>4, <1>6, <1>8, SolidStrip
<1>10. \A p : p \in buffer' <=>
                 p \in B1 /\ (doc[p].form = "token" => ~(Part(doc, p) \subseteq B1))
  BY <1>2, <1>7, StripIs
<1>11. LeftInv'
  <2>1. ASSUME NEW p \in buffer', doc[p].form = "token" PROVE ~(Part(doc, p) \subseteq buffer')
    BY <1>10, <2>1
  <2> QED BY <1>2, <1>9, <2>1 DEF LeftInv
<1>12. \A p \in Unread' : p \in Unread
  BY <1>2, <1>6, <1>8, <1>10
<1>13. \A p \in Unread : doc[p].form # "token" => p \in Unread'
  BY <1>2, <1>6, <1>8, <1>10
<1> QED BY <1>2, <1>3, <1>7, <1>10, <1>11, <1>12, <1>13

\* A token that no cut falls into is complete at once.
LEMMA FeedKeepsTorn == ASSUME WholeInv, NEW n, Feed(n) PROVE TornInv'
<1>0. TypeOK /\ LeftInv /\ TornInv
  BY DEF WholeInv
<1>1. PICK B1 : B1 = buffer \cup (fed + 1..fed + n)
  OBVIOUS
<1>2. /\ n \in Int /\ 1 <= n /\ fed + n <= Len(doc) /\ fed' = fed + n /\ doc' = doc
      /\ \A p : p \in buffer' <=>
            p \in B1 /\ (doc[p].form = "token" => ~(Part(doc, p) \subseteq B1))
      /\ \A p : p \in B1 <=> p \in buffer \/ p \in fed + 1..fed + n
  BY <1>0, <1>1, FeedLeaves
<1>3. IsText(doc) /\ fed \in Nat /\ Len(doc) \in Nat /\ fed <= Len(doc)
  BY <1>0, Basics
<1> SUFFICES ASSUME ~torn' PROVE TornInv'
  BY DEF TornInv
<1>4. ~torn /\ (doc[fed + n].form = "token" => fed + n = End(doc, fed + n))
  BY DEF Feed
<1>5. ASSUME NEW p \in buffer', doc[p].form = "token" PROVE FALSE
  <2>1. p \in fed + 1..fed + n
    BY <1>0, <1>2, <1>4, <1>5 DEF TornInv
  <2>2. p \in Int /\ fed < p /\ p <= fed + n /\ p \in 1..Len(doc)
    BY <1>2, <1>3, <2>1
  <2>3. /\ Start(doc, p) \in Int /\ End(doc, p) \in Int
        /\ Start(doc, p) < p /\ p <= End(doc, p)
        /\ \A r \in Part(doc, p) : doc[r].form = doc[p].form /\ End(doc, r) = End(doc, p)
    BY <1>3, <2>2, TextFacts
  <2>4. End(doc, p) <= fed + n
    <3> SUFFICES ASSUME ~(End(doc, p) <= fed + n) PROVE FALSE
      OBVIOUS
    <3>1. fed + n \in Part(doc, p)
      BY <1>2, <1>3, <2>2, <2>3 DEF Part
    <3>2. doc[fed + n].form = "token" /\ End(doc, fed + n) = End(doc, p)
      BY <1>5, <2>3, <3>1
    <3> QED BY <1>2, <1>3, <1>4, <2>3, <3>2
  <2>5. fed <= Start(doc, p)
    <3> SUFFICES ASSUME ~(fed <= Start(doc, p)) PROVE FALSE
      OBVIOUS
    <3>1. fed \in Part(doc, p) /\ fed # 0
      <4>1. Start(doc, p) \in Nat
        BY <1>3, <2>2, TextFacts
      <4>2. Start(doc, p) < fed /\ fed <= End(doc, p)
        BY <1>3, <2>2, <2>3
      <4> QED BY <1>3, <2>3, <4>1, <4>2 DEF Part
    <3>2. doc[fed].form = "token" /\ End(doc, fed) = End(doc, p)
      BY <1>5, <2>3, <3>1
    <3>3. fed = End(doc, fed)
      BY <1>0, <1>4, <3>1, <3>2 DEF TornInv
    <3> QED BY <1>3, <2>2, <2>3, <3>2, <3>3
  <2>6. Part(doc, p) \subseteq fed + 1..fed + n
    BY <1>2, <1>3, <2>3, <2>4, <2>5 DEF Part
  <2> QED BY <1>2, <1>5, <2>6
<1>6. End(doc, fed)' = End(doc, fed + n)
  BY <1>2 DEF End, Start
<1> QED BY <1>2, <1>4, <1>5, <1>6 DEF TornInv

\* A call that gets complete behind an open one came with the end of that in one piece.
LEMMA FeedKeepsApart == ASSUME WholeInv, NEW n, Feed(n) PROVE ApartInv'
<1>0. TypeOK /\ LeftInv /\ HeadInv /\ IdleInv /\ ApartInv
  BY DEF WholeInv
<1>1. PICK B1 : B1 = buffer \cup (fed + 1..fed + n)
  OBVIOUS
<1>2. /\ n \in Int /\ 1 <= n /\ fed + n <= Len(doc) /\ fed' = fed + n /\ doc' = doc
      /\ \A p \in buffer' : p \in B1
      /\ \A p \in B1 : p \in buffer \/ p \in fed + 1..fed + n
  BY <1>0, <1>1, FeedLeaves
<1>3. /\ IsText(doc) /\ fed \in Nat /\ Len(doc) \in Nat /\ fed <= Len(doc)
      /\ Solid(doc, buffer, fed)
      /\ \A p \in buffer : p \in Int /\ p \in 1..Len(doc) /\ p <= fed /\ p \in Unread
      /\ \A p \in Unread : p <= fed => p \in buffer
  BY <1>0, Basics
<1>4. pc = "idle" /\ state' = state
  BY DEF Feed
<1> SUFFICES ASSUME ~crowded', NEW p \in buffer', doc[p].form \in WholeForm,
                    Part(doc, p) \subseteq buffer'
             PROVE  /\ state # "parameters"
                    /\ \A q \in buffer' : q < p /\ q \notin Part(doc, p) =>
                          ~(doc[q].form \in {"bare"} \cup WholeForm /\ q = End(doc, q))
  BY <1>2, <1>4 DEF ApartInv
<1>5. ~crowded /\ ~Crowds(fed + 1..fed + n)
  BY DEF Feed
<1>6. \A r \in buffer' : r \in Int /\ r \in 1..Len(doc) /\ r <= fed + n
                         /\ (r \in buffer \/ r \in fed + 1..fed + n)
                         /\ (r \notin buffer => fed < r) /\ (fed < r => r \in fed + 1..fed + n)
                         /\ (r <= fed => r \in buffer)
  <2>1. ASSUME NEW r \in buffer' PROVE r \in buffer \/ r \in fed + 1..fed + n
    BY <1>2
  <2>2. \A r \in fed + 1..fed + n : r \in Int /\ fed < r /\ r <= fed + n /\ r \in 1..Len(doc)
    BY <1>2, <1>3
  <2>3. \A r \in buffer : r <= fed + n
    BY <1>2, <1>3
  <2> QED BY <1>3, <2>1, <2>2, <2>3
<1>7. p \in 1..Len(doc) /\ p \in Int
  BY <1>6
<1>8. PICK s : s = Start(doc, p)
  OBVIOUS
<1>9. /\ s \in Int /\ s < p /\ s + 1 \in Part(doc, p) /\ s + 1 \in Bullets(doc)
      /\ Letter(doc, s + 1) = "B" /\ p \in Part(doc, p)
      /\ \A r \in Part(doc, p) : r \in Int /\ s < r
  <2>1. s \in Int /\ s < p /\ p \in Part(doc, p)
        /\ \A r \in Part(doc, p) : r \in 1..Len(doc) /\ Start(doc, r) = s
    BY <1>3, <1>7, <1>8, TextFacts
  <2>2. \A r \in Part(doc, p) : r \in Int /\ s < r
    BY <1>3, <2>1, TextFacts
  <2>3. s + 1 \in Part(doc, p) /\ s + 1 \in Bullets(doc) /\ Letter(doc, s + 1) = "B"
    BY <1>3, <1>7, <1>8, OwnBullet DEF CallForm, WholeForm
  <2> QED BY <2>1, <2>2, <2>3
<1>10. CASE Part(doc, p) \subseteq buffer
  <2>1. p \in buffer
    BY <1>9, <1>10
  <2>2. ASSUME NEW q \in buffer', q < p PROVE q \in buffer
    <3>1. p <= fed
      BY <1>3, <2>1
    <3> QED BY <1>3, <1>6, <1>7, <2>2, <3>1
  <2> QED BY <1>0, <1>5, <1>10, <2>1, <2>2 DEF ApartInv
<1>11. CASE ~(Part(doc, p) \subseteq buffer)
  <2>1. ASSUME fed <= s PROVE Part(doc, p) \subseteq fed + 1..fed + n
    <3>1. ASSUME NEW r \in Part(doc, p) PROVE r \in fed + 1..fed + n
      <4>1. r \in buffer' /\ r \in Int /\ s < r
        BY <1>9
      <4>2. fed < r
        BY <1>3, <1>9, <2>1, <4>1
      <4> QED BY <1>6, <4>1, <4>2
    <3> QED BY <3>1
  <2>2. state # "parameters"
    <3> SUFFICES ASSUME state = "parameters" PROVE FALSE
      OBVIOUS
    <3>1. s + 1 \notin buffer
      BY <1>0, <1>4, <1>9 DEF IdleInv, At
    <3>2. fed < s + 1
      BY <1>6, <1>9, <3>1
    <3>3. Part(doc, p) \subseteq fed + 1..fed + n
      BY <1>3, <1>9, <2>1, <3>2
    <3> QED BY <1>5, <1>9, <3>3 DEF Crowds
  <2>3. ASSUME NEW q \in buffer', q < p, q \notin Part(doc, p),
               doc[q].form \in {"bare"} \cup WholeForm, q = End(doc, q)
        PROVE  FALSE
    <3>1. q \in Int /\ q \in 1..Len(doc) /\ doc[q].form \in CallForm
      BY <1>6, <2>3 DEF CallForm, WholeForm
    <3>2. p \notin Part(doc, q)
      BY <1>3, <1>7, <2>3, <3>1, TextFacts
    <3>3. q <= s
      BY <1>3, <1>7, <1>8, <2>3, <3>1, <3>2, PartsApart
    <3>4. CASE q \in fed + 1..fed + n
      <4>1. fed <= s
        BY <1>3, <1>9, <3>3, <3>4
      <4>2. Part(doc, p) \subseteq fed + 1..fed + n
        BY <2>1, <4>1
      <4> QED BY <1>5, <1>9, <2>3, <3>4, <4>2 DEF Crowds
    <3>5. CASE q \in buffer
      <4>1. state = "function"
        <5>1. state \in {"text", "function", "parameters"}
          BY <1>0 DEF TypeOK
        <5>2. state # "text"
          BY <1>0, <1>4, <2>3, <3>5 DEF IdleInv, WholeForm
        <5> QED BY <2>2, <5>1, <5>2
      <4> DEFINE h == Start(doc, q) + 1
      <4>2. h \in Unread
        BY <1>0, <1>3, <3>1, <3>5, <4>1 DEF HeadInv, Named
      <4>3. /\ h \in Int /\ h <= q /\ doc[h].form \in CallForm /\ doc[h].at = 1
            /\ TagEnd(doc, h) = TagEnd(doc, q)
        BY <1>3, <3>1, OwnBullet
      <4> HIDE DEF h
      <4>4. h \in buffer
        BY <1>3, <3>1, <3>5, <4>2, <4>3
      <4>5. TagEnd(doc, h) <= fed
        <5>1. TagEnd(doc, q) <= End(doc, q)
          BY <1>3, <3>1, CallFacts
        <5>2. TagEnd(doc, q) <= q /\ q <= fed
          BY <1>3, <2>3, <3>5, <5>1
        <5>3. TagEnd(doc, q) \in Int
          BY <1>3, <3>1, CallFacts
        <5> QED BY <1>3, <3>1, <4>3, <5>2, <5>3
      <4>6. h \in Functions(doc, buffer)
        BY <1>3, <4>3, <4>4, <4>5, FunctionsAre
      <4> QED BY <1>0, <1>4, <4>1, <4>6 DEF IdleInv
    <3> QED BY <1>6, <3>4, <3>5
  <2> QED BY <2>2, <2>3
<1> QED BY <1>10, <1>11

\* feed, with the next piece.
LEMMA FeedKeeps == ASSUME WholeInv, NEW n, Feed(n), ~parted' PROVE WholeInv'
<1>0. /\ TypeOK /\ LeftInv /\ HeadInv /\ CurrentInv /\ IdleInv
      /\ TornInv /\ ShownInv /\ ApartInv /\ CallsInv /\ PartInv
  BY DEF WholeInv
<1>1. PICK B1 : B1 = buffer \cup (fed + 1..fed + n)
  OBVIOUS
<1>2. /\ doc' = doc /\ LeftInv' /\ Solid(doc, B1, fed + n)
      /\ \A p : p \in buffer' <=>
            p \in B1 /\ (doc[p].form = "token" => ~(Part(doc, p) \subseteq B1))
      /\ \A p : p \in B1 <=> p \in buffer \/ p \in fed + 1..fed + n
      /\ \A p \in Unread' : p \in Unread
      /\ \A p \in Unread : doc[p].form # "token" => p \in Unread'
  BY <1>0, <1>1, FeedLeaves
<1>3. /\ pc = "idle" /\ pc' = "feeding" /\ state' = state /\ calls' = calls
      /\ name' = name /\ params' = params
      /\ shown' = shown /\ ordered' = ordered /\ (torn => torn') /\ (crowded => crowded')
  BY DEF Feed, ShowNothing, call
<1>4. /\ IsText(doc) /\ fed \in Int
      /\ \A p \in Unread : p \in 1..Len(doc) /\ p \in Int
      /\ \A p \in buffer : p \in Int /\ p <= fed /\ p \in Unread /\ p \in 1..Len(doc)
  BY <1>0, Basics
<1>5. /\ Prose' = Prose /\ Stray' = Stray /\ Blanks' = Blanks /\ Bullets(doc)' = Bullets(doc)
      /\ \A p : CallAt(doc, p)' = CallAt(doc, p) /\ (Named(p)' <=> Named(p))
  BY <1>2, <1>3 DEF Prose, Stray, Blanks, Named
<1>6. HeadInv'
  <2>1. ASSUME NEW p \in Unread', doc[p].form \in CallForm
        PROVE  Start(doc, p) + 1 \in Unread' \/ Named(p)'
    <3>1. CASE Named(p)
      BY <1>5, <3>1
    <3>2. CASE Start(doc, p) + 1 \in Unread
      <4>1. p \in 1..Len(doc)
        BY <1>2, <1>4
      <4>2. doc[Start(doc, p) + 1].form = doc[p].form
        BY <1>4, <2>1, <4>1, OwnBullet
      <4> QED BY <1>2, <2>1, <3>2, <4>2 DEF CallForm, WholeForm
    <3> QED BY <1>0, <1>2, <2>1, <3>1, <3>2 DEF HeadInv
  <2>2. ASSUME state = "function"
        PROVE  \E i \in buffer' : IsLeast(i, buffer') /\ Letter(doc, i) = "B"
    <3>1. PICK i \in buffer : IsLeast(i, buffer) /\ Letter(doc, i) = "B"
      BY <1>0, <1>3, <2>2 DEF HeadInv
    <3>2. doc[i].form # "token" /\ i \in Int /\ i <= fed
      BY <1>4, <3>1, LetterForms DEF CallForm, WholeForm
    <3>3. i \in buffer'
      BY <1>2, <3>2
    <3>4. ASSUME NEW k \in buffer' PROVE i <= k
      <4>1. CASE k \in buffer
        BY <3>1, <4>1 DEF IsLeast
      <4>2. CASE k \in fed + 1..fed + n
        <5>1. n \in Int
          BY <1>0, <1>1, FeedLeaves
        <5> QED BY <1>4, <3>2, <4>2, <5>1
      <4> QED BY <1>2, <4>1, <4>2
    <3> QED BY <3>1, <3>3, <3>4 DEF IsLeast
  <2> QED BY <1>2, <1>3, <2>1, <2>2 DEF HeadInv
<1>7. CurrentInv'
  <2> SUFFICES ASSUME state = "parameters" PROVE CurrentInv'
    BY <1>3 DEF CurrentInv
  <2>1. PICK b \in Bullets(doc) : Current(b)
    BY <1>0 DEF CurrentInv
  <2>2. \A q \in Part(doc, b) : doc[q].form # "token"
    <3>1. b \in 1..Len(doc) /\ doc[b].form \in CallForm
      BY <1>4, BulletIs
    <3>2. \A q \in Part(doc, b) : doc[q].form = doc[b].form
      BY <1>4, <3>1, TextFacts
    <3> QED BY <3>1, <3>2 DEF CallForm, WholeForm
  <2>3. TagEnd(doc, b)' = TagEnd(doc, b) /\ Part(doc, b)' = Part(doc, b) /\ call' = call
    BY <1>2, <1>3 DEF call
  <2>4. /\ Named(b)' /\ \A q \in Unread' : TagEnd(doc, b)' < q
    BY <1>2, <1>5, <2>1, <2>3 DEF Current
  <2>5. CASE /\ params = {} /\ doc[b].form # "bare"
             /\ \A q \in Part(doc, b) : TagEnd(doc, b) < q => q \in Unread
    <3>1. \A q \in Part(doc, b) : TagEnd(doc, b) < q => q \in Unread'
      BY <1>2, <2>2, <2>5
    <3>2. Current(b)'
      BY <1>2, <1>3, <2>3, <2>4, <2>5, <3>1 DEF Current
    <3> QED BY <1>5, <3>2 DEF CurrentInv
  <2>6. CASE /\ \A q \in Part(doc, b) : q \notin Unread
             /\ ~crowded => call = CallAt(doc, b)
    <3>1. \A q \in Part(doc, b) : q \notin Unread'
      BY <1>2, <2>6
    <3>2. ~crowded' => call' = CallAt(doc, b)'
      BY <1>3, <1>5, <2>3, <2>6
    <3>3. Current(b)'
      BY <2>3, <2>4, <3>1, <3>2 DEF Current
    <3> QED BY <1>5, <3>3 DEF CurrentInv
  <2> QED BY <2>1, <2>5, <2>6 DEF Current
<1>8. ShownInv'
  <2>1. ASSUME NEW p \in Prose, p \in Unread PROVE p \in Unread'
    BY <1>2, <2>1 DEF Prose
  <2> QED BY <1>0, <1>2, <1>3, <1>5, <2>1 DEF ShownInv
<1>9. CallsInv'
  <2> SUFFICES ASSUME ~crowded' PROVE CallsInv'
    BY DEF CallsInv
  <2>1. ~crowded
    BY <1>3
  <2>2. ASSUME NEW b \in Bullets(doc), b \in Unread PROVE b \in Unread'
    BY <1>2, <1>4, <2>2, BulletIs DEF CallForm, WholeForm
  <2> QED BY <1>0, <1>2, <1>3, <1>5, <2>1, <2>2 DEF CallsInv
<1>10. TypeOK'
  BY <1>0, FeedType
<1>11. IdleInv'
  BY <1>3 DEF IdleInv
<1>12. PartInv'
  BY <1>2 DEF Feed, PartInv, Parts
<1> QED BY <1>2, <1>6, <1>7, <1>8, <1>9, <1>10, <1>11, <1>12, FeedKeepsTorn, FeedKeepsApart
       DEF WholeInv

\* flush finds no token that is complete.
LEMMA NothingToStrip == ASSUME TypeOK, LeftInv PROVE Strip(doc, buffer) = buffer
<1>1. Solid(doc, buffer, fed)
  BY Basics
<1>2. \A k : k \in Strip(doc, buffer) <=>
                k \in buffer /\ (doc[k].form = "token" => ~(Part(doc, k) \subseteq buffer))
  BY <1>1, StripIs
<1>3. \A k : k \in Strip(doc, buffer) <=> k \in buffer
  BY <1>2 DEF LeftInv
<1> QED BY <1>3

\* At the end of the stream the call being read is complete, but for one that is cut short.
LEMMA CutShort ==
    ASSUME TypeOK, LeftInv, IdleInv, state = "parameters", pc = "idle", fed = Len(doc),
           NEW b \in Bullets(doc), Current(b), NEW p \in Unread, p \in Part(doc, b),
           NEW h, h = ParamFrom(doc, b)
    PROVE  /\ doc[b].form = "cut" /\ h \in Int /\ Letter(doc, h + 2) = "Q"
           /\ \A k : k \in buffer <=> k \in h + 1..h + 5
           /\ \A k \in buffer : k \in Part(doc, b)
           /\ Len(doc) = h + 5
<1>1. Parameters(doc, buffer) = {}
  BY DEF IdleInv
<1>2. /\ IsText(doc) /\ Len(doc) \in Nat
      /\ \A k \in buffer : k \in Int /\ k \in Unread /\ k <= fed
      /\ \A k \in Unread : k \in Int /\ k <= Len(doc) /\ (k <= fed => k \in buffer)
  BY Basics
<1>3. PICK g : g = TagEnd(doc, b)
  OBVIOUS
<1>4. /\ h \in Int /\ h = g + (IF doc[b].form = "loose" THEN 1 ELSE 0)
      /\ \A k \in Int : g < k /\ k <= End(doc, b) => k \in Unread /\ k \in Part(doc, b)
      /\ doc[b].form = "cut" => End(doc, b) = h + 5 /\ End(doc, b) = Len(doc)
      /\ doc[b].form \in WholeForm => End(doc, b) = h + 8
      /\ doc[b].form \in {"cut"} \cup WholeForm
      /\ g \in Int /\ Letter(doc, h + 2) = "Q"
  BY <1>3, WholeParameter
<1>5. doc[b].form = "cut"
  <2>1. fed < End(doc, b) \/ doc[b].form = "cut"
    BY <1>1, NothingLeft
  <2>2. End(doc, b) \in Int
    BY <1>4
  <2>3. End(doc, b) <= fed
    <3>1. b \in 1..Len(doc)
      BY <1>2, BulletIs
    <3> QED BY <1>2, <3>1, TextFacts
  <2> QED BY <1>2, <2>1, <2>2, <2>3
<1>6. h = g /\ End(doc, b) = h + 5 /\ Len(doc) = h + 5
  BY <1>4, <1>5
<1>7. ASSUME NEW k \in buffer PROVE k \in h + 1..h + 5 /\ k \in Part(doc, b)
  <2>1. k \in Int /\ h < k /\ k <= h + 5
    BY <1>2, <1>3, <1>6, <1>7 DEF Current
  <2> QED BY <1>4, <1>6, <2>1
<1>8. ASSUME NEW k \in h + 1..h + 5 PROVE k \in buffer
  <2>1. k \in Int /\ h < k /\ k <= h + 5
    BY <1>4, <1>8
  <2>2. k \in Unread /\ k <= fed
    BY <1>4, <1>6, <2>1
  <2> QED BY <1>2, <2>2
<1> QED BY <1>4, <1>5, <1>6, <1>7, <1>8

\* The parameter that flush adds.
LEMMA LastValue ==
    ASSUME TypeOK, LeftInv, HeadInv, CurrentInv, IdleInv, state = "parameters", pc = "idle",
           fed = Len(doc), ~crowded, NEW b \in Bullets(doc), Current(b),
           \A q \in Unread : Named(q) /\ doc[q].form \in CallForm => q \in Part(doc, b)
    PROVE  <<name, params \cup LastParameter(buffer)>> = CallAt(doc, b)
<1>1. /\ IsText(doc) /\ Len(doc) \in Nat /\ fed \in Int /\ Solid(doc, buffer, fed)
      /\ \A k \in buffer : k \in Int /\ k \in Unread /\ k <= fed /\ k \in 1..Len(doc)
      /\ \A k \in Unread : k <= fed => k \in buffer
  BY Basics
<1>2. b \in 1..Len(doc) /\ doc[b].form \in CallForm
  BY <1>1, BulletIs
<1>3. \A q : q \in OpenParameters(doc, buffer) <=>
                q \in buffer /\ Letter(doc, q) = "Q" /\ q - 1 \in buffer /\ q + 2 <= fed
  BY <1>1, OpenAre
<1>4. PICK g : g = TagEnd(doc, b)
  OBVIOUS
<1>9. PICK h : h = ParamFrom(doc, b)
  OBVIOUS
<1>5. name = CallAt(doc, b)[1] /\ CallAt(doc, b) = <<CallAt(doc, b)[1], CallAt(doc, b)[2]>>
  BY <1>1, <1>2, <1>4, <1>9, CallAtIs DEF Current, Named
<1>6. CASE \E p \in Unread : p \in Part(doc, b)
  <2>1. PICK p \in Unread : p \in Part(doc, b)
    BY <1>6
  <2>2. /\ doc[b].form = "cut" /\ h \in Int /\ Letter(doc, h + 2) = "Q"
        /\ \A k : k \in buffer <=> k \in h + 1..h + 5
        /\ \A k \in buffer : k \in Part(doc, b)
        /\ Len(doc) = h + 5
    BY <1>9, <2>1, CutShort
  <2>3. params = {}
    BY <2>1 DEF Current
  <2>4. \A q : q \in OpenParameters(doc, buffer) <=> q = h + 2
    <3>1. h + 2 \in buffer /\ (h + 2) - 1 \in buffer /\ (h + 2) + 2 <= fed
      BY <2>2
    <3>2. ASSUME NEW q \in buffer, Letter(doc, q) = "Q" PROVE q = h + 2
      <4>1. q \in Part(doc, b)
        BY <2>2
      <4>2. Letter(doc, q) = "Q" <=> (doc[b].form # "bare" /\ q = h + 2)
        BY <1>1, <1>2, <1>4, <1>9, <4>1, CallLetterAt
      <4> QED BY <3>2, <4>2
    <3> QED BY <1>3, <2>2, <3>1, <3>2
  <2>5. Close(doc, buffer, h + 2) = {h + 4} /\ Between(buffer, h + 2, h + 4) = {h + 3}
    <3>1. h + 2 \in buffer /\ h + 2 + 2 <= fed
      BY <2>2
    <3>2. /\ Close(doc, buffer, h + 2) = {h + 2 + 2}
          /\ Between(buffer, h + 2, h + 2 + 2) = {h + 2 + 1}
      BY <1>1, <2>2, <3>1, Closes
    <3>3. h + 2 + 2 = h + 4 /\ h + 2 + 1 = h + 3
      BY <2>2
    <3> QED BY <3>2, <3>3
  <2>6. Beyond(buffer, h + 4) = {h + 5}
    BY <2>2 DEF Beyond
  <2>7. LastParameter(buffer) = {<<{h + 3}, {h + 5}>>}
    <3>1. {q \in OpenParameters(doc, buffer) : \A j \in OpenParameters(doc, buffer) : q <= j}
             = {h + 2}
      BY <2>2, <2>4
    <3> DEFINE A(q) ==
                 {<<Between(buffer, q, e), Beyond(buffer, e)>> : e \in Close(doc, buffer, q)}
    <3>2. A(h + 2) = {<<{h + 3}, {h + 5}>>}
      BY <2>5, <2>6
    <3>3. LastParameter(buffer) = UNION {A(q) : q \in {h + 2}}
      BY <3>1 DEF LastParameter
    <3> HIDE DEF A
    <3>4. UNION {A(q) : q \in {h + 2}} = A(h + 2)
      OBVIOUS
    <3> QED BY <3>2, <3>3, <3>4
  <2>8. CallAt(doc, b)[2] = {<<{h + 3}, {h + 5}>>}
    BY <1>1, <1>2, <1>4, <1>9, <2>2, CallAtIs
  <2> QED BY <1>5, <2>3, <2>7, <2>8
<1>7. CASE \A p \in Unread : p \notin Part(doc, b)
  <2>1. call = CallAt(doc, b)
    <3>1. PICK z : (z \in Part(doc, b) /\ TagEnd(doc, b) < z) \/ doc[b].form = "bare"
      <4>1. /\ g \in 1..Len(doc) /\ Start(doc, b) + 5 <= g
            /\ h \in 1..Len(doc) /\ g <= h
            /\ doc[b].form = "cut" => End(doc, b) = h + 5
            /\ doc[b].form \in WholeForm => End(doc, b) = h + 8
        BY <1>1, <1>2, <1>4, <1>9, CallFacts
      <4>2. Start(doc, b) \in Int /\ End(doc, b) \in Int
        BY <1>1, <1>2, TextFacts
      <4>3. doc[b].form # "bare" => g + 5 <= End(doc, b)
        BY <1>2, <4>1, <4>2 DEF CallForm
      <4>4. doc[b].form # "bare" => g + 1 \in Part(doc, b) /\ g < g + 1
        BY <4>1, <4>2, <4>3 DEF Part
      <4> QED BY <1>4, <4>4
    <3> QED BY <1>7, <3>1 DEF Current
  <2>2. ASSUME NEW q \in OpenParameters(doc, buffer) PROVE FALSE
    <3>1. q \in buffer /\ Letter(doc, q) = "Q"
      BY <1>3
    <3>2. q \in 1..Len(doc) /\ q \in Unread /\ doc[q].form \in CallForm
      BY <1>1, <3>1, LetterForms DEF CallForm, WholeForm
    <3>3. \A k \in buffer : k <= fed => Letter(doc, k) # "B"
      BY DEF IdleInv, At
    <3>4. ~Named(q)
      BY <1>7, <3>2
    <3>5. fed < Start(doc, q) + 1
      BY <1>1, <3>2, <3>3, <3>4, NoBulletNoCall
    <3> QED BY <1>1, <3>1, <3>2, <3>5, TextFacts
  <2>3. LastParameter(buffer) = {}
    BY <2>2 DEF LastParameter
  <2> QED BY <2>1, <2>3 DEF call
<1> QED BY <1>6, <1>7

\* What flush drops with the call is no prose, unless it is behind a stray bracket.
LEMMA TagIsNoProse ==
    ASSUME TypeOK, LeftInv, HeadInv, CurrentInv, IdleInv, state = "parameters", pc = "idle",
           fed = Len(doc), NEW p \in buffer, doc[p].form = "prose", \A k \in Stray : p < k
    PROVE  FALSE
<1>1. /\ IsText(doc) /\ Len(doc) \in Nat /\ fed \in Int /\ Solid(doc, buffer, fed)
      /\ \A k \in buffer : k \in Int /\ k \in Unread /\ k <= fed /\ k \in 1..Len(doc)
      /\ \A k \in Unread : k <= fed => k \in buffer
  BY Basics
<1>2. PICK b \in Bullets(doc) :
         /\ Current(b)
         /\ \A q \in Unread : Named(q) /\ doc[q].form \in CallForm => q \in Part(doc, b)
  BY CurrentCall
<1>3. \A k \in buffer : k <= fed => Letter(doc, k) # "B"
  BY DEF IdleInv, At
<1>4. LooksLikeTag
  BY DEF IdleInv
<1>5. ASSUME NEW q \in buffer, doc[q].form \in CallForm PROVE FALSE
  <2>1. q \in 1..Len(doc) /\ q \in Unread /\ q <= fed
    BY <1>1
  <2>2. Named(q)
    <3>1. ~Named(q) => fed < Start(doc, q) + 1
      BY <1>1, <1>3, <1>5, <2>1, NoBulletNoCall
    <3>2. Start(doc, q) \in Int /\ Start(doc, q) < q
      BY <1>1, <2>1, TextFacts
    <3>3. q \in Int
      BY <1>1
    <3> QED BY <1>1, <2>1, <3>1, <3>2, <3>3
  <2>3. q \in Part(doc, b)
    BY <1>2, <1>5, <2>1, <2>2
  <2>4. PICK h : h = ParamFrom(doc, b)
    OBVIOUS
  <2>5. p \in Part(doc, b) /\ doc[b].form = "cut"
    BY <1>2, <2>1, <2>3, <2>4, CutShort
  <2>6. doc[p].form = "cut"
    <3>1. b \in 1..Len(doc)
      BY <1>1, BulletIs
    <3> QED BY <1>1, <2>5, <3>1, TextFacts
  <2> QED BY <2>6
<1>6. CASE \E i \in At(doc, buffer, "<") : \A j \in Ahead(buffer, i) : Letter(doc, j) = "S"
  <2>1. PICK i \in buffer : /\ Letter(doc, i) = "<"
                            /\ \A j \in Ahead(buffer, i) : Letter(doc, j) = "S"
    BY <1>6 DEF At
  <2>2. i \in 1..Len(doc) /\ i \in Int /\ p \in Int /\ p \in 1..Len(doc) /\ i <= fed
    BY <1>1
  <2>3. ~(p < i)
    <3>1. Letter(doc, p) # "S"
      BY <1>1, <2>2, LetterForms DEF WholeForm
    <3> QED BY <2>1, <3>1 DEF Ahead
  <2>4. doc[i].form \in {"token", "bracket"} /\ i = Start(doc, i) + 1
    BY <1>1, <1>5, <2>1, <2>2, LetterForms
  <2>5. doc[i].form # "bracket"
    <3>1. i \in Stray => p < i
      OBVIOUS
    <3> QED BY <2>2, <2>3, <3>1 DEF Stray, StrayForm
  <2>6. Part(doc, i) \subseteq buffer
    <3>1. ASSUME NEW q \in Part(doc, i) PROVE q \in buffer
      <4>1. q \in 1..Len(doc) /\ q <= fed /\ Start(doc, q) = Start(doc, i)
        BY <1>1, <2>2, TextFacts
      <4>2. Start(doc, q) < q /\ Start(doc, q) \in Int /\ q \in Int
        BY <1>1, <4>1, TextFacts
      <4>3. i <= q
        BY <2>4, <4>1, <4>2
      <4> QED BY <1>1, <4>1, <4>3, Filled
    <3> QED BY <3>1
  <2> QED BY <2>1, <2>4, <2>5, <2>6 DEF LeftInv
<1>7. CASE Word(doc, buffer, "Q") # {}
  <2>1. PICK q \in buffer : Letter(doc, q) = "Q"
    BY <1>7 DEF Word, At
  <2>2. doc[q].form \in CallForm
    BY <1>1, <2>1, LetterForms DEF CallForm, WholeForm
  <2> QED BY <1>5, <2>2
<1> QED BY <1>4, <1>6, <1>7 DEF LooksLikeTag

\* flush.
LEMMA FlushKeeps == WholeInv /\ Flush => WholeInv'
<1> SUFFICES ASSUME WholeInv, Flush PROVE WholeInv'
  OBVIOUS
<1>0. /\ TypeOK /\ LeftInv /\ HeadInv /\ CurrentInv /\ IdleInv
      /\ TornInv /\ ShownInv /\ ApartInv /\ CallsInv /\ PartInv
  BY DEF WholeInv
<1>1. /\ pc = "idle" /\ pc' = "flushed" /\ fed = Len(doc)
      /\ UNCHANGED <<doc, fed, name, params, shown, ordered, torn, crowded>>
  BY DEF Flush, ShowNothing, call
<1>2. Strip(doc, buffer) = buffer
  BY <1>0, NothingToStrip
<1>3. /\ IsText(doc) /\ fed \in Nat /\ Solid(doc, buffer, fed)
      /\ \A k \in buffer : k \in Int /\ k \in Unread /\ k <= fed /\ k \in 1..Len(doc) /\ 1 <= k
      /\ \A k \in Unread : k \in 1..Len(doc) /\ k \in Int /\ k \in buffer
  BY <1>0, <1>1, Basics
<1>4. /\ Prose' = Prose /\ Stray' = Stray /\ Blanks' = Blanks
      /\ Bullets(doc)' = Bullets(doc) /\ PartInv'
  BY <1>0, <1>1, KeepsPart DEF Prose, Stray, Blanks
<1>5. TypeOK'
  BY <1>0, FlushType
<1>6. CASE state = "parameters"
  <2>1. /\ calls' = Append(calls, <<name, params \cup LastParameter(buffer)>>)
        /\ buffer' = {} /\ state' = "text"
    BY <1>2, <1>6 DEF Flush
  <2>2. Cut(fed)
    <3>1. {} = Beyond(buffer, fed)
      BY <1>3 DEF Beyond
    <3> QED BY <1>1, <1>3, <2>1, <3>1 DEF Cut
  <2>3. \A p : p \notin Unread'
    <3>1. \A p \in Unread' : p \in Unread /\ fed < p
      BY <1>0, <2>2, CutLeaves
    <3> QED BY <1>3, <3>1
  <2>4. PICK b \in Bullets(doc) :
           /\ Current(b)
           /\ \A q \in Unread : Named(q) /\ doc[q].form \in CallForm => q \in Part(doc, b)
    BY <1>0, <1>6, CurrentCall
  <2>5. CallsInv'
    <3>1. \A p \in buffer : p <= fed => p \notin Bullets(doc)
      <4>1. \A p \in buffer : Letter(doc, p) # "B"
        BY <1>0, <1>1, <1>6 DEF IdleInv, At
      <4> QED BY <1>3, <4>1, BulletIs
    <3>2. ~crowded => <<name, params \cup LastParameter(buffer)>> = CallAt(doc, b)
      BY <1>0, <1>1, <1>6, <2>4, LastValue
    <3>3. Named(b) /\ \A q \in Unread : TagEnd(doc, b) < q
      BY <2>4 DEF Current
    <3> QED BY <1>0, <1>1, <2>1, <2>2, <3>1, <3>2, <3>3, NextCall
  <2>6. ShownInv'
    <3>1. ASSUME NEW p \in Prose, \A q \in Stray : p < q PROVE p \in shown
      <4>1. p \in shown \/ p \in buffer
        BY <1>0, <1>3, <3>1 DEF ShownInv
      <4>2. doc[p].form = "prose"
        BY DEF Prose
      <4>3. p \notin buffer
        BY <1>0, <1>1, <1>6, <3>1, <4>2, TagIsNoProse
      <4> QED BY <4>1, <4>3
    <3> QED BY <1>0, <1>1, <1>4, <2>3, <3>1 DEF ShownInv
  <2>7. HeadInv' /\ CurrentInv' /\ IdleInv'
    BY <1>1, <2>1, <2>3 DEF HeadInv, CurrentInv, IdleInv
  <2>8. LeftInv' /\ TornInv' /\ ApartInv'
    BY <1>0, <1>1, <2>1, <2>2, CutLeaves, CutKeepsTorn, CutKeepsApart
  <2> QED BY <1>4, <1>5, <2>5, <2>6, <2>7, <2>8 DEF WholeInv
<1>7. CASE state # "parameters"
  <2>1. buffer' = buffer /\ state' = state /\ calls' = calls
    BY <1>2, <1>7 DEF Flush
  <2>2. Unread' = Unread
    BY <1>1, <2>1 DEF Unread
  <2>3. state \in {"text", "function"}
    BY <1>0, <1>7 DEF TypeOK
  <2>4. ASSUME NEW p \in buffer, p \in Bullets(doc) PROVE FALSE
    <3>1. doc[p].form \in CallForm /\ doc[p].at = 1 /\ p \in 1..Len(doc)
      BY <1>3, <2>4, BulletIs
    <3>2. CASE state = "text"
      <4>1. doc[p].form = "token"
        BY <1>0, <1>1, <3>2 DEF IdleInv
      <4> QED BY <3>1, <4>1 DEF CallForm, WholeForm
    <3>3. CASE state = "function"
      <4>1. TagEnd(doc, p) <= fed
        BY <1>1, <1>3, <3>1, CallFacts
      <4>2. p \in Functions(doc, buffer)
        BY <1>3, <3>1, <4>1, FunctionsAre
      <4> QED BY <1>0, <1>1, <3>3, <4>2 DEF IdleInv
    <3> QED BY <2>3, <3>2, <3>3
  <2>5. ASSUME NEW p \in buffer, doc[p].form = "prose", \A k \in Stray : p < k PROVE FALSE
    <3>1. CASE state = "text"
      BY <1>0, <1>1, <2>5, <3>1 DEF IdleInv
    <3>2. CASE state = "function"
      <4>1. PICK i \in buffer : IsLeast(i, buffer) /\ Letter(doc, i) = "B"
        BY <1>0, <1>1, <3>2 DEF HeadInv
      <4>2. i \in Stray
        <5>1. i \in Bullets(doc) \/ doc[i].form = "bullet"
          BY <1>0, <1>7, <4>1, NoValueFirst DEF IsLeast, Named
        <5> QED BY <1>3, <2>4, <5>1 DEF Stray, StrayForm
      <4>3. i \in Int /\ p \in Int /\ i <= p /\ p < i
        BY <1>3, <2>5, <4>1, <4>2 DEF IsLeast
      <4> QED BY <4>3
    <3> QED BY <2>3, <3>1, <3>2
  <2>6. ShownInv'
    <3>1. ASSUME NEW p \in Prose, \A q \in Stray : p < q PROVE p \in shown
      <4>1. p \in shown \/ p \in buffer
        BY <1>0, <1>3, <3>1 DEF ShownInv
      <4>2. doc[p].form = "prose"
        BY DEF Prose
      <4> QED BY <2>5, <3>1, <4>1, <4>2
    <3> QED BY <1>0, <1>1, <1>4, <2>2, <3>1 DEF ShownInv
  <2>7. LeftInv' /\ TornInv' /\ ApartInv' /\ CurrentInv'
    BY <1>0, <1>1, <1>7, <2>1, <2>2 DEF LeftInv, TornInv, ApartInv, CurrentInv
  <2>8. HeadInv'
    BY <1>0, <1>1, <2>1, <2>2 DEF HeadInv, Named
  <2>9. CallsInv'
    BY <1>0, <1>1, <1>7, <2>1, <2>2 DEF CallsInv, Named
  <2>10. IdleInv'
    BY <1>1, <1>4, <1>7, <2>1, <2>4 DEF IdleInv
  <2> QED BY <1>4, <1>5, <2>6, <2>7, <2>8, <2>9, <2>10 DEF WholeInv
<1> QED BY <1>6, <1>7

------------------------------------------------------------------------------
(* What follows from it.                                                   *)

\* Text is shown in order wherever it was cut: a step shows what is in front of what it
\* leaves to be read.
LEMMA Shows ==
    ASSUME TypeOK, OrderInv, NEW W, Show(W), UNCHANGED <<doc, fed>>,
           \A p \in W : p \in buffer, \A p \in W, q \in buffer' : p < q,
           \A p \in buffer' : p \in buffer
    PROVE  OrderInv'
<1>1. /\ fed \in Int /\ Len(doc) \in Int /\ \A p \in buffer : p \in Int /\ p <= fed
  BY DocumentAssumption DEF TypeOK, Stretch, IsText
<1>2. \A q \in Unread' : q \in buffer' \/ q \in fed + 1..Len(doc)
  BY DEF Unread
<1>3. \A q \in Unread' : q \in Unread
  BY <1>2 DEF Unread
<1>4. \A p \in W, q \in Unread' : p < q
  BY <1>1, <1>2
<1>5. \A p \in shown' : p \in shown \/ p \in W
  BY DEF Show
<1>6. ordered'
  BY DEF Show, OrderInv, Unread
<1> QED BY <1>3, <1>4, <1>5, <1>6 DEF OrderInv

\* So it is by a step that shows nothing and leaves nothing that was not there.
LEMMA Drops ==
    ASSUME OrderInv, ShowNothing, \A q \in Unread' : q \in Unread
    PROVE  OrderInv'
  BY DEF OrderInv, ShowNothing

\* Each step of the loop.
LEMMA LoopOrder == TypeOK /\ OrderInv /\ Loop => OrderInv'
<1> SUFFICES ASSUME TypeOK, OrderInv, Loop PROVE OrderInv'
  OBVIOUS
<1>1. /\ fed \in Int /\ \A p \in buffer : p \in Int /\ p <= fed
  BY DEF TypeOK, Stretch
<1>2. CASE FindBullet
  <2>1. PICK i \in buffer : Show(Ahead(buffer, i)) /\ buffer' = Onward(buffer, i)
    BY <1>2 DEF FindBullet
  <2>2. UNCHANGED <<doc, fed>>
    BY <1>2 DEF FindBullet
  <2>3. \A p \in Ahead(buffer, i), q \in buffer' : p \in buffer /\ q \in buffer /\ p < q
    BY <1>1, <2>1 DEF Ahead, Onward
  <2> QED BY <2>1, <2>2, <2>3, Shows DEF Ahead, Onward
<1>3. CASE ShowText
  <2>1. UNCHANGED <<doc, fed>>
    BY <1>3 DEF ShowText
  <2>2. CASE \E i \in OpenToken : Show(Ahead(buffer, i)) /\ buffer' = Onward(buffer, i)
    <3>1. PICK i \in buffer : Show(Ahead(buffer, i)) /\ buffer' = Onward(buffer, i)
      BY <2>2 DEF OpenToken, Pair, At
    <3>2. \A p \in Ahead(buffer, i), q \in buffer' : p \in buffer /\ q \in buffer /\ p < q
      BY <1>1, <3>1 DEF Ahead, Onward
    <3> QED BY <2>1, <3>1, <3>2, Shows DEF Ahead, Onward
  <2>3. CASE Show(buffer) /\ buffer' = {}
    BY <2>1, <2>3, Shows
  <2> QED BY <1>3, <2>2, <2>3 DEF ShowText
<1>4. CASE FunctionTag
  <2>1. /\ \E e : buffer' = Beyond(buffer, e)
        /\ ShowNothing /\ UNCHANGED <<doc, fed>>
    BY <1>4 DEF FunctionTag
  <2> QED BY <2>1, Drops DEF Unread, Beyond
<1>5. CASE WaitForTag
  BY <1>5, Drops DEF WaitForTag, Unread
<1>6. CASE GiveUp
  <2>1. PICK i \in buffer : /\ IsLeast(i, buffer) /\ Show({i})
                            /\ buffer' = Beyond(buffer, i)
    BY <1>6 DEF GiveUp
  <2>2. UNCHANGED <<doc, fed>>
    BY <1>6 DEF GiveUp
  <2>3. \A q \in buffer' : q \in buffer /\ i < q
    BY <1>1, <2>1 DEF Beyond
  <2> QED BY <2>1, <2>2, <2>3, Shows
<1>7. CASE Parameter
  <2>1. PICK q, e, u, p, v :
           /\ q \in buffer /\ e \in Close(doc, buffer, q) /\ u \in ValueEnd(doc, buffer, e)
           /\ p \in buffer /\ v \in buffer /\ Adjacent(buffer, p, q) /\ Adjacent(buffer, u, v)
           /\ Show(Ahead(buffer, p)) /\ buffer' = Beyond(buffer, v)
    BY <1>7 DEF Parameter, Parameters, OpenParameters, Word, At
  <2>2. UNCHANGED <<doc, fed>>
    BY <1>7 DEF Parameter
  <2>3. e \in buffer /\ u \in buffer /\ p < q /\ q < e /\ e < u /\ u < v
    BY <2>1 DEF Close, ValueEnd, Word, At, Adjacent
  <2>4. p \in Int /\ q \in Int /\ e \in Int /\ u \in Int /\ v \in Int
    BY <1>1, <2>1, <2>3
  <2>5. p < v
    BY <2>3, <2>4
  <2>6. ASSUME NEW k \in Ahead(buffer, p), NEW r \in buffer' PROVE k < r
    <3>1. k \in Int /\ r \in Int /\ k < p /\ v < r
      BY <1>1, <2>1 DEF Ahead, Beyond
    <3> QED BY <2>4, <2>5, <3>1
  <2> QED BY <2>1, <2>2, <2>6, Shows DEF Ahead, Beyond
<1>8. CASE NextBullet
  <2>1. PICK i \in buffer : Show(Ahead(buffer, i)) /\ buffer' = Onward(buffer, i)
    BY <1>8 DEF NextBullet
  <2>2. UNCHANGED <<doc, fed>>
    BY <1>8 DEF NextBullet
  <2>3. \A p \in Ahead(buffer, i), q \in buffer' : p \in buffer /\ q \in buffer /\ p < q
    BY <1>1, <2>1 DEF Ahead, Onward
  <2> QED BY <2>1, <2>2, <2>3, Shows DEF Ahead, Onward
<1>9. CASE TextAfterCall
  BY <1>9, Shows DEF TextAfterCall
<1>10. CASE WaitForMore
  BY <1>10, Drops DEF WaitForMore, Unread
<1> QED BY <1>2, <1>3, <1>4, <1>5, <1>6, <1>7, <1>8, <1>9, <1>10 DEF Loop

\* And feed and flush.
LEMMA OrderStep == TypeOK /\ OrderInv /\ [Next]_vars => OrderInv'
<1> SUFFICES ASSUME TypeOK, OrderInv, [Next]_vars PROVE OrderInv'
  OBVIOUS
<1>1. CASE Loop
  BY <1>1, LoopOrder
<1>2. \A S : Strip(doc, S) \subseteq S
  BY DEF Strip
<1>3. CASE Flush
  <2>1. /\ \A p \in buffer' : p \in buffer
        /\ ShowNothing /\ UNCHANGED <<doc, fed>>
    BY <1>2, <1>3 DEF Flush
  <2> QED BY <2>1, Drops DEF Unread
<1>4. ASSUME NEW n, Feed(n) PROVE OrderInv'
  <2>1. /\ n \in 1..Len(doc) - fed /\ fed' = fed + n /\ doc' = doc /\ ShowNothing
        /\ \A p \in buffer' : p \in buffer \/ p \in fed + 1..fed + n
    BY <1>2, <1>4 DEF Feed
  <2>2. fed \in Int /\ Len(doc) \in Int
    BY DocumentAssumption DEF TypeOK, IsText
  <2>3. ASSUME NEW q \in Unread' PROVE q \in Unread
    <3>1. q \in buffer' \/ q \in fed + n + 1..Len(doc)
      BY <2>1 DEF Unread
    <3>2. q \in buffer \/ q \in fed + 1..Len(doc)
      BY <2>1, <2>2, <3>1
    <3> QED BY <3>2 DEF Unread
  <2> QED BY <2>1, <2>3, Drops
<1>5. CASE UNCHANGED vars
  BY <1>5, Drops DEF vars, ShowNothing, Unread
<1> QED BY <1>1, <1>3, <1>4, <1>5 DEF Next

\* The invariant holds at first.
LEMMA InitInv == Init => Inv
<1> SUFFICES ASSUME Init PROVE Inv
  OBVIOUS
<1>1. TypeOK
  BY InitType
<1>2. /\ doc \in Document /\ fed = 0 /\ buffer = {} /\ state = "text" /\ pc = "idle"
      /\ shown = {} /\ ordered = TRUE /\ calls = << >> /\ torn = FALSE /\ crowded = FALSE
  BY DEF Init
<1>3. IsText(doc) /\ Len(doc) \in Nat
  BY <1>2, DocumentAssumption DEF IsText
<1>4. Unread = 1..Len(doc)
  BY <1>2, <1>3 DEF Unread
<1>5. LeftInv
  <2>1. \A p \in Unread : Part(doc, p) \subseteq Unread
    BY <1>3, <1>4 DEF IsText
  <2> QED BY <1>2, <1>3, <1>4, <2>1 DEF LeftInv, Solid
<1>6. HeadInv
  <2>1. ASSUME NEW p \in Unread, doc[p].form \in CallForm PROVE Start(doc, p) + 1 \in Unread
    BY <1>3, <1>4, <2>1, OwnBullet
  <2> QED BY <1>2, <2>1 DEF HeadInv
<1>7. ShownInv
  BY <1>2, <1>4 DEF ShownInv, Prose
<1>8. CallsInv
  <2>1. \A b \in Bullets(doc) : b \in Unread
    BY <1>4 DEF Bullets
  <2> QED BY <1>2, <2>1 DEF CallsInv
<1>9. CurrentInv /\ IdleInv /\ TornInv /\ ApartInv /\ PartInv /\ OrderInv
  BY <1>2 DEF CurrentInv, IdleInv, TornInv, ApartInv, PartInv, OrderInv
<1> QED BY <1>1, <1>5, <1>6, <1>7, <1>8, <1>9 DEF Inv, WholeInv

\* What holds as long as no cut parts a call from its parameter, step by step.
LEMMA WholeStep == WholeInv /\ [Next]_vars /\ ~parted' => WholeInv'
<1> SUFFICES ASSUME WholeInv, [Next]_vars, ~parted' PROVE WholeInv'
  OBVIOUS
<1>1. CASE Loop
  BY <1>1, FindBulletKeeps, ShowTextKeeps, FunctionTagKeeps, WaitForTagKeeps, GiveUpKeeps,
     ParameterKeeps, NextBulletKeeps, TextAfterCallKeeps, WaitForMoreKeeps DEF Loop
<1>2. CASE Flush
  BY <1>2, FlushKeeps
<1>3. ASSUME NEW n, Feed(n) PROVE WholeInv'
  BY <1>3, FeedKeeps
<1>4. CASE UNCHANGED vars
  <2>1. TypeOK' /\ LeftInv' /\ PartInv'
    BY <1>4, NextType, KeepsPart DEF vars, WholeInv, LeftInv, Unread
  <2>2. HeadInv' /\ CurrentInv' /\ IdleInv'
    BY <1>4 DEF vars, call, WholeInv, HeadInv, CurrentInv, Current, Named, IdleInv,
                LooksLikeTag, Unread
  <2>3. TornInv' /\ ApartInv'
    BY <1>4 DEF vars, call, WholeInv, TornInv, ApartInv
  <2>4. ShownInv'
    BY <1>4 DEF vars, WholeInv, ShownInv, Prose, Stray, Blanks, Unread
  <2>5. CallsInv'
    BY <1>4 DEF vars, call, WholeInv, CallsInv, Named, Unread
  <2> QED BY <2>1, <2>2, <2>3, <2>4, <2>5 DEF WholeInv
<1> QED BY <1>1, <1>2, <1>3, <1>4 DEF Next

\* Once a cut has parted one, it has.
LEMMA PartedStays == TypeOK /\ [Next]_vars /\ ~parted' => ~parted
  BY DEF TypeOK, Next, vars, Loop, FindBullet, ShowText, FunctionTag, WaitForTag, GiveUp,
         Parameter, NextBullet, TextAfterCall, WaitForMore, Flush, Feed

\* Every step keeps the invariant.
LEMMA StepInv == Inv /\ [Next]_vars => Inv'
  BY NextType, OrderStep, WholeStep, PartedStays DEF Inv

\* So it always holds.
LEMMA Invariant == Spec => []Inv
  BY InitInv, StepInv, PTL DEF Spec

\* Each call is detected once, in order and with its own parameter, wherever the text was
\* cut: as long as no piece brings a whole call behind an open one, and none ends with the
\* blank in front of a parameter or between a bullet in a value and the end of the
\* parameter (feed, flush).
THEOREM CallsSurvive == Spec => []CallsSurviveCuts
<1>1. Inv => CallsSurviveCuts
  <2> SUFFICES ASSUME Inv, ~parted, ~crowded, pc = "flushed"
               PROVE  /\ {calls[n] : n \in 1..Len(calls)} = {CallAt(doc, p) : p \in Bullets(doc)}
                      /\ \A m, n \in 1..Len(calls) :
                            m < n => \A p \in calls[m][1], q \in calls[n][1] : p < q
    BY DEF CallsSurviveCuts, EachCallOnce
  <2>1. TypeOK /\ LeftInv /\ IdleInv /\ CallsInv
    BY DEF Inv, WholeInv
  <2>2. fed = Len(doc) /\ state # "parameters" /\ buffer \cap Bullets(doc) = {}
    BY <2>1 DEF IdleInv
  <2>3. ASSUME NEW b \in Bullets(doc)
        PROVE  \E n \in 1..Len(calls) : calls[n] = CallAt(doc, b)
    <3>1. b \notin Unread
      <4>1. \A p \in Unread : p \in Int /\ p <= Len(doc) /\ (p <= fed => p \in buffer)
        <5>1. /\ Len(doc) \in Nat
              /\ \A p \in Unread : p \in 1..Len(doc) /\ (p <= fed => p \in buffer)
          BY <2>1, Basics
        <5> QED BY <5>1
      <4> QED BY <2>2, <4>1
    <3> QED BY <2>1, <2>2, <3>1 DEF CallsInv, Named
  <2> QED BY <2>1, <2>3 DEF CallsInv
<1> QED BY <1>1, Invariant, PTL

\* Wherever the text was cut, it is shown in order.  As long as no cut parts a call from its
\* parameter, the prose in front of the first stray bullet or bracket is shown; without any,
\* with control tokens in one piece and no crowded calls, the prose is shown whole and
\* nothing else but the blanks in front of parameters.
THEOREM ProseSurvives == Spec => []ProseSurvivesCuts
<1>1. Inv => ProseSurvivesCuts
  <2> SUFFICES ASSUME Inv PROVE ProseSurvivesCuts
    OBVIOUS
  <2>1. ordered
    BY DEF Inv, OrderInv
  <2>2. ~parted => ShownInv
    BY DEF Inv, WholeInv
  <2> QED BY <2>1, <2>2 DEF ShownInv, ProseSurvivesCuts
<1> QED BY <1>1, Invariant, PTL

==============================================================================
