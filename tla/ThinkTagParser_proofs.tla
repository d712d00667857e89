------------------------ MODULE ThinkTagParser_proofs ------------------------
(***************************************************************************)
(* What ThinkTagParser yields for every text, every two tags and every way *)
(* the text is cut.                                                        *)
(***************************************************************************)
EXTENDS ThinkTagParser, FiniteSetTheorems, TLAPS

------------------------------------------------------------------------------
(* Tags.                                                                   *)

BothTags == {OpenTag, CloseTag}

LEMMA TagFacts ==
    \A tag \in BothTags :
        /\ tag \in Seq(Char) /\ Len(tag) \in Nat \ {0} /\ tag[1] = Bracket
        /\ \A i \in 2..Len(tag) : tag[i] # Bracket
<1> SUFFICES ASSUME NEW tag \in BothTags
             PROVE  /\ tag \in Seq(Char) /\ Len(tag) \in Nat \ {0} /\ tag[1] = Bracket
                    /\ \A i \in 2..Len(tag) : tag[i] # Bracket
  OBVIOUS
<1>1. tag \in Seq(Char) /\ tag # << >>
  BY TagAssumption DEF BothTags
<1>2. Len(tag) \in Nat \ {0}
  BY <1>1
<1>3. \A i \in 1..Len(tag) : tag[i] = Bracket <=> i = 1
  BY TagAssumption DEF BothTags
<1> QED BY <1>1, <1>2, <1>3

LEMMA TagIsTag == OpenTag \in BothTags /\ CloseTag \in BothTags
  BY DEF BothTags

LEMMA SameSeq ==
    ASSUME NEW S, NEW a \in Seq(S), NEW b \in Seq(S), Len(a) = Len(b)
    PROVE  a = b <=> \A m \in 1..Len(b) : a[m] = b[m]
  OBVIOUS

\* A tag stands at i if its characters do.
LEMMA At ==
    ASSUME NEW s \in Seq(Char), NEW tag \in BothTags, NEW i \in Nat \ {0}
    PROVE  TagAt(tag, s, i) <=> /\ i + Len(tag) - 1 <= Len(s)
                                /\ \A m \in 1..Len(tag) : s[i + m - 1] = tag[m]
<1>1. tag \in Seq(Char) /\ Len(tag) \in Nat \ {0}
  BY TagFacts
<1> DEFINE e == i + Len(tag) - 1
           sub == SubSeq(s, i, e)
<1>2. CASE e <= Len(s)
  <2>1. sub \in Seq(Char) /\ Len(sub) = Len(tag)
    BY <1>1, <1>2
  <2>2. \A m \in 1..Len(tag) : sub[m] = s[i + m - 1]
    BY <1>1, <1>2
  <2>3. sub = tag <=> \A m \in 1..Len(tag) : sub[m] = tag[m]
    <3> HIDE DEF sub
    <3> QED BY <1>1, <2>1, SameSeq
  <2> QED BY <1>2, <2>2, <2>3 DEF TagAt
<1>3. CASE ~(e <= Len(s))
  BY <1>3 DEF TagAt
<1> QED BY <1>2, <1>3

\* The only bracket of a tag is its first character.
LEMMA BracketOfTag ==
    ASSUME NEW s \in Seq(Char), NEW tag \in BothTags, NEW i \in Nat \ {0}, TagAt(tag, s, i)
    PROVE  /\ s[i] = Bracket /\ i + Len(tag) - 1 <= Len(s)
           /\ \A k \in Nat : i < k /\ k < i + Len(tag) => s[k] # Bracket
<1>1. Len(tag) \in Nat \ {0} /\ tag[1] = Bracket /\ \A m \in 2..Len(tag) : tag[m] # Bracket
  BY TagFacts
<1>2. i + Len(tag) - 1 <= Len(s) /\ \A m \in 1..Len(tag) : s[i + m - 1] = tag[m]
  BY At
<1>3. s[i] = Bracket
  <2>1. s[i + 1 - 1] = tag[1]
    BY <1>1, <1>2
  <2> QED BY <1>1, <2>1
<1>4. ASSUME NEW k \in Nat, i < k, k < i + Len(tag) PROVE s[k] # Bracket
  <2> DEFINE m == k - i + 1
  <2>1. m \in 2..Len(tag) /\ i + m - 1 = k
    BY <1>1, <1>4
  <2>2. s[i + m - 1] = tag[m] /\ tag[m] # Bracket
    BY <1>1, <1>2, <2>1
  <2> QED BY <2>1, <2>2
<1> QED BY <1>2, <1>3, <1>4

LEMMA Apart ==
    ASSUME NEW s \in Seq(Char), NEW a \in BothTags, NEW b \in BothTags,
           NEW i \in Nat \ {0}, NEW k \in Nat \ {0}, TagAt(a, s, i), TagAt(b, s, k)
    PROVE  i < k => i + Len(a) <= k
<1> SUFFICES ASSUME i < k, ~(i + Len(a) <= k) PROVE FALSE
  OBVIOUS
<1>1. s[k] = Bracket
  BY BracketOfTag
<1>2. \A x \in Nat : i < x /\ x < i + Len(a) => s[x] # Bracket
  BY BracketOfTag
<1>3. Len(a) \in Nat /\ k \in Nat /\ k < i + Len(a)
  BY TagFacts
<1> QED BY <1>1, <1>2, <1>3

LEMMA NotBoth ==
    ASSUME NEW s \in Seq(Char), NEW i \in Nat \ {0}
    PROVE  ~(TagAt(OpenTag, s, i) /\ TagAt(CloseTag, s, i))
<1> SUFFICES ASSUME TagAt(OpenTag, s, i), TagAt(CloseTag, s, i) PROVE FALSE
  OBVIOUS
<1>1. /\ \A m \in 1..Len(OpenTag) : s[i + m - 1] = OpenTag[m]
      /\ \A m \in 1..Len(CloseTag) : s[i + m - 1] = CloseTag[m]
  BY At, TagIsTag
<1>2. OpenTag \in Seq(Char) /\ CloseTag \in Seq(Char)
  BY TagFacts, TagIsTag
<1>3. CASE Len(OpenTag) <= Len(CloseTag)
  <2>1. IsPrefix(OpenTag, CloseTag)
    BY <1>1, <1>2, <1>3 DEF IsPrefix
  <2> QED BY <2>1, TagAssumption
<1>4. CASE Len(CloseTag) <= Len(OpenTag)
  <2>1. IsPrefix(CloseTag, OpenTag)
    BY <1>1, <1>2, <1>4 DEF IsPrefix
  <2> QED BY <2>1, TagAssumption
<1> QED BY <1>2, <1>3, <1>4

------------------------------------------------------------------------------
(* The reading of a text.                                                  *)

LEMMA TagCat ==
    ASSUME NEW s \in Seq(Char), NEW c \in Seq(Char), NEW tag \in BothTags,
           NEW i \in Nat \ {0}, i + Len(tag) - 1 <= Len(s)
    PROVE  TagAt(tag, s \o c, i) = TagAt(tag, s, i)
<1>1. Len(tag) \in Nat \ {0}
  BY TagFacts
<1>2. s \o c \in Seq(Char) /\ Len(s \o c) >= Len(s)
  OBVIOUS
<1>3. \A m \in 1..Len(tag) : (s \o c)[i + m - 1] = s[i + m - 1]
  BY <1>1
<1>4. TagAt(tag, s \o c, i) <=> \A m \in 1..Len(tag) : (s \o c)[i + m - 1] = tag[m]
  <2>1. PICK z \in Seq(Char) : z = s \o c
    BY <1>2
  <2>2. TagAt(tag, z, i) <=> /\ i + Len(tag) - 1 <= Len(z)
                             /\ \A m \in 1..Len(tag) : z[i + m - 1] = tag[m]
    BY At
  <2>3. i + Len(tag) - 1 <= Len(z)
    BY <1>1, <1>2, <2>1
  <2> QED BY <2>1, <2>2, <2>3
<1>5. TagAt(tag, s, i) <=> \A m \in 1..Len(tag) : s[i + m - 1] = tag[m]
  BY At
<1> QED BY <1>3, <1>4, <1>5 DEF TagAt

\* Whether the next character is thinking depends on what is before it.
LEMMA ThinkingCat ==
    ASSUME NEW s \in Seq(Char), NEW c \in Seq(Char),
           NEW i \in Nat \ {0}, i <= Len(s) + 1
    PROVE  Thinking(s \o c, i) <=> Thinking(s, i)
<1> DEFINE z == s \o c
<1>1. Len(OpenTag) \in Nat \ {0} /\ Len(CloseTag) \in Nat \ {0}
  BY TagFacts, TagIsTag
<1>2. z \in Seq(Char) /\ Len(z) \in Nat /\ Len(s) \in Nat /\ Len(z) >= Len(s)
  OBVIOUS
<1>3. \A tag \in BothTags : \A j \in Nat \ {0} :
          j + Len(tag) <= i => TagAt(tag, z, j) = TagAt(tag, s, j)
  BY <1>2, TagCat, TagFacts
<1> HIDE DEF z
<1>4. ASSUME Thinking(z, i) PROVE Thinking(s, i)
  <2>1. PICK j \in 1..Len(z) : /\ TagAt(OpenTag, z, j) /\ j + Len(OpenTag) <= i
                               /\ \A k \in j..Len(z) :
                                     TagAt(CloseTag, z, k) => k + Len(CloseTag) > i
    BY <1>4 DEF Thinking
  <2>2. j \in 1..Len(s) /\ TagAt(OpenTag, s, j)
    BY <1>1, <1>2, <1>3, <2>1, TagIsTag
  <2>3. ASSUME NEW k \in j..Len(s), TagAt(CloseTag, s, k) PROVE k + Len(CloseTag) > i
    <3>1. k \in j..Len(z) /\ k \in Nat \ {0}
      BY <1>2, <2>2
    <3>2. k + Len(CloseTag) <= i => TagAt(CloseTag, z, k)
      BY <1>3, <2>3, <3>1, TagIsTag
    <3> QED BY <1>1, <2>1, <3>1, <3>2
  <2> QED BY <2>1, <2>2, <2>3 DEF Thinking
<1>5. ASSUME Thinking(s, i) PROVE Thinking(z, i)
  <2>1. PICK j \in 1..Len(s) : /\ TagAt(OpenTag, s, j) /\ j + Len(OpenTag) <= i
                               /\ \A k \in j..Len(s) :
                                     TagAt(CloseTag, s, k) => k + Len(CloseTag) > i
    BY <1>5 DEF Thinking
  <2>2. j \in 1..Len(z) /\ TagAt(OpenTag, z, j)
    BY <1>1, <1>2, <1>3, <2>1, TagIsTag
  <2>3. ASSUME NEW k \in j..Len(z), TagAt(CloseTag, z, k), k + Len(CloseTag) <= i
        PROVE  FALSE
    <3>1. k \in j..Len(s) /\ k \in Nat \ {0}
      BY <1>1, <1>2, <2>3
    <3>2. TagAt(CloseTag, s, k)
      BY <1>3, <2>3, <3>1, TagIsTag
    <3> QED BY <1>1, <2>1, <2>3, <3>1, <3>2
  <2> QED BY <1>1, <2>1, <2>2, <2>3 DEF Thinking
<1> QED BY <1>4, <1>5 DEF z

LEMMA KeptFinite ==
    ASSUME NEW s, NEW n \in Nat
    PROVE  /\ IsFiniteSet(Kept(s, n)) /\ Cardinality(Kept(s, n)) \in Nat
           /\ Kept(s, n) \subseteq 1..n
<1>1. Kept(s, n) \subseteq 1..n
  BY DEF Kept
<1>2. IsFiniteSet(1..n)
  BY FS_Interval
<1> QED BY <1>1, <1>2, FS_Subset, FS_CardinalityType

\* As many elements are added as there are new positions.
LEMMA AddPositions ==
    ASSUME NEW n \in Nat, NEW K \in SUBSET (1..n), NEW d \in Nat
    PROVE  Cardinality(K \cup n + 1..n + d) = Cardinality(K) + d
<1> DEFINE J == n + 1..n + d
<1>1. IsFiniteSet(1..n) /\ IsFiniteSet(J) /\ Cardinality(J) = d
  <2>1. IsFiniteSet(J) /\ Cardinality(J) = IF n + 1 > n + d THEN 0 ELSE (n + d) - (n + 1) + 1
    BY FS_Interval
  <2> QED BY <2>1, FS_Interval
<1>2. IsFiniteSet(K) /\ Cardinality(K) \in Nat
  BY <1>1, FS_Subset, FS_CardinalityType
<1>3. K \cap J = {}
  OBVIOUS
<1>4. Cardinality(K \cap J) = 0
  BY <1>3, FS_EmptySet
<1>5. Cardinality(K \cup J) = Cardinality(K) + Cardinality(J) - Cardinality(K \cap J)
  BY <1>1, <1>2, FS_Union
<1> QED BY <1>1, <1>2, <1>4, <1>5

Below(K, n) == K \subseteq 1..n
Extended(K, n, d) == K \cup n + 1..n + d

\* Positions keep their ranks when younger ones are added, which are counted on.
LEMMA RankOfOld ==
    ASSUME NEW n \in Nat, NEW K, Below(K, n), NEW d \in Nat, NEW i \in 1..n
    PROVE  Rank(i, Extended(K, n, d)) = Rank(i, K)
<1>1. {j \in Extended(K, n, d) : j <= i} = {j \in K : j <= i}
  BY DEF Below, Extended
<1> QED BY <1>1 DEF Rank

LEMMA RankOfNew ==
    ASSUME NEW n \in Nat, NEW K, Below(K, n), NEW d \in Nat, NEW x \in 1..d
    PROVE  Rank(n + x, Extended(K, n, d)) = Cardinality(K) + x
<1>1. {j \in Extended(K, n, d) : j <= n + x} = K \cup n + 1..n + x
  <2>1. \A j \in K : j \in Nat /\ j <= n + x
    BY DEF Below
  <2>2. \A j \in n + 1..n + d : j <= n + x <=> j \in n + 1..n + x
    OBVIOUS
  <2>3. n + 1..n + x \subseteq n + 1..n + d
    OBVIOUS
  <2> QED BY <2>1, <2>2, <2>3 DEF Extended
<1>2. Cardinality(K \cup n + 1..n + x) = Cardinality(K) + x
  BY AddPositions DEF Below
<1> QED BY <1>1, <1>2 DEF Rank

LEMMA RankRange ==
    ASSUME NEW n \in Nat, NEW K \in SUBSET (1..n), NEW i \in K
    PROVE  Rank(i, K) \in 1..Cardinality(K)
<1> DEFINE R == {j \in K : j <= i}
<1>1. IsFiniteSet(1..n)
  BY FS_Interval
<1>2. IsFiniteSet(K) /\ Cardinality(K) \in Nat
  BY <1>1, FS_Subset, FS_CardinalityType
<1>3. R \subseteq K /\ i \in R
  OBVIOUS
<1>4. IsFiniteSet(R) /\ Cardinality(R) \in Nat /\ Cardinality(R) <= Cardinality(K)
  BY <1>2, <1>3, FS_Subset, FS_CardinalityType
<1>5. Cardinality(R) # 0
  BY <1>3, <1>4, FS_EmptySet
<1> QED BY <1>2, <1>4, <1>5 DEF Rank

\* What is yielded goes on with the reading: of the next e characters d are kept and the
\* rest are dropped.
LEMMA ReadOn ==
    ASSUME NEW s, NEW o, NEW p, NEW n \in Nat, NEW d \in Nat, NEW e \in Nat, d <= e,
           Reads(o, s, n),
           \A i \in n + 1..n + d : ~Dropped(s, i),
           \A i \in n + d + 1..n + e : Dropped(s, i),
           Len(p) = Len(o) + d,
           \A x \in 1..Len(o) : p[x] = o[x],
           \A x \in 1..d : p[Len(o) + x] = Reading(s, n + x)
    PROVE  Reads(p, s, n + e)
<1> DEFINE K == Kept(s, n)
           J == Kept(s, n + e)
<1>1. J = K \cup n + 1..n + d
  <2>1. \A i \in 1..n + e : i \in 1..n \/ i \in n + 1..n + d \/ i \in n + d + 1..n + e
    OBVIOUS
  <2> QED BY <2>1 DEF Kept
<1>e. J = Extended(K, n, d)
  BY <1>1 DEF Extended
<1>2. K \in SUBSET (1..n) /\ Cardinality(K) \in Nat /\ Below(K, n)
  BY KeptFinite DEF Below
<1>3. Len(o) = Cardinality(K) /\ \A i \in K : o[Rank(i, K)] = Reading(s, i)
  BY DEF Reads
<1> HIDE DEF K, J
<1>4. Cardinality(J) = Cardinality(K) + d
  BY <1>1, <1>2, AddPositions
<1>5. ASSUME NEW i \in J PROVE p[Rank(i, J)] = Reading(s, i)
  <2>1. CASE i \in K
    <3>1. Rank(i, K) \in 1..Len(o)
      BY <1>2, <1>3, <2>1, RankRange
    <3>2. Rank(i, J) = Rank(i, K)
      <4>1. i \in 1..n
        BY <1>2, <2>1
      <4> QED BY <1>2, <1>e, <4>1, RankOfOld
    <3> QED BY <1>3, <2>1, <3>1, <3>2
  <2>2. CASE i \in n + 1..n + d
    <3>1. PICK x \in 1..d : i = n + x
      <4>1. i - n \in 1..d /\ i = n + (i - n)
        BY <2>2
      <4> QED BY <4>1
    <3>2. Rank(n + x, J) = Cardinality(K) + x
      BY <1>2, <1>e, RankOfNew
    <3> QED BY <1>3, <3>1, <3>2
  <2> QED BY <1>1, <2>1, <2>2
<1> QED BY <1>3, <1>4, <1>5 DEF Reads, J

\* More text changes nothing in the reading of what was read.
LEMMA ReadsSame ==
    ASSUME NEW s, NEW z, NEW o, NEW n \in Nat, Reads(o, s, n),
           \A i \in 1..n : (Dropped(s, i) <=> Dropped(z, i)) /\ Reading(s, i) = Reading(z, i)
    PROVE  Reads(o, z, n)
<1>1. Kept(s, n) = Kept(z, n)
  BY DEF Kept
<1>2. Kept(s, n) \subseteq 1..n
  BY DEF Kept
<1> QED BY <1>1, <1>2 DEF Reads

------------------------------------------------------------------------------
(* The invariant.                                                          *)

\* A tag begins at j, among what has left the buffer, or would if the text went on.
Could(tag, j) ==
    /\ j + Len(tag) - 1 > Seen
    /\ \A m \in j..Len(text) : m < j + Len(tag) => text[m] = tag[m - j + 1]

\* The buffer is the end of the text, no tag that matters is cut by its beginning, and
\* what is held back between two pieces has no tag in it.
IInv ==
    /\ TypeOK
    /\ \A m \in 1..Len(buffer) : buffer[m] = text[Seen + m]
    /\ pc # "flushed" =>
          /\ \A j \in 1..Seen :
                ~Could(CloseTag, j) /\ (Could(OpenTag, j) => inThink /\ Thinking(text, j))
          /\ inThink <=> Thinking(text, Seen + 1)
    /\ pc = "idle" => NoTag
    /\ CutsDoNotMatter

LEMMA NothingHeld == IsStrictPrefix(<< >>, OpenTag)
<1>1. OpenTag \in Seq(Char) /\ Len(OpenTag) \in Nat \ {0}
  BY TagFacts, TagIsTag
<1>2. IsPrefix(<< >>, OpenTag)
  BY <1>1 DEF IsPrefix
<1>3. << >> # OpenTag
  BY <1>1
<1> QED BY <1>2, <1>3 DEF IsStrictPrefix

LEMMA InitIInv == Init => IInv
<1> SUFFICES ASSUME Init PROVE IInv
  OBVIOUS
<1>1. buffer = << >> /\ text = << >> /\ out = << >> /\ inThink = FALSE /\ pc = "idle" /\ Seen = 0
  BY DEF Init, Seen
<1>2. TypeOK
  <2>1. MaxText \in Nat
    BY TagAssumption
  <2>2. \A S : << >> \in Seq(S)
    OBVIOUS
  <2>3. buffer \in Seq(Char) /\ text \in Seq(Char) /\ out \in Seq(Kind \X Char)
    BY <1>1, <2>2
  <2>4. Len(buffer) = 0 /\ Len(text) = 0
    BY <1>1
  <2>5. Len(buffer) <= Len(text) /\ Len(text) <= MaxText
    BY <2>1, <2>4
  <2>6. inThink \in BOOLEAN /\ pc \in {"idle", "feeding", "flushed"}
    BY <1>1
  <2> QED BY <2>3, <2>5, <2>6 DEF TypeOK
<1>3. ~Thinking(text, Seen + 1)
  BY <1>1 DEF Thinking
<1>4. NoTag
  BY <1>1 DEF NoTag
<1>5. CutsDoNotMatter
  <2>1. Kept(text, 0) = {}
    BY DEF Kept
  <2>2. Reads(out, text, Seen)
    BY <1>1, <2>1, FS_EmptySet DEF Reads
  <2>3. Held
    BY <1>1, NothingHeld DEF Held
  <2> QED BY <2>2, <2>3 DEF CutsDoNotMatter
<1> QED BY <1>1, <1>2, <1>3, <1>4, <1>5 DEF IInv

LEMMA SeenType == TypeOK => Seen \in Nat /\ Seen <= Len(text) /\ Seen + Len(buffer) = Len(text)
  BY DEF TypeOK, Seen

LEMMA TagInText ==
    ASSUME IInv, NEW tag \in BothTags, NEW i \in 1..Len(buffer)
    PROVE  TagAt(tag, buffer, i) <=> TagAt(tag, text, Seen + i)
<1>1. buffer \in Seq(Char) /\ text \in Seq(Char) /\ Len(tag) \in Nat \ {0}
  BY TagFacts DEF IInv, TypeOK
<1>2. Seen \in Nat /\ Seen + Len(buffer) = Len(text)
  BY SeenType DEF IInv
<1>3. TagAt(tag, buffer, i) <=> /\ i + Len(tag) - 1 <= Len(buffer)
                                /\ \A m \in 1..Len(tag) : buffer[i + m - 1] = tag[m]
  <2>1. i \in Nat \ {0}
    OBVIOUS
  <2> QED BY <1>1, <2>1, At
<1>4. TagAt(tag, text, Seen + i) <=> /\ Seen + i + Len(tag) - 1 <= Len(text)
                                     /\ \A m \in 1..Len(tag) : text[Seen + i + m - 1] = tag[m]
  <2>1. PICK k \in Nat \ {0} : k = Seen + i
    BY <1>2
  <2>2. TagAt(tag, text, k) <=> /\ k + Len(tag) - 1 <= Len(text)
                                /\ \A m \in 1..Len(tag) : text[k + m - 1] = tag[m]
    BY <1>1, At
  <2> QED BY <2>1, <2>2
<1>5. i + Len(tag) - 1 <= Len(buffer) =>
          \A m \in 1..Len(tag) : buffer[i + m - 1] = text[Seen + i + m - 1]
  <2> SUFFICES ASSUME i + Len(tag) - 1 <= Len(buffer), NEW m \in 1..Len(tag)
               PROVE  buffer[i + m - 1] = text[Seen + i + m - 1]
    OBVIOUS
  <2>1. PICK x \in 1..Len(buffer) : x = i + m - 1
    BY <1>1
  <2>2. buffer[x] = text[Seen + x]
    BY DEF IInv
  <2>3. Seen + x = Seen + i + m - 1
    BY <1>2, <2>1
  <2> QED BY <2>1, <2>2, <2>3
<1> QED BY <1>1, <1>2, <1>3, <1>4, <1>5

------------------------------------------------------------------------------
(* The steps.                                                              *)

LEMMA Basics ==
    ASSUME IInv
    PROVE  /\ buffer \in Seq(Char) /\ text \in Seq(Char) /\ out \in Seq(Kind \X Char)
           /\ inThink \in BOOLEAN /\ pc \in {"idle", "feeding", "flushed"}
           /\ Len(buffer) \in Nat /\ Len(text) \in Nat /\ Len(out) \in Nat
           /\ Seen \in Nat /\ Seen + Len(buffer) = Len(text)
           /\ Len(OpenTag) \in Nat \ {0} /\ Len(CloseTag) \in Nat \ {0}
<1>1. TypeOK
  BY DEF IInv
<1>2. Seen \in Nat /\ Seen + Len(buffer) = Len(text)
  BY <1>1, SeenType
<1>3. Len(OpenTag) \in Nat \ {0} /\ Len(CloseTag) \in Nat \ {0}
  BY TagFacts, TagIsTag
<1>4. /\ buffer \in Seq(Char) /\ text \in Seq(Char) /\ out \in Seq(Kind \X Char)
      /\ inThink \in BOOLEAN /\ pc \in {"idle", "feeding", "flushed"}
  BY <1>1 DEF TypeOK
<1> QED BY <1>2, <1>3, <1>4

\* A tag of the text that begins in what has left the buffer and ends later could be one.
LEMMA TagCould ==
    ASSUME IInv, NEW tag \in BothTags, NEW j \in Nat \ {0}, TagAt(tag, text, j),
           j + Len(tag) - 1 > Seen
    PROVE  Could(tag, j)
<1>1. text \in Seq(Char) /\ Len(tag) \in Nat \ {0}
  BY Basics, TagFacts
<1>2. \A m \in 1..Len(tag) : text[j + m - 1] = tag[m]
  BY <1>1, At
<1>3. ASSUME NEW m \in j..Len(text), m < j + Len(tag) PROVE text[m] = tag[m - j + 1]
  <2>1. PICK x \in 1..Len(tag) : x = m - j + 1
    BY <1>1, <1>3
  <2>2. j + x - 1 = m
    BY <2>1
  <2> QED BY <1>2, <2>1, <2>2
<1> QED BY <1>3 DEF Could

\* Up to the first tag the parser looks for nothing is dropped and all is of its mode.
LEMMA Scan ==
    ASSUME IInv, pc # "flushed", NEW i \in 1..Len(buffer) + 1,
           \A tag \in Tags, m \in 1..i - 1 : ~TagAt(tag, buffer, m)
    PROVE  /\ \A m \in Seen + 1..Seen + i : Thinking(text, m) <=> inThink
           /\ \A m \in Seen + 1..Seen + i - 1 : ~Dropped(text, m)
<1>0. /\ Seen \in Nat /\ Len(buffer) \in Nat /\ Seen + Len(buffer) = Len(text)
      /\ Len(OpenTag) \in Nat \ {0} /\ Len(CloseTag) \in Nat \ {0} /\ inThink \in BOOLEAN
  BY Basics
<1> USE <1>0
<1>1. /\ \A j \in 1..Seen :
            ~Could(CloseTag, j) /\ (Could(OpenTag, j) => inThink /\ Thinking(text, j))
      /\ inThink <=> Thinking(text, Seen + 1)
  BY DEF IInv
<1>2. \A tag \in Tags : \A j \in Nat :
          Seen < j /\ j < Seen + i => ~TagAt(tag, text, j)
  <2> SUFFICES ASSUME NEW tag \in Tags, NEW j \in Nat, Seen < j, j < Seen + i
               PROVE  ~TagAt(tag, text, j)
    OBVIOUS
  <2>1. PICK m \in 1..i - 1 : j = Seen + m
    <3>1. j - Seen \in 1..i - 1 /\ j = Seen + (j - Seen)
      OBVIOUS
    <3> QED BY <3>1
  <2>2. tag \in BothTags /\ m \in 1..Len(buffer)
    BY DEF Tags, BothTags
  <2> QED BY <2>1, <2>2, TagInText
<1>3. CloseTag \in Tags /\ (~inThink => OpenTag \in Tags)
  BY DEF Tags
<1>4. \A j \in Nat : Seen < j /\ j < Seen + i => ~TagAt(CloseTag, text, j)
  BY <1>2, <1>3
<1>5. \A j \in 1..Seen : TagAt(CloseTag, text, j) => j + Len(CloseTag) <= Seen + 1
  <2> SUFFICES ASSUME NEW j \in 1..Seen, TagAt(CloseTag, text, j),
                      ~(j + Len(CloseTag) <= Seen + 1)
               PROVE  FALSE
    OBVIOUS
  <2>1. Could(CloseTag, j)
    BY TagCould, TagIsTag
  <2> QED BY <1>1, <2>1
<1>6. \A j \in 1..Seen : TagAt(OpenTag, text, j) /\ j + Len(OpenTag) > Seen + 1
          => inThink /\ Thinking(text, j)
  <2> SUFFICES ASSUME NEW j \in 1..Seen, TagAt(OpenTag, text, j),
                      j + Len(OpenTag) > Seen + 1
               PROVE  inThink /\ Thinking(text, j)
    OBVIOUS
  <2>1. Could(OpenTag, j)
    BY TagCould, TagIsTag
  <2> QED BY <1>1, <2>1
<1>7. ASSUME NEW m \in Seen + 1..Seen + i PROVE Thinking(text, m) <=> inThink
  <2>1. ASSUME inThink PROVE Thinking(text, m)
    <3>1. PICK j \in 1..Len(text) :
              /\ TagAt(OpenTag, text, j) /\ j + Len(OpenTag) <= Seen + 1
              /\ \A k \in j..Len(text) :
                     TagAt(CloseTag, text, k) => k + Len(CloseTag) > Seen + 1
      BY <1>1, <2>1 DEF Thinking
    <3>2. ASSUME NEW k \in j..Len(text), TagAt(CloseTag, text, k), k + Len(CloseTag) <= m
          PROVE  FALSE
      <4>1. CASE k <= Seen
        <5>1. k \in 1..Seen
          BY <4>1
        <5> QED BY <1>5, <3>1, <3>2, <5>1
      <4>2. CASE k > Seen
        <5>1. k \in Nat /\ k < Seen + i
          BY <1>7, <3>2
        <5> QED BY <1>4, <3>2, <4>2, <5>1
      <4> QED BY <4>1, <4>2
    <3>3. j + Len(OpenTag) <= m
      BY <1>7, <3>1
    <3>4. \A k \in j..Len(text) : TagAt(CloseTag, text, k) => k + Len(CloseTag) > m
      BY <1>7, <3>2
    <3> QED BY <3>1, <3>3, <3>4 DEF Thinking
  <2>2. ASSUME ~inThink, Thinking(text, m) PROVE FALSE
    <3>1. PICK j \in 1..Len(text) :
              /\ TagAt(OpenTag, text, j) /\ j + Len(OpenTag) <= m
              /\ \A k \in j..Len(text) : TagAt(CloseTag, text, k) => k + Len(CloseTag) > m
      BY <2>2 DEF Thinking
    <3>2. j <= Seen
      <4> SUFFICES ASSUME j > Seen PROVE FALSE
        OBVIOUS
      <4>1. j \in Nat /\ j < Seen + i
        BY <1>7, <3>1
      <4> QED BY <1>2, <1>3, <2>2, <3>1, <4>1
    <3>3. j + Len(OpenTag) <= Seen + 1
      BY <1>6, <2>2, <3>1, <3>2
    <3>4. \A k \in j..Len(text) : TagAt(CloseTag, text, k) => k + Len(CloseTag) > Seen + 1
      BY <1>7, <3>1
    <3>5. Thinking(text, Seen + 1)
      BY <3>1, <3>3, <3>4 DEF Thinking
    <3> QED BY <1>1, <2>2, <3>5
  <2> QED BY <2>1, <2>2
<1>8. ASSUME NEW m \in Seen + 1..Seen + i - 1, Dropped(text, m) PROVE FALSE
  <2>1. PICK j \in 1..Len(text) : \/ Covers(CloseTag, text, j, m)
                                  \/ Covers(OpenTag, text, j, m) /\ ~Thinking(text, j)
    BY <1>8 DEF Dropped
  <2>2. CASE Covers(CloseTag, text, j, m)
    <3>1. TagAt(CloseTag, text, j) /\ j <= m /\ m < j + Len(CloseTag)
      BY <2>2 DEF Covers
    <3>2. CASE j <= Seen
      BY <1>5, <1>8, <3>1, <3>2
    <3>3. CASE j > Seen
      BY <1>4, <1>8, <3>1, <3>3
    <3> QED BY <3>2, <3>3
  <2>3. CASE Covers(OpenTag, text, j, m) /\ ~Thinking(text, j)
    <3>1. TagAt(OpenTag, text, j) /\ j <= m /\ m < j + Len(OpenTag)
      BY <2>3 DEF Covers
    <3>2. CASE j <= Seen
      BY <1>6, <1>8, <2>3, <3>1, <3>2
    <3>3. CASE j > Seen /\ inThink
      <4>1. j \in Seen + 1..Seen + i
        BY <1>8, <3>1, <3>3
      <4> QED BY <1>7, <2>3, <3>3, <4>1
    <3>4. CASE j > Seen /\ ~inThink
      <4>1. j \in Nat /\ j < Seen + i
        BY <1>8, <3>1
      <4> QED BY <1>2, <1>3, <3>1, <3>4, <4>1
    <3> QED BY <3>2, <3>3, <3>4
  <2> QED BY <2>1, <2>2, <2>3
<1> QED BY <1>7, <1>8

LEMMA TheRest ==
    ASSUME NEW S, NEW a \in Seq(S), NEW e \in 0..Len(a)
    PROVE  /\ SubSeq(a, e + 1, Len(a)) \in Seq(S)
           /\ Len(SubSeq(a, e + 1, Len(a))) = Len(a) - e
           /\ \A m \in 1..Len(a) - e : SubSeq(a, e + 1, Len(a))[m] = a[e + m]
  OBVIOUS

\* What a step takes from the buffer is seen, and the rest is still the end of the text.
LEMMA Taken ==
    ASSUME IInv, NEW e \in 0..Len(buffer), text' = text, buffer' = From(e + 1)
    PROVE  /\ buffer' \in Seq(Char) /\ Len(buffer') = Len(buffer) - e
           /\ Seen' = Seen + e /\ Seen' + Len(buffer') = Len(text)
           /\ \A m \in 1..Len(buffer') : buffer'[m] = text'[Seen' + m]
<1>1. /\ buffer \in Seq(Char) /\ Len(buffer) \in Nat /\ Len(text) \in Nat /\ Seen \in Nat
      /\ Seen + Len(buffer) = Len(text)
  BY Basics
<1> DEFINE r == SubSeq(buffer, e + 1, Len(buffer))
<1>2. /\ r \in Seq(Char) /\ Len(r) = Len(buffer) - e
      /\ \A m \in 1..Len(buffer) - e : r[m] = buffer[e + m]
  BY <1>1, TheRest
<1>r. buffer' = r
  BY DEF From
<1> HIDE DEF r
<1>c. buffer' \in Seq(Char) /\ Len(buffer') = Len(buffer) - e
  BY <1>2, <1>r
<1>3. \A m \in 1..Len(buffer') : buffer'[m] = buffer[e + m]
  BY <1>2, <1>r
<1>4. Seen' = Seen + e
  BY <1>1, <1>c DEF Seen
<1>5. ASSUME NEW m \in 1..Len(buffer') PROVE buffer'[m] = text'[Seen' + m]
  <2>1. PICK x \in 1..Len(buffer) : x = e + m
    BY <1>1, <1>c
  <2>2. buffer[x] = text[Seen + x]
    BY DEF IInv
  <2>3. Seen + x = Seen' + m
    BY <1>1, <1>4, <2>1
  <2> QED BY <1>3, <2>1, <2>2, <2>3
<1>6. Seen' + Len(buffer') = Len(text)
  BY <1>1, <1>4, <1>c
<1> QED BY <1>4, <1>5, <1>6, <1>c

LEMMA Joined ==
    ASSUME NEW S, NEW a \in Seq(S), NEW b \in Seq(S)
    PROVE  /\ a \o b \in Seq(S) /\ Len(a \o b) = Len(a) + Len(b)
           /\ \A x \in 1..Len(a) : (a \o b)[x] = a[x]
           /\ \A x \in 1..Len(b) : (a \o b)[Len(a) + x] = b[x]
  OBVIOUS

\* The first d of the e characters taken are yielded, the others are of a tag.
LEMMA Yielded ==
    ASSUME IInv, pc # "flushed", NEW e \in 0..Len(buffer), NEW d \in 0..e,
           text' = text, buffer' = From(e + 1), Yield(Before(d + 1)),
           \A tag \in Tags, m \in 1..d : ~TagAt(tag, buffer, m),
           \A m \in Seen + d + 1..Seen + e : Dropped(text, m)
    PROVE  out' \in Seq(Kind \X Char) /\ Reads(out, text, Seen)'
<1>1. /\ buffer \in Seq(Char) /\ Len(buffer) \in Nat /\ out \in Seq(Kind \X Char)
      /\ Len(out) \in Nat /\ Seen \in Nat /\ inThink \in BOOLEAN
  BY Basics
<1> DEFINE b == Before(d + 1)
           k == Mark(Mode, b)
<1>2. b \in Seq(Char) /\ Len(b) = d /\ \A x \in 1..d : b[x] = buffer[x]
  BY <1>1 DEF Before
<1>3. Mode \in Kind
  BY DEF Mode, Kind
<1> HIDE DEF b
<1>4. k \in Seq(Kind \X Char) /\ Len(k) = d /\ \A x \in 1..d : k[x] = <<Mode, b[x]>>
  <2>1. k = [x \in 1..d |-> <<Mode, b[x]>>]
    BY <1>2 DEF Mark
  <2>2. \A x \in 1..d : <<Mode, b[x]>> \in Kind \X Char
    BY <1>2, <1>3
  <2> QED BY <2>1, <2>2
<1>5. out' = out \o k
  BY DEF Yield, b
<1> HIDE DEF k
<1>6. out' \in Seq(Kind \X Char) /\ Len(out') = Len(out) + d
  <2>1. out \o k \in Seq(Kind \X Char) /\ Len(out \o k) = Len(out) + Len(k)
    BY <1>1, <1>4, Joined
  <2> QED BY <1>4, <1>5, <2>1
<1>7. /\ \A x \in 1..Len(out) : out'[x] = out[x]
      /\ \A x \in 1..d : out'[Len(out) + x] = k[x]
  <2>1. /\ \A x \in 1..Len(out) : (out \o k)[x] = out[x]
        /\ \A x \in 1..Len(k) : (out \o k)[Len(out) + x] = k[x]
    BY <1>1, <1>4, Joined
  <2> QED BY <1>4, <1>5, <2>1
<1>8. /\ \A m \in Seen + 1..Seen + d + 1 : Thinking(text, m) <=> inThink
      /\ \A m \in Seen + 1..Seen + d : ~Dropped(text, m)
  <2>1. PICK i \in 1..Len(buffer) + 1 : i = d + 1
    BY <1>1
  <2>2. \A tag \in Tags, m \in 1..i - 1 : ~TagAt(tag, buffer, m)
    BY <2>1
  <2>3. /\ \A m \in Seen + 1..Seen + i : Thinking(text, m) <=> inThink
        /\ \A m \in Seen + 1..Seen + i - 1 : ~Dropped(text, m)
    BY <2>2, Scan
  <2>4. Seen + i = Seen + d + 1 /\ Seen + i - 1 = Seen + d
    BY <1>1, <2>1
  <2> QED BY <2>3, <2>4
<1>9. \A x \in 1..d : out'[Len(out) + x] = Reading(text, Seen + x)
  <2> SUFFICES ASSUME NEW x \in 1..d PROVE out'[Len(out) + x] = Reading(text, Seen + x)
    OBVIOUS
  <2>1. b[x] = text[Seen + x]
    <3>1. x \in 1..Len(buffer)
      BY <1>1
    <3>2. buffer[x] = text[Seen + x]
      BY <3>1 DEF IInv
    <3> QED BY <1>2, <3>2
  <2>2. Seen + x \in Seen + 1..Seen + d + 1
    BY <1>1
  <2>3. Mode = IF Thinking(text, Seen + x) THEN "thinking" ELSE "text"
    BY <1>1, <1>8, <2>2 DEF Mode
  <2> QED BY <1>4, <1>7, <2>1, <2>3 DEF Reading
<1>10. Reads(out, text, Seen)
  BY DEF IInv, CutsDoNotMatter
<1>11. Reads(out', text, Seen + e)
  <2>1. d \in Nat /\ e \in Nat /\ d <= e
    BY <1>1
  <2>2. PICK p : p = out'
    OBVIOUS
  <2>3. Len(p) = Len(out) + d /\ \A x \in 1..Len(out) : p[x] = out[x]
    BY <1>6, <1>7, <2>2
  <2>4. \A x \in 1..d : p[Len(out) + x] = Reading(text, Seen + x)
    BY <1>9, <2>2
  <2>5. Seen \in Nat /\ \A m \in Seen + 1..Seen + d : ~Dropped(text, m)
    BY <1>1, <1>8
  <2>6. Reads(p, text, Seen + e)
    BY <1>10, <2>1, <2>3, <2>4, <2>5, ReadOn
  <2> QED BY <2>2, <2>6
<1>12. Seen' = Seen + e
  BY Taken
<1> QED BY <1>6, <1>11, <1>12

\* A bracket ends every tag that was cut before it.
LEMMA BracketEnds ==
    ASSUME NEW p \in 1..Len(text), text' = text, text \in Seq(Char), Seen' \in Nat,
           p <= Seen' + 1, text[p] = Bracket, NEW tag \in BothTags, NEW j \in 1..p - 1
    PROVE  ~Could(tag, j)'
<1> SUFFICES ASSUME Could(tag, j)' PROVE FALSE
  OBVIOUS
<1>1. /\ j + Len(tag) - 1 > Seen'
      /\ \A m \in j..Len(text) : m < j + Len(tag) => text[m] = tag[m - j + 1]
  BY DEF Could
<1>2. Len(tag) \in Nat \ {0} /\ \A m \in 2..Len(tag) : tag[m] # Bracket
  BY TagFacts
<1>3. p \in j..Len(text) /\ p < j + Len(tag) /\ p - j + 1 \in 2..Len(tag)
  BY <1>1, <1>2
<1> QED BY <1>1, <1>2, <1>3

LEMMA CouldBegins ==
    ASSUME text' = text, text \in Seq(Char), NEW tag \in BothTags, NEW j \in 1..Len(text),
           Could(tag, j)'
    PROVE  text[j] = Bracket
<1>1. \A m \in j..Len(text) : m < j + Len(tag) => text[m] = tag[m - j + 1]
  BY DEF Could
<1>2. Len(tag) \in Nat \ {0} /\ tag[1] = Bracket
  BY TagFacts
<1>3. j \in j..Len(text) /\ j < j + Len(tag) /\ j - j + 1 = 1
  BY <1>2
<1> QED BY <1>1, <1>2, <1>3

\* When a whole tag has been taken none is cut.
LEMMA TagEnds ==
    ASSUME text' = text, text \in Seq(Char), NEW whole \in BothTags, NEW p \in 1..Len(text),
           TagAt(whole, text, p), Seen' = p + Len(whole) - 1, NEW tag \in BothTags,
           NEW j \in 1..Seen'
    PROVE  ~Could(tag, j)'
<1>1. /\ text[p] = Bracket /\ p + Len(whole) - 1 <= Len(text)
      /\ \A k \in Nat : p < k /\ k < p + Len(whole) => text[k] # Bracket
  BY BracketOfTag
<1>2. /\ Len(whole) \in Nat \ {0} /\ Len(tag) \in Nat \ {0}
      /\ whole \in Seq(Char) /\ tag \in Seq(Char)
  BY TagFacts
<1>3. CASE j < p
  <2>1. Seen' \in Nat /\ p <= Seen' + 1 /\ j \in 1..p - 1
    BY <1>2, <1>3
  <2> QED BY <1>1, <2>1, BracketEnds
<1>4. CASE j > p
  <2>1. j \in 1..Len(text) /\ text[j] # Bracket
    BY <1>1, <1>2, <1>4
  <2> QED BY <2>1, CouldBegins
<1>5. CASE j = p
  <2> SUFFICES ASSUME Could(tag, j)' PROVE FALSE
    OBVIOUS
  <2>1. /\ p + Len(tag) - 1 > Seen'
        /\ \A m \in p..Len(text) : m < p + Len(tag) => text[m] = tag[m - p + 1]
    BY <1>5 DEF Could
  <2>2. Len(whole) < Len(tag)
    BY <1>2, <2>1
  <2>3. \A m \in 1..Len(whole) : text[p + m - 1] = whole[m]
    BY At
  <2>4. ASSUME NEW m \in 1..Len(whole) PROVE whole[m] = tag[m]
    <3>1. PICK x \in p..Len(text) : x = p + m - 1
      BY <1>1, <1>2
    <3>2. x < p + Len(tag) /\ x - p + 1 = m
      BY <1>2, <2>2, <3>1
    <3> QED BY <2>1, <2>3, <3>1, <3>2
  <2>5. IsPrefix(whole, tag)
    BY <1>2, <2>2, <2>4 DEF IsPrefix
  <2>6. whole # tag
    BY <2>2
  <2> QED BY <2>5, <2>6, TagAssumption DEF BothTags
<1> QED BY <1>3, <1>4, <1>5

\* A tag the parser looks for, the first in the buffer: what is before it is yielded.
LEMMA TagTaken ==
    ASSUME IInv, pc = "feeding", NEW tag \in Tags, NEW i \in 1..Len(buffer), First(tag, i),
           \A other \in Tags : NotBefore(other, i), Yield(Before(i)),
           buffer' = From(i + Len(tag)), GoOn, text' = text, inThink' = (tag = OpenTag)
    PROVE  IInv'
<1>1. /\ buffer \in Seq(Char) /\ text \in Seq(Char) /\ Len(buffer) \in Nat
      /\ Len(text) \in Nat /\ Seen \in Nat /\ Seen + Len(buffer) = Len(text)
      /\ inThink \in BOOLEAN /\ Len(OpenTag) \in Nat \ {0} /\ Len(CloseTag) \in Nat \ {0}
  BY Basics
<1>2. tag \in BothTags /\ Len(tag) \in Nat \ {0} /\ (tag = OpenTag \/ tag = CloseTag)
  BY <1>1 DEF Tags, BothTags
<1>3. TagAt(tag, buffer, i) /\ i + Len(tag) - 1 <= Len(buffer)
  BY DEF First, TagAt
<1> DEFINE e == i + Len(tag) - 1
           p == Seen + i
<1>4. e \in 0..Len(buffer) /\ e + 1 = i + Len(tag) /\ i - 1 \in 0..e /\ p \in 1..Len(text)
  BY <1>1, <1>2, <1>3
<1>5. TagAt(tag, text, p)
  BY <1>2, <1>3, TagInText
<1>6. \A other \in Tags, m \in 1..i - 1 : ~TagAt(other, buffer, m)
  BY DEF NotBefore
<1>7. /\ buffer' \in Seq(Char) /\ Len(buffer') = Len(buffer) - e /\ Seen' = Seen + e
      /\ \A m \in 1..Len(buffer') : buffer'[m] = text'[Seen' + m]
  <2>1. PICK x \in 0..Len(buffer) : x = e
    BY <1>4
  <2>2. buffer' = From(x + 1)
    BY <1>4, <2>1
  <2> QED BY <2>1, <2>2, Taken
<1>8. Thinking(text, p) <=> inThink
  <2>1. p \in Seen + 1..Seen + i
    BY <1>1
  <2>2. i \in 1..Len(buffer) + 1
    BY <1>1
  <2> QED BY <1>6, <2>1, <2>2, Scan
<1>9. tag = OpenTag => ~Thinking(text, p)
  <2>1. OpenTag # CloseTag
    BY TagAssumption, TagFacts, TagIsTag DEF IsPrefix
  <2> QED BY <1>8, <2>1 DEF Tags
<1>10. ASSUME NEW m \in p..Seen + e PROVE Dropped(text, m)
  <2>1. m \in p..p + Len(tag) - 1
    BY <1>1, <1>2
  <2>2. Covers(tag, text, p, m)
    BY <1>5, <2>1 DEF Covers
  <2> QED BY <1>2, <1>4, <1>9, <2>2 DEF Dropped
<1>11. out' \in Seq(Kind \X Char) /\ Reads(out, text, Seen)'
  <2>1. PICK x \in 0..Len(buffer) : x = e
    BY <1>4
  <2>2. PICK d \in 0..x : d = i - 1
    BY <1>4, <2>1
  <2>3. buffer' = From(x + 1) /\ d + 1 = i
    BY <1>1, <1>4, <2>1, <2>2
  <2>4. Yield(Before(d + 1))
    BY <2>3
  <2>5. \A other \in Tags, m \in 1..d : ~TagAt(other, buffer, m)
    BY <1>6, <2>2
  <2>6. \A m \in Seen + d + 1..Seen + x : Dropped(text, m)
    <3>1. Seen + d + 1 = p
      BY <1>1, <2>2
    <3> QED BY <1>10, <2>1, <3>1
  <2> QED BY <2>3, <2>4, <2>5, <2>6, Yielded
<1>12. \A j \in 1..Seen' : ~Could(CloseTag, j)' /\ ~Could(OpenTag, j)'
  <2>1. Seen' = p + Len(tag) - 1
    BY <1>1, <1>2, <1>7
  <2> QED BY <1>1, <1>2, <1>4, <1>5, <2>1, TagEnds, TagIsTag
<1>13. Thinking(text, Seen + e + 1) <=> tag = OpenTag
  <2>1. Seen + e + 1 = p + Len(tag) /\ p \in Nat \ {0}
    BY <1>1, <1>2
  <2>2. ASSUME tag = OpenTag PROVE Thinking(text, Seen + e + 1)
    <3>1. ASSUME NEW k \in p..Len(text), TagAt(CloseTag, text, k)
          PROVE  k + Len(CloseTag) > Seen + e + 1
      <4>1. k \in Nat \ {0}
        BY <2>1
      <4>2. k # p
        BY <1>1, <1>5, <2>1, <2>2, <3>1, NotBoth
      <4>3. p + Len(OpenTag) <= k
        BY <1>1, <1>5, <2>1, <2>2, <3>1, <4>1, <4>2, Apart, TagIsTag
      <4> QED BY <1>1, <2>1, <2>2, <4>1, <4>3
    <3> QED BY <1>4, <1>5, <2>1, <2>2, <3>1 DEF Thinking
  <2>3. ASSUME tag # OpenTag, Thinking(text, Seen + e + 1) PROVE FALSE
    <3>1. PICK j \in 1..Len(text) :
              /\ TagAt(OpenTag, text, j) /\ j + Len(OpenTag) <= Seen + e + 1
              /\ \A k \in j..Len(text) :
                     TagAt(CloseTag, text, k) => k + Len(CloseTag) > Seen + e + 1
      BY <2>3 DEF Thinking
    <3>2. tag = CloseTag /\ TagAt(CloseTag, text, p)
      BY <1>2, <1>5, <2>3
    <3>3. j > p
      BY <1>1, <1>4, <2>1, <3>1, <3>2
    <3>4. p + Len(CloseTag) <= j
      BY <1>1, <2>1, <3>1, <3>2, <3>3, Apart, TagIsTag
    <3> QED BY <1>1, <2>1, <3>1, <3>2, <3>4
  <2> QED BY <2>2, <2>3
<1>14. inThink' <=> Thinking(text, Seen + 1)'
  <2>1. Thinking(text, Seen + 1)' <=> Thinking(text, Seen' + 1)
    BY DEF Thinking, TagAt
  <2> QED BY <1>7, <1>13, <2>1
<1>15. pc' \in {"idle", "feeding"} /\ (pc' = "idle" => NoTag')
  <2>1. ASSUME buffer' = << >> PROVE NoTag'
    <3>1. 1..Len(buffer') = {}
      BY <2>1
    <3> QED BY <3>1 DEF NoTag
  <2> QED BY <2>1 DEF GoOn
<1>16. TypeOK'
  <2>1. Len(text) <= MaxText
    BY DEF IInv, TypeOK
  <2>2. Len(buffer') <= Len(text)
    BY <1>1, <1>4, <1>7
  <2>3. inThink' \in BOOLEAN /\ pc' \in {"idle", "feeding", "flushed"}
    BY <1>15
  <2>4. buffer' \in Seq(Char) /\ text' = text /\ text \in Seq(Char)
    BY <1>1, <1>7
  <2>5. out' \in Seq(Kind \X Char)
    BY <1>11
  <2> QED BY <2>1, <2>2, <2>3, <2>4, <2>5 DEF TypeOK
<1>17. Held'
  <2>1. pc' = "idle" => buffer' = << >>
    BY DEF GoOn
  <2> QED BY <1>15, <2>1, NothingHeld DEF Held
<1> QED BY <1>7, <1>11, <1>12, <1>14, <1>15, <1>16, <1>17 DEF IInv, CutsDoNotMatter

LEMMA FeedStep ==
    ASSUME IInv, NEW chunk \in Piece, Feed(chunk) PROVE IInv'
<1>1. /\ buffer \in Seq(Char) /\ text \in Seq(Char) /\ Len(buffer) \in Nat
      /\ Len(text) \in Nat /\ Seen \in Nat /\ Seen + Len(buffer) = Len(text)
      /\ Len(OpenTag) \in Nat \ {0} /\ Len(CloseTag) \in Nat \ {0}
  BY Basics
<1>2. chunk \in Seq(Char)
  <2>1. PICK m \in Nat : chunk \in [1..m -> Char]
    <3>1. MaxPiece \in Nat
      BY TagAssumption
    <3> QED BY <3>1 DEF Piece, BoundedSeq, SeqOf
  <2> QED BY <2>1
<1>3. /\ text' = text \o chunk /\ buffer' = buffer \o chunk /\ pc = "idle"
      /\ pc' = "feeding" /\ inThink' = inThink /\ out' = out
      /\ Len(text) + Len(chunk) <= MaxText
  BY DEF Feed
<1>4. /\ text' \in Seq(Char) /\ Len(text') = Len(text) + Len(chunk) /\ Len(chunk) \in Nat
      /\ \A m \in 1..Len(text) : text'[m] = text[m]
      /\ \A m \in 1..Len(chunk) : text'[Len(text) + m] = chunk[m]
  <2>1. /\ text \o chunk \in Seq(Char) /\ Len(text \o chunk) = Len(text) + Len(chunk)
        /\ \A m \in 1..Len(text) : (text \o chunk)[m] = text[m]
        /\ \A m \in 1..Len(chunk) : (text \o chunk)[Len(text) + m] = chunk[m]
    BY <1>1, <1>2, Joined
  <2>2. PICK z : z = text \o chunk
    OBVIOUS
  <2>3. Len(chunk) \in Nat /\ text' = z
    BY <1>2, <1>3, <2>2
  <2> QED BY <2>1, <2>2, <2>3
<1>5. /\ buffer' \in Seq(Char) /\ Len(buffer') = Len(buffer) + Len(chunk)
      /\ \A m \in 1..Len(buffer) : buffer'[m] = buffer[m]
      /\ \A m \in 1..Len(chunk) : buffer'[Len(buffer) + m] = chunk[m]
  <2>1. /\ buffer \o chunk \in Seq(Char) /\ Len(buffer \o chunk) = Len(buffer) + Len(chunk)
        /\ \A m \in 1..Len(buffer) : (buffer \o chunk)[m] = buffer[m]
        /\ \A m \in 1..Len(chunk) : (buffer \o chunk)[Len(buffer) + m] = chunk[m]
    BY <1>1, <1>2, Joined
  <2>2. PICK z : z = buffer \o chunk
    OBVIOUS
  <2>3. Len(chunk) \in Nat /\ buffer' = z
    BY <1>2, <1>3, <2>2
  <2> QED BY <2>1, <2>2, <2>3
<1>6. Seen' = Seen
  BY <1>1, <1>4, <1>5 DEF Seen
<1>7. ASSUME NEW m \in 1..Len(buffer') PROVE buffer'[m] = text'[Seen' + m]
  <2>1. CASE m <= Len(buffer)
    <3>1. m \in 1..Len(buffer) /\ Seen + m \in 1..Len(text)
      BY <1>1, <2>1
    <3>2. buffer[m] = text[Seen + m]
      BY <3>1 DEF IInv
    <3> QED BY <1>4, <1>5, <1>6, <3>1, <3>2
  <2>2. CASE m > Len(buffer)
    <3>1. PICK x \in 1..Len(chunk) : m = Len(buffer) + x
      <4>1. m - Len(buffer) \in 1..Len(chunk) /\ m = Len(buffer) + (m - Len(buffer))
        BY <1>1, <1>4, <1>5, <2>2
      <4> QED BY <4>1
    <3>2. Seen + m = Len(text) + x
      BY <1>1, <3>1
    <3> QED BY <1>4, <1>5, <1>6, <3>1, <3>2
  <2> QED BY <1>1, <2>1, <2>2
<1>8. \A i \in Nat \ {0} : i <= Len(text) + 1 =>
          (Thinking(text, i)' <=> Thinking(text, i))
  <2>1. \A i : Thinking(text, i)' <=> Thinking(text', i)
    BY DEF Thinking, TagAt
  <2> QED BY <1>1, <1>2, <1>3, <2>1, ThinkingCat
<1>9. \A tag \in BothTags : \A j \in 1..Seen : Could(tag, j)' => Could(tag, j)
  <2> SUFFICES ASSUME NEW tag \in BothTags, NEW j \in 1..Seen, Could(tag, j)'
               PROVE  Could(tag, j)
    OBVIOUS
  <2>1. /\ j + Len(tag) - 1 > Seen
        /\ \A m \in j..Len(text') : m < j + Len(tag) => text'[m] = tag[m - j + 1]
    BY <1>6 DEF Could
  <2> QED BY <1>1, <1>4, <2>1 DEF Could
<1>10. \A j \in 1..Seen :
           ~Could(CloseTag, j) /\ (Could(OpenTag, j) => inThink /\ Thinking(text, j))
  BY <1>3 DEF IInv
<1>11. \A j \in 1..Seen' :
           ~Could(CloseTag, j)' /\ (Could(OpenTag, j)' => inThink' /\ Thinking(text, j)')
  <2> SUFFICES ASSUME NEW j \in 1..Seen
               PROVE  /\ ~Could(CloseTag, j)'
                      /\ Could(OpenTag, j)' => inThink' /\ Thinking(text, j)'
    BY <1>6
  <2>1. j \in Nat \ {0} /\ j <= Len(text) + 1
    BY <1>1
  <2> QED BY <1>3, <1>8, <1>9, <1>10, <2>1, TagIsTag
<1>12. inThink' <=> Thinking(text, Seen + 1)'
  <2>1. Thinking(text, Seen + 1)' <=> Thinking(text', Seen + 1)
    BY <1>6 DEF Thinking, TagAt
  <2>2. Thinking(text', Seen + 1) <=> Thinking(text, Seen + 1)
    <3>1. PICK i \in Nat \ {0} : i = Seen + 1
      BY <1>1
    <3>2. i <= Len(text) + 1
      BY <1>1, <3>1
    <3> QED BY <1>1, <1>2, <1>3, <3>1, <3>2, ThinkingCat
  <2>3. inThink <=> Thinking(text, Seen + 1)
    BY <1>3 DEF IInv
  <2> QED BY <1>3, <2>1, <2>2, <2>3
<1>13. ASSUME NEW i \in 1..Seen PROVE Dropped(text, i) <=> Dropped(text', i)
  <2>1. \A tag \in BothTags, j \in 1..Len(text) : j + Len(tag) - 1 <= Len(text) =>
            TagAt(tag, text', j) = TagAt(tag, text, j)
    <3> SUFFICES ASSUME NEW tag \in BothTags, NEW j \in 1..Len(text),
                        j + Len(tag) - 1 <= Len(text)
                 PROVE  TagAt(tag, text', j) = TagAt(tag, text, j)
      OBVIOUS
    <3> QED BY <1>1, <1>2, <1>3, TagCat
  <2>2. \A j \in 1..Seen : Thinking(text', j) <=> Thinking(text, j)
    <3> SUFFICES ASSUME NEW j \in 1..Seen PROVE Thinking(text', j) <=> Thinking(text, j)
      OBVIOUS
    <3>1. j \in Nat \ {0} /\ j <= Len(text) + 1
      BY <1>1
    <3> QED BY <1>1, <1>2, <1>3, <3>1, ThinkingCat
  <2>3. \A tag \in BothTags : Len(tag) \in Nat \ {0}
    BY TagFacts
  <2>4. ASSUME Dropped(text, i) PROVE Dropped(text', i)
    <3>1. PICK j \in 1..Len(text) : \/ Covers(CloseTag, text, j, i)
                                    \/ Covers(OpenTag, text, j, i) /\ ~Thinking(text, j)
      BY <2>4 DEF Dropped
    <3>2. j \in 1..Len(text') /\ j \in 1..Seen
      BY <1>1, <1>4, <3>1 DEF Covers
    <3>3. \A tag \in BothTags : Covers(tag, text, j, i) => Covers(tag, text', j, i)
      <4> SUFFICES ASSUME NEW tag \in BothTags, Covers(tag, text, j, i)
                   PROVE  Covers(tag, text', j, i)
        OBVIOUS
      <4>1. TagAt(tag, text, j) /\ i \in j..j + Len(tag) - 1
        BY DEF Covers
      <4>2. j + Len(tag) - 1 <= Len(text)
        BY <4>1 DEF TagAt
      <4> QED BY <2>1, <4>1, <4>2 DEF Covers
    <3> QED BY <2>2, <3>1, <3>2, <3>3, TagIsTag DEF Dropped
  <2>5. ASSUME Dropped(text', i) PROVE Dropped(text, i)
    <3>1. PICK j \in 1..Len(text') : \/ Covers(CloseTag, text', j, i)
                                     \/ Covers(OpenTag, text', j, i) /\ ~Thinking(text', j)
      BY <2>5 DEF Dropped
    <3>2. j \in 1..Len(text) /\ j \in 1..Seen
      BY <1>1, <3>1 DEF Covers
    <3>3. ASSUME NEW tag \in BothTags, Covers(tag, text', j, i)
          PROVE  Covers(tag, text, j, i) \/ Could(tag, j)
      <4>1. TagAt(tag, text', j) /\ i \in j..j + Len(tag) - 1
        BY <3>3 DEF Covers
      <4>2. CASE j + Len(tag) - 1 <= Len(text)
        BY <2>1, <3>2, <4>1, <4>2 DEF Covers
      <4>3. CASE j + Len(tag) - 1 > Len(text)
        <5>1. j + Len(tag) - 1 > Seen
          BY <1>1, <2>3, <4>3
        <5>2. PICK z \in Seq(Char) : z = text'
          BY <1>4
        <5>3. \A m \in 1..Len(tag) : text'[j + m - 1] = tag[m]
          BY <3>2, <4>1, <5>2, At
        <5>4. ASSUME NEW m \in j..Len(text), m < j + Len(tag) PROVE text[m] = tag[m - j + 1]
          <6>1. PICK x \in 1..Len(tag) : x = m - j + 1
            BY <2>3, <5>4
          <6>2. j + x - 1 = m /\ m \in 1..Len(text)
            BY <6>1
          <6> QED BY <1>4, <5>3, <6>1, <6>2
        <5> QED BY <5>1, <5>4 DEF Could
      <4> QED BY <1>1, <2>3, <4>2, <4>3
    <3>4. CASE Covers(CloseTag, text', j, i)
      <4>1. ~Could(CloseTag, j)
        BY <1>10, <3>2
      <4> QED BY <3>2, <3>3, <3>4, <4>1, TagIsTag DEF Dropped
    <3>5. CASE Covers(OpenTag, text', j, i) /\ ~Thinking(text', j)
      <4>1. ~Thinking(text, j)
        BY <2>2, <3>2, <3>5
      <4>2. ~Could(OpenTag, j)
        BY <1>10, <3>2, <4>1
      <4> QED BY <3>2, <3>3, <3>5, <4>1, <4>2, TagIsTag DEF Dropped
    <3> QED BY <3>1, <3>4, <3>5
  <2> QED BY <2>4, <2>5
<1>14. CutsDoNotMatter'
  <2>1. \A i \in 1..Seen : Reading(text, i) = Reading(text', i)
    <3> SUFFICES ASSUME NEW i \in 1..Seen PROVE Reading(text, i) = Reading(text', i)
      OBVIOUS
    <3>1. i \in Nat \ {0} /\ i <= Len(text) + 1 /\ i \in 1..Len(text)
      BY <1>1
    <3>2. Thinking(text', i) <=> Thinking(text, i)
      BY <1>1, <1>2, <1>3, <3>1, ThinkingCat
    <3>3. text'[i] = text[i]
      BY <1>4, <3>1
    <3> QED BY <3>2, <3>3 DEF Reading
  <2>2. Reads(out, text, Seen)
    BY DEF IInv, CutsDoNotMatter
  <2>3. PICK z : z = text'
    OBVIOUS
  <2>4. \A i \in 1..Seen : (Dropped(text, i) <=> Dropped(z, i))
                           /\ Reading(text, i) = Reading(z, i)
    BY <1>13, <2>1, <2>3
  <2>5. Reads(out, z, Seen)
    BY <1>1, <2>2, <2>4, ReadsSame
  <2>6. Reads(out, text, Seen)'
    BY <1>3, <1>6, <2>3, <2>5
  <2>7. Held'
    BY <1>3 DEF Held
  <2> QED BY <2>6, <2>7 DEF CutsDoNotMatter
<1>15. TypeOK'
  <2>1. inThink \in BOOLEAN /\ out \in Seq(Kind \X Char)
    BY Basics
  <2>2. MaxText \in Nat
    BY TagAssumption
  <2> QED BY <1>1, <1>3, <1>4, <1>5, <2>1, <2>2 DEF TypeOK
<1> QED BY <1>3, <1>7, <1>11, <1>12, <1>14, <1>15 DEF IInv

LEMMA OrphanCloseStep == ASSUME IInv, OrphanClose PROVE IInv'
<1>1. PICK i \in 1..Len(buffer) : /\ First(CloseTag, i) /\ NotBefore(OpenTag, i)
                                  /\ Yield(Before(i)) /\ buffer' = From(i + Len(CloseTag))
  BY DEF OrphanClose
<1>2. /\ pc = "feeding" /\ ~inThink /\ GoOn /\ text' = text /\ inThink' = inThink
      /\ inThink \in BOOLEAN
  BY Basics DEF OrphanClose
<1>3. CloseTag \in Tags /\ CloseTag # OpenTag
  BY TagAssumption, TagFacts, TagIsTag DEF Tags, IsPrefix
<1>4. \A other \in Tags : NotBefore(other, i)
  BY <1>1, <1>2 DEF Tags, First, NotBefore
<1> QED BY <1>1, <1>2, <1>3, <1>4, TagTaken

LEMMA OpenThinkStep == ASSUME IInv, OpenThink PROVE IInv'
<1>1. PICK i \in 1..Len(buffer) : /\ First(OpenTag, i) /\ NotBefore(CloseTag, i)
                                  /\ Yield(Before(i)) /\ buffer' = From(i + Len(OpenTag))
  BY DEF OpenThink
<1>2. pc = "feeding" /\ ~inThink /\ GoOn /\ text' = text /\ inThink' = TRUE
  BY DEF OpenThink
<1>3. OpenTag \in Tags
  BY <1>2 DEF Tags
<1>4. \A other \in Tags : NotBefore(other, i)
  BY <1>1, <1>2 DEF Tags, First, NotBefore
<1> QED BY <1>1, <1>2, <1>3, <1>4, TagTaken

LEMMA CloseThinkStep == ASSUME IInv, CloseThink PROVE IInv'
<1>1. PICK i \in 1..Len(buffer) : /\ First(CloseTag, i) /\ Yield(Before(i))
                                  /\ buffer' = From(i + Len(CloseTag))
  BY DEF CloseThink
<1>2. pc = "feeding" /\ inThink /\ GoOn /\ text' = text /\ inThink' = FALSE
  BY DEF CloseThink
<1>3. CloseTag \in Tags /\ CloseTag # OpenTag
  BY TagAssumption, TagFacts, TagIsTag DEF Tags, IsPrefix
<1>4. \A other \in Tags : NotBefore(other, i)
  BY <1>1, <1>2 DEF Tags, First, NotBefore
<1> QED BY <1>1, <1>2, <1>3, <1>4, TagTaken

\* Without a tag all that is taken is yielded, and the mode stays.
LEMMA NoTagTaken ==
    ASSUME IInv, pc # "flushed", NoTag, NEW e \in 0..Len(buffer), text' = text,
           buffer' = From(e + 1), Yield(Before(e + 1)), inThink' = inThink
    PROVE  /\ buffer' \in Seq(Char) /\ Len(buffer') = Len(buffer) - e /\ Seen' = Seen + e
           /\ \A m \in 1..Len(buffer') : buffer'[m] = text'[Seen' + m]
           /\ out' \in Seq(Kind \X Char) /\ Reads(out, text, Seen)'
           /\ \A j \in 1..Len(text) + 1 : Seen < j => (inThink <=> Thinking(text, j))
           /\ inThink' <=> Thinking(text, Seen + 1)'
<1>1. /\ Len(buffer) \in Nat /\ Len(text) \in Nat /\ Seen \in Nat
      /\ Seen + Len(buffer) = Len(text)
  BY Basics
<1>2. \A tag \in Tags, m \in 1..Len(buffer) : ~TagAt(tag, buffer, m)
  BY DEF NoTag
<1>3. /\ buffer' \in Seq(Char) /\ Len(buffer') = Len(buffer) - e /\ Seen' = Seen + e
      /\ \A m \in 1..Len(buffer') : buffer'[m] = text'[Seen' + m]
  BY Taken
<1>4. out' \in Seq(Kind \X Char) /\ Reads(out, text, Seen)'
  <2>1. PICK d \in 0..e : d = e
    BY <1>1
  <2>2. \A tag \in Tags, m \in 1..d : ~TagAt(tag, buffer, m)
    BY <1>1, <1>2, <2>1
  <2>3. \A m \in Seen + d + 1..Seen + e : Dropped(text, m)
    BY <1>1, <2>1
  <2>4. Yield(Before(d + 1))
    BY <2>1
  <2> QED BY <2>2, <2>3, <2>4, Yielded
<1>5. ASSUME NEW j \in 1..Len(text) + 1, Seen < j PROVE inThink <=> Thinking(text, j)
  <2>1. PICK i \in 1..Len(buffer) + 1 : i = Len(buffer) + 1
    BY <1>1
  <2>2. \A tag \in Tags, m \in 1..i - 1 : ~TagAt(tag, buffer, m)
    BY <1>1, <1>2, <2>1
  <2>3. \A m \in Seen + 1..Seen + i : Thinking(text, m) <=> inThink
    BY <2>2, Scan
  <2>4. j \in Seen + 1..Seen + i
    BY <1>1, <1>5, <2>1
  <2> QED BY <2>3, <2>4
<1>6. inThink' <=> Thinking(text, Seen + 1)'
  <2>1. Thinking(text, Seen + 1)' <=> Thinking(text, Seen' + 1)
    BY DEF Thinking, TagAt
  <2>2. Seen' + 1 \in 1..Len(text) + 1 /\ Seen < Seen' + 1
    BY <1>1, <1>3
  <2> QED BY <1>5, <2>1, <2>2
<1> QED BY <1>3, <1>4, <1>5, <1>6

LEMMA HoldBackStep == ASSUME IInv, HoldBack PROVE IInv'
<1>1. /\ buffer \in Seq(Char) /\ text \in Seq(Char) /\ Len(buffer) \in Nat
      /\ Len(text) \in Nat /\ Seen \in Nat /\ Seen + Len(buffer) = Len(text)
      /\ inThink \in BOOLEAN
  BY Basics
<1>2. /\ pc = "feeding" /\ NoTag /\ pc' = "idle" /\ inThink' = inThink /\ text' = text
  BY DEF HoldBack
<1>3. PICK i \in 1..Len(buffer) : Partial(i) /\ Yield(Before(i)) /\ buffer' = From(i)
  BY DEF HoldBack
<1>4. PICK e \in 0..Len(buffer) : e + 1 = i
  <2>1. i - 1 \in 0..Len(buffer) /\ (i - 1) + 1 = i
    BY <1>1
  <2> QED BY <2>1
<1>5. /\ buffer' \in Seq(Char) /\ Len(buffer') = Len(buffer) - e /\ Seen' = Seen + e
      /\ \A m \in 1..Len(buffer') : buffer'[m] = text'[Seen' + m]
      /\ out' \in Seq(Kind \X Char) /\ Reads(out, text, Seen)'
      /\ inThink' <=> Thinking(text, Seen + 1)'
  <2>1. pc # "flushed" /\ Yield(Before(e + 1)) /\ buffer' = From(e + 1)
    BY <1>2, <1>3, <1>4
  <2> QED BY <1>2, <2>1, NoTagTaken
<1>6. \A j \in 1..Seen' : ~Could(CloseTag, j)' /\ ~Could(OpenTag, j)'
  <2>1. PICK p \in 1..Len(text) : p = Seen + i
    BY <1>1
  <2>2. text[p] = Bracket
    <3>1. buffer[i] = Bracket
      BY <1>3 DEF Partial, LastBracket
    <3>2. buffer[i] = text[Seen + i]
      BY DEF IInv
    <3> QED BY <2>1, <3>1, <3>2
  <2>3. Seen' \in Nat /\ p <= Seen' + 1 /\ Seen' = p - 1
    BY <1>1, <1>4, <1>5, <2>1
  <2> QED BY <1>1, <1>2, <2>2, <2>3, BracketEnds, TagIsTag
<1>7. NoTag'
  <2> SUFFICES ASSUME NEW tag \in Tags, NEW m \in 1..Len(buffer'), TagAt(tag, buffer', m)
               PROVE  FALSE
    BY <1>2 DEF NoTag, Tags, TagAt
  <2>1. tag \in BothTags
    BY DEF Tags, BothTags
  <2>2. PICK x \in 1..Len(buffer) : x = e + m
    BY <1>1, <1>5
  <2>3. Len(tag) \in Nat \ {0}
    BY <2>1, TagFacts
  <2>4. /\ m + Len(tag) - 1 <= Len(buffer')
        /\ \A k \in 1..Len(tag) : buffer'[m + k - 1] = tag[k]
    <3>1. PICK b \in Seq(Char) : b = buffer'
      BY <1>5
    <3>2. m \in Nat \ {0} /\ TagAt(tag, b, m)
      BY <3>1
    <3> QED BY <2>1, <3>1, <3>2, At
  <2>5. \A y \in 1..Len(buffer') : buffer'[y] = buffer[e + y]
    <3>1. buffer' = From(e + 1)
      BY <1>3, <1>4
    <3>2. \A y \in 1..Len(buffer) - e : buffer'[y] = buffer[e + y]
      BY <1>1, <3>1, TheRest DEF From
    <3> QED BY <1>5, <3>2
  <2>6. ASSUME NEW k \in 1..Len(tag) PROVE buffer[x + k - 1] = tag[k]
    <3>1. PICK y \in 1..Len(buffer') : y = m + k - 1
      BY <1>1, <1>5, <2>3, <2>4
    <3>2. e + y = x + k - 1
      BY <2>2, <3>1
    <3> QED BY <2>4, <2>5, <3>1, <3>2
  <2>7. x + Len(tag) - 1 <= Len(buffer)
    BY <1>1, <1>5, <2>2, <2>3, <2>4
  <2>8. TagAt(tag, buffer, x)
    <3>1. x \in Nat \ {0}
      OBVIOUS
    <3> QED BY <1>1, <2>1, <2>6, <2>7, <3>1, At
  <2> QED BY <1>2, <2>8 DEF NoTag
<1>8. TypeOK'
  <2>1. Len(text) <= MaxText
    BY DEF IInv, TypeOK
  <2> QED BY <1>1, <1>2, <1>5, <2>1 DEF TypeOK
<1>9. Held'
  <2>1. \E tag \in BothTags : IsStrictPrefix(buffer', tag)
    BY <1>3 DEF Partial, Tags, BothTags
  <2> QED BY <1>2, <2>1 DEF Held, BothTags
<1> QED BY <1>2, <1>5, <1>6, <1>7, <1>8, <1>9 DEF IInv, CutsDoNotMatter

LEMMA YieldAllStep == ASSUME IInv, YieldAll PROVE IInv'
<1>1. /\ buffer \in Seq(Char) /\ text \in Seq(Char) /\ Len(buffer) \in Nat
      /\ Len(text) \in Nat /\ Seen \in Nat /\ Seen + Len(buffer) = Len(text)
      /\ inThink \in BOOLEAN
  BY Basics
<1>2. /\ pc = "feeding" /\ NoTag /\ pc' = "idle" /\ inThink' = inThink /\ text' = text
      /\ buffer' = << >> /\ Yield(buffer) /\ \A i \in 1..Len(buffer) : ~Partial(i)
  BY DEF YieldAll, GoOn
<1>3. buffer = Before(Len(buffer) + 1) /\ << >> = From(Len(buffer) + 1)
  BY <1>1 DEF Before, From
<1>4. /\ buffer' \in Seq(Char) /\ Len(buffer') = 0 /\ Seen' = Len(text)
      /\ out' \in Seq(Kind \X Char) /\ Reads(out, text, Seen)'
      /\ \A j \in 1..Len(text) + 1 : Seen < j => (inThink <=> Thinking(text, j))
      /\ inThink' <=> Thinking(text, Seen + 1)'
  <2>1. PICK e \in 0..Len(buffer) : e = Len(buffer)
    BY <1>1
  <2>2. pc # "flushed" /\ Yield(Before(e + 1)) /\ buffer' = From(e + 1)
    BY <1>2, <1>3, <2>1
  <2>3. /\ buffer' \in Seq(Char) /\ Len(buffer') = Len(buffer) - e /\ Seen' = Seen + e
        /\ out' \in Seq(Kind \X Char) /\ Reads(out, text, Seen)'
        /\ \A j \in 1..Len(text) + 1 : Seen < j => (inThink <=> Thinking(text, j))
        /\ inThink' <=> Thinking(text, Seen + 1)'
    BY <1>2, <2>2, NoTagTaken
  <2>4. Len(buffer) - e = 0 /\ Seen + e = Len(text)
    BY <1>1, <2>1
  <2> QED BY <2>3, <2>4
<1>5. ASSUME NEW tag \in BothTags, NEW j \in 1..Len(text), Could(tag, j)', j <= Seen
      PROVE  Could(tag, j)
  <2>1. /\ j + Len(tag) - 1 > Len(text)
        /\ \A m \in j..Len(text) : m < j + Len(tag) => text[m] = tag[m - j + 1]
    BY <1>2, <1>4, <1>5 DEF Could
  <2>2. Len(tag) \in Nat
    BY TagFacts
  <2> QED BY <1>1, <2>1, <2>2 DEF Could
<1>6. ASSUME NEW tag \in Tags, NEW j \in 1..Len(text), Could(tag, j)', j > Seen
      PROVE  FALSE
  <2>1. /\ j + Len(tag) - 1 > Len(text)
        /\ \A m \in j..Len(text) : m < j + Len(tag) => text[m] = tag[m - j + 1]
    BY <1>2, <1>4, <1>6 DEF Could
  <2>2. tag \in BothTags
    BY DEF Tags, BothTags
  <2>3. /\ tag \in Seq(Char) /\ Len(tag) \in Nat \ {0} /\ tag[1] = Bracket
        /\ \A m \in 2..Len(tag) : tag[m] # Bracket
    BY <2>2, TagFacts
  <2>4. PICK i \in 1..Len(buffer) : j = Seen + i
    <3>1. j - Seen \in 1..Len(buffer) /\ j = Seen + (j - Seen)
      BY <1>1, <1>6
    <3> QED BY <3>1
  <2>5. ASSUME NEW m \in i..Len(buffer)
        PROVE  m - i + 1 \in 1..Len(tag) /\ buffer[m] = tag[m - i + 1]
    <3>1. PICK y \in j..Len(text) : y = Seen + m
      BY <1>1, <2>4
    <3>2. y < j + Len(tag) /\ y - j + 1 = m - i + 1
      BY <1>1, <2>1, <2>3, <2>4, <3>1
    <3>3. buffer[m] = text[Seen + m]
      BY <1>1 DEF IInv
    <3>4. m - i + 1 \in 1..Len(tag)
      BY <1>1, <2>3, <2>4, <3>1, <3>2
    <3> QED BY <2>1, <3>1, <3>2, <3>3, <3>4
  <2>6. LastBracket(i)
    <3>1. buffer[i] = Bracket
      <4>1. i \in i..Len(buffer) /\ i - i + 1 = 1
        BY <1>1
      <4> QED BY <2>3, <2>5, <4>1
    <3>2. ASSUME NEW m \in i + 1..Len(buffer) PROVE buffer[m] # Bracket
      <4>1. m \in i..Len(buffer) /\ m - i + 1 \in 2..Len(tag)
        BY <1>1, <2>5
      <4> QED BY <2>3, <2>5, <4>1
    <3> QED BY <3>1, <3>2 DEF LastBracket
  <2>7. IsStrictPrefix(From(i), tag)
    <3>1. PICK f : f = From(i)
      OBVIOUS
    <3>2. /\ f \in Seq(Char) /\ Len(f) = Len(buffer) - i + 1
          /\ \A x \in 1..Len(f) : f[x] = buffer[i + x - 1]
      BY <1>1, <3>1 DEF From
    <3>3. Len(f) < Len(tag)
      BY <1>1, <2>1, <2>3, <2>4, <3>2
    <3>4. ASSUME NEW x \in 1..Len(f) PROVE f[x] = tag[x]
      <4>1. PICK m \in i..Len(buffer) : m = i + x - 1
        BY <1>1, <3>2
      <4>2. m - i + 1 = x
        BY <4>1
      <4> QED BY <2>5, <3>2, <4>1, <4>2
    <3>5. SubSeq(f, 1, Len(f)) = SubSeq(tag, 1, Len(f))
      BY <2>3, <3>2, <3>3, <3>4
    <3>6. IsPrefix(f, tag) /\ f # tag
      BY <2>3, <3>2, <3>3, <3>5 DEF IsPrefix
    <3> QED BY <3>1, <3>6 DEF IsStrictPrefix
  <2> QED BY <1>2, <2>6, <2>7 DEF Partial
<1>7. ASSUME NEW j \in 1..Seen'
      PROVE  /\ ~Could(CloseTag, j)'
             /\ Could(OpenTag, j)' => inThink' /\ Thinking(text, j)'
  <2>1. j \in 1..Len(text)
    BY <1>4
  <2>2. Thinking(text, j)' <=> Thinking(text, j)
    BY <1>2 DEF Thinking, TagAt
  <2>3. CASE j <= Seen
    <3>1. ~Could(CloseTag, j) /\ (Could(OpenTag, j) => inThink /\ Thinking(text, j))
      BY <1>2, <2>3 DEF IInv
    <3> QED BY <1>2, <1>5, <2>1, <2>2, <2>3, <3>1, TagIsTag
  <2>4. CASE j > Seen
    <3>1. CloseTag \in Tags /\ (~inThink => OpenTag \in Tags)
      BY DEF Tags
    <3>2. inThink <=> Thinking(text, j)
      BY <1>1, <1>4, <2>1, <2>4
    <3> QED BY <1>2, <1>6, <2>1, <2>2, <2>4, <3>1, <3>2
  <2> QED BY <1>1, <2>1, <2>3, <2>4
<1>8. NoTag' /\ \A m \in 1..Len(buffer') : buffer'[m] = text'[Seen' + m]
  <2>1. 1..Len(buffer') = {}
    BY <1>4
  <2> QED BY <2>1 DEF NoTag
<1>9. TypeOK'
  <2>1. Len(text) <= MaxText
    BY DEF IInv, TypeOK
  <2> QED BY <1>1, <1>2, <1>4, <2>1 DEF TypeOK
<1>10. Held'
  BY <1>2, NothingHeld DEF Held
<1> QED BY <1>2, <1>4, <1>7, <1>8, <1>9, <1>10 DEF IInv, CutsDoNotMatter

LEMMA FlushStep == ASSUME IInv, Flush PROVE IInv'
<1>1. /\ buffer \in Seq(Char) /\ text \in Seq(Char) /\ Len(buffer) \in Nat
      /\ Len(text) \in Nat /\ inThink \in BOOLEAN
  BY Basics
<1>2. /\ pc = "idle" /\ pc' = "flushed" /\ inThink' = inThink /\ text' = text
      /\ buffer' = << >> /\ Yield(buffer)
  BY DEF Flush
<1>3. NoTag
  BY <1>2 DEF IInv
<1>4. buffer = Before(Len(buffer) + 1) /\ << >> = From(Len(buffer) + 1)
  BY <1>1 DEF Before, From
<1>5. out' \in Seq(Kind \X Char) /\ Reads(out, text, Seen)'
  <2>1. PICK e \in 0..Len(buffer) : e = Len(buffer)
    BY <1>1
  <2>2. pc # "flushed" /\ Yield(Before(e + 1)) /\ buffer' = From(e + 1)
    BY <1>2, <1>4, <2>1
  <2> QED BY <1>2, <1>3, <2>2, NoTagTaken
<1>6. buffer' \in Seq(Char) /\ Len(buffer') = 0
  BY <1>2
<1>7. \A m \in 1..Len(buffer') : buffer'[m] = text'[Seen' + m]
  BY <1>6
<1>8. TypeOK'
  <2>1. Len(text) <= MaxText
    BY DEF IInv, TypeOK
  <2> QED BY <1>1, <1>2, <1>5, <1>6, <2>1 DEF TypeOK
<1>9. Held'
  BY <1>2 DEF Held
<1> QED BY <1>2, <1>5, <1>7, <1>8, <1>9 DEF IInv, CutsDoNotMatter

LEMMA NextIInv == ASSUME IInv, [Next]_vars PROVE IInv'
<1>1. ASSUME UNCHANGED vars PROVE IInv'
  <2>1. buffer' = buffer /\ inThink' = inThink /\ pc' = pc /\ text' = text /\ out' = out
    BY <1>1 DEF vars
  <2>2. Seen' = Seen
    BY <2>1 DEF Seen
  <2>3. TypeOK' /\ \A m \in 1..Len(buffer') : buffer'[m] = text'[Seen' + m]
    BY <2>1, <2>2 DEF IInv, TypeOK
  <2>4. \A j : Thinking(text, j)' <=> Thinking(text, j)
    BY <2>1 DEF Thinking, TagAt
  <2>5. \A tag, j : Could(tag, j)' <=> Could(tag, j)
    BY <2>1, <2>2 DEF Could
  <2>6. Thinking(text, Seen + 1)' <=> Thinking(text, Seen + 1)
    BY <2>1, <2>2 DEF Thinking, TagAt
  <2>7. NoTag' <=> NoTag
    BY <2>1 DEF NoTag, Tags, TagAt
  <2>8. CutsDoNotMatter' <=> CutsDoNotMatter
    BY <2>1, <2>2 DEF CutsDoNotMatter, Held
  <2> QED BY <2>1, <2>2, <2>3, <2>4, <2>5, <2>6, <2>7, <2>8 DEF IInv
<1> QED BY <1>1, OrphanCloseStep, OpenThinkStep, CloseThinkStep, HoldBackStep,
           YieldAllStep, FlushStep, FeedStep DEF Next, Loop

------------------------------------------------------------------------------
(* Theorems.                                                               *)

\* The buffer is the end of what was fed, holds no part of a tag that has left it, and the
\* mode is that of the text as a whole (feed and flush in providers/common/think_parser.py).
THEOREM Invariance == Spec => []IInv
<1> QED BY InitIInv, NextIInv, PTL DEF Spec

\* The types of ThinkTagParser.
THEOREM TypeCorrect == Spec => []TypeOK
<1>1. IInv => TypeOK
  BY DEF IInv
<1> QED BY <1>1, Invariance, PTL

\* What the parser yields is the reading of the text as a whole, however it was cut, for
\* every text and every two tags whose only bracket is their first character.
THEOREM AnyCuts == Spec => []CutsDoNotMatter
<1>1. IInv => CutsDoNotMatter
  BY DEF IInv
<1> QED BY <1>1, Invariance, PTL

==============================================================================
