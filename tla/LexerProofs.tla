----------------------------- MODULE LexerProofs -----------------------------
(***************************************************************************)
(* What the lexer promises for every text: the tokens and what lies        *)
(* between them cut it exactly, each token carries the place of its first  *)
(* byte, an integer literal in base ten is worth what its digits say, and  *)
(* a string literal decodes what the source writes.                        *)
(*                                                                         *)
(* IsGap is a recursive function over the places of a text, and the lexer  *)
(* crosses a gap one blank or comment at a time, from the other end.  Gap  *)
(* says the same by the set of the places where these begin, which a step  *)
(* of the lexer only adds to.  The other recursive functions, over the     *)
(* bytes of a literal, are shown to exist and to agree on the same bytes   *)
(* by the least or the greatest place where they would not.                *)
(***************************************************************************)
EXTENDS Lexer, FiniteSetTheorems, SequenceTheorems, WellFoundedInduction, TLAPS

-----------------------------------------------------------------------------
(* Numbers *)

LEMMA LessIsWellFounded ==
  \A m, n \in Nat : n < m => <<n, m>> \in OpToRel(<, Nat)
BY DEF OpToRel

LEMMA LeastNumber ==
  ASSUME NEW S, S \subseteq Nat, S # {}
  PROVE  \E m \in S : \A n \in S : m <= n
<1>1. PICK m \in S : \A n \in S : ~ (<<n, m>> \in OpToRel(<, Nat))
  BY NatLessThanWellFounded, WFMin
<1>2. \A n \in S : ~ (n < m)
  BY <1>1, LessIsWellFounded, Zenon
<1>3. \A n \in S : m <= n
  BY <1>2
<1> QED BY <1>3

LEMMA GreatestNumber ==
  ASSUME NEW S, NEW top \in Nat, S \subseteq 0 .. top, S # {}
  PROVE  \E m \in S : \A n \in S : n <= m
<1> DEFINE T == {top - n : n \in S}
<1>1. T \subseteq Nat
  <2>1. \A n \in S : top - n \in Nat
    OBVIOUS
  <2> QED BY <2>1
<1>a. T # {}
  <2>1. PICK n \in S : TRUE
    OBVIOUS
  <2>2. top - n \in T
    OBVIOUS
  <2> QED BY <2>2
<1>2. PICK m \in T : \A n \in T : m <= n
  <2> HIDE DEF T
  <2> QED BY <1>1, <1>a, LeastNumber
<1>3. top - m \in S /\ \A n \in S : m <= top - n
  BY <1>2
<1> QED BY <1>2, <1>3

LEMMA EarliestIs ==
  ASSUME NEW S, S \subseteq Int, NEW k \in S, \A j \in S : k <= j
  PROVE  Earliest(S) = k
<1> DEFINE e == Earliest(S)
<1>1. /\ e \in S
      /\ \A j \in S : e <= j
  BY Zenon DEF Earliest
<1> HIDE DEF e
<1>2. e = k
  BY <1>1
<1> QED BY <1>2 DEF e

-----------------------------------------------------------------------------
(* Gaps *)

Between == White \cup {NewLine, "'"}
AtIn(t, i, pair) == i < Len(t) /\ SubSeq(t, i, i + 1) = pair

\* A line comment that begins at i ends before k; a block comment likewise.
LineEnd(t, i, k) ==
  /\ k \in i .. Len(t) + 1
  /\ k \in i .. Len(t) => t[k] = NewLine
  /\ \A j \in i .. k - 1 : t[j] # NewLine
MarkEnd(t, i, k) ==
  /\ k \in i + 3 .. Len(t) + 2
  /\ AtIn(t, k - 2, CloseBlockComment)
  /\ \A j \in i + 1 .. k - 3 : ~ AtIn(t, j, CloseBlockComment)

\* A blank, a single quote or a comment is the bytes from i to before k.
Unit(t, i, k) ==
  \/ k = i + 1 /\ t[i] \in Between
  \/ AtIn(t, i, LineComment) /\ LineEnd(t, i, k)
  \/ AtIn(t, i, OpenBlockComment) /\ MarkEnd(t, i, k)

Crosses(t, S, a, c) ==
  /\ S \subseteq a .. c /\ a \in S /\ c \in S
  /\ \A i \in S \ {c} : \E k \in S : i < k /\ Unit(t, i, k)
\* The bytes from a to before c are a gap.
Gap(t, a, c) == \E S : Crosses(t, S, a, c)

LEMMA EmptyGap ==
  ASSUME NEW t, NEW a \in Nat
  PROVE  Gap(t, a, a)
<1>1. Crosses(t, {a}, a, a)
  BY DEF Crosses
<1> QED BY <1>1 DEF Gap

LEMMA GapGrows ==
  ASSUME NEW t, NEW a \in Nat, NEW b \in Nat, NEW c \in Nat, b < c,
         Gap(t, a, b), Unit(t, b, c)
  PROVE  Gap(t, a, c)
<1>1. PICK S : Crosses(t, S, a, b)
  BY DEF Gap
<1> DEFINE T == S \cup {c}
<1>2. T \subseteq a .. c /\ a \in T /\ c \in T
  BY <1>1 DEF Crosses
<1>3. ASSUME NEW i \in T \ {c} PROVE \E k \in T : i < k /\ Unit(t, i, k)
  <2>1. CASE i = b
    BY <2>1
  <2>2. CASE i # b
    BY <1>1, <1>3, <2>2 DEF Crosses
  <2> QED BY <2>1, <2>2
<1>4. Crosses(t, T, a, c)
  BY <1>2, <1>3 DEF Crosses
<1> QED BY <1>4 DEF Gap

\* A gap is empty, or a unit and a gap.
LEMMA GapBegins ==
  ASSUME NEW t, NEW a \in Nat, NEW c \in Nat
  PROVE  Gap(t, a, c) <=> \/ a = c
                          \/ a < c /\ \E k \in a + 1 .. c : Unit(t, a, k) /\ Gap(t, k, c)
<1>1. ASSUME Gap(t, a, c), a # c
      PROVE  a < c /\ \E k \in a + 1 .. c : Unit(t, a, k) /\ Gap(t, k, c)
  <2>1. PICK S : Crosses(t, S, a, c)
    BY <1>1 DEF Gap
  <2>2. PICK k \in S : a < k /\ Unit(t, a, k)
    BY <1>1, <2>1 DEF Crosses
  <2> DEFINE T == {i \in S : k <= i}
  <2>3. k \in a + 1 .. c /\ S \subseteq a .. c /\ c \in S
    BY <2>1, <2>2 DEF Crosses
  <2>4. T \subseteq k .. c /\ k \in T /\ c \in T
    <3>1. ASSUME NEW i \in T PROVE i \in k .. c
      <4>1. i \in S /\ k <= i
        OBVIOUS
      <4>2. i \in a .. c /\ k \in Nat
        BY <2>3, <4>1
      <4> QED BY <2>3, <4>1, <4>2
    <3>2. T \subseteq k .. c
      BY <3>1
    <3>3. k <= k /\ k <= c
      BY <2>3
    <3> QED BY <2>2, <2>3, <3>2, <3>3
  <2>5. ASSUME NEW i \in T \ {c} PROVE \E j \in T : i < j /\ Unit(t, i, j)
    <3>1. PICK j \in S : i < j /\ Unit(t, i, j)
      BY <2>1, <2>5 DEF Crosses
    <3>2. j \in T
      BY <2>3, <3>1
    <3> QED BY <3>1, <3>2
  <2>6. Crosses(t, T, k, c)
    BY <2>4, <2>5 DEF Crosses
  <2>7. Gap(t, k, c)
    BY <2>6 DEF Gap
  <2> QED BY <2>2, <2>3, <2>7
<1>2. ASSUME NEW k \in a + 1 .. c, Unit(t, a, k), Gap(t, k, c)
      PROVE  Gap(t, a, c)
  <2>1. PICK S : Crosses(t, S, k, c)
    BY <1>2 DEF Gap
  <2> DEFINE T == S \cup {a}
  <2>2. T \subseteq a .. c /\ a \in T /\ c \in T
    BY <2>1 DEF Crosses
  <2>3. ASSUME NEW i \in T \ {c} PROVE \E j \in T : i < j /\ Unit(t, i, j)
    <3>1. CASE i = a
      BY <1>2, <2>1, <3>1 DEF Crosses
    <3>2. CASE i # a
      BY <2>1, <2>3, <3>2 DEF Crosses
    <3> QED BY <3>1, <3>2
  <2>4. Crosses(t, T, a, c)
    BY <2>2, <2>3 DEF Crosses
  <2> QED BY <2>4 DEF Gap
<1>3. a = c => Gap(t, a, c)
  BY EmptyGap
<1> QED BY <1>1, <1>2, <1>3

LEMMA PairAt ==
  ASSUME NEW T, NEW t \in Seq(T), NEW i \in 1 .. Len(t), NEW x, NEW y
  PROVE  AtIn(t, i, <<x, y>>) <=> i < Len(t) /\ t[i] = x /\ t[i + 1] = y
<1>1. ASSUME i < Len(t) PROVE SubSeq(t, i, i + 1) = <<t[i], t[i + 1]>>
  <2>1. SubSeq(t, i, i + 1) = [j \in 1 .. 2 |-> t[i + j - 1]]
    BY <1>1
  <2>2. <<t[i], t[i + 1]>> = [j \in 1 .. 2 |-> t[i + j - 1]]
    OBVIOUS
  <2> QED BY <2>1, <2>2
<1> QED BY <1>1 DEF AtIn

LEMMA CommentEnds ==
  ASSUME NEW T, NEW t \in Seq(T), NEW i \in 1 .. Len(t), NEW k
  PROVE  LineEnd(t, i, k) <=>
           k = Earliest({Len(t) + 1} \cup {j \in i .. Len(t) : t[j] = NewLine})
<1> DEFINE S == {Len(t) + 1} \cup {j \in i .. Len(t) : t[j] = NewLine}
<1>1. S \subseteq Nat /\ S # {}
  OBVIOUS
<1>2. PICK m \in S : \A j \in S : m <= j
  <2> HIDE DEF S
  <2> QED BY <1>1, LeastNumber
<1>3. Earliest(S) = m
  <2> HIDE DEF S
  <2>1. S \subseteq Int
    BY <1>1
  <2> QED BY <1>2, <2>1, EarliestIs, Zenon
<1>4. LineEnd(t, i, m)
  BY <1>2 DEF LineEnd
<1>5. LineEnd(t, i, k) => k = m
  BY <1>2 DEF LineEnd
<1> HIDE DEF S
<1>6. LineEnd(t, i, k) <=> k = Earliest(S)
  BY <1>3, <1>4, <1>5
<1> QED BY <1>6 DEF S

LEMMA BlockEnds ==
  ASSUME NEW T, NEW t \in Seq(T), NEW i \in 1 .. Len(t), NEW k \in Int
  PROVE  LET ends == {j \in i + 1 .. Len(t) : AtIn(t, j, CloseBlockComment)}
         IN  MarkEnd(t, i, k) <=> ends # {} /\ k = Earliest(ends) + 2
<1> DEFINE S == {j \in i + 1 .. Len(t) : AtIn(t, j, CloseBlockComment)}
<1>1. S \subseteq Nat
  OBVIOUS
<1>2. ASSUME S = {} PROVE ~ MarkEnd(t, i, k)
  BY <1>2 DEF MarkEnd
<1>3. ASSUME S # {} PROVE MarkEnd(t, i, k) <=> k = Earliest(S) + 2
  <2>1. PICK m \in S : \A j \in S : m <= j
    <3> HIDE DEF S
    <3> QED BY <1>1, <1>3, LeastNumber
  <2>2. Earliest(S) = m
    <3> HIDE DEF S
    <3>1. S \subseteq Int
      BY <1>1
    <3> QED BY <2>1, <3>1, EarliestIs, Zenon
  <2>3. k = m + 2 => MarkEnd(t, i, k)
    BY <2>1 DEF MarkEnd
  <2>4. MarkEnd(t, i, k) => k = m + 2
    BY <2>1 DEF MarkEnd
  <2> QED BY <2>2, <2>3, <2>4
<1> HIDE DEF S
<1>4. MarkEnd(t, i, k) <=> S # {} /\ k = Earliest(S) + 2
  BY <1>2, <1>3
<1> QED BY <1>4 DEF S

\* The function that IsGap is defined with.
Crossing(from, i, last) ==
  \/ i = last + 1
  \/ /\ i <= last
     /\ \/ text[i] \in White \cup {NewLine, "'"} /\ from[i + 1]
        \/ /\ At(i, LineComment)
           /\ from[Earliest({Len(text) + 1} \cup
                     {j \in i .. Len(text) : text[j] = NewLine})]
        \/ LET ends == {j \in i + 1 .. Len(text) : At(j, CloseBlockComment)}
           IN  /\ At(i, OpenBlockComment)
               /\ ends # {}
               /\ from[Earliest(ends) + 2]
IsFrom(from, first, last) ==
  from = [i \in first .. Len(text) + 2 |-> Crossing(from, i, last)]

LEMMA GapFunction ==
  ASSUME NEW a, NEW b
  PROVE  IsGap(a, b) = (CHOOSE from : IsFrom(from, a, b))[a]
BY DEF IsGap, IsFrom, Crossing

LEMMA UnitBound ==
  ASSUME text \in Seq(Byte), NEW i \in 1 .. Len(text), NEW k, Unit(text, i, k)
  PROVE  k \in i + 1 .. Len(text) + 1
<1>1. CASE k = i + 1
  BY <1>1
<1>2. CASE AtIn(text, i, LineComment) /\ LineEnd(text, i, k)
  <2>1. text[i] = "/"
    BY <1>2, PairAt, Zenon DEF LineComment
  <2>2. text[i] # NewLine
    BY <2>1 DEF NewLine
  <2> QED BY <1>2, <2>2 DEF LineEnd
<1>3. CASE MarkEnd(text, i, k)
  BY <1>3 DEF MarkEnd, AtIn
<1> QED BY <1>1, <1>2, <1>3 DEF Unit

LEMMA CrossingIsUnit ==
  ASSUME text \in Seq(Byte), NEW from, NEW b \in Nat, b <= Len(text),
         NEW i \in 1 .. b
  PROVE  Crossing(from, i, b) <=> \E k \in i + 1 .. Len(text) + 1 :
                                    Unit(text, i, k) /\ from[k]
<1> DEFINE eol == Earliest({Len(text) + 1} \cup {j \in i .. Len(text) : text[j] = NewLine})
           ends == {j \in i + 1 .. Len(text) : AtIn(text, j, CloseBlockComment)}
           mark == Earliest(ends) + 2
<1>1. Crossing(from, i, b) <=>
        \/ text[i] \in Between /\ from[i + 1]
        \/ AtIn(text, i, LineComment) /\ from[eol]
        \/ AtIn(text, i, OpenBlockComment) /\ ends # {} /\ from[mark]
  <2>1. i # b + 1 /\ i <= b
    OBVIOUS
  <2>2. \A j, p : At(j, p) <=> AtIn(text, j, p)
    BY DEF At, AtIn
  <2> HIDE DEF eol, mark
  <2> QED BY <2>1, <2>2, Zenon DEF Crossing, Between, eol, mark
<1>2. i \in 1 .. Len(text)
  OBVIOUS
<1>3. LineEnd(text, i, eol)
  BY <1>2, CommentEnds, Zenon
<1>4. \A k : LineEnd(text, i, k) => k = eol
  BY <1>2, CommentEnds, Zenon
<1>5. \A k \in Int : MarkEnd(text, i, k) <=> (ends # {} /\ k = mark)
  BY <1>2, BlockEnds, Zenon
<1>6. ends # {} => mark \in Int
  <2>1. ends \subseteq Nat
    OBVIOUS
  <2>2. SUFFICES ASSUME ends # {} PROVE mark \in Int
    OBVIOUS
  <2> HIDE DEF ends
  <2>3. PICK m \in ends : \A j \in ends : m <= j
    BY <2>1, <2>2, LeastNumber
  <2>4. Earliest(ends) = m
    <3>1. ends \subseteq Int
      BY <2>1
    <3> QED BY <2>3, <3>1, EarliestIs, Zenon
  <2> QED BY <2>1, <2>3, <2>4
<1> HIDE DEF eol, ends, mark
<1>7. \A k : Unit(text, i, k) <=>
         \/ k = i + 1 /\ text[i] \in Between
         \/ AtIn(text, i, LineComment) /\ k = eol
         \/ AtIn(text, i, OpenBlockComment) /\ ends # {} /\ k = mark
  <2>1. \A k : MarkEnd(text, i, k) => k \in Int
    BY DEF MarkEnd
  <2>2. \A k : MarkEnd(text, i, k) <=> (ends # {} /\ k = mark)
    BY <1>5, <1>6, <2>1, Zenon
  <2> QED BY <1>3, <1>4, <2>2, Zenon DEF Unit
<1>8. \A k : Unit(text, i, k) => k \in i + 1 .. Len(text) + 1
  BY <1>2, UnitBound
<1> QED BY <1>1, <1>7, <1>8, Zenon

\* A gap is one by the grammar.
LEMMA GapIsGap ==
  ASSUME text \in Seq(Byte), NEW a \in Nat \ {0}, NEW b \in Nat,
         a <= b + 1, b <= Len(text), Gap(text, a, b + 1)
  PROVE  IsGap(a, b)
<1> DEFINE D == a .. Len(text) + 2
           g == [i \in D |-> Gap(text, i, b + 1)]
           f == CHOOSE from : IsFrom(from, a, b)
<1>0. Len(text) \in Nat
  OBVIOUS
<1>1. \A i \in D : g[i] <=> Crossing(g, i, b)
  <2> SUFFICES ASSUME NEW i \in D PROVE g[i] <=> Crossing(g, i, b)
    OBVIOUS
  <2>1. g[i] <=> Gap(text, i, b + 1)
    BY Zenon
  <2>2. i \in Nat /\ b + 1 \in Nat
    BY <1>0
  <2>3. CASE i <= b
    <3>1. i \in 1 .. b
      BY <2>2, <2>3
    <3>2. Crossing(g, i, b) <=> \E k \in i + 1 .. Len(text) + 1 : Unit(text, i, k) /\ g[k]
      BY <3>1, CrossingIsUnit, Zenon
    <3>3. \A k \in i + 1 .. Len(text) + 1 : k \in D
      BY <1>0, <2>2
    <3>4. \A k \in i + 1 .. Len(text) + 1 : g[k] <=> Gap(text, k, b + 1)
      BY <3>3, Zenon
    <3>5. Gap(text, i, b + 1) <=>
            \/ i = b + 1
            \/ i < b + 1 /\ \E k \in i + 1 .. b + 1 : Unit(text, i, k) /\ Gap(text, k, b + 1)
      BY <2>2, GapBegins, Zenon
    <3>6. i # b + 1 /\ i < b + 1
      BY <2>2, <2>3
    <3>7. \A k \in i + 1 .. Len(text) + 1 : Gap(text, k, b + 1) => k \in i + 1 .. b + 1
      <4> SUFFICES ASSUME NEW k \in i + 1 .. Len(text) + 1, Gap(text, k, b + 1)
                   PROVE  k \in i + 1 .. b + 1
        OBVIOUS
      <4>1. PICK S : Crosses(text, S, k, b + 1)
        BY DEF Gap
      <4> QED BY <1>0, <2>2, <4>1 DEF Crosses
    <3>8. \A k \in i + 1 .. b + 1 : k \in i + 1 .. Len(text) + 1
      BY <1>0, <2>2
    <3> HIDE DEF g
    <3> QED BY <2>1, <3>2, <3>4, <3>5, <3>6, <3>7, <3>8, Zenon
  <2>4. CASE i = b + 1
    <3>1. Gap(text, b + 1, b + 1)
      BY <2>2, EmptyGap
    <3>2. Crossing(g, i, b)
      BY <2>4, Zenon DEF Crossing
    <3> QED BY <2>1, <2>4, <3>1, <3>2, Zenon
  <2>5. CASE i > b + 1
    <3>1. ~ Gap(text, i, b + 1)
      BY <2>2, <2>5 DEF Gap, Crosses
    <3>2. i # b + 1 /\ ~ (i <= b)
      BY <2>2, <2>5
    <3>3. ~ Crossing(g, i, b)
      BY <3>2, Zenon DEF Crossing
    <3> QED BY <2>1, <3>1, <3>3, Zenon
  <2> QED BY <1>0, <2>2, <2>3, <2>4, <2>5
<1>2. IsFrom(g, a, b)
  <2>1. \A i \in D : g[i] = Crossing(g, i, b)
    <3>1. \A i \in D : g[i] \in BOOLEAN /\ Crossing(g, i, b) \in BOOLEAN
      BY Zenon DEF Gap, Crossing
    <3> HIDE DEF g
    <3> QED BY <1>1, <3>1, Zenon
  <2>2. g = [i \in D |-> g[i]]
    OBVIOUS
  <2>3. [i \in D |-> g[i]] = [i \in D |-> Crossing(g, i, b)]
    <3> HIDE DEF g
    <3> QED BY <2>1, Zenon
  <2> QED BY <2>2, <2>3, Zenon DEF IsFrom
<1>3. IsFrom(f, a, b)
  BY <1>2, Zenon
<1>4. IsGap(a, b) = f[a]
  BY GapFunction, Zenon
<1> HIDE DEF f
<1>5. \A i \in D : f[i] = Crossing(f, i, b)
  BY <1>3, Zenon DEF IsFrom
<1>6. \A i \in a .. b + 1 : g[i] => f[i]
  <2> DEFINE S == {i \in a .. b + 1 : ~ (g[i] => f[i])}
  <2>1. SUFFICES ASSUME S # {} PROVE FALSE
    BY Zenon
  <2>2. S \subseteq 0 .. b + 1
    OBVIOUS
  <2>3. PICK i \in S : \A k \in S : k <= i
    <3> HIDE DEF S
    <3>1. b + 1 \in Nat
      OBVIOUS
    <3> QED BY <2>1, <2>2, <3>1, GreatestNumber, Zenon
  <2>4. i \in a .. b + 1 /\ g[i] /\ ~ f[i]
    <3>1. i \in S
      BY <2>3
    <3> HIDE DEF g
    <3> QED BY <3>1, Zenon
  <2>5. \A k \in i + 1 .. b + 1 : g[k] => f[k]
    <3> SUFFICES ASSUME NEW k \in i + 1 .. b + 1, ~ (g[k] => f[k]) PROVE FALSE
      BY Zenon
    <3>1. k \in a .. b + 1 /\ ~ (k <= i)
      BY <2>4
    <3>2. k \in S
      <4> HIDE DEF g
      <4> QED BY <3>1, Zenon
    <3> QED BY <2>3, <3>1, <3>2, Zenon
  <2>6. CASE i = b + 1
    <3>1. Crossing(f, i, b)
      BY <2>6, Zenon DEF Crossing
    <3>2. i \in D
      BY <1>0, <2>4
    <3> QED BY <1>5, <2>4, <3>1, <3>2, Zenon
  <2>7. CASE i # b + 1
    <3>1. i \in 1 .. b /\ i \in D
      BY <1>0, <2>4, <2>7
    <3>2. Gap(text, i, b + 1)
      BY <2>4, <3>1, Zenon
    <3>3. i \in Nat /\ b + 1 \in Nat
      BY <3>1
    <3>4. PICK k \in i + 1 .. b + 1 : Unit(text, i, k) /\ Gap(text, k, b + 1)
      BY <2>7, <3>2, <3>3, GapBegins, Zenon
    <3>5. k \in D /\ k \in i + 1 .. Len(text) + 1
      BY <1>0, <3>1, <3>4
    <3>6. g[k]
      BY <3>4, <3>5, Zenon
    <3>7. f[k]
      BY <2>5, <3>4, <3>6, Zenon
    <3>8. Crossing(f, i, b)
      BY <3>1, <3>4, <3>5, <3>7, CrossingIsUnit, Zenon
    <3> QED BY <1>5, <2>4, <3>1, <3>8, Zenon
  <2> QED BY <2>6, <2>7
<1>7. a \in D /\ a \in a .. b + 1
  BY <1>0
<1>8. g[a]
  BY <1>7, Zenon
<1> QED BY <1>4, <1>6, <1>7, <1>8, Zenon

-----------------------------------------------------------------------------
(* Places *)

BodyOf(t) == IF IsPrefix(Bom, t) THEN 4 ELSE 1

\* A string of the tokens s covers the place i.
Held(s, i) ==
  \E j \in DOMAIN s : IsString(s[j]) /\ i \in FirstByte(s[j]) .. LastByte(s[j])
Breaks(t, s, p) == {i \in BodyOf(t) .. p - 1 : t[i] = NewLine /\ ~ Held(s, i)}
LineStart(t, s, p, q) ==
  /\ q \in BodyOf(t) .. p
  /\ \A j \in Breaks(t, s, p) : j < q
  /\ q = BodyOf(t) \/ q - 1 \in Breaks(t, s, p)

\* The place p is on the line l, in the column c.
PlaceIs(t, s, p, l, c) ==
  /\ l = 1 + Cardinality(Breaks(t, s, p))
  /\ LineStart(t, s, p, p - c + 1)
Placed(t, s) ==
  \A i \in DOMAIN s : PlaceIs(t, s, FirstByte(s[i]), s[i].line, s[i].column)

LEMMA BodyIs == \A t : BodyOf(t) \in {1, 4}
BY DEF BodyOf

LEMMA TokenBytes ==
  ASSUME NEW tok \in Token
  PROVE  FirstByte(tok) \in Int /\ LastByte(tok) \in Int
<1>1. tok.first \in Nat /\ tok.size \in Nat
  BY DEF Token
<1> QED BY <1>1 DEF FirstByte, LastByte

LEMMA BreaksFinite ==
  ASSUME NEW t, NEW s, NEW p \in Int
  PROVE  IsFiniteSet(Breaks(t, s, p)) /\ Cardinality(Breaks(t, s, p)) \in Nat
<1>0. BodyOf(t) \in Int /\ p - 1 \in Int
  BY BodyIs
<1>1. IsFiniteSet(BodyOf(t) .. p - 1)
  BY <1>0, FS_Interval, Zenon
<1>2. Breaks(t, s, p) \subseteq BodyOf(t) .. p - 1
  BY DEF Breaks
<1> QED BY <1>1, <1>2, FS_Subset, FS_CardinalityType

\* The place depends on the line breaks before it.
LEMMA PlaceOfSame ==
  ASSUME NEW t, NEW a, NEW b, NEW p, NEW l, NEW c,
         Breaks(t, a, p) = Breaks(t, b, p), PlaceIs(t, a, p, l, c)
  PROVE  PlaceIs(t, b, p, l, c)
BY DEF PlaceIs, LineStart

\* A byte that is no line break, or that a string holds, is a column.
LEMMA PlaceAdvances ==
  ASSUME NEW t, NEW s, NEW p \in Int, NEW n \in Nat, NEW l, NEW c \in Int,
         PlaceIs(t, s, p, l, c),
         \A i \in p .. p + n - 1 : t[i] # NewLine \/ Held(s, i)
  PROVE  PlaceIs(t, s, p + n, l, c + n)
<1>1. Breaks(t, s, p + n) = Breaks(t, s, p)
  BY BodyIs DEF Breaks
<1>2. p + n - (c + n) + 1 = p - c + 1
  OBVIOUS
<1>3. LineStart(t, s, p, p - c + 1)
  BY DEF PlaceIs
<1>4. LineStart(t, s, p + n, p - c + 1)
  BY <1>1, <1>3, BodyIs DEF LineStart
<1>5. l = 1 + Cardinality(Breaks(t, s, p))
  BY DEF PlaceIs
<1> HIDE DEF Breaks, LineStart
<1> QED BY <1>1, <1>2, <1>4, <1>5 DEF PlaceIs

\* A line break that no string holds is followed by a line.
LEMMA PlaceBreaks ==
  ASSUME NEW t, NEW s, NEW p \in Int, NEW l, NEW c,
         PlaceIs(t, s, p, l, c), BodyOf(t) <= p, t[p] = NewLine, ~ Held(s, p)
  PROVE  PlaceIs(t, s, p + 1, l + 1, 1)
<1>1. Breaks(t, s, p + 1) = Breaks(t, s, p) \cup {p}
  BY BodyIs DEF Breaks
<1>2. p \notin Breaks(t, s, p)
  BY BodyIs DEF Breaks
<1>3. Cardinality(Breaks(t, s, p + 1)) = Cardinality(Breaks(t, s, p)) + 1
  BY <1>1, <1>2, BreaksFinite, FS_AddElement
<1>4. LineStart(t, s, p + 1, p + 1)
  BY <1>1, BodyIs DEF LineStart, Breaks
<1>5. p + 1 - 1 + 1 = p + 1
  OBVIOUS
<1>6. l + 1 = 1 + Cardinality(Breaks(t, s, p + 1))
  BY <1>3, BreaksFinite DEF PlaceIs
<1> QED BY <1>4, <1>5, <1>6 DEF PlaceIs

LEMMA HeldByMore ==
  ASSUME NEW s \in Seq(Token), NEW tok \in Token, NEW i
  PROVE  Held(Append(s, tok), i) <=>
           \/ Held(s, i)
           \/ IsString(tok) /\ i \in FirstByte(tok) .. LastByte(tok)
<1> DEFINE r == Append(s, tok)
<1>1. DOMAIN r = DOMAIN s \cup {Len(s) + 1}
  OBVIOUS
<1>2. \A j \in DOMAIN s : r[j] = s[j]
  OBVIOUS
<1>3. r[Len(s) + 1] = tok
  OBVIOUS
<1> HIDE DEF r
<1>4. Held(r, i) <=> \/ Held(s, i)
                     \/ IsString(tok) /\ i \in FirstByte(tok) .. LastByte(tok)
  BY <1>1, <1>2, <1>3, Zenon DEF Held
<1> QED BY <1>4 DEF r

\* A token that begins at p or after, or is no string, changes no place up to p.
LEMMA PlaceBeforeToken ==
  ASSUME NEW t, NEW s \in Seq(Token), NEW tok \in Token, NEW p \in Int,
         NEW l, NEW c, PlaceIs(t, s, p, l, c),
         ~ IsString(tok) \/ p <= FirstByte(tok)
  PROVE  PlaceIs(t, Append(s, tok), p, l, c)
<1>1. \A i \in BodyOf(t) .. p - 1 : Held(Append(s, tok), i) <=> Held(s, i)
  <2> TAKE i \in BodyOf(t) .. p - 1
  <2>1. ~ (IsString(tok) /\ i \in FirstByte(tok) .. LastByte(tok))
    BY TokenBytes, BodyIs
  <2> QED BY <2>1, HeldByMore, Zenon
<1>2. Breaks(t, Append(s, tok), p) = Breaks(t, s, p)
  BY <1>1, Zenon DEF Breaks
<1> QED BY <1>2, PlaceOfSame, Zenon

\* The line breaks in a string are columns.
LEMMA PlaceAfterString ==
  ASSUME NEW t, NEW s \in Seq(Token), NEW tok \in Token, NEW l, NEW c \in Int,
         PlaceIs(t, s, FirstByte(tok), l, c), IsString(tok),
         NEW n \in Nat, LastByte(tok) = FirstByte(tok) + n - 1
  PROVE  PlaceIs(t, Append(s, tok), FirstByte(tok) + n, l, c + n)
<1> DEFINE p == FirstByte(tok)
<1>1. p \in Int
  BY TokenBytes
<1>2. PlaceIs(t, Append(s, tok), p, l, c)
  BY <1>1, PlaceBeforeToken
<1>3. \A i \in p .. p + n - 1 : Held(Append(s, tok), i)
  BY HeldByMore, Zenon
<1> HIDE DEF p
<1>4. PlaceIs(t, Append(s, tok), p + n, l, c + n)
  BY <1>1, <1>2, <1>3, PlaceAdvances, Zenon
<1> QED BY <1>4 DEF p

-----------------------------------------------------------------------------
(* Tokens *)

Words == {"IDENTIFIER", "KEYWORD"}

\* The last byte before the i-th token that a token or the BOM holds, and
\* the last one after all of them.
EndBefore(t, s, i) == IF i = 1 THEN BodyOf(t) - 1 ELSE LastByte(s[i - 1])
EndOf(t, s) == EndBefore(t, s, Len(s) + 1)

TokenFits(t, e, tok) ==
  /\ BodyOf(t) <= FirstByte(tok) /\ e < FirstByte(tok)
  /\ FirstByte(tok) <= LastByte(tok) /\ LastByte(tok) <= Len(t)
  /\ Gap(t, e + 1, FirstByte(tok))
  /\ tok.type \in Words =>
       \/ LastByte(tok) = Len(t)
       \/ t[LastByte(tok) + 1] \in punctuation_table_1
  /\ tok.type \in Words \cup NumericType =>
       t[FirstByte(tok)] \notin punctuation_table_1
Cut(t, s) == \A i \in 1 .. Len(s) : TokenFits(t, EndBefore(t, s, i), s[i])
\* The tokens end before p.
Before(s, p) == \A i \in 1 .. Len(s) : FirstByte(s[i]) < p /\ LastByte(s[i]) < p

LEMMA Appended ==
  ASSUME NEW s \in Seq(Token), NEW tok \in Token
  PROVE  /\ Append(s, tok) \in Seq(Token)
         /\ Len(Append(s, tok)) = Len(s) + 1
         /\ \A i \in 1 .. Len(s) : Append(s, tok)[i] = s[i]
         /\ Append(s, tok)[Len(s) + 1] = tok
OBVIOUS

LEMMA CutAppend ==
  ASSUME NEW t, NEW s \in Seq(Token), NEW tok \in Token,
         Cut(t, s), TokenFits(t, EndOf(t, s), tok)
  PROVE  Cut(t, Append(s, tok))
<1> DEFINE r == Append(s, tok)
<1>1. /\ r \in Seq(Token) /\ Len(r) = Len(s) + 1
      /\ \A i \in 1 .. Len(s) : r[i] = s[i]
      /\ r[Len(s) + 1] = tok
  BY Appended
<1>2. Len(s) \in Nat
  OBVIOUS
<1> HIDE DEF r
<1>3. \A i \in 1 .. Len(s) + 1 : EndBefore(t, r, i) = EndBefore(t, s, i)
  <2> TAKE i \in 1 .. Len(s) + 1
  <2>1. i # 1 => r[i - 1] = s[i - 1]
    BY <1>1, <1>2
  <2> QED BY <2>1, Zenon DEF EndBefore
<1>4. ASSUME NEW i \in 1 .. Len(r) PROVE TokenFits(t, EndBefore(t, r, i), r[i])
  <2>1. i \in 1 .. Len(s) + 1
    BY <1>1
  <2>2. CASE i \in 1 .. Len(s)
    <3>1. TokenFits(t, EndBefore(t, s, i), s[i])
      BY <2>2 DEF Cut
    <3> QED BY <1>1, <1>3, <2>1, <2>2, <3>1, Zenon
  <2>3. CASE i = Len(s) + 1
    BY <1>1, <1>3, <2>1, <2>3, Zenon DEF EndOf
  <2> QED BY <1>2, <2>1, <2>2, <2>3
<1>5. Cut(t, r)
  BY <1>4, Zenon DEF Cut
<1> QED BY <1>5 DEF r

LEMMA EndOfMore ==
  ASSUME NEW t, NEW s \in Seq(Token), NEW tok \in Token
  PROVE  EndOf(t, Append(s, tok)) = LastByte(tok)
<1> DEFINE r == Append(s, tok)
<1>1. Len(r) + 1 # 1 /\ r[Len(r) + 1 - 1] = tok
  OBVIOUS
<1> HIDE DEF r
<1>2. EndOf(t, r) = LastByte(tok)
  BY <1>1 DEF EndOf, EndBefore
<1> QED BY <1>2 DEF r

LEMMA BeforeMore ==
  ASSUME NEW s \in Seq(Token), NEW tok \in Token, NEW p \in Int, NEW q \in Int,
         Before(s, p), p <= q, FirstByte(tok) < q, LastByte(tok) < q
  PROVE  Before(Append(s, tok), q)
<1>1. ASSUME NEW i \in 1 .. Len(Append(s, tok))
      PROVE  FirstByte(Append(s, tok)[i]) < q /\ LastByte(Append(s, tok)[i]) < q
  <2>1. CASE i \in 1 .. Len(s)
    <3>1. Append(s, tok)[i] = s[i] /\ s[i] \in Token
      BY <2>1
    <3>2. FirstByte(s[i]) < p /\ LastByte(s[i]) < p
      BY <2>1 DEF Before
    <3>3. FirstByte(s[i]) \in Int /\ LastByte(s[i]) \in Int
      BY <3>1, TokenBytes
    <3>4. FirstByte(s[i]) < q /\ LastByte(s[i]) < q
      BY <3>2, <3>3
    <3> QED BY <3>1, <3>4, Zenon
  <2>2. CASE i = Len(s) + 1
    <3>1. Append(s, tok)[i] = tok
      BY <2>2
    <3> QED BY <3>1, Zenon
  <2> QED BY <1>1, <2>1, <2>2
<1> QED BY <1>1, Zenon DEF Before

\* No string holds a byte after the tokens.
LEMMA NotHeld ==
  ASSUME NEW s \in Seq(Token), NEW p \in Int, Before(s, p), NEW i \in Int, p <= i
  PROVE  ~ Held(s, i)
<1>1. ASSUME NEW j \in DOMAIN s PROVE ~ (i \in FirstByte(s[j]) .. LastByte(s[j]))
  <2>1. j \in 1 .. Len(s) /\ s[j] \in Token
    OBVIOUS
  <2>2. FirstByte(s[j]) \in Int /\ LastByte(s[j]) \in Int /\ LastByte(s[j]) < p
    BY <2>1, TokenBytes DEF Before
  <2> QED BY <2>2
<1> QED BY <1>1, Zenon DEF Held

LEMMA PlacedAppend ==
  ASSUME NEW t, NEW s \in Seq(Token), NEW tok \in Token,
         Placed(t, s), Before(s, FirstByte(tok)),
         PlaceIs(t, s, FirstByte(tok), tok.line, tok.column)
  PROVE  Placed(t, Append(s, tok))
<1>0. FirstByte(tok) \in Int
  BY TokenBytes
<1>1. ASSUME NEW i \in 1 .. Len(s) + 1
      PROVE  LET r == Append(s, tok)
             IN  PlaceIs(t, r, FirstByte(r[i]), r[i].line, r[i].column)
  <2>1. CASE i \in 1 .. Len(s)
    <3>1. Append(s, tok)[i] = s[i] /\ s[i] \in Token
      BY <2>1
    <3>2. FirstByte(s[i]) < FirstByte(tok)
      BY <2>1 DEF Before
    <3>3. FirstByte(s[i]) \in Int
      BY <3>1, TokenBytes
    <3>4. PlaceIs(t, s, FirstByte(s[i]), s[i].line, s[i].column)
      BY <2>1 DEF Placed
    <3>5. FirstByte(s[i]) <= FirstByte(tok)
      BY <1>0, <3>2, <3>3
    <3>6. PlaceIs(t, Append(s, tok), FirstByte(s[i]), s[i].line, s[i].column)
      BY <3>3, <3>4, <3>5, PlaceBeforeToken, Zenon
    <3> QED BY <3>1, <3>6, Zenon
  <2>2. CASE i = Len(s) + 1
    <3>1. Append(s, tok)[i] = tok
      BY <2>2
    <3>2. FirstByte(tok) <= FirstByte(tok)
      BY <1>0
    <3>3. PlaceIs(t, Append(s, tok), FirstByte(tok), tok.line, tok.column)
      BY <1>0, <3>2, PlaceBeforeToken, Zenon
    <3> QED BY <3>1, <3>3, Zenon
  <2> QED BY <2>1, <2>2
<1>2. DOMAIN Append(s, tok) = 1 .. Len(s) + 1
  OBVIOUS
<1> QED BY <1>1, <1>2, Zenon DEF Placed

-----------------------------------------------------------------------------
(* The inductive invariant *)

NumberModes == {"hexadecimal", "binary", "decimal", "fraction", "exponent"}
StringModes == {"string", "raw_string"}

\* Where the gap after the last token ends so far.
From == IF mode = "main" THEN position ELSE start.first

Types ==
  /\ TypeOK
  /\ text \in Seq(Byte) /\ tokens \in Seq(Token)
  /\ line <= position /\ column <= position
  /\ start \in [first : Nat, line : Nat, column : Nat]

AtStart ==
  mode = "file" => position = 1 /\ line = 1 /\ column = 1 /\ tokens = <<>>

\* The tokens and the gaps between them cut the text up to From.
Pieces ==
  /\ Cut(text, tokens)
  /\ mode # "file" => /\ BodyOf(text) <= From /\ From <= position
                      /\ Before(tokens, From)
                      /\ EndOf(text, tokens) < From
                      /\ Gap(text, EndOf(text, tokens) + 1, From)

\* What the loop that runs has read since start.
UnderWay ==
  /\ mode = "line_comment" =>
       /\ AtIn(text, start.first, LineComment)
       /\ \A j \in start.first .. position - 1 : text[j] # NewLine
  /\ mode = "block_comment" =>
       /\ AtIn(text, start.first, OpenBlockComment)
       /\ \A j \in start.first + 1 .. position - 1 : ~ AtIn(text, j, CloseBlockComment)
  /\ mode \in NumberModes \cup StringModes => start.first < position
  /\ mode \in NumberModes \cup {"identifier"} =>
       start.first <= Len(text) /\ text[start.first] \notin punctuation_table_1

Places ==
  /\ Placed(text, tokens)
  /\ mode \notin {"file"} \cup StringModes =>
       PlaceIs(text, tokens, position, line, column)
  /\ mode \in NumberModes \cup {"identifier"} \cup StringModes =>
       PlaceIs(text, tokens, start.first, start.line, start.column)
  /\ mode \in StringModes =>
       line = start.line /\ column = start.column + (position - start.first)

Ends ==
  status = "done" => position = Len(text) + 1 /\ mode \in {"file", "main"}

IInv == Types /\ AtStart /\ Pieces /\ UnderWay /\ Places /\ Ends

-----------------------------------------------------------------------------
(* Bytes *)

LEMMA NewLineIsPunctuation == NewLine \in punctuation_table_1
BY DEF punctuation_table_1

LEMMA DecimalDigits ==
  DigitsOf(10) = {"0", "1", "2", "3", "4", "5", "6", "7", "8", "9"}
BY DEF DigitsOf, LowerHex, UpperHex, Digits

LEMMA BinaryDigits == DigitsOf(2) = {"0", "1"}
BY DEF DigitsOf, LowerHex, UpperHex, Digits

LEMMA HexadecimalDigits ==
  DigitsOf(16) \subseteq
    {"0", "1", "2", "3", "4", "5", "6", "7", "8", "9", "a", "b", "c", "d", "e",
     "f", "A", "B", "C", "D", "E", "F"}
BY DEF DigitsOf, LowerHex, UpperHex, Digits

LEMMA DigitIsNoPunctuation ==
  ASSUME NEW c \in DigitsOf(10)
  PROVE  c \notin punctuation_table_1
<1>1. c \in {"0", "1", "2", "3", "4", "5", "6", "7", "8", "9"}
  BY DecimalDigits
<1>2. c \notin White
  BY <1>1, Zenon DEF White
<1>3. c \notin Sign
  BY <1>1, Zenon DEF Sign
<1>4. c \notin Quote /\ c # NewLine
  BY <1>1, Zenon DEF Quote, NewLine
<1> QED BY <1>2, <1>3, <1>4 DEF punctuation_table_1

LEMMA OneOfBases ==
  ASSUME NEW m \in DOMAIN BaseOf
  PROVE  m \in {"hexadecimal", "binary", "decimal"} /\ BaseOf[m] \in {2, 10, 16}
BY DEF BaseOf

LEMMA DigitIsNoNewLine ==
  ASSUME NEW b \in {2, 10, 16}, NEW c \in DigitsOf(b)
  PROVE  c # NewLine
<1>1. c \in {"0", "1", "2", "3", "4", "5", "6", "7", "8", "9", "a", "b", "c", "d",
             "e", "f", "A", "B", "C", "D", "E", "F"}
  <2>1. CASE b = 2
    BY <2>1, BinaryDigits
  <2>2. CASE b = 10
    BY <2>2, DecimalDigits
  <2>3. CASE b = 16
    BY <2>3, HexadecimalDigits
  <2> QED BY <2>1, <2>2, <2>3
<1> QED BY <1>1, Zenon DEF NewLine

LEMMA ValueOfDigit ==
  ASSUME NEW b \in {2, 10, 16}, NEW c \in DigitsOf(b)
  PROVE  ValueOf(c) \in 0 .. 15
<1>1. PICK i \in 1 .. b : c \in {LowerHex[i], UpperHex[i]}
  BY DEF DigitsOf
<1>2. i - 1 \in 0 .. 15 /\ c \in {LowerHex[i - 1 + 1], UpperHex[i - 1 + 1]}
  BY <1>1
<1>3. \E v \in 0 .. 15 : c \in {LowerHex[v + 1], UpperHex[v + 1]}
  BY <1>2, Zenon
<1> QED BY <1>3, Zenon DEF ValueOf

LEMMA OperatorBytes ==
  ASSUME NEW q \in Operator2
  PROVE  \E x, y : q = <<x, y>> /\ x # NewLine /\ y # NewLine
BY Zenon DEF Operator2, NewLine

LEMMA SignIsNoNewLine == NewLine \notin Sign
BY Zenon DEF Sign, NewLine

LEMMA PairsTold ==
  /\ LineComment \notin Operator2 /\ OpenBlockComment \notin Operator2
  /\ OpenBlockComment # CloseBlockComment /\ LineComment # OpenBlockComment
BY Zenon DEF LineComment, OpenBlockComment, CloseBlockComment, Operator2

LEMMA ModRange ==
  ASSUME NEW x \in Nat, NEW n \in Nat
  PROVE  x % (n + 1) \in 0 .. n
OBVIOUS

LEMMA PairIs ==
  ASSUME text \in Seq(Byte), position \in Nat \ {0}, NEW x, NEW y, Pair = <<x, y>>
  PROVE  position < Len(text) /\ AtIn(text, position, <<x, y>>)
         /\ text[position] = x /\ text[position + 1] = y
<1>1. <<x, y>> # << >>
  OBVIOUS
<1>2. position < Len(text) /\ SubSeq(text, position, position + 1) = <<x, y>>
  BY <1>1, Zenon DEF Pair
<1>3. position \in 1 .. Len(text)
  BY <1>2
<1>4. AtIn(text, position, <<x, y>>)
  BY <1>2, Zenon DEF AtIn
<1> QED BY <1>2, <1>3, <1>4, PairAt, Zenon

LEMMA PairIsNot ==
  ASSUME text \in Seq(Byte), NEW q, Pair # q
  PROVE  ~ AtIn(text, position, q)
BY DEF Pair, AtIn

-----------------------------------------------------------------------------
(* The kinds of steps.  Each keeps the invariant.                          *)

Modes == {"file", "main", "line_comment", "block_comment", "identifier", "string",
          "raw_string", "fraction", "exponent", "hexadecimal", "binary", "decimal"}

Moves ==
  /\ position' \in position .. Len(text) + 1
  /\ line' \in 1 .. position' /\ column' \in 1 .. position'

\* The lexing ends.
Stopped ==
  /\ UNCHANGED <<text, position, line, column, mode, start, literal, tokens>>
  /\ status' \in {"done", "error", "asserted"}
  /\ status' = "done" => position = Len(text) + 1 /\ mode \in {"file", "main"}

\* A blank, a single quote or a comment is behind.
Skips ==
  /\ mode \in {"main", "line_comment", "block_comment"} /\ mode' = "main"
  /\ Moves
  /\ From < position' /\ Unit(text, From, position')
  /\ PlaceIs(text, tokens, position', line', column')
  /\ status = "lexing" /\ UNCHANGED <<text, start, literal, tokens, status>>

\* A loop begins, that has read n bytes.
Enters(n) ==
  /\ mode = "main" /\ mode' \in Modes \ {"main", "file"}
  /\ start' = Here
  /\ Peek(n) /\ position + n <= Len(text) + 1
  /\ mode' \notin StringModes =>
       \A i \in position .. position + n - 1 : text[i] # NewLine
  /\ UnderWay'
  /\ literal' \in Literal
  /\ status = "lexing" /\ UNCHANGED <<text, tokens, status>>

\* A loop goes on: a byte is read, or the loop leaves it to another.
Continues ==
  /\ mode \in Modes \ {"main", "file"}
  /\ mode' = mode \/ (mode \in NumberModes /\ mode' \in NumberModes)
  /\ \/ \E n \in 0 .. 1 :
          /\ Peek(n) /\ position + n <= Len(text) + 1
          /\ n = 1 => text[position] # NewLine \/ mode \in StringModes
     \/ /\ PeekNewLine /\ position <= Len(text) /\ mode = "block_comment"
        /\ text[position] = NewLine
  /\ UnderWay'
  /\ literal' \in Literal
  /\ status = "lexing" /\ UNCHANGED <<text, start, tokens, status>>

\* A token is emitted.
Pushes(tok) ==
  /\ mode \in Modes \ {"file", "line_comment", "block_comment"} /\ mode' = "main"
  /\ tok \in Token /\ tokens' = Append(tokens, tok)
  /\ Moves
  /\ FirstByte(tok) = From /\ LastByte(tok) + 1 = position' /\ From < position'
  /\ tok.type \in Words =>
       position' = Len(text) + 1 \/ text[position'] \in punctuation_table_1
  /\ tok.type \in Words \cup NumericType =>
       text[From] \notin punctuation_table_1
  /\ PlaceIs(text, tokens, From, tok.line, tok.column)
  /\ PlaceIs(text, tokens', position', line', column')
  /\ status = "lexing" /\ UNCHANGED <<text, start, literal, status>>

LEMMA ModesAre ==
  {"file", "main", "line_comment", "block_comment", "identifier",
   "string", "raw_string", "fraction", "exponent"} \cup DOMAIN BaseOf = Modes
BY DEF BaseOf, Modes

LEMMA TypesAre ==
  Types <=>
    /\ position \in 1 .. Len(text) + 1
    /\ line \in 1 .. position /\ column \in 1 .. position
    /\ mode \in Modes
    /\ start \in [first : Nat, line : Nat, column : Nat]
    /\ start.first \in 1 .. position
    /\ literal \in Literal
    /\ text \in Seq(Byte) /\ tokens \in Seq(Token)
    /\ status \in {"lexing", "done", "error", "asserted"}
<1>1. tokens \in Seq(Token) => \A i \in DOMAIN tokens : tokens[i] \in Token
  OBVIOUS
<1> QED BY <1>1, ModesAre DEF Types, TypeOK

LEMMA PeekMoves ==
  ASSUME Types, NEW n \in Nat, Peek(n), position + n <= Len(text) + 1
  PROVE  Moves
<1>1. /\ position \in 1 .. Len(text) + 1 /\ Len(text) \in Nat
      /\ line \in 1 .. position /\ column \in 1 .. position
  BY TypesAre
<1> QED BY <1>1 DEF Peek, Moves

LEMMA StayIsPeek ==
  ASSUME Types, Stay
  PROVE  Peek(0) /\ Moves
<1>1. /\ position \in 1 .. Len(text) + 1 /\ Len(text) \in Nat
      /\ line \in 1 .. position /\ column \in 1 .. position
  BY TypesAre
<1> QED BY <1>1 DEF Peek, Stay, Moves

LEMMA PeekNewLineMoves ==
  ASSUME Types, PeekNewLine, position <= Len(text)
  PROVE  Moves
<1>1. /\ position \in 1 .. Len(text) + 1 /\ Len(text) \in Nat
      /\ line \in 1 .. position /\ column \in 1 .. position
  BY TypesAre
<1> QED BY <1>1 DEF PeekNewLine, Moves

LEMMA MoveKeepsTypes ==
  ASSUME Types, Moves, text' = text,
         tokens' \in Seq(Token), literal' \in Literal, mode' \in Modes,
         start' \in [first : Nat, line : Nat, column : Nat],
         start'.first \in 1 .. position',
         status' \in {"lexing", "done", "error", "asserted"}
  PROVE  Types'
<1>1. position \in 1 .. Len(text) + 1 /\ text \in Seq(Byte) /\ Len(text) \in Nat
  BY TypesAre
<1>2. /\ position' \in 1 .. Len(text) + 1
      /\ line' \in 1 .. position' /\ column' \in 1 .. position'
  BY <1>1 DEF Moves
<1>3. line' \in 1 .. Len(text) + 1 /\ column' \in 1 .. Len(text) + 1
      /\ line' <= position' /\ column' <= position'
  BY <1>1, <1>2
<1>4. start'.line \in Nat /\ start'.column \in Nat
  OBVIOUS
<1>5. \A i \in DOMAIN tokens' : tokens'[i] \in Token
  OBVIOUS
<1> QED BY <1>1, <1>2, <1>3, <1>4, <1>5, ModesAre DEF Types, TypeOK

LEMMA FromIs ==
  ASSUME Types
  PROVE  From \in Nat \ {0} /\ From <= position
<1>1. position \in 1 .. Len(text) + 1 /\ start.first \in 1 .. position
  BY TypesAre
<1> QED BY <1>1 DEF From

LEMMA EndOfIs ==
  ASSUME NEW t, NEW s \in Seq(Token), Cut(t, s)
  PROVE  EndOf(t, s) \in Nat
<1>1. CASE Len(s) = 0
  BY <1>1, BodyIs DEF EndOf, EndBefore
<1>2. CASE Len(s) # 0
  <2>1. Len(s) \in 1 .. Len(s) /\ Len(s) + 1 # 1 /\ Len(s) + 1 - 1 = Len(s)
    BY <1>2
  <2> DEFINE tok == s[Len(s)]
  <2>2. EndOf(t, s) = LastByte(tok)
    BY <2>1 DEF EndOf, EndBefore
  <2>3. tok \in Token
    BY <2>1
  <2>4. BodyOf(t) <= FirstByte(tok) /\ FirstByte(tok) <= LastByte(tok)
    BY <2>1 DEF Cut, TokenFits
  <2> HIDE DEF tok
  <2>5. FirstByte(tok) \in Int /\ LastByte(tok) \in Int
    BY <2>3, TokenBytes
  <2>6. LastByte(tok) \in Nat
    BY <2>4, <2>5, BodyIs
  <2> QED BY <2>2, <2>6
<1> QED BY <1>1, <1>2

LEMMA BeforeLater ==
  ASSUME NEW s \in Seq(Token), NEW p \in Int, NEW q \in Int, Before(s, p), p <= q
  PROVE  Before(s, q)
<1>1. ASSUME NEW i \in 1 .. Len(s)
      PROVE  FirstByte(s[i]) < q /\ LastByte(s[i]) < q
  <2>1. s[i] \in Token
    OBVIOUS
  <2>2. FirstByte(s[i]) \in Int /\ LastByte(s[i]) \in Int
    BY <2>1, TokenBytes
  <2>3. FirstByte(s[i]) < p /\ LastByte(s[i]) < p
    BY DEF Before
  <2> QED BY <2>2, <2>3
<1> QED BY <1>1, Zenon DEF Before

LEMMA StoppedKeeps ==
  ASSUME IInv, Stopped
  PROVE  IInv'
<1>1. Types'
  BY DEF IInv, Stopped, Types, TypeOK
<1>2. AtStart' /\ UnderWay' /\ Places'
  BY DEF IInv, Stopped, AtStart, UnderWay, Places
<1>3. Pieces'
  BY DEF IInv, Stopped, Pieces, From
<1>4. Ends'
  BY DEF Stopped, Ends
<1> QED BY <1>1, <1>2, <1>3, <1>4 DEF IInv

LEMMA SkipsKeeps ==
  ASSUME IInv, Skips
  PROVE  IInv'
<1> USE DEF IInv
<1>0. /\ mode \in {"main", "line_comment", "block_comment"} /\ mode' = "main"
      /\ From < position' /\ Unit(text, From, position')
      /\ text' = text /\ start' = start /\ literal' = literal /\ tokens' = tokens
      /\ status = "lexing" /\ status' = status /\ Moves
  BY DEF Skips
<1>1. /\ start \in [first : Nat, line : Nat, column : Nat]
      /\ start.first \in 1 .. position /\ position \in Nat
      /\ literal \in Literal /\ tokens \in Seq(Token) /\ Len(text) \in Nat
  BY TypesAre
<1>2. position' \in position .. Len(text) + 1
  BY <1>0 DEF Moves
<1>3. Types'
  <2>1. mode' \in Modes /\ start'.first \in 1 .. position'
    BY <1>0, <1>1, <1>2 DEF Modes
  <2> QED BY <1>0, <1>1, <2>1, MoveKeepsTypes
<1>4. AtStart'
  BY <1>0 DEF AtStart
<1>5. Pieces'
  <2>1. /\ Cut(text, tokens) /\ BodyOf(text) <= From /\ Before(tokens, From)
        /\ EndOf(text, tokens) < From /\ Gap(text, EndOf(text, tokens) + 1, From)
    BY <1>0 DEF Pieces
  <2>2. From' = position'
    BY <1>0 DEF From
  <2>3. From \in Nat /\ position' \in Nat /\ EndOf(text, tokens) \in Nat
    BY <1>1, <1>2, <2>1, FromIs, EndOfIs
  <2>4. Gap(text, EndOf(text, tokens) + 1, position')
    <3>1. EndOf(text, tokens) + 1 \in Nat
      BY <2>3
    <3> QED BY <1>0, <2>1, <2>3, <3>1, GapGrows, Zenon
  <2>5. Before(tokens, position')
    <3>1. From \in Int /\ position' \in Int /\ From <= position'
      BY <1>0, <2>3
    <3> QED BY <1>1, <2>1, <3>1, BeforeLater, Zenon
  <2>6. BodyOf(text) <= position' /\ EndOf(text, tokens) < position'
    BY <1>0, <2>1, <2>3, BodyIs
  <2>7. position' <= position'
    BY <2>3
  <2> QED BY <1>0, <2>1, <2>2, <2>4, <2>5, <2>6, <2>7 DEF Pieces
<1>6. UnderWay'
  BY <1>0 DEF UnderWay, NumberModes, StringModes
<1>7. Places'
  <2>1. Placed(text, tokens) /\ PlaceIs(text, tokens, position', line', column')
    BY DEF Places, Skips
  <2> QED BY <1>0, <2>1 DEF Places, NumberModes, StringModes
<1>8. Ends'
  BY <1>0 DEF Ends
<1> QED BY <1>3, <1>4, <1>5, <1>6, <1>7, <1>8 DEF IInv

\* From stays where it is while a comment or a token is read.
LEMMA PiecesStay ==
  ASSUME Types, Pieces, mode # "file", mode' # "file",
         text' = text, tokens' = tokens, From' = From,
         position <= position', position' \in Nat
  PROVE  Pieces'
<1>1. From <= position /\ From \in Nat /\ position \in Nat
  BY FromIs, TypesAre
<1>2. From' <= position'
  BY <1>1
<1> QED BY <1>2 DEF Pieces

LEMMA EntersKeeps ==
  ASSUME IInv, NEW n \in 0 .. 2, Enters(n)
  PROVE  IInv'
<1> USE DEF IInv
<1>0. /\ mode = "main" /\ mode' \in Modes \ {"main", "file"}
      /\ start' = Here /\ Peek(n) /\ position + n <= Len(text) + 1
      /\ literal' \in Literal /\ text' = text /\ tokens' = tokens
      /\ status = "lexing" /\ status' = status /\ UnderWay'
  BY DEF Enters
<1>1. /\ position \in 1 .. Len(text) + 1 /\ line \in Nat /\ column \in Nat
      /\ tokens \in Seq(Token) /\ Len(text) \in Nat
  BY TypesAre
<1>2. position' = position + n /\ column' = column + n /\ line' = line
  BY <1>0 DEF Peek
<1>3. /\ start' \in [first : Nat, line : Nat, column : Nat]
      /\ start'.first = position /\ start'.line = line /\ start'.column = column
  BY <1>0, <1>1 DEF Here
<1>4. Types'
  <2>1. Moves
    <3>1. n \in Nat
      OBVIOUS
    <3> QED BY <1>0, <3>1, PeekMoves, Zenon
  <2>2. start'.first \in 1 .. position' /\ mode' \in Modes
    BY <1>0, <1>1, <1>2, <1>3
  <2> QED BY <1>0, <1>1, <1>3, <2>1, <2>2, MoveKeepsTypes
<1>5. AtStart'
  BY <1>0 DEF AtStart
<1>6. Pieces'
  <2>1. From' = From
    BY <1>0, <1>3 DEF From
  <2>2. position <= position' /\ position' \in Nat
    BY <1>1, <1>2
  <2> QED BY <1>0, <2>1, <2>2, PiecesStay
<1>7. Places'
  <2>1. Placed(text, tokens) /\ PlaceIs(text, tokens, position, line, column)
    BY <1>0 DEF Places, StringModes
  <2>2. ASSUME mode' \notin StringModes
        PROVE  PlaceIs(text, tokens, position', line', column')
    <3>1. \A i \in position .. position + n - 1 : text[i] # NewLine
      BY <2>2 DEF Enters
    <3>2. position \in Int /\ n \in Nat /\ column \in Int
      BY <1>1
    <3>3. PlaceIs(text, tokens, position + n, line, column + n)
      BY <2>1, <3>1, <3>2, PlaceAdvances, Zenon
    <3> QED BY <1>2, <3>3
  <2>3. line' = start'.line /\ column' = start'.column + (position' - start'.first)
    BY <1>1, <1>2, <1>3
  <2>4. PlaceIs(text, tokens, start'.first, start'.line, start'.column)
    BY <1>3, <2>1
  <2> QED BY <1>0, <2>1, <2>2, <2>3, <2>4 DEF Places
<1>8. Ends'
  BY <1>0 DEF Ends
<1> QED BY <1>0, <1>4, <1>5, <1>6, <1>7, <1>8 DEF IInv

LEMMA ContinuesKeeps ==
  ASSUME IInv, Continues
  PROVE  IInv'
<1> USE DEF IInv
<1>0. /\ mode \in Modes \ {"main", "file"} /\ mode' \in Modes \ {"main", "file"}
      /\ mode' = mode \/ (mode \in NumberModes /\ mode' \in NumberModes)
      /\ literal' \in Literal /\ text' = text /\ tokens' = tokens /\ start' = start
      /\ status = "lexing" /\ status' = status /\ UnderWay'
  BY DEF Continues, Modes, NumberModes
<1>1. /\ position \in 1 .. Len(text) + 1 /\ line \in Nat /\ column \in Nat
      /\ tokens \in Seq(Token) /\ Len(text) \in Nat
      /\ start \in [first : Nat, line : Nat, column : Nat]
      /\ start.first \in 1 .. position
  BY TypesAre
<1>2. Moves
  <2>1. ASSUME NEW n \in 0 .. 1, Peek(n), position + n <= Len(text) + 1 PROVE Moves
    <3>1. n \in Nat
      OBVIOUS
    <3> QED BY <2>1, <3>1, PeekMoves, Zenon
  <2> QED BY <2>1, PeekNewLineMoves DEF Continues
<1>3. position' \in position .. Len(text) + 1
  BY <1>2 DEF Moves
<1>4. Types'
  <2>1. start'.first \in 1 .. position' /\ mode' \in Modes
    BY <1>0, <1>1, <1>3
  <2> QED BY <1>0, <1>1, <1>2, <2>1, MoveKeepsTypes
<1>5. AtStart'
  BY <1>0 DEF AtStart
<1>6. Pieces'
  <2>1. From' = From
    BY <1>0 DEF From
  <2>2. position <= position' /\ position' \in Nat
    BY <1>1, <1>3
  <2> QED BY <1>0, <2>1, <2>2, PiecesStay
<1>7. Places'
  <2>1. /\ Placed(text, tokens)
        /\ mode \notin StringModes => PlaceIs(text, tokens, position, line, column)
        /\ mode \in NumberModes \cup {"identifier"} \cup StringModes =>
             PlaceIs(text, tokens, start.first, start.line, start.column)
        /\ mode \in StringModes =>
             line = start.line /\ column = start.column + (position - start.first)
    BY <1>0 DEF Places
  <2>2. mode \in StringModes <=> mode' \in StringModes
    BY <1>0 DEF NumberModes, StringModes
  <2>3. ASSUME NEW n \in 0 .. 1, Peek(n),
               n = 1 => text[position] # NewLine \/ mode \in StringModes
        PROVE  /\ mode \notin StringModes =>
                    PlaceIs(text, tokens, position', line', column')
               /\ mode \in StringModes =>
                    line' = start.line
                    /\ column' = start.column + (position' - start.first)
    <3>1. position' = position + n /\ column' = column + n /\ line' = line
      BY <2>3 DEF Peek
    <3>2. ASSUME mode \notin StringModes
          PROVE  PlaceIs(text, tokens, position', line', column')
      <4>1. \A i \in position .. position + n - 1 : text[i] # NewLine
        <5>1. \A i \in position .. position + n - 1 : i = position /\ n = 1
          BY <1>1
        <5> QED BY <2>3, <3>2, <5>1
      <4>2. position \in Int /\ n \in Nat /\ column \in Int
        BY <1>1
      <4>3. PlaceIs(text, tokens, position + n, line, column + n)
        BY <2>1, <3>2, <4>1, <4>2, PlaceAdvances, Zenon
      <4> QED BY <3>1, <4>3
    <3>3. ASSUME mode \in StringModes
          PROVE  line' = start.line
                 /\ column' = start.column + (position' - start.first)
      <4>1. start.first \in Nat /\ start.column \in Nat
        BY <1>1
      <4> QED BY <1>1, <2>1, <3>1, <3>3, <4>1, SMTT(30)
    <3> QED BY <3>2, <3>3
  <2>4. ASSUME PeekNewLine, text[position] = NewLine, mode = "block_comment"
        PROVE  PlaceIs(text, tokens, position', line', column')
    <3>1. position' = position + 1 /\ line' = line + 1 /\ column' = 1
      BY <2>4 DEF PeekNewLine
    <3>2. PlaceIs(text, tokens, position, line, column)
      BY <2>1, <2>4 DEF StringModes
    <3>3. BodyOf(text) <= position /\ ~ Held(tokens, position)
      <4>1. From \in Nat /\ From <= position
        BY FromIs
      <4>2. BodyOf(text) <= From /\ Before(tokens, From)
        BY <1>0 DEF Pieces
      <4>3. From \in Int /\ position \in Int
        BY <1>1, <4>1
      <4>4. ~ Held(tokens, position)
        BY <1>1, <4>1, <4>2, <4>3, NotHeld, Zenon
      <4> QED BY <4>1, <4>2, <4>3, <4>4, BodyIs
    <3>4. PlaceIs(text, tokens, position + 1, line + 1, 1)
      <4>1. position \in Int
        BY <1>1
      <4> QED BY <2>4, <3>2, <3>3, <4>1, PlaceBreaks, Zenon
    <3> QED BY <3>1, <3>4
  <2>5. /\ mode \notin StringModes => PlaceIs(text, tokens, position', line', column')
        /\ mode \in StringModes =>
             line' = start.line /\ column' = start.column + (position' - start.first)
    <3>1. mode = "block_comment" => mode \notin StringModes
      BY DEF StringModes
    <3> QED BY <2>3, <2>4, <3>1 DEF Continues
  <2>6. mode' \in NumberModes \cup {"identifier"} \cup StringModes =>
          mode \in NumberModes \cup {"identifier"} \cup StringModes
    BY <1>0
  <2> QED BY <1>0, <2>1, <2>2, <2>5, <2>6 DEF Places
<1>8. Ends'
  BY <1>0 DEF Ends
<1> QED BY <1>0, <1>4, <1>5, <1>6, <1>7, <1>8 DEF IInv

LEMMA PushesKeeps ==
  ASSUME IInv, NEW tok, Pushes(tok)
  PROVE  IInv'
<1> USE DEF IInv
<1>0. /\ mode \in Modes \ {"file", "line_comment", "block_comment"} /\ mode' = "main"
      /\ tok \in Token /\ tokens' = Append(tokens, tok) /\ Moves
      /\ FirstByte(tok) = From /\ LastByte(tok) + 1 = position' /\ From < position'
      /\ text' = text /\ start' = start /\ literal' = literal
      /\ status = "lexing" /\ status' = status
  BY DEF Pushes
<1>1. /\ position \in 1 .. Len(text) + 1 /\ literal \in Literal
      /\ tokens \in Seq(Token) /\ Len(text) \in Nat
      /\ start \in [first : Nat, line : Nat, column : Nat]
      /\ start.first \in 1 .. position
  BY TypesAre
<1>2. position' \in position .. Len(text) + 1
  BY <1>0 DEF Moves
<1>3. tokens' \in Seq(Token)
  BY <1>0, <1>1
<1>4. Types'
  <2>1. mode' \in Modes /\ start'.first \in 1 .. position'
    BY <1>0, <1>1, <1>2 DEF Modes
  <2> QED BY <1>0, <1>1, <1>3, <2>1, MoveKeepsTypes
<1>5. AtStart'
  BY <1>0 DEF AtStart
<1>6. /\ Cut(text, tokens) /\ BodyOf(text) <= From /\ Before(tokens, From)
      /\ EndOf(text, tokens) < From /\ Gap(text, EndOf(text, tokens) + 1, From)
  BY <1>0 DEF Pieces
<1>7. From \in Nat /\ position' \in Nat /\ Len(text) \in Nat /\ position' <= Len(text) + 1
  BY <1>1, <1>2, FromIs
<1>a. tok \in Token /\ tokens' = Append(tokens, tok)
  BY <1>0, Zenon
<1>b. /\ FirstByte(tok) \in Nat /\ LastByte(tok) \in Nat
      /\ FirstByte(tok) = From /\ LastByte(tok) + 1 = position'
      /\ FirstByte(tok) <= LastByte(tok) /\ LastByte(tok) <= Len(text)
      /\ FirstByte(tok) < position' /\ LastByte(tok) < position'
      /\ position' = Len(text) + 1 => LastByte(tok) = Len(text)
  <2>0. LastByte(tok) \in Int
    BY <1>a, TokenBytes
  <2>1. FirstByte(tok) = From /\ LastByte(tok) + 1 = position' /\ From < position'
    BY <1>0, Zenon
  <2> DEFINE f == FirstByte(tok)
             l == LastByte(tok)
             h == From
             n == Len(text)
  <2>2. f = h /\ l + 1 = position' /\ h < position' /\ h \in Nat /\ n \in Nat
        /\ position' \in Nat /\ position' <= n + 1 /\ l \in Int
    BY <1>7, <2>0, <2>1, Zenon
  <2> HIDE DEF f, l, h, n
  <2>3. /\ f \in Nat /\ l \in Nat /\ f = h /\ l + 1 = position'
        /\ f <= l /\ l <= n /\ f < position' /\ l < position'
        /\ position' = n + 1 => l = n
    BY <2>2
  <2> QED BY <2>3 DEF f, l, h, n
<1>8. Pieces'
  <2>1. From' = position'
    BY <1>0 DEF From
  <2>2. TokenFits(text, EndOf(text, tokens), tok)
    <3>3. tok.type \in Words => \/ LastByte(tok) = Len(text)
                                \/ text[LastByte(tok) + 1] \in punctuation_table_1
      <4>1. tok.type \in Words =>
              position' = Len(text) + 1 \/ text[position'] \in punctuation_table_1
        BY DEF Pushes
      <4> QED BY <1>b, <4>1, Zenon
    <3>4. tok.type \in Words \cup NumericType =>
            text[FirstByte(tok)] \notin punctuation_table_1
      BY <1>b DEF Pushes
    <3> QED BY <1>6, <1>b, <3>3, <3>4, Zenon DEF TokenFits
  <2>3. Cut(text, tokens')
    BY <1>1, <1>6, <1>a, <2>2, CutAppend, Zenon
  <2>4. EndOf(text, tokens') = LastByte(tok)
    <3>1. EndOf(text, Append(tokens, tok)) = LastByte(tok)
      BY <1>1, <1>a, EndOfMore, Zenon
    <3> QED BY <1>a, <3>1, Zenon
  <2>5. Before(tokens', position')
    <3>1. From \in Int /\ position' \in Int /\ From <= position'
      BY <1>0, <1>7
    <3>2. Before(Append(tokens, tok), position')
      BY <1>1, <1>6, <1>a, <1>b, <3>1, BeforeMore, Zenon
    <3> QED BY <1>a, <3>2, Zenon
  <2>6. EndOf(text, tokens') < position' /\ EndOf(text, tokens') + 1 = position'
    BY <1>b, <2>4, Zenon
  <2>7. Gap(text, EndOf(text, tokens') + 1, position')
    BY <1>7, <2>6, EmptyGap, Zenon
  <2>8. BodyOf(text) <= position' /\ position' <= position'
    BY <1>0, <1>6, <1>7, BodyIs
  <2> QED BY <1>0, <2>1, <2>3, <2>5, <2>6, <2>7, <2>8 DEF Pieces
<1>9. UnderWay'
  BY <1>0 DEF UnderWay, NumberModes, StringModes
<1>10. Places'
  <2>1. Placed(text, tokens')
    <3>1. Placed(text, tokens) /\ PlaceIs(text, tokens, From, tok.line, tok.column)
      BY DEF Places, Pushes
    <3>2. Placed(text, Append(tokens, tok))
      BY <1>1, <1>6, <1>a, <1>b, <3>1, PlacedAppend, Zenon
    <3> QED BY <1>a, <3>2, Zenon
  <2>2. PlaceIs(text, tokens', position', line', column')
    BY DEF Pushes
  <2> QED BY <1>0, <2>1, <2>2 DEF Places, NumberModes, StringModes
<1>11. Ends'
  BY <1>0 DEF Ends
<1> QED BY <1>4, <1>5, <1>8, <1>9, <1>10, <1>11 DEF IInv

\* A BOM is in no gap and in no column.
LEMMA BeginFileKeeps ==
  ASSUME IInv, BeginFile
  PROVE  IInv'
<1> USE DEF IInv
<1>0. /\ mode = "file" /\ mode' = "main" /\ position <= Len(text)
      /\ position' = BodyOf(text)
      /\ text' = text /\ line' = line /\ column' = column /\ start' = start
      /\ literal' = literal /\ tokens' = tokens /\ status' = status
      /\ status = "lexing"
  <2>1. position \in Nat /\ Len(text) \in Nat
    BY TypesAre
  <2> QED BY <2>1 DEF BeginFile, In, IsEof, BodyOf
<1>1. position = 1 /\ line = 1 /\ column = 1 /\ tokens = << >>
  BY <1>0 DEF AtStart
<1>2. /\ text \in Seq(Byte) /\ Len(text) \in Nat /\ tokens \in Seq(Token)
      /\ start \in [first : Nat, line : Nat, column : Nat] /\ literal \in Literal
      /\ start.first = 1
  BY <1>1, TypesAre
<1>3. position' \in {1, 4} /\ position' \in position .. Len(text) + 1
  <2>1. IsPrefix(Bom, text) => Len(text) >= 3
    <3>1. Len(Bom) = 3
      BY DEF Bom
    <3> QED BY <1>2, <3>1 DEF IsPrefix
  <2> QED BY <1>0, <1>1, <1>2, <2>1 DEF BodyOf
<1>4. Types'
  <2>1. Moves
    BY <1>0, <1>1, <1>3 DEF Moves
  <2>2. mode' \in Modes /\ start'.first \in 1 .. position'
    BY <1>0, <1>2, <1>3 DEF Modes
  <2> QED BY <1>0, <1>2, <2>1, <2>2, MoveKeepsTypes
<1>5. AtStart' /\ UnderWay' /\ Ends'
  BY <1>0 DEF AtStart, UnderWay, Ends, NumberModes, StringModes
<1>6. Pieces'
  <2>1. From' = position'
    BY <1>0 DEF From
  <2>2. EndOf(text, << >>) = BodyOf(text) - 1
    BY DEF EndOf, EndBefore
  <2>3. EndOf(text, << >>) < position' /\ EndOf(text, << >>) + 1 = position'
    BY <1>0, <1>3, <2>2
  <2>4. Gap(text, position', position')
    BY <1>3, EmptyGap
  <2>5. Cut(text, << >>) /\ Before(<< >>, position')
    BY DEF Cut, Before
  <2>6. BodyOf(text) <= position' /\ position' <= position'
    BY <1>0, <1>3
  <2> QED BY <1>0, <1>1, <2>1, <2>3, <2>4, <2>5, <2>6 DEF Pieces
<1>7. Places'
  <2>1. PlaceIs(text, << >>, position', 1, 1)
    <3>1. Breaks(text, << >>, BodyOf(text)) = {}
      BY BodyIs DEF Breaks
    <3>2. Cardinality(Breaks(text, << >>, BodyOf(text))) = 0
      BY <3>1, FS_EmptySet
    <3>3. position' - 1 + 1 = BodyOf(text)
      BY <1>0, <1>3
    <3>4. LineStart(text, << >>, BodyOf(text), BodyOf(text))
      BY <3>1, BodyIs DEF LineStart
    <3>5. 1 = 1 + Cardinality(Breaks(text, << >>, BodyOf(text)))
      BY <3>2
    <3> QED BY <1>0, <3>3, <3>4, <3>5 DEF PlaceIs
  <2>2. Placed(text, << >>)
    BY DEF Placed
  <2> QED BY <1>0, <1>1, <2>1, <2>2 DEF Places, NumberModes, StringModes
<1> QED BY <1>4, <1>5, <1>6, <1>7 DEF IInv

-----------------------------------------------------------------------------
(* What an escape stands for *)

Polish(f, t, i) ==
  IF i > Len(t) THEN << >>
  ELSE IF t[i] # "\\" THEN <<t[i]>> \o f[i + 1]
  ELSE IF i = Len(t) THEN <<Uninitialized>>
  ELSE <<Unescaped(t[i + 1])>> \o f[i + 2]
IsPolish(f, t, m) == f = [i \in m .. Len(t) + 1 |-> Polish(f, t, i)]

LEMMA PolishFunction ==
  ASSUME NEW t
  PROVE  polish_string_literal(t) = (CHOOSE f : IsPolish(f, t, 1))[1]
BY DEF polish_string_literal, IsPolish, Polish

LEMMA PolishIs ==
  ASSUME NEW t \in Seq(Byte), NEW f, NEW i \in 1 .. Len(t) + 1
  PROVE  /\ i = Len(t) + 1 => Polish(f, t, i) = << >>
         /\ i <= Len(t) /\ t[i] # "\\" => Polish(f, t, i) = <<t[i]>> \o f[i + 1]
         /\ i = Len(t) /\ t[i] = "\\" => Polish(f, t, i) = <<Uninitialized>>
         /\ i < Len(t) /\ t[i] = "\\" =>
              Polish(f, t, i) = <<Unescaped(t[i + 1])>> \o f[i + 2]
<1>1. Len(t) \in Nat
  OBVIOUS
<1>2. i = Len(t) + 1 => i > Len(t)
  BY <1>1
<1>3. i <= Len(t) => ~ (i > Len(t))
  BY <1>1
<1>4. i < Len(t) => ~ (i > Len(t)) /\ i # Len(t)
  BY <1>1
<1>5. i = Len(t) => ~ (i > Len(t))
  BY <1>1
<1> QED BY <1>2, <1>3, <1>4, <1>5, Zenon DEF Polish

LEMMA PolishSame ==
  ASSUME NEW t \in Seq(Byte), NEW f, NEW g, NEW i \in 1 .. Len(t) + 1,
         \A j \in i + 1 .. Len(t) + 1 : f[j] = g[j]
  PROVE  Polish(f, t, i) = Polish(g, t, i)
<1>1. Len(t) \in Nat
  OBVIOUS
<1>2. CASE i = Len(t) + 1
  BY <1>2, PolishIs
<1>3. CASE i <= Len(t) /\ t[i] # "\\"
  <2>1. f[i + 1] = g[i + 1]
    BY <1>1, <1>3
  <2> QED BY <1>3, <2>1, PolishIs, Zenon
<1>4. CASE i = Len(t) /\ t[i] = "\\"
  BY <1>4, PolishIs, Zenon
<1>5. CASE i < Len(t) /\ t[i] = "\\"
  <2>1. f[i + 2] = g[i + 2]
    BY <1>1, <1>5
  <2> QED BY <1>5, <2>1, PolishIs, Zenon
<1> QED BY <1>1, <1>2, <1>3, <1>4, <1>5

LEMMA PolishExists ==
  ASSUME NEW t \in Seq(Byte)
  PROVE  \E f : IsPolish(f, t, 1)
<1> DEFINE top == Len(t) + 1
           P(m) == \E f : IsPolish(f, t, m)
           S == {m \in 1 .. top : ~ P(m)}
<1>0. top \in Nat \ {0} /\ Len(t) \in Nat
  OBVIOUS
<1>1. SUFFICES ASSUME ~ P(1) PROVE FALSE
  OBVIOUS
<1>a. S # {}
  <2>1. 1 \in 1 .. top
    BY <1>0
  <2> QED BY <1>1, <2>1, Zenon
<1>2. S \subseteq 0 .. top
  OBVIOUS
<1>3. PICK m \in S : \A k \in S : k <= m
  <2> HIDE DEF S, top
  <2> QED BY <1>0, <1>2, <1>a, GreatestNumber, Zenon
<1>4. m \in 1 .. top /\ ~ P(m)
  OBVIOUS
<1>5. \E f : \A i \in m + 1 .. top : f[i] = Polish(f, t, i)
  <2>1. CASE m = top
    BY <1>0, <2>1
  <2>2. CASE m # top
    <3>1. m + 1 \in 1 .. top /\ ~ (m + 1 <= m)
      BY <1>0, <1>4, <2>2
    <3>2. P(m + 1)
      <4> HIDE DEF P
      <4> QED BY <1>3, <3>1, Zenon
    <3>3. PICK f : IsPolish(f, t, m + 1)
      BY <3>2
    <3>4. \A i \in m + 1 .. top : f[i] = Polish(f, t, i)
      BY <3>3, Zenon DEF IsPolish
    <3> QED BY <3>4
  <2> QED BY <2>1, <2>2
<1>6. PICK f : \A i \in m + 1 .. top : f[i] = Polish(f, t, i)
  BY <1>5
<1> DEFINE g == [i \in m .. top |-> IF i = m THEN Polish(f, t, m) ELSE f[i]]
<1>7. \A j \in m + 1 .. top : g[j] = f[j]
  BY <1>4
<1>8. \A i \in m .. top : g[i] = Polish(g, t, i)
  <2> SUFFICES ASSUME NEW i \in m .. top PROVE g[i] = Polish(g, t, i)
    OBVIOUS
  <2>1. i \in 1 .. Len(t) + 1
    BY <1>0, <1>4
  <2>2. \A j \in i + 1 .. Len(t) + 1 : f[j] = g[j]
    <3>1. \A j \in i + 1 .. Len(t) + 1 : j \in m + 1 .. top
      BY <1>0, <1>4
    <3> HIDE DEF g
    <3> QED BY <1>7, <3>1, Zenon
  <2>3. Polish(f, t, i) = Polish(g, t, i)
    <3> HIDE DEF g
    <3> QED BY <2>1, <2>2, PolishSame, Zenon
  <2>4. g[i] = Polish(f, t, i)
    <3>1. CASE i = m
      BY <3>1
    <3>2. CASE i # m
      <4>1. i \in m + 1 .. top
        BY <1>0, <1>4, <3>2
      <4> QED BY <1>6, <1>7, <4>1
    <3> QED BY <3>1, <3>2
  <2> QED BY <2>3, <2>4
<1>9. g = [i \in m .. top |-> Polish(g, t, i)]
  <2>1. g = [i \in m .. top |-> g[i]]
    OBVIOUS
  <2> HIDE DEF g
  <2> QED BY <1>8, <2>1, Zenon
<1>10. IsPolish(g, t, m)
  BY <1>9, Zenon DEF IsPolish
<1> QED BY <1>4, <1>10

LEMMA PolishTyped ==
  ASSUME NEW t \in Seq(Byte), NEW f, IsPolish(f, t, 1), NEW i \in 1 .. Len(t) + 1
  PROVE  f[i] \in Seq(Byte \cup {Uninitialized})
<1> DEFINE top == Len(t) + 1
           U == Byte \cup {Uninitialized}
           S == {k \in 1 .. top : f[k] \notin Seq(U)}
<1>0. top \in Nat \ {0} /\ Len(t) \in Nat
  OBVIOUS
<1>1. \A k \in 1 .. top : f[k] = Polish(f, t, k)
  BY Zenon DEF IsPolish
<1>2. \A c : Unescaped(c) \in U
  BY EscapesAssumption, Zenon DEF Unescaped
<1>3. S = {}
  <2> SUFFICES ASSUME S # {} PROVE FALSE
    OBVIOUS
  <2>1. S \subseteq 0 .. top
    OBVIOUS
  <2>2. PICK m \in S : \A k \in S : k <= m
    <3> HIDE DEF S, top
    <3> QED BY <1>0, <2>1, GreatestNumber, Zenon
  <2>3. m \in 1 .. top /\ f[m] \notin Seq(U)
    OBVIOUS
  <2>4. \A k \in m + 1 .. top : f[k] \in Seq(U)
    <3> SUFFICES ASSUME NEW k \in m + 1 .. top, f[k] \notin Seq(U) PROVE FALSE
      OBVIOUS
    <3>1. k \in 1 .. top /\ ~ (k <= m)
      BY <1>0, <2>3
    <3> QED BY <2>2, <3>1
  <2> HIDE DEF U, S
  <2>5. f[m] = Polish(f, t, m)
    BY <1>1, <2>3
  <2>6. CASE m = Len(t) + 1
    <3>1. f[m] = << >>
      BY <2>3, <2>5, <2>6, PolishIs, Zenon
    <3> QED BY <2>3, <3>1
  <2>7. CASE m <= Len(t) /\ t[m] # "\\"
    <3>1. f[m] = <<t[m]>> \o f[m + 1]
      BY <2>3, <2>5, <2>7, PolishIs, Zenon
    <3>2. f[m + 1] \in Seq(U)
      BY <1>0, <2>3, <2>4, <2>7
    <3>3. t[m] \in U
      BY <1>0, <2>3, <2>7 DEF U
    <3> QED BY <2>3, <3>1, <3>2, <3>3
  <2>8. CASE m = Len(t) /\ t[m] = "\\"
    <3>1. f[m] = <<Uninitialized>>
      BY <2>3, <2>5, <2>8, PolishIs, Zenon
    <3>2. Uninitialized \in U
      BY DEF U
    <3> QED BY <2>3, <3>1, <3>2
  <2>9. CASE m < Len(t) /\ t[m] = "\\"
    <3>1. f[m] = <<Unescaped(t[m + 1])>> \o f[m + 2]
      BY <2>3, <2>5, <2>9, PolishIs, Zenon
    <3>2. f[m + 2] \in Seq(U)
      BY <1>0, <2>3, <2>4, <2>9
    <3> DEFINE e == Unescaped(t[m + 1])
    <3>3. e \in U
      BY <1>2
    <3> HIDE DEF e
    <3>4. <<e>> \o f[m + 2] \in Seq(U)
      BY <3>2, <3>3
    <3> QED BY <2>3, <3>1, <3>4 DEF e
  <2> QED BY <1>0, <2>3, <2>6, <2>7, <2>8, <2>9
<1> QED BY <1>3

LEMMA PolishedIs ==
  ASSUME NEW t \in Seq(Byte)
  PROVE  polish_string_literal(t) \in Seq(Byte \cup {Uninitialized})
<1> DEFINE f == CHOOSE f : IsPolish(f, t, 1)
<1>1. IsPolish(f, t, 1)
  BY PolishExists, Zenon
<1>2. polish_string_literal(t) = f[1]
  BY PolishFunction, Zenon
<1> HIDE DEF f
<1>3. 1 \in 1 .. Len(t) + 1
  OBVIOUS
<1> QED BY <1>1, <1>2, <1>3, PolishTyped

-----------------------------------------------------------------------------
(* Every step of the lexer is of one of these kinds *)

LEMMA Known ==
  ASSUME IInv
  PROVE  /\ Types /\ text \in Seq(Byte) /\ Len(text) \in Nat
         /\ position \in 1 .. Len(text) + 1
         /\ line \in Nat /\ column \in Nat
         /\ start \in [first : Nat, line : Nat, column : Nat]
         /\ start.first \in 1 .. position
         /\ tokens \in Seq(Token) /\ literal \in Literal
         /\ (~ IsEof <=> position <= Len(text))
         /\ From \in Nat \ {0} /\ From <= position
<1>1. Types
  BY DEF IInv
<1>2. /\ position \in 1 .. Len(text) + 1 /\ text \in Seq(Byte)
      /\ line \in 1 .. position /\ column \in 1 .. position
      /\ start \in [first : Nat, line : Nat, column : Nat]
      /\ start.first \in 1 .. position
      /\ tokens \in Seq(Token) /\ literal \in Literal
  BY <1>1, TypesAre
<1>3. Len(text) \in Nat
  BY <1>2
<1>4. (~ IsEof <=> position <= Len(text))
  BY <1>2, <1>3 DEF IsEof
<1>5. From \in Nat \ {0} /\ From <= position
  BY <1>1, FromIs
<1> QED BY <1>1, <1>2, <1>3, <1>4, <1>5

LEMMA Main ==
  ASSUME IInv, mode = "main"
  PROVE  /\ From = position
         /\ PlaceIs(text, tokens, position, line, column)
         /\ BodyOf(text) <= position /\ ~ Held(tokens, position)
<1>1. From = position
  BY DEF From
<1>2. PlaceIs(text, tokens, position, line, column)
  BY DEF IInv, Places, StringModes
<1>3. BodyOf(text) <= position /\ Before(tokens, position)
  BY <1>1 DEF IInv, Pieces
<1>4. position \in Int /\ tokens \in Seq(Token) /\ position <= position
  BY Known
<1>5. ~ Held(tokens, position)
  BY <1>3, <1>4, NotHeld, Zenon
<1> QED BY <1>1, <1>2, <1>3, <1>5

LEMMA PeekPlace ==
  ASSUME IInv, NEW n \in Nat, Peek(n),
         PlaceIs(text, tokens, position, line, column),
         \A i \in position .. position + n - 1 : text[i] # NewLine
  PROVE  PlaceIs(text, tokens, position', line', column')
<1>1. position' = position + n /\ column' = column + n /\ line' = line
  BY DEF Peek
<1>2. position \in Int /\ column \in Int
  BY Known
<1>3. PlaceIs(text, tokens, position + n, line, column + n)
  BY <1>2, PlaceAdvances, Zenon
<1> QED BY <1>1, <1>3

LEMMA StopIsStopped ==
  ASSUME NEW end \in {"error", "asserted"}, Stop(end)
  PROVE  Stopped
BY DEF Stop, Stopped

LEMMA EndOfFileStops ==
  ASSUME IInv, EmptyFile \/ EndOfFile
  PROVE  Stopped
<1>1. position = Len(text) + 1
  BY Known DEF EmptyFile, EndOfFile
<1>2. CASE EmptyFile
  BY <1>1, <1>2 DEF EmptyFile, In, Stop, Stopped
<1>3. CASE EndOfFile
  BY <1>1, <1>3 DEF EndOfFile, In, Stop, Stopped
<1> QED BY <1>2, <1>3

LEMMA BlankSkips ==
  ASSUME IInv, ReadBlank
  PROVE  Skips
<1>1. /\ mode = "main" /\ status = "lexing" /\ mode' = mode
      /\ UNCHANGED <<text, start, literal, tokens, status>>
      /\ position <= Len(text) /\ text[position] \in White \cup {NewLine}
  BY Known DEF ReadBlank, InMain, In, Current
<1>2. position' = position + 1
  BY DEF ReadBlank, Peek, PeekNewLine
<1>3. Moves
  <2>1. CASE Peek(1)
    <3>1. position + 1 <= Len(text) + 1 /\ 1 \in Nat
      BY <1>1, Known
    <3> QED BY <2>1, <3>1, Known, PeekMoves, Zenon
  <2>2. CASE PeekNewLine
    BY <1>1, <2>2, Known, PeekNewLineMoves
  <2> QED BY <2>1, <2>2 DEF ReadBlank
<1>4. Unit(text, From, position') /\ From < position'
  BY <1>1, <1>2, Known, Main DEF Unit, Between
<1>5. PlaceIs(text, tokens, position', line', column')
  <2>1. CASE text[position] = NewLine
    <3>1. position' = position + 1 /\ line' = line + 1 /\ column' = 1
      BY <2>1 DEF ReadBlank, Current, PeekNewLine
    <3>2. PlaceIs(text, tokens, position + 1, line + 1, 1)
      <4>1. position \in Int
        BY Known
      <4> QED BY <1>1, <2>1, <4>1, Main, PlaceBreaks, Zenon
    <3> QED BY <3>1, <3>2
  <2>2. CASE text[position] # NewLine
    <3>1. Peek(1) /\ 1 \in Nat
      BY <2>2 DEF ReadBlank, Current
    <3>2. \A i \in position .. position + 1 - 1 : text[i] # NewLine
      <4>1. \A i \in position .. position + 1 - 1 : i = position
        BY Known
      <4> QED BY <2>2, <4>1
    <3> QED BY <1>1, <3>1, <3>2, Main, PeekPlace, Zenon
  <2> QED BY <2>1, <2>2
<1> QED BY <1>1, <1>3, <1>4, <1>5 DEF Skips

LEMMA SingleQuoteSkips ==
  ASSUME IInv, ReadSingleQuote
  PROVE  Skips
<1>1. /\ mode = "main" /\ status = "lexing" /\ mode' = mode /\ Peek(1)
      /\ UNCHANGED <<text, start, literal, tokens, status>>
      /\ position <= Len(text) /\ text[position] = "'"
  BY Known DEF ReadSingleQuote, InMain, In, Current
<1>2. position' = position + 1
  BY <1>1 DEF Peek
<1>3. Moves
  <2>1. position + 1 <= Len(text) + 1 /\ 1 \in Nat
    BY <1>1, Known
  <2> QED BY <1>1, <2>1, Known, PeekMoves, Zenon
<1>4. Unit(text, From, position') /\ From < position'
  BY <1>1, <1>2, Known, Main DEF Unit, Between
<1>5. PlaceIs(text, tokens, position', line', column')
  <2>1. text[position] # NewLine
    BY <1>1, Zenon DEF NewLine
  <2>2. \A i \in position .. position + 1 - 1 : text[i] # NewLine
    <3>1. \A i \in position .. position + 1 - 1 : i = position
      BY Known
    <3> QED BY <2>1, <3>1
  <2>3. 1 \in Nat
    OBVIOUS
  <2> QED BY <1>1, <2>2, <2>3, Main, PeekPlace, Zenon
<1> QED BY <1>1, <1>3, <1>4, <1>5 DEF Skips

LEMMA CommentEnters ==
  ASSUME IInv, BeginComment
  PROVE  Enters(0)
<1>1. /\ mode = "main" /\ status = "lexing" /\ Stay /\ start' = Here
      /\ UNCHANGED <<text, literal, tokens, status>>
      /\ position <= Len(text)
      /\ mode' = IF Pair = LineComment THEN "line_comment" ELSE "block_comment"
      /\ Pair \in {LineComment, OpenBlockComment}
  BY Known DEF BeginComment, InMain, In
<1>2. Peek(0) /\ position' = position
  BY <1>1, Known, StayIsPeek DEF Stay
<1>3. AtIn(text, position, Pair)
  <2>1. Pair # << >>
    BY <1>1 DEF LineComment, OpenBlockComment
  <2>2. Pair = SubSeq(text, position, position + 1) /\ position < Len(text)
    BY <2>1 DEF Pair
  <2> QED BY <2>2 DEF AtIn
<1>4. start'.first = position
  BY <1>1 DEF Here
<1>5. UnderWay'
  <2>1. CASE Pair = LineComment
    <3>1. mode' = "line_comment"
      BY <1>1, <2>1
    <3>2. \A j \in position .. position - 1 : text[j] # NewLine
      BY Known
    <3>3. AtIn(text, position, LineComment)
      BY <1>3, <2>1
    <3> QED BY <1>1, <1>2, <1>4, <3>1, <3>2, <3>3 DEF UnderWay, NumberModes, StringModes
  <2>2. CASE Pair = OpenBlockComment
    <3>1. mode' = "block_comment"
      BY <1>1, <2>2, PairsTold
    <3>2. \A j \in position + 1 .. position - 1 : ~ AtIn(text, j, CloseBlockComment)
      BY Known
    <3>3. AtIn(text, position, OpenBlockComment)
      BY <1>3, <2>2
    <3> QED BY <1>1, <1>2, <1>4, <3>1, <3>2, <3>3 DEF UnderWay, NumberModes, StringModes
  <2> QED BY <1>1, <2>1, <2>2
<1>6. \A i \in position .. position + 0 - 1 : text[i] # NewLine
  BY Known
<1>7. mode' \in Modes \ {"main", "file"} /\ literal' \in Literal
      /\ position + 0 <= Len(text) + 1
  BY <1>1, Known DEF Modes
<1> QED BY <1>1, <1>2, <1>5, <1>6, <1>7 DEF Enters

LEMMA LineCommentContinues ==
  ASSUME IInv, ReadLineComment
  PROVE  Skips \/ Continues
<1>1. /\ mode = "line_comment" /\ status = "lexing"
      /\ UNCHANGED <<text, start, literal, tokens, status>>
  BY DEF ReadLineComment, In
<1>2. /\ AtIn(text, start.first, LineComment)
      /\ \A j \in start.first .. position - 1 : text[j] # NewLine
  BY <1>1 DEF IInv, UnderWay
<1>3. CASE IsEof \/ Current = NewLine
  <2>1. mode' = "main" /\ Stay /\ position' = position
    BY <1>3 DEF ReadLineComment, Stay
  <2>2. position <= Len(text) => text[position] = NewLine
    BY <1>3, Known DEF Current
  <2>3. From = start.first /\ start.first \in 1 .. Len(text)
    BY <1>1, <1>2, Known DEF From, AtIn
  <2>4. LineEnd(text, From, position)
    BY <1>2, <2>2, <2>3, Known DEF LineEnd
  <2>5. Unit(text, From, position')
    BY <1>2, <2>1, <2>3, <2>4 DEF Unit
  <2>6. From < position'
    <3>1. position' \in From + 1 .. Len(text) + 1
      BY <2>3, <2>5, Known, UnitBound
    <3> QED BY <2>3, <3>1, Known
  <2>7. PlaceIs(text, tokens, position', line', column')
    <3>1. PlaceIs(text, tokens, position, line, column)
      BY <1>1 DEF IInv, Places, StringModes
    <3> QED BY <2>1, <3>1 DEF Stay
  <2>8. Moves
    BY <2>1, Known, StayIsPeek
  <2> QED BY <1>1, <2>1, <2>5, <2>6, <2>7, <2>8 DEF Skips
<1>4. CASE ~ (IsEof \/ Current = NewLine)
  <2>1. mode' = mode /\ Peek(1) /\ position' = position + 1
    BY <1>4 DEF ReadLineComment, Peek
  <2>2. position <= Len(text) /\ text[position] # NewLine
    BY <1>4, Known DEF Current
  <2>3. \A j \in start.first .. position' - 1 : text[j] # NewLine
    <3> DEFINE p == position'
    <3>1. p = position + 1
      BY <2>1
    <3> HIDE DEF p
    <3>2. \A j \in start.first .. p - 1 : j \in start.first .. position - 1 \/ j = position
      BY <3>1, Known
    <3>3. \A j \in start.first .. p - 1 : text[j] # NewLine
      BY <1>2, <2>2, <3>2
    <3> QED BY <3>3 DEF p
  <2>4. UnderWay'
    BY <1>1, <1>2, <2>1, <2>3 DEF UnderWay, NumberModes, StringModes
  <2>5. position + 1 <= Len(text) + 1 /\ mode \in Modes \ {"main", "file"}
        /\ literal' \in Literal
    BY <1>1, <2>2, Known DEF Modes
  <2> QED BY <1>1, <2>1, <2>2, <2>4, <2>5 DEF Continues
<1> QED BY <1>3, <1>4

LEMMA BlockCommentContinues ==
  ASSUME IInv, ReadBlockComment
  PROVE  Skips \/ Continues
<1>1. /\ mode = "block_comment" /\ status = "lexing"
      /\ UNCHANGED <<text, start, literal, tokens, status>>
      /\ position <= Len(text)
  BY Known DEF ReadBlockComment, In
<1>2. /\ AtIn(text, start.first, OpenBlockComment)
      /\ \A j \in start.first + 1 .. position - 1 : ~ AtIn(text, j, CloseBlockComment)
      /\ PlaceIs(text, tokens, position, line, column)
  BY <1>1 DEF IInv, UnderWay, Places, StringModes
<1>3. From = start.first
  BY <1>1 DEF From
<1>4. CASE Pair = CloseBlockComment
  <2>1. /\ position < Len(text) /\ AtIn(text, position, CloseBlockComment)
        /\ text[position] = "*" /\ text[position + 1] = "/"
    BY <1>4, Known, PairIs DEF CloseBlockComment
  <2>2. text[position] # NewLine /\ text[position + 1] # NewLine
    BY <2>1, Zenon DEF NewLine
  <2>3. mode' = "main" /\ Peek(2)
    BY <1>4, <2>2 DEF ReadBlockComment, Current
  <2>4. position' = position + 2
    BY <2>3 DEF Peek
  <2>5. start.first # position
    BY <1>2, <2>1, PairsTold DEF AtIn
  <2>6. MarkEnd(text, From, position + 2)
    <3>1. position + 2 \in start.first + 3 .. Len(text) + 2
      <4> DEFINE p == position
                 s == start.first
                 l == Len(text)
      <4>1. p \in Int /\ s \in Int /\ l \in Int /\ s <= p /\ s # p /\ p < l
        BY <2>1, <2>5, Known
      <4> HIDE DEF p, s, l
      <4>2. p + 2 \in s + 3 .. l + 2
        BY <4>1
      <4> QED BY <4>2 DEF p, s, l
    <3> DEFINE k == position + 2
    <3>2. k - 2 = position /\ k - 3 = position - 1 /\ k \in start.first + 3 .. Len(text) + 2
      BY <3>1, Known
    <3> HIDE DEF k
    <3>3. AtIn(text, k - 2, CloseBlockComment)
      BY <2>1, <3>2
    <3>4. \A j \in start.first + 1 .. k - 3 : ~ AtIn(text, j, CloseBlockComment)
      BY <1>2, <3>2
    <3>5. MarkEnd(text, start.first, k)
      BY <3>2, <3>3, <3>4 DEF MarkEnd
    <3> QED BY <1>3, <3>5 DEF k
  <2>7. Unit(text, From, position')
    BY <1>2, <1>3, <2>4, <2>6 DEF Unit
  <2>8. From < position'
    BY <2>4, Known
  <2>9. 2 \in Nat /\ position + 2 <= Len(text) + 1
    BY <2>1, Known
  <2>10. Moves
    BY <2>3, <2>9, Known, PeekMoves, Zenon
  <2>11. \A i \in position .. position + 2 - 1 : text[i] # NewLine
    <3>1. \A i \in position .. position + 2 - 1 : i = position \/ i = position + 1
      BY Known
    <3> QED BY <2>2, <3>1
  <2>12. PlaceIs(text, tokens, position', line', column')
    BY <1>2, <2>3, <2>9, <2>11, PeekPlace, Zenon
  <2> QED BY <1>1, <2>3, <2>7, <2>8, <2>10, <2>12 DEF Skips
<1>5. CASE Pair # CloseBlockComment
  <2>1. mode' = mode
    BY <1>5 DEF ReadBlockComment
  <2>2. Current = NewLine => PeekNewLine
    BY <1>5 DEF ReadBlockComment
  <2>3. Current # NewLine => Peek(1)
    BY <1>5 DEF ReadBlockComment
  <2>4. position' = position + 1
    BY <2>2, <2>3 DEF Peek, PeekNewLine
  <2>5. ~ AtIn(text, position, CloseBlockComment)
    BY <1>5, Known, PairIsNot
  <2>6. \A j \in start.first + 1 .. position' - 1 : ~ AtIn(text, j, CloseBlockComment)
    <3> DEFINE p == position'
    <3>1. p = position + 1
      BY <2>4
    <3> HIDE DEF p
    <3>2. \A j \in start.first + 1 .. p - 1 :
            j \in start.first + 1 .. position - 1 \/ j = position
      BY <3>1, Known, SMTT(30)
    <3>3. \A j \in start.first + 1 .. p - 1 : ~ AtIn(text, j, CloseBlockComment)
      BY <1>2, <2>5, <3>2
    <3> QED BY <3>3 DEF p
  <2>7. UnderWay'
    BY <1>1, <1>2, <2>1, <2>6 DEF UnderWay, NumberModes, StringModes
  <2>8. position + 1 <= Len(text) + 1 /\ mode \in Modes \ {"main", "file"}
        /\ literal' \in Literal
    BY <1>1, Known DEF Modes
  <2> QED BY <1>1, <2>1, <2>2, <2>3, <2>7, <2>8 DEF Continues, Current
<1> QED BY <1>4, <1>5

-----------------------------------------------------------------------------
(* Strings *)

LEMMA StringEnters ==
  ASSUME IInv, BeginString
  PROVE  Enters(1)
<1>1. /\ mode = "main" /\ status = "lexing" /\ Peek(1) /\ start' = Here
      /\ UNCHANGED <<text, literal, tokens, status>>
      /\ position < Len(text)
      /\ mode' \in StringModes
  BY DEF BeginString, InMain, In, StringModes
<1>2. position' = position + 1 /\ start'.first = position
  BY <1>1 DEF Peek, Here
<1>3. start'.first < position'
  BY <1>2, Known
<1>4. UnderWay'
  BY <1>1, <1>3 DEF UnderWay, NumberModes, StringModes
<1>5. mode' \in Modes \ {"main", "file"} /\ literal' \in Literal
      /\ position + 1 <= Len(text) + 1
  BY <1>1, Known DEF Modes, StringModes
<1> QED BY <1>1, <1>4, <1>5 DEF Enters

LEMMA StringContinues ==
  ASSUME IInv, ReadString
  PROVE  Continues
<1>1. /\ mode \in StringModes /\ status = "lexing" /\ Peek(1) /\ position <= Len(text)
      /\ UNCHANGED <<text, mode, start, literal, tokens, status>>
  BY Known DEF ReadString, InString, StringModes, CloseOf
<1>2. position' = position + 1 /\ start.first < position
  BY <1>1 DEF Peek, IInv, UnderWay
<1>3. start.first < position'
  BY <1>2, Known
<1>4. UnderWay'
  BY <1>1, <1>3 DEF UnderWay, NumberModes, StringModes
<1>5. mode \in Modes \ {"main", "file"} /\ literal' \in Literal
      /\ position + 1 <= Len(text) + 1
  BY <1>1, Known DEF Modes, StringModes
<1> QED BY <1>1, <1>4, <1>5 DEF Continues

LEMMA TokenAtIs ==
  ASSUME NEW from \in [first : Nat, line : Nat, column : Nat],
         NEW first \in Nat, NEW size \in Nat, NEW type,
         type \in {"UNKNOWN", "IDENTIFIER", "KEYWORD", "SYNTAXE_OPERATOR",
                   "STRING_LITERAL_RAW", "STRING_LITERAL"} \cup NumericType
  PROVE  \A tok : tok = TokenAt(from, type, first, size) =>
           /\ tok \in Token
           /\ tok.type = type /\ tok.first = first /\ tok.size = size
           /\ tok.line = from.line /\ tok.column = from.column
<1>1. << >> \in Seq(Byte \cup {Uninitialized})
  OBVIOUS
<1> QED BY <1>1 DEF TokenAt, Token

LEMMA StringPushes ==
  ASSUME IInv, CloseString
  PROVE  \E tok : Pushes(tok)
<1> DEFINE first == start.first + 1
           size == position - first
           raw == TokenAt(start, "STRING_LITERAL_RAW", first, size)
           polished == polish_string_literal(TextOf(first, size))
           tok == IF mode = "raw_string" THEN raw
                  ELSE [raw EXCEPT !.type = "STRING_LITERAL", !.string = polished]
<1>1. /\ mode \in StringModes /\ status = "lexing" /\ Peek(1) /\ position <= Len(text)
      /\ mode' = "main" /\ tokens' = Append(tokens, tok)
      /\ UNCHANGED <<text, start, literal, status>>
  BY Known DEF CloseString, InString, StringModes, CloseOf
<1>2. start.first < position
  BY <1>1 DEF IInv, UnderWay
<1>3. first \in Nat /\ size \in Nat /\ first >= 1 /\ first + size = position
      /\ first - 1 = start.first
  BY <1>2, Known
<1> HIDE DEF first, size
<1>4. /\ raw \in Token /\ raw.first = first /\ raw.size = size
      /\ raw.type = "STRING_LITERAL_RAW"
      /\ raw.line = start.line /\ raw.column = start.column
  <2> DEFINE type == "STRING_LITERAL_RAW"
  <2>1. type \in {"UNKNOWN", "IDENTIFIER", "KEYWORD", "SYNTAXE_OPERATOR",
                  "STRING_LITERAL_RAW", "STRING_LITERAL"} \cup NumericType
    OBVIOUS
  <2>2. start \in [first : Nat, line : Nat, column : Nat]
    BY Known
  <2>3. raw = TokenAt(start, type, first, size)
    BY DEF type
  <2>4. first \in Nat /\ size \in Nat
    BY <1>3
  <2> HIDE DEF type, raw
  <2>5. \A t : t = TokenAt(start, type, first, size) =>
          /\ t \in Token
          /\ t.type = type /\ t.first = first /\ t.size = size
          /\ t.line = start.line /\ t.column = start.column
    BY <2>1, <2>2, <2>4, TokenAtIs
  <2>6. /\ raw \in Token
        /\ raw.type = type /\ raw.first = first /\ raw.size = size
        /\ raw.line = start.line /\ raw.column = start.column
    BY <2>3, <2>5, Zenon
  <2> QED BY <2>6 DEF type
<1>5. polished \in Seq(Byte \cup {Uninitialized})
  <2>1. TextOf(first, size) \in Seq(Byte)
    <3>1. \A i \in first .. first + size - 1 : i \in 1 .. Len(text)
      BY <1>1, <1>3, Known
    <3>2. SubSeq(text, first, first + size - 1) \in Seq(Byte)
      BY <1>3, <3>1, Known, SubSeqProperties
    <3> QED BY <3>2 DEF TextOf
  <2> QED BY <2>1, PolishedIs, Zenon
<1> HIDE DEF raw, polished
<1>6. /\ tok \in Token /\ tok.first = first /\ tok.size = size
      /\ tok.type \in {"STRING_LITERAL", "STRING_LITERAL_RAW"}
      /\ tok.line = start.line /\ tok.column = start.column
  BY <1>4, <1>5 DEF Token
<1> HIDE DEF tok
<1>7. IsString(tok)
  BY <1>6 DEF IsString
<1>8. FirstByte(tok) = first - 1 /\ LastByte(tok) = first + size - 0
  BY <1>6, <1>7 DEF FirstByte, LastByte
<1>9. From = start.first
  BY <1>1 DEF From, StringModes
<1>10. position' = position + 1 /\ column' = column + 1 /\ line' = line
  BY <1>1 DEF Peek
<1>11. LastByte(tok) = position
  BY <1>3, <1>8
<1>12. FirstByte(tok) = From
  BY <1>3, <1>8, <1>9
<1>13. LastByte(tok) + 1 = position' /\ From < position'
  BY <1>10, <1>11, Known
<1>14. Moves
  <2>1. position + 1 <= Len(text) + 1 /\ 1 \in Nat
    BY <1>1, Known
  <2> QED BY <1>1, <2>1, Known, PeekMoves, Zenon
<1>15. PlaceIs(text, tokens, From, tok.line, tok.column)
  BY <1>1, <1>6, <1>9 DEF IInv, Places
<1>16. PlaceIs(text, tokens', position', line', column')
  <2> DEFINE n == position + 1 - From
  <2>1. n \in Nat /\ LastByte(tok) = FirstByte(tok) + n - 1
        /\ FirstByte(tok) + n = position + 1
    BY <1>11, <1>12, Known
  <2>2. tok.column \in Int
    BY <1>6, Known
  <2>3. PlaceIs(text, tokens, FirstByte(tok), tok.line, tok.column)
    BY <1>12, <1>15
  <2> HIDE DEF n
  <2>4. PlaceIs(text, Append(tokens, tok), FirstByte(tok) + n, tok.line, tok.column + n)
    BY <1>6, <1>7, <2>1, <2>2, <2>3, Known, PlaceAfterString, Zenon
  <2>5. line = start.line /\ column = start.column + (position - start.first)
    BY <1>1 DEF IInv, Places
  <2>6. tok.column + n = column + 1 /\ tok.line = line
    BY <1>6, <1>9, <2>5, Known DEF n
  <2> QED BY <1>1, <1>10, <2>1, <2>4, <2>6
<1>17. tok.type \notin Words \cup NumericType
  BY <1>6 DEF Words, NumericType
<1>18. mode \in Modes \ {"file", "line_comment", "block_comment"}
  BY <1>1 DEF StringModes, Modes
<1> QED BY <1>1, <1>6, <1>12, <1>13, <1>14, <1>15, <1>16, <1>17, <1>18 DEF Pushes

-----------------------------------------------------------------------------
(* Words *)

\* A token that is no string ends where the step, that reads no line break,
\* leaves the stream.
LEMMA TokenPushes ==
  ASSUME IInv, NEW tok \in Token, ~ IsString(tok),
         NEW n \in Nat, Peek(n), position + n <= Len(text) + 1,
         \A i \in position .. position + n - 1 : text[i] # NewLine,
         mode \in Modes \ {"file", "line_comment", "block_comment", "string", "raw_string"},
         mode' = "main", tokens' = Append(tokens, tok),
         status = "lexing", UNCHANGED <<text, start, literal, status>>,
         tok.first = From, tok.first + tok.size = position + n, From < position + n,
         PlaceIs(text, tokens, From, tok.line, tok.column),
         tok.type \in Words =>
           position' = Len(text) + 1 \/ text[position'] \in punctuation_table_1,
         tok.type \in Words \cup NumericType => text[From] \notin punctuation_table_1
  PROVE  Pushes(tok)
<1>1. position' = position + n
  BY DEF Peek
<1>2. Moves
  BY Known, PeekMoves, Zenon
<1>3. tok.first \in Nat /\ tok.size \in Nat
  BY DEF Token
<1>4. FirstByte(tok) = tok.first /\ LastByte(tok) = tok.first + tok.size - 1
  BY DEF FirstByte, LastByte
<1>5. FirstByte(tok) = From /\ LastByte(tok) + 1 = position' /\ From < position'
  BY <1>1, <1>3, <1>4, Known, SMTT(30)
<1>6. PlaceIs(text, tokens, position, line, column)
  BY DEF IInv, Places, StringModes, Modes
<1>7. PlaceIs(text, tokens, position', line', column')
  BY <1>6, PeekPlace, Zenon
<1>8. PlaceIs(text, Append(tokens, tok), position', line', column')
  <2> DEFINE p == position'
             l == line'
             c == column'
  <2>1. p \in Int
    BY <1>1, Known
  <2>2. PlaceIs(text, tokens, p, l, c)
    BY <1>7
  <2>3. tokens \in Seq(Token)
    BY Known
  <2> HIDE DEF p, l, c
  <2>4. PlaceIs(text, Append(tokens, tok), p, l, c)
    BY <2>1, <2>2, <2>3, PlaceBeforeToken
  <2> QED BY <2>4 DEF p, l, c
<1>9. PlaceIs(text, tokens', position', line', column')
  BY <1>8
<1> QED BY <1>2, <1>5, <1>9 DEF Pushes

LEMMA OperatorPushes ==
  ASSUME IInv, ReadOperator
  PROVE  \E tok : Pushes(tok)
<1> DEFINE size == IF Pair \in Operator2 THEN 2 ELSE 1
           tok == TokenAt(Here, "SYNTAXE_OPERATOR", position, size)
<1>1. /\ mode = "main" /\ mode' = "main" /\ status = "lexing" /\ Peek(size)
      /\ position <= Len(text) /\ tokens' = Append(tokens, tok)
      /\ UNCHANGED <<text, start, literal, status>>
      /\ Pair \in Operator2 \/ text[position] \in Sign
  BY Known DEF ReadOperator, InMain, In, Current
<1>2. size \in Nat /\ size \in {1, 2}
  OBVIOUS
<1>3. /\ position + size <= Len(text) + 1
      /\ \A i \in position .. position + size - 1 : text[i] # NewLine
  <2>1. CASE Pair \in Operator2
    <3>1. PICK x, y : Pair = <<x, y>> /\ x # NewLine /\ y # NewLine
      BY <2>1, OperatorBytes
    <3>2. position < Len(text) /\ text[position] = x /\ text[position + 1] = y
      BY <3>1, Known, PairIs
    <3>3. \A i \in position .. position + size - 1 : i = position \/ i = position + 1
      BY <2>1, Known
    <3>4. \A i \in position .. position + size - 1 : text[i] # NewLine
      BY <3>1, <3>2, <3>3, Zenon
    <3>5. size = 2
      BY <2>1
    <3> HIDE DEF size
    <3>6. position + size <= Len(text) + 1
      BY <3>2, <3>5, Known
    <3> QED BY <3>4, <3>6
  <2>2. CASE Pair \notin Operator2
    <3>1. text[position] # NewLine
      BY <1>1, <2>2, SignIsNoNewLine
    <3>2. \A i \in position .. position + size - 1 : i = position
      BY <2>2, Known
    <3> QED BY <1>1, <2>2, <3>1, <3>2, Known
  <2> QED BY <2>1, <2>2
<1> HIDE DEF size
<1>4. /\ tok \in Token /\ tok.first = position /\ tok.size = size
      /\ tok.type = "SYNTAXE_OPERATOR"
      /\ tok.line = line /\ tok.column = column
  <2> DEFINE type == "SYNTAXE_OPERATOR"
  <2>1. type \in {"UNKNOWN", "IDENTIFIER", "KEYWORD", "SYNTAXE_OPERATOR",
                  "STRING_LITERAL_RAW", "STRING_LITERAL"} \cup NumericType
    OBVIOUS
  <2>2. Here \in [first : Nat, line : Nat, column : Nat]
        /\ Here.line = line /\ Here.column = column
    BY Known DEF Here
  <2>3. tok = TokenAt(Here, type, position, size) /\ position \in Nat
    BY Known DEF type
  <2> HIDE DEF type, tok
  <2>4. \A t : t = TokenAt(Here, type, position, size) =>
          /\ t \in Token
          /\ t.type = type /\ t.first = position /\ t.size = size
          /\ t.line = Here.line /\ t.column = Here.column
    BY <1>2, <2>1, <2>2, <2>3, TokenAtIs
  <2>5. /\ tok \in Token
        /\ tok.type = type /\ tok.first = position /\ tok.size = size
        /\ tok.line = Here.line /\ tok.column = Here.column
    BY <2>3, <2>4, Zenon
  <2> QED BY <2>2, <2>5 DEF type
<1> HIDE DEF tok
<1>5. ~ IsString(tok) /\ tok.type \notin Words \cup NumericType
  BY <1>4 DEF IsString, Words, NumericType
<1>6. From = position /\ PlaceIs(text, tokens, position, line, column)
  BY <1>1, Main
<1>7. PlaceIs(text, tokens, From, tok.line, tok.column)
  BY <1>4, <1>6
<1>8. tok.first = From /\ tok.first + tok.size = position + size /\ From < position + size
  BY <1>2, <1>4, <1>6, Known
<1>9. mode \in Modes \ {"file", "line_comment", "block_comment", "string", "raw_string"}
  BY <1>1 DEF Modes
<1>10. Pushes(tok)
  BY <1>1, <1>2, <1>3, <1>4, <1>5, <1>7, <1>8, <1>9, TokenPushes, Zenon
<1> QED BY <1>10

LEMMA IdentifierEnters ==
  ASSUME IInv, BeginIdentifier
  PROVE  Enters(0)
<1>1. /\ mode = "main" /\ status = "lexing" /\ Stay /\ start' = Here
      /\ mode' = "identifier"
      /\ UNCHANGED <<text, literal, tokens, status>>
      /\ position <= Len(text) /\ text[position] \notin punctuation_table_1
  BY Known DEF BeginIdentifier, InMain, In, Current
<1>2. Peek(0)
  BY <1>1, Known, StayIsPeek
<1>3. start'.first = position
  BY <1>1 DEF Here
<1>4. UnderWay'
  BY <1>1, <1>3 DEF UnderWay, NumberModes, StringModes
<1>5. \A i \in position .. position + 0 - 1 : text[i] # NewLine
  BY Known
<1>6. mode' \in Modes \ {"main", "file"} /\ literal' \in Literal
      /\ position + 0 <= Len(text) + 1
  BY <1>1, Known DEF Modes
<1> QED BY <1>1, <1>2, <1>4, <1>5, <1>6 DEF Enters

LEMMA IdentifierContinues ==
  ASSUME IInv, ReadIdentifier
  PROVE  Continues
<1>1. /\ mode = "identifier" /\ status = "lexing" /\ Peek(1) /\ position <= Len(text)
      /\ text[position] \notin punctuation_table_1
      /\ UNCHANGED <<text, mode, start, literal, tokens, status>>
  BY Known DEF ReadIdentifier, InIdentifier, In, Current
<1>2. start.first <= Len(text) /\ text[start.first] \notin punctuation_table_1
  BY <1>1 DEF IInv, UnderWay
<1>3. UnderWay'
  BY <1>1, <1>2 DEF UnderWay, NumberModes, StringModes
<1>4. mode \in Modes \ {"main", "file"} /\ literal' \in Literal
      /\ position + 1 <= Len(text) + 1
  BY <1>1, Known DEF Modes
<1>5. text[position] # NewLine
  BY <1>1, NewLineIsPunctuation
<1> QED BY <1>1, <1>3, <1>4, <1>5 DEF Continues

LEMMA IdentifierPushes ==
  ASSUME IInv, EndOfIdentifier
  PROVE  \E tok : Pushes(tok)
<1> DEFINE size == position - start.first
           type == IF is_keyword(TextOf(start.first, size)) THEN "KEYWORD" ELSE "IDENTIFIER"
           tok == TokenAt(start, type, start.first, size)
<1>1. /\ mode = "identifier" /\ status = "lexing" /\ mode' = "main" /\ Stay
      /\ tokens' = Append(tokens, tok)
      /\ UNCHANGED <<text, start, literal, status>>
  BY DEF EndOfIdentifier, In
<1>2. position = Len(text) + 1 \/ text[position] \in punctuation_table_1
  <2>1. IsEof \/ Current \in punctuation_table_1
    BY <1>1 DEF EndOfIdentifier, InIdentifier, In
  <2> QED BY <2>1, Known DEF Current
<1>3. /\ start.first <= Len(text) /\ text[start.first] \notin punctuation_table_1
      /\ PlaceIs(text, tokens, start.first, start.line, start.column)
      /\ From = start.first
  BY <1>1 DEF IInv, UnderWay, Places, From
<1>4. start.first < position
  <2>1. start.first # position
    BY <1>2, <1>3, Known
  <2> QED BY <2>1, Known
<1>5. size \in Nat /\ start.first + size = position /\ start.first \in Nat
  BY <1>4, Known
<1>6. type \in Words
  BY DEF Words
<1> HIDE DEF size, type
<1>7. /\ tok \in Token /\ tok.first = start.first /\ tok.size = size /\ tok.type = type
      /\ tok.line = start.line /\ tok.column = start.column
  <2>1. type \in {"UNKNOWN", "IDENTIFIER", "KEYWORD", "SYNTAXE_OPERATOR",
                  "STRING_LITERAL_RAW", "STRING_LITERAL"} \cup NumericType
    BY <1>6 DEF Words
  <2>2. start \in [first : Nat, line : Nat, column : Nat]
    BY Known
  <2>3. tok = TokenAt(start, type, start.first, size)
    OBVIOUS
  <2> HIDE DEF tok
  <2>4. \A t : t = TokenAt(start, type, start.first, size) =>
          /\ t \in Token
          /\ t.type = type /\ t.first = start.first /\ t.size = size
          /\ t.line = start.line /\ t.column = start.column
    BY <1>5, <2>1, <2>2, TokenAtIs
  <2> QED BY <2>3, <2>4, Zenon
<1> HIDE DEF tok
<1>8. ~ IsString(tok)
  BY <1>6, <1>7 DEF IsString, Words
<1>9. Peek(0) /\ position' = position
  BY <1>1, Known, StayIsPeek DEF Stay
<1>10. \A i \in position .. position + 0 - 1 : text[i] # NewLine
  BY Known
<1>11. /\ mode \in Modes \ {"file", "line_comment", "block_comment", "string", "raw_string"}
       /\ position + 0 <= Len(text) + 1 /\ 0 \in Nat
       /\ tok.first = From /\ tok.first + tok.size = position + 0 /\ From < position + 0
  BY <1>1, <1>3, <1>4, <1>5, <1>7, Known DEF Modes
<1>12. PlaceIs(text, tokens, From, tok.line, tok.column)
  BY <1>3, <1>7
<1>13. /\ position' = Len(text) + 1 \/ text[position'] \in punctuation_table_1
       /\ text[From] \notin punctuation_table_1
  BY <1>2, <1>3, <1>9
<1>14. Pushes(tok)
  BY <1>1, <1>7, <1>8, <1>9, <1>10, <1>11, <1>12, <1>13, TokenPushes, Zenon
<1> QED BY <1>14

-----------------------------------------------------------------------------
(* Numeric literals *)

LEMMA NumberEnters ==
  ASSUME IInv, BeginPrefixed \/ BeginDecimal
  PROVE  \E n \in 1 .. 2 : Enters(n)
<1>1. /\ mode = "main" /\ status = "lexing" /\ start' = Here /\ mode' \in NumberModes
      /\ UNCHANGED <<text, tokens, status>>
      /\ position <= Len(text)
  BY Known DEF BeginPrefixed, BeginDecimal, InMain, In, NumberModes
<1>2. start'.first = position
  BY <1>1 DEF Here
<1>3. mode' \in Modes \ {"main", "file"} /\ mode' \notin StringModes
  BY <1>1 DEF Modes, NumberModes, StringModes
<1>4. CASE BeginPrefixed
  <2>1. PICK x : x \in {"x", "b"} /\ Pair = <<"0", x>>
    BY <1>4 DEF BeginPrefixed
  <2>2. position < Len(text) /\ text[position] = "0" /\ text[position + 1] = x
    BY <2>1, Known, PairIs
  <2>3. "0" # NewLine /\ x # NewLine
    BY <2>1, Zenon DEF NewLine
  <2>4. \A i \in position .. position + 2 - 1 : text[i] # NewLine
    <3>1. \A i \in position .. position + 2 - 1 : i = position \/ i = position + 1
      BY Known
    <3> QED BY <2>2, <2>3, <3>1
  <2>5. text[position] \notin punctuation_table_1
    <3>1. "0" \in DigitsOf(10)
      BY DecimalDigits
    <3> QED BY <2>2, <3>1, DigitIsNoPunctuation
  <2>6. Peek(2)
    BY <1>4 DEF BeginPrefixed
  <2>7. position < position' /\ position + 2 <= Len(text) + 1
    BY <2>2, <2>6, Known, SMTT(30) DEF Peek
  <2>8. UnderWay'
    BY <1>1, <1>2, <2>5, <2>7 DEF UnderWay, NumberModes, StringModes
  <2>9. literal' \in Literal
    BY <1>4, WidthsAssumption DEF BeginPrefixed, Literal, NoLiteral
  <2>10. Enters(2)
    BY <1>1, <1>3, <2>4, <2>6, <2>7, <2>8, <2>9 DEF Enters
  <2> QED BY <2>10
<1>5. CASE BeginDecimal
  <2>1. text[position] \in DigitsOf(10) /\ Peek(1)
        /\ literal' = [NoLiteral EXCEPT !.value = ValueOf(text[position])]
    BY <1>5 DEF BeginDecimal, is_digit, Current
  <2>2. text[position] # NewLine /\ text[position] \notin punctuation_table_1
    BY <2>1, DigitIsNoPunctuation, NewLineIsPunctuation
  <2>3. \A i \in position .. position + 1 - 1 : text[i] # NewLine
    <3>1. \A i \in position .. position + 1 - 1 : i = position
      BY Known
    <3> QED BY <2>2, <3>1
  <2>4. position < position' /\ position + 1 <= Len(text) + 1
    BY <1>1, <2>1, Known DEF Peek
  <2>5. UnderWay'
    BY <1>1, <1>2, <2>2, <2>4 DEF UnderWay, NumberModes, StringModes
  <2>6. literal' \in Literal
    <3>1. ValueOf(text[position]) \in 0 .. UI64_MAX
      <4>1. ValueOf(text[position]) \in 0 .. 15
        BY <2>1, ValueOfDigit
      <4> QED BY <4>1, WidthsAssumption
    <3> QED BY <2>1, <3>1 DEF Literal, NoLiteral
  <2>7. Enters(1)
    BY <1>1, <1>3, <2>1, <2>3, <2>4, <2>5, <2>6 DEF Enters
  <2> QED BY <2>7
<1> QED BY <1>4, <1>5

\* A step inside a literal reads a byte that is no line break, or none.
LEMMA ReadsContinues ==
  ASSUME IInv, InNumber, NEW n \in 0 .. 1, NEW m \in NumberModes, NEW l \in Literal,
         Reads(n, m, l), position <= Len(text),
         n = 1 => text[position] # NewLine
  PROVE  Continues
<1>1. /\ mode \in NumberModes /\ status = "lexing" /\ Peek(n) /\ mode' = m
      /\ literal' = l /\ UNCHANGED <<text, start, tokens, status>>
  BY DEF InNumber, Reads, NumberModes
<1>2. /\ start.first < position
      /\ start.first <= Len(text) /\ text[start.first] \notin punctuation_table_1
  BY <1>1 DEF IInv, UnderWay
<1>3. start.first < position'
  BY <1>1, <1>2, Known DEF Peek
<1>4. UnderWay'
  BY <1>1, <1>2, <1>3 DEF UnderWay, NumberModes, StringModes
<1>5. mode \in Modes \ {"main", "file"} /\ position + n <= Len(text) + 1
  BY <1>1, Known DEF Modes, NumberModes
<1> QED BY <1>1, <1>4, <1>5 DEF Continues

LEMMA DigitContinues ==
  ASSUME IInv, ReadDigit
  PROVE  Continues
<1> DEFINE base == BaseOf[mode]
           digit == text[position]
           v == (literal.value * base + ValueOf(digit)) % (UI64_MAX + 1)
           l == [literal EXCEPT !.value = v]
<1>1. /\ InNumber /\ position <= Len(text) /\ mode \in DOMAIN BaseOf
      /\ digit \in DigitsOf(base) /\ Reads(1, mode, l)
  BY Known DEF ReadDigit, Current
<1>2. base \in {2, 10, 16} /\ mode \in NumberModes
  BY <1>1, OneOfBases DEF NumberModes
<1> HIDE DEF base, digit
<1>3. digit # NewLine /\ ValueOf(digit) \in 0 .. 15
  BY <1>1, <1>2, DigitIsNoNewLine, ValueOfDigit
<1>4. v \in 0 .. UI64_MAX
  <2>1. literal.value \in Nat
    BY Known DEF Literal
  <2>2. base \in Nat /\ ValueOf(digit) \in Nat /\ UI64_MAX \in Nat
    BY <1>2, <1>3, WidthsAssumption
  <2>3. literal.value * base \in Nat
    BY <2>1, <2>2
  <2>4. literal.value * base + ValueOf(digit) \in Nat
    BY <2>2, <2>3
  <2> QED BY <2>2, <2>4, ModRange
<1> HIDE DEF v
<1>5. l \in Literal
  BY <1>4, Known DEF Literal
<1> HIDE DEF l
<1>6. 1 \in 0 .. 1 /\ (1 = 1 => text[position] # NewLine)
  BY <1>3 DEF digit
<1> QED BY <1>1, <1>2, <1>5, <1>6, ReadsContinues, Zenon

LEMMA UnderscoreContinues ==
  ASSUME IInv, ReadUnderscore
  PROVE  Continues
<1>1. /\ InNumber /\ position <= Len(text) /\ text[position] = "_"
      /\ Reads(1, mode, literal)
  BY Known DEF ReadUnderscore, Current
<1>2. text[position] # NewLine
  BY <1>1, Zenon DEF NewLine
<1>3. mode \in NumberModes /\ literal \in Literal
  BY <1>1, Known DEF InNumber, NumberModes
<1>4. 1 \in 0 .. 1 /\ (1 = 1 => text[position] # NewLine)
  BY <1>2
<1> QED BY <1>1, <1>3, <1>4, ReadsContinues, Zenon

\* The flags of a literal are only added to.
LEMMA MoreFlags ==
  ASSUME NEW l \in Literal,
         NEW F, F \subseteq {"IS_FLOATING_POINT", "HAS_EXPONENT", "UNSIGNED_SUFFIX",
                             "LONG_SUFFIX"},
         NEW b \in BOOLEAN
  PROVE  /\ [l EXCEPT !.flags = @ \cup F] \in Literal
         /\ [l EXCEPT !.flags = @ \cup F, !.fraction = b] \in Literal
         /\ [l EXCEPT !.fraction = b] \in Literal
BY DEF Literal

LEMMA DecimalContinues ==
  ASSUME IInv, ReadPoint \/ BeginExponent \/ ReadUnsignedSuffix \/ ReadLongSuffix
  PROVE  Continues \/ Stopped
<1>1. /\ InNumber /\ mode = "decimal" /\ position <= Len(text)
      /\ text[position] \in {".", "e", "u", "L"}
  BY Known DEF ReadPoint, BeginExponent, ReadUnsignedSuffix, ReadLongSuffix,
     Reading, In, InNumber, CanBeUnsigned, CanBeLong, Current
<1>2. text[position] # NewLine
  BY <1>1, Zenon DEF NewLine
<1>3. Stop("error") => Stopped
  BY StopIsStopped
<1>4. \A m \in NumberModes, l \in Literal : Reads(1, m, l) => Continues
  <2>1. 1 \in 0 .. 1 /\ (1 = 1 => text[position] # NewLine)
    BY <1>2
  <2> QED BY <1>1, <2>1, ReadsContinues, Zenon
<1>5. literal \in Literal /\ {"decimal", "fraction", "exponent"} \subseteq NumberModes
  BY Known DEF NumberModes
<1>6. CASE ReadPoint
  <2> DEFINE l == [literal EXCEPT !.flags = @ \cup {"IS_FLOATING_POINT"},
                                  !.fraction = FALSE]
  <2>1. l \in Literal
    BY <1>5, MoreFlags
  <2>2. Stop("error") \/ Reads(1, "fraction", l)
    BY <1>6 DEF ReadPoint
  <2> QED BY <1>3, <1>4, <1>5, <2>1, <2>2
<1>7. CASE BeginExponent
  <2> DEFINE l == [literal EXCEPT
                     !.flags = @ \cup {"IS_FLOATING_POINT", "HAS_EXPONENT"}]
  <2>1. l \in Literal
    BY <1>5, MoreFlags
  <2>2. Reads(1, "exponent", l)
    BY <1>7 DEF BeginExponent
  <2> QED BY <1>4, <1>5, <2>1, <2>2
<1>8. CASE ReadUnsignedSuffix
  <2> DEFINE l == [literal EXCEPT !.flags = @ \cup {"UNSIGNED_SUFFIX"}]
  <2>1. l \in Literal
    BY <1>5, MoreFlags
  <2>2. Stop("error") \/ Reads(1, "decimal", l)
    BY <1>1, <1>8 DEF ReadUnsignedSuffix
  <2> QED BY <1>3, <1>4, <1>5, <2>1, <2>2
<1>9. CASE ReadLongSuffix
  <2> DEFINE l == [literal EXCEPT !.flags = @ \cup {"LONG_SUFFIX"}]
  <2>1. l \in Literal
    BY <1>5, MoreFlags
  <2>2. Reads(1, "decimal", l)
    BY <1>1, <1>9 DEF ReadLongSuffix
  <2> QED BY <1>4, <1>5, <2>1, <2>2
<1> QED BY <1>6, <1>7, <1>8, <1>9

LEMMA FractionContinues ==
  ASSUME IInv, ReadFraction \/ EndOfFraction \/ ReadExponent \/ EndOfExponent
  PROVE  Continues \/ Stopped
<1>1. /\ InNumber /\ mode \in {"fraction", "exponent"} /\ position <= Len(text)
  BY Known DEF ReadFraction, EndOfFraction, ReadExponent, EndOfExponent,
     Reading, In, InNumber
<1>2. literal \in Literal /\ {"decimal", "fraction", "exponent"} \subseteq NumberModes
  BY Known DEF NumberModes
<1>3. \A m \in NumberModes, l \in Literal :
        text[position] # NewLine /\ Reads(1, m, l) => Continues
  <2>1. 1 \in 0 .. 1
    OBVIOUS
  <2> QED BY <1>1, <2>1, ReadsContinues, Zenon
<1>4. \A m \in NumberModes, l \in Literal : Reads(0, m, l) => Continues
  <2>1. 0 \in 0 .. 1 /\ 0 # 1
    OBVIOUS
  <2> QED BY <1>1, <2>1, ReadsContinues, Zenon
<1>5. \A c \in DigitsOf(10) : c # NewLine
  BY DigitIsNoNewLine
<1>6. CASE ReadFraction
  <2> DEFINE l == [literal EXCEPT !.fraction = TRUE]
  <2>1. l \in Literal
    BY <1>2, MoreFlags
  <2>2. text[position] # NewLine /\ Reads(1, "fraction", l)
    BY <1>5, <1>6 DEF ReadFraction, Reading, In, is_digit, Current
  <2> QED BY <1>2, <1>3, <2>1, <2>2
<1>7. CASE EndOfFraction
  <2>1. Stop("error") \/ Reads(0, "decimal", literal)
    BY <1>7 DEF EndOfFraction
  <2> QED BY <1>2, <1>4, <2>1, StopIsStopped
<1>8. CASE ReadExponent
  <2>1. text[position] \in DigitsOf(10) \cup {"+", "-"}
    BY <1>8 DEF ReadExponent, is_digit, Current
  <2>2. text[position] # NewLine
    <3>1. "+" # NewLine /\ "-" # NewLine
      BY Zenon DEF NewLine
    <3> QED BY <1>5, <2>1, <3>1
  <2>3. Reads(1, "exponent", literal)
    BY <1>8 DEF ReadExponent, Reading, In
  <2> QED BY <1>2, <1>3, <2>2, <2>3
<1>9. CASE EndOfExponent
  <2>1. Reads(0, "decimal", literal)
    BY <1>9 DEF EndOfExponent
  <2> QED BY <1>2, <1>4, <2>1
<1> QED BY <1>6, <1>7, <1>8, <1>9

LEMMA NumberPushed ==
  ASSUME IInv, InNumber, NEW n \in 0 .. 1, NEW type \in {"UNKNOWN"} \cup NumericType,
         NEW value \in Nat, PushNumber(type, value, position + n), Peek(n),
         position + n <= Len(text) + 1, n = 1 => text[position] # NewLine
  PROVE  \E tok : Pushes(tok)
<1> DEFINE size == (position + n) - start.first
           raw == TokenAt(start, type, start.first, size)
           tok == [raw EXCEPT !.value = value]
<1>1. /\ mode \in NumberModes /\ status = "lexing" /\ mode' = "main"
      /\ tokens' = Append(tokens, tok)
      /\ UNCHANGED <<text, start, literal, status>>
  <2>1. mode \in NumberModes /\ status = "lexing"
    BY DEF InNumber, NumberModes
  <2>2. tokens' = Append(tokens, tok)
    BY Zenon DEF PushNumber
  <2> HIDE DEF tok
  <2>3. mode' = "main" /\ UNCHANGED <<text, start, literal, status>>
    BY DEF PushNumber
  <2> QED BY <2>1, <2>2, <2>3
<1>2. /\ start.first < position
      /\ start.first <= Len(text) /\ text[start.first] \notin punctuation_table_1
      /\ PlaceIs(text, tokens, start.first, start.line, start.column)
  BY <1>1 DEF IInv, UnderWay, Places
<1>3. From = start.first
  BY <1>1 DEF From, NumberModes
<1>4. size \in Nat /\ start.first + size = position + n /\ start.first \in Nat
  BY <1>2, Known, SMTT(30)
<1> HIDE DEF size
<1>5. /\ raw \in Token /\ raw.first = start.first /\ raw.size = size /\ raw.type = type
      /\ raw.line = start.line /\ raw.column = start.column
  <2>1. type \in {"UNKNOWN", "IDENTIFIER", "KEYWORD", "SYNTAXE_OPERATOR",
                  "STRING_LITERAL_RAW", "STRING_LITERAL"} \cup NumericType
    OBVIOUS
  <2>2. start \in [first : Nat, line : Nat, column : Nat]
    BY Known
  <2>3. raw = TokenAt(start, type, start.first, size)
    OBVIOUS
  <2> HIDE DEF raw
  <2>4. \A t : t = TokenAt(start, type, start.first, size) =>
          /\ t \in Token
          /\ t.type = type /\ t.first = start.first /\ t.size = size
          /\ t.line = start.line /\ t.column = start.column
    BY <1>4, <2>1, <2>2, TokenAtIs
  <2> QED BY <2>3, <2>4, Zenon
<1> HIDE DEF raw
<1>6. /\ tok \in Token /\ tok.first = start.first /\ tok.size = size /\ tok.type = type
      /\ tok.line = start.line /\ tok.column = start.column
  BY <1>5 DEF Token
<1> HIDE DEF tok
<1>7. ~ IsString(tok) /\ tok.type \notin Words
  BY <1>6 DEF IsString, Words, NumericType
<1>8. \A i \in position .. position + n - 1 : text[i] # NewLine
  <2>1. \A i \in position .. position + n - 1 : i = position /\ n = 1
    BY Known, SMTT(30)
  <2> QED BY <2>1
<1>9. /\ mode \in Modes \ {"file", "line_comment", "block_comment", "string", "raw_string"}
      /\ n \in Nat
      /\ tok.first = From /\ tok.first + tok.size = position + n /\ From < position + n
  BY <1>1, <1>2, <1>3, <1>4, <1>6, Known, SMTT(30) DEF Modes, NumberModes
<1>10. PlaceIs(text, tokens, From, tok.line, tok.column)
  BY <1>2, <1>3, <1>6
<1>11. text[From] \notin punctuation_table_1
  BY <1>2, <1>3
<1>12. Pushes(tok)
  BY <1>1, <1>6, <1>7, <1>8, <1>9, <1>10, <1>11, TokenPushes, Zenon
<1> QED BY <1>12

LEMMA NumberPushes ==
  ASSUME IInv, EndOfNumber \/ EndWithSuffix
  PROVE  (\E tok : Pushes(tok)) \/ Stopped
<1>1. InNumber /\ position <= Len(text)
  BY Known DEF EndOfNumber, EndWithSuffix, Reading, In, InNumber
<1>2. CASE EndOfNumber
  <2> DEFINE type == TypeOfLiteral(literal)
             value == IF IsFloating THEN 0 ELSE literal.value
  <2>1. type \in {"UNKNOWN"} \cup NumericType
    BY DEF TypeOfLiteral, NumericType
  <2>2. value \in Nat
    BY Known, WidthsAssumption DEF Literal
  <2>3. PushNumber(type, value, position) /\ Stay
    BY <1>2 DEF EndOfNumber
  <2> HIDE DEF type, value
  <2>4. position + 0 = position
    BY Known
  <2>5. PushNumber(type, value, position + 0)
    BY <2>3, <2>4
  <2>6. Peek(0) /\ 0 \in 0 .. 1 /\ (0 = 1 => text[position] # NewLine)
        /\ position + 0 <= Len(text) + 1
    BY <2>3, Known, StayIsPeek
  <2> QED BY <1>1, <2>1, <2>2, <2>5, <2>6, NumberPushed, Zenon
<1>3. CASE EndWithSuffix
  <2> DEFINE type == FloatingSuffix[Current]
  <2>1. Current \in {"L", "d", "f"}
    BY <1>3 DEF EndWithSuffix, CanBeLong
  <2>2. type \in {"UNKNOWN"} \cup NumericType
    BY <2>1 DEF FloatingSuffix, NumericType
  <2>3. Stop("asserted") \/ (PushNumber(type, 0, position + 1) /\ Peek(1))
    BY <1>3 DEF EndWithSuffix
  <2>4. text[position] # NewLine
    <3>1. Current # NewLine
      BY <2>1, Zenon DEF NewLine
    <3> QED BY <3>1 DEF Current
  <2> HIDE DEF type
  <2>5. 1 \in 0 .. 1 /\ (1 = 1 => text[position] # NewLine)
        /\ position + 1 <= Len(text) + 1 /\ 0 \in Nat
    BY <1>1, <2>4, Known
  <2>6. PushNumber(type, 0, position + 1) /\ Peek(1) => \E tok : Pushes(tok)
    BY <1>1, <2>2, <2>5, NumberPushed, Zenon
  <2> QED BY <2>3, <2>6, StopIsStopped
<1> QED BY <1>2, <1>3

-----------------------------------------------------------------------------
(* The invariant holds *)

LEMMA Initially ==
  ASSUME Init
  PROVE  IInv
<1>1. /\ text \in Seq(Byte) /\ Len(text) \in Nat
      /\ position = 1 /\ line = 1 /\ column = 1 /\ mode = "file" /\ tokens = << >>
      /\ start = [first |-> 1, line |-> 1, column |-> 1]
      /\ literal = NoLiteral /\ status = "lexing"
  BY TextsAssumption DEF Init, Here
<1>2. literal \in Literal
  BY <1>1, WidthsAssumption DEF NoLiteral, Literal
<1>3. Types
  <2>1. tokens \in Seq(Token)
    BY <1>1
  <2>2. mode \in Modes
    BY <1>1 DEF Modes
  <2> QED BY <1>1, <1>2, <2>1, <2>2, TypesAre
<1>4. Cut(text, tokens) /\ Placed(text, tokens)
  BY <1>1 DEF Cut, Placed
<1>5. AtStart /\ Pieces
  BY <1>1, <1>4 DEF AtStart, Pieces
<1>6. UnderWay /\ Places /\ Ends
  BY <1>1, <1>4 DEF UnderWay, Places, Ends, NumberModes, StringModes
<1> QED BY <1>3, <1>5, <1>6 DEF IInv

LEMMA GapStep ==
  ASSUME IInv, ReadGap
  PROVE  IInv'
<1>1. CASE ReadBlank
  BY <1>1, BlankSkips, SkipsKeeps
<1>2. CASE ReadSingleQuote
  BY <1>2, SingleQuoteSkips, SkipsKeeps
<1>3. CASE BeginComment
  BY <1>3, CommentEnters, EntersKeeps
<1>4. CASE ReadLineComment
  BY <1>4, LineCommentContinues, SkipsKeeps, ContinuesKeeps
<1>5. CASE ReadBlockComment
  BY <1>5, BlockCommentContinues, SkipsKeeps, ContinuesKeeps
<1>6. CASE OpenBlockCommentAtEof
  BY <1>6, StopIsStopped, StoppedKeeps DEF OpenBlockCommentAtEof
<1> QED BY <1>1, <1>2, <1>3, <1>4, <1>5, <1>6 DEF ReadGap

LEMMA StringStep ==
  ASSUME IInv, ReadStringLiteral
  PROVE  IInv'
<1>1. CASE BeginString
  BY <1>1, StringEnters, EntersKeeps
<1>2. CASE QuoteAtEof
  BY <1>2, StopIsStopped, StoppedKeeps DEF QuoteAtEof
<1>3. CASE ReadString
  BY <1>3, StringContinues, ContinuesKeeps
<1>4. CASE CloseString
  BY <1>4, StringPushes, PushesKeeps
<1>5. CASE OpenStringAtEof
  BY <1>5, StopIsStopped, StoppedKeeps DEF OpenStringAtEof
<1> QED BY <1>1, <1>2, <1>3, <1>4, <1>5 DEF ReadStringLiteral

LEMMA WordStep ==
  ASSUME IInv, ReadWord
  PROVE  IInv'
<1>1. CASE ReadOperator
  BY <1>1, OperatorPushes, PushesKeeps
<1>2. CASE BeginIdentifier
  BY <1>2, IdentifierEnters, EntersKeeps
<1>3. CASE ReadIdentifier
  BY <1>3, IdentifierContinues, ContinuesKeeps
<1>4. CASE EndOfIdentifier
  BY <1>4, IdentifierPushes, PushesKeeps
<1> QED BY <1>1, <1>2, <1>3, <1>4 DEF ReadWord

LEMMA NumberStep ==
  ASSUME IInv, ReadNumber
  PROVE  IInv'
<1>1. CASE BeginPrefixed \/ BeginDecimal
  BY <1>1, NumberEnters, EntersKeeps
<1>2. CASE NumberAtEof \/ HexadecimalFloat
  BY <1>2, StopIsStopped, StoppedKeeps DEF NumberAtEof, HexadecimalFloat
<1>3. CASE ReadDigit \/ ReadUnderscore
  BY <1>3, DigitContinues, UnderscoreContinues, ContinuesKeeps
<1>4. CASE ReadPoint \/ BeginExponent \/ ReadUnsignedSuffix \/ ReadLongSuffix
  BY <1>4, DecimalContinues, ContinuesKeeps, StoppedKeeps
<1>5. CASE ReadFraction \/ EndOfFraction \/ ReadExponent \/ EndOfExponent
  BY <1>5, FractionContinues, ContinuesKeeps, StoppedKeeps
<1>6. CASE EndOfNumber \/ EndWithSuffix
  BY <1>6, NumberPushes, PushesKeeps, StoppedKeeps
<1> QED BY <1>1, <1>2, <1>3, <1>4, <1>5, <1>6 DEF ReadNumber

LEMMA FileStep ==
  ASSUME IInv, ReadFile
  PROVE  IInv'
<1>1. CASE BeginFile
  BY <1>1, BeginFileKeeps
<1>2. CASE EmptyFile \/ EndOfFile
  BY <1>2, EndOfFileStops, StoppedKeeps
<1>3. CASE CutBom
  BY <1>3, StopIsStopped, StoppedKeeps DEF CutBom
<1> QED BY <1>1, <1>2, <1>3 DEF ReadFile

LEMMA Inductive ==
  ASSUME IInv, [Next]_vars
  PROVE  IInv'
<1>1. CASE lex
  BY <1>1, FileStep, GapStep, StringStep, WordStep, NumberStep DEF lex
<1>2. CASE UNCHANGED vars
  BY <1>2 DEF vars, IInv, Types, TypeOK, AtStart, Pieces, UnderWay, Places, Ends, From
<1> QED BY <1>1, <1>2 DEF Next, Lexed

\* At each step the tokens and the gaps between them cut the text up to where the
\* lexer is, and the line and the column count what it has read.
THEOREM InductiveInvariant == Spec => []IInv
<1>1. Init => IInv
  BY Initially
<1>2. IInv /\ [Next]_vars => IInv'
  BY Inductive
<1> QED BY <1>1, <1>2, PTL DEF Spec

\* Every variable stays in its type, whatever the text.
THEOREM TypeCorrect == Spec => []TypeOK
<1>1. IInv => TypeOK
  BY DEF IInv, Types
<1> QED BY <1>1, InductiveInvariant, PTL

-----------------------------------------------------------------------------
(* The tokens cut the text *)

LEMMA EndBeforeIs ==
  ASSUME NEW t, NEW s \in Seq(Token), Cut(t, s), NEW i \in 1 .. Len(s) + 1
  PROVE  EndBefore(t, s, i) \in Nat
<1>1. CASE i = 1
  BY <1>1, BodyIs DEF EndBefore
<1>2. CASE i # 1
  <2> DEFINE j == i - 1
             tok == s[j]
  <2>1. j \in 1 .. Len(s)
    BY <1>2
  <2>2. EndBefore(t, s, i) = LastByte(tok)
    BY <1>2 DEF EndBefore
  <2> HIDE DEF j
  <2>3. tok \in Token
    BY <2>1
  <2>4. BodyOf(t) <= FirstByte(tok) /\ FirstByte(tok) <= LastByte(tok)
    BY <2>1 DEF Cut, TokenFits
  <2> HIDE DEF tok
  <2>5. LastByte(tok) \in Nat
    BY <2>3, <2>4, TokenBytes, BodyIs
  <2> QED BY <2>2, <2>5
<1> QED BY <1>1, <1>2

\* What lies between the end e of a token and the next at f is a gap.
LEMMA GapBetween ==
  ASSUME text \in Seq(Byte), NEW e \in Nat, NEW f \in Int, e < f, f <= Len(text) + 1,
         Gap(text, e + 1, f)
  PROVE  IsGap(e + 1, f - 1)
<1> DEFINE a == e + 1
           b == f - 1
<1>1. a \in Nat \ {0} /\ b \in Nat /\ a <= b + 1 /\ b <= Len(text) /\ b + 1 = f
  OBVIOUS
<1>2. Gap(text, a, b + 1)
  BY <1>1
<1> HIDE DEF a, b
<1>3. IsGap(a, b)
  BY <1>1, <1>2, GapIsGap
<1> QED BY <1>3 DEF a, b

\* The end of the lexing: what is after the last token is a gap too.
LEMMA LexedText ==
  ASSUME IInv, status = "done"
  PROVE  /\ EndOf(text, tokens) < Len(text) + 1
         /\ Gap(text, EndOf(text, tokens) + 1, Len(text) + 1)
<1>1. position = Len(text) + 1 /\ mode \in {"file", "main"}
  BY DEF IInv, Ends
<1>2. CASE mode = "main"
  <2>1. From = position
    BY <1>2 DEF From
  <2>2. EndOf(text, tokens) < From /\ Gap(text, EndOf(text, tokens) + 1, From)
    BY <1>2 DEF IInv, Pieces
  <2> QED BY <1>1, <2>1, <2>2
<1>3. CASE mode = "file"
  <2>1. position = 1 /\ tokens = << >>
    BY <1>3 DEF IInv, AtStart
  <2>2. Len(text) = 0
    BY <1>1, <2>1, Known
  <2>3. BodyOf(text) = 1
    <3>1. ~ IsPrefix(Bom, text)
      BY <2>2 DEF IsPrefix, Bom
    <3> QED BY <3>1 DEF BodyOf
  <2>4. EndOf(text, tokens) = 0
    BY <2>1, <2>3 DEF EndOf, EndBefore
  <2>5. Gap(text, 1, 1)
    BY EmptyGap
  <2> QED BY <2>2, <2>4, <2>5
<1> QED BY <1>1, <1>2, <1>3

LEMMA TokensCut ==
  ASSUME IInv
  PROVE  TokensPartitionText
<1> DEFINE n == Len(tokens)
           begins(i) == IF i = n + 1 THEN Len(text) + 1 ELSE FirstByte(tokens[i])
           ends(i) == IF i = 0 THEN Body - 1 ELSE LastByte(tokens[i])
<1>0. /\ text \in Seq(Byte) /\ Len(text) \in Nat /\ tokens \in Seq(Token) /\ n \in Nat
      /\ Cut(text, tokens)
  BY Known DEF IInv, Pieces
<1>1. SUFFICES ASSUME status = "done", NEW i \in 0 .. n
               PROVE  /\ ends(i) < begins(i + 1)
                      /\ IsGap(ends(i) + 1, begins(i + 1) - 1)
                      /\ (i \in 1 .. n - 1 /\ tokens[i].type \in {"IDENTIFIER", "KEYWORD"}
                            /\ tokens[i + 1].type \in {"IDENTIFIER", "KEYWORD"} \cup NumericType)
                           => ends(i) + 1 < begins(i + 1)
  BY Zenon DEF TokensPartitionText
<1> DEFINE e == ends(i)
           f == begins(i + 1)
<1>2. e = EndBefore(text, tokens, i + 1)
  <2> DEFINE j == i + 1
  <2>1. (j = 1 <=> i = 0) /\ j - 1 = i
    OBVIOUS
  <2>2. Body = BodyOf(text)
    BY DEF Body, BodyOf
  <2> HIDE DEF j
  <2>3. e = EndBefore(text, tokens, j)
    BY <2>1, <2>2, Zenon DEF EndBefore
  <2> QED BY <2>3 DEF j
<1>3. e \in Nat
  <2>1. i + 1 \in 1 .. Len(tokens) + 1
    BY <1>0
  <2>2. EndBefore(text, tokens, i + 1) \in Nat
    BY <1>0, <2>1, EndBeforeIs
  <2> HIDE DEF e
  <2> QED BY <1>2, <2>2
<1>4. e < f /\ f \in Int /\ f <= Len(text) + 1 /\ Gap(text, e + 1, f)
  <2>1. CASE i = n
    <3>1. f = Len(text) + 1
      BY <2>1
    <3>2. e = EndOf(text, tokens)
      <4> HIDE DEF e
      <4> QED BY <1>2, <2>1 DEF EndOf
    <3> HIDE DEF e, f
    <3> QED BY <1>0, <1>1, <3>1, <3>2, LexedText
  <2>2. CASE i # n
    <3> DEFINE tok == tokens[i + 1]
    <3>1. i + 1 \in 1 .. Len(tokens) /\ tok \in Token
      BY <1>0, <2>2
    <3>2. f = FirstByte(tok)
      BY <2>2
    <3>3. TokenFits(text, e, tok)
      <4> HIDE DEF e
      <4> QED BY <1>0, <1>2, <3>1 DEF Cut
    <3> HIDE DEF e, f, tok
    <3>4. FirstByte(tok) \in Int /\ LastByte(tok) \in Int
      BY <3>1, TokenBytes
    <3>5. /\ e < FirstByte(tok) /\ FirstByte(tok) <= LastByte(tok)
          /\ LastByte(tok) <= Len(text) /\ Gap(text, e + 1, FirstByte(tok))
      BY <3>3 DEF TokenFits
    <3> QED BY <1>0, <3>2, <3>4, <3>5
  <2> QED BY <2>1, <2>2
<1>5. IsGap(e + 1, f - 1)
  <2> HIDE DEF e, f
  <2> QED BY <1>0, <1>3, <1>4, GapBetween
<1>6. ASSUME i \in 1 .. n - 1, tokens[i].type \in Words,
             tokens[i + 1].type \in Words \cup NumericType
      PROVE  e + 1 < f
  <2> DEFINE a == tokens[i]
             b == tokens[i + 1]
  <2>1. i \in 1 .. Len(tokens) /\ i + 1 \in 1 .. Len(tokens)
    BY <1>6
  <2>2. e = LastByte(a) /\ f = FirstByte(b)
    BY <1>6
  <2>3. TokenFits(text, EndBefore(text, tokens, i), a)
    BY <1>0, <2>1 DEF Cut
  <2>4. TokenFits(text, EndBefore(text, tokens, i + 1), b)
    BY <1>0, <2>1 DEF Cut
  <2>5. a.type \in Words /\ b.type \in Words \cup NumericType
    BY <1>6
  <2>6. b \in Token
    BY <1>0, <2>1
  <2> HIDE DEF a, b
  <2>7. LastByte(a) = Len(text) \/ text[LastByte(a) + 1] \in punctuation_table_1
    BY <2>3, <2>5 DEF TokenFits
  <2>8. /\ text[FirstByte(b)] \notin punctuation_table_1
        /\ FirstByte(b) <= LastByte(b) /\ LastByte(b) <= Len(text)
    BY <2>4, <2>5 DEF TokenFits
  <2>9. FirstByte(b) \in Int /\ LastByte(b) \in Int
    BY <2>6, TokenBytes
  <2> HIDE DEF e, f
  <2>10. e + 1 # f
    BY <1>0, <1>3, <2>2, <2>7, <2>8, <2>9
  <2> QED BY <1>3, <1>4, <2>10
<1> HIDE DEF e, f
<1>7. Words = {"IDENTIFIER", "KEYWORD"}
  BY DEF Words
<1> QED BY <1>4, <1>5, <1>6, <1>7, Zenon DEF e, f

\* A text that is lexed is cut by its tokens and by gaps of the grammar, and no
\* identifier is cut in two.
THEOREM TokensAlwaysPartitionText == Spec => []TokensPartitionText
<1>1. IInv => TokensPartitionText
  BY TokensCut
<1> QED BY <1>1, InductiveInvariant, PTL

-----------------------------------------------------------------------------
(* The places of the tokens *)

LEMMA TokensPlaced ==
  ASSUME IInv
  PROVE  PositionsExact
<1> DEFINE held(i) == \E j \in DOMAIN tokens :
                        /\ IsString(tokens[j])
                        /\ i \in FirstByte(tokens[j]) .. LastByte(tokens[j])
           breaks(t) == {i \in Body .. FirstByte(t) - 1 : text[i] = NewLine /\ ~held(i)}
           lineStart(t) == Earliest({i \in Body .. FirstByte(t) :
                                      \A j \in breaks(t) : j < i})
<1>1. SUFFICES ASSUME NEW i \in DOMAIN tokens
               PROVE  /\ tokens[i].line = 1 + Cardinality(breaks(tokens[i]))
                      /\ tokens[i].column =
                           FirstByte(tokens[i]) - lineStart(tokens[i]) + 1
  BY Zenon DEF PositionsExact
<1> DEFINE tok == tokens[i]
           p == FirstByte(tok)
           c == tok.column
           B == Breaks(text, tokens, p)
           S == {q \in BodyOf(text) .. p : \A j \in B : j < q}
           k == p - c + 1
<1>2. tok \in Token
  BY Known
<1>3. p \in Int /\ c \in Nat
  BY <1>2, TokenBytes DEF Token
<1>4. tok.line = 1 + Cardinality(B) /\ LineStart(text, tokens, p, k)
  BY DEF IInv, Places, Placed, PlaceIs
<1>5. Body = BodyOf(text)
  BY DEF Body, BodyOf
<1>6. breaks(tok) = B
  BY <1>5, Zenon DEF Breaks, Held
<1>7. lineStart(tok) = Earliest(S)
  BY <1>5, <1>6, Zenon
<1>8. B \subseteq Int /\ BodyOf(text) \in Int
  BY <1>3, BodyIs DEF Breaks
<1> HIDE DEF tok, p, c, B, breaks, lineStart
<1>9. /\ k \in BodyOf(text) .. p /\ \A j \in B : j < k
      /\ k = BodyOf(text) \/ k - 1 \in B
  BY <1>4 DEF LineStart, B
<1> HIDE DEF k
<1>10. Earliest(S) = k
  <2>1. S \subseteq Int /\ k \in S
    BY <1>3, <1>8, <1>9
  <2>2. \A q \in S : k <= q
    <3> TAKE q \in S
    <3>1. q \in BodyOf(text) .. p /\ \A j \in B : j < q
      OBVIOUS
    <3> QED BY <1>3, <1>8, <1>9, <3>1
  <2> HIDE DEF S
  <2> QED BY <2>1, <2>2, EarliestIs
<1> HIDE DEF S
<1>11. c = p - lineStart(tok) + 1
  <2>1. k = p - c + 1 /\ k \in Int
    BY <1>3 DEF k
  <2>2. lineStart(tok) = k
    BY <1>7, <1>10
  <2> QED BY <1>3, <2>1, <2>2
<1>12. tok.line = 1 + Cardinality(breaks(tok))
  BY <1>4, <1>6
<1> QED BY <1>11, <1>12 DEF tok, p, c

\* The line and the column of every token are those of its first byte.
THEOREM PositionsAlwaysExact == Spec => []PositionsExact
<1>1. IInv => PositionsExact
  BY TokensPlaced
<1> QED BY <1>1, InductiveInvariant, PTL


-----------------------------------------------------------------------------
(* What digits are worth *)

Worth(f, s, k) ==
  IF k = 0 THEN 0
  ELSE IF is_digit(s[k]) THEN f[k - 1] * 10 + ValueOf(s[k])
  ELSE f[k - 1]
IsWorth(f, s, m) == f = [k \in 0 .. m |-> Worth(f, s, k)]

LEMMA WorthFunction ==
  ASSUME NEW s
  PROVE  WorthOf(s) = (CHOOSE f : IsWorth(f, s, Len(s)))[Len(s)]
BY DEF WorthOf, IsWorth, Worth

LEMMA WorthExists ==
  ASSUME NEW s \in Seq(Byte), NEW n \in Nat
  PROVE  \E f : IsWorth(f, s, n)
<1> DEFINE P(m) == \E f : IsWorth(f, s, m)
           S == {m \in Nat : ~ P(m)}
<1>1. SUFFICES ASSUME S # {} PROVE FALSE
  OBVIOUS
<1>2. PICK m \in S : \A k \in S : m <= k
  <2>1. S \subseteq Nat
    OBVIOUS
  <2> HIDE DEF S
  <2> QED BY <1>1, <2>1, LeastNumber
<1>3. m \in Nat /\ ~ P(m)
  OBVIOUS
<1>4. CASE m = 0
  <2> DEFINE g == [k \in 0 .. 0 |-> 0]
  <2>1. \A k \in 0 .. 0 : k = 0
    OBVIOUS
  <2>2. \A k \in 0 .. 0 : Worth(g, s, k) = 0
    BY <2>1, Zenon DEF Worth
  <2>3. g = [k \in 0 .. 0 |-> Worth(g, s, k)]
    BY <2>2, Zenon
  <2> HIDE DEF g
  <2> QED BY <1>3, <1>4, <2>3, Zenon DEF IsWorth
<1>5. CASE m # 0
  <2>1. m - 1 \in Nat /\ ~ (m <= m - 1)
    BY <1>3, <1>5
  <2>2. P(m - 1)
    <3> HIDE DEF P
    <3>1. m - 1 \notin S
      BY <1>2, <2>1
    <3> QED BY <2>1, <3>1
  <2>3. PICK f : IsWorth(f, s, m - 1)
    BY <2>2
  <2>4. \A k \in 0 .. m - 1 : f[k] = Worth(f, s, k)
    BY <2>3, Zenon DEF IsWorth
  <2> DEFINE g == [k \in 0 .. m |-> IF k = m THEN Worth(f, s, m) ELSE f[k]]
  <2>5. \A k \in 0 .. m - 1 : k # m /\ k \in 0 .. m /\ g[k] = f[k]
    BY <1>3
  <2>6. \A k \in 0 .. m : k # 0 => g[k - 1] = f[k - 1]
    <3>1. \A k \in 0 .. m : k # 0 => k - 1 \in 0 .. m - 1
      BY <1>3
    <3> HIDE DEF g
    <3> QED BY <2>5, <3>1
  <2>7. \A k \in 0 .. m : Worth(g, s, k) = Worth(f, s, k)
    <3> HIDE DEF g
    <3> QED BY <2>6, Zenon DEF Worth
  <2>8. \A k \in 0 .. m : g[k] = Worth(g, s, k)
    <3>1. g[m] = Worth(f, s, m)
      BY <1>3
    <3>2. \A k \in 0 .. m : k = m \/ k \in 0 .. m - 1
      BY <1>3
    <3>3. \A k \in 0 .. m - 1 : k \in 0 .. m
      BY <1>3
    <3> HIDE DEF g
    <3> QED BY <2>4, <2>5, <2>7, <3>1, <3>2, <3>3, Zenon
  <2>9. g = [k \in 0 .. m |-> Worth(g, s, k)]
    <3>1. g = [k \in 0 .. m |-> g[k]]
      OBVIOUS
    <3> HIDE DEF g
    <3> QED BY <2>8, <3>1, Zenon
  <2>10. IsWorth(g, s, m)
    BY <2>9, Zenon DEF IsWorth
  <2> QED BY <1>3, <2>10, Zenon
<1> QED BY <1>4, <1>5

\* A byte more: the digits before it are worth the same.
Agree(s, t, n) == \A k \in 1 .. n : s[k] = t[k]
LEMMA WorthAgrees ==
  ASSUME NEW s, NEW t, NEW n \in Nat, NEW m \in Nat, n <= m, Agree(s, t, n),
         NEW f, IsWorth(f, s, n), NEW g, IsWorth(g, t, m)
  PROVE  f[n] = g[n]
<1> DEFINE S == {k \in 0 .. n : f[k] # g[k]}
<1>0. /\ \A k \in 0 .. n : f[k] = Worth(f, s, k)
      /\ \A k \in 0 .. m : g[k] = Worth(g, t, k)
  BY Zenon DEF IsWorth
<1>1. CASE S = {}
  <2>1. n \in 0 .. n
    OBVIOUS
  <2> QED BY <1>1, <2>1
<1>2. CASE S # {}
  <2>1. PICK k \in S : \A j \in S : k <= j
    <3>1. S \subseteq Nat
      OBVIOUS
    <3> HIDE DEF S
    <3> QED BY <1>2, <3>1, LeastNumber
  <2>2. k \in 0 .. n /\ k \in 0 .. m /\ f[k] # g[k]
    OBVIOUS
  <2>3. CASE k = 0
    BY <1>0, <2>2, <2>3, Zenon DEF Worth
  <2>4. CASE k # 0
    <3>1. k - 1 \in 0 .. n /\ ~ (k <= k - 1) /\ k \in 1 .. n
      BY <2>2, <2>4
    <3>2. f[k - 1] = g[k - 1] /\ s[k] = t[k]
      BY <2>1, <3>1 DEF Agree
    <3>3. Worth(f, s, k) = Worth(g, t, k)
      BY <3>2, Zenon DEF Worth
    <3> QED BY <1>0, <2>2, <3>3
  <2> QED BY <2>3, <2>4
<1> QED BY <1>1, <1>2

LEMMA WorthOfNothing ==
  WorthOf(<< >>) = 0
<1> DEFINE f == CHOOSE f : IsWorth(f, << >>, 0)
<1>1. Len(<< >>) = 0 /\ << >> \in Seq(Byte) /\ 0 \in Nat
  OBVIOUS
<1>2. IsWorth(f, << >>, 0)
  BY <1>1, WorthExists, Zenon
<1>3. WorthOf(<< >>) = f[0]
  BY <1>1, WorthFunction, Zenon
<1> HIDE DEF f
<1>4. 0 \in 0 .. 0
  OBVIOUS
<1>5. f[0] = Worth(f, << >>, 0)
  BY <1>2, <1>4, Zenon DEF IsWorth
<1> QED BY <1>3, <1>5, Zenon DEF Worth

LEMMA WorthGrows ==
  ASSUME NEW s \in Seq(Byte), NEW t \in Seq(Byte), Len(t) = Len(s) + 1,
         Agree(s, t, Len(s)), NEW c, c = t[Len(t)]
  PROVE  WorthOf(t) = IF is_digit(c) THEN WorthOf(s) * 10 + ValueOf(c) ELSE WorthOf(s)
<1> DEFINE f == CHOOSE f : IsWorth(f, s, Len(s))
           g == CHOOSE g : IsWorth(g, t, Len(t))
           n == Len(s)
           m == Len(t)
<1>1. n \in Nat /\ m \in Nat /\ m = n + 1
  OBVIOUS
<1>2. IsWorth(f, s, n) /\ IsWorth(g, t, m)
  <2>1. (\E h : IsWorth(h, s, n)) /\ (\E h : IsWorth(h, t, m))
    BY <1>1, WorthExists
  <2> QED BY <2>1, Zenon
<1>3. WorthOf(s) = f[n] /\ WorthOf(t) = g[m]
  BY WorthFunction, Zenon
<1> HIDE DEF f, g, n, m
<1>4. n <= m /\ Agree(s, t, n)
  BY <1>1 DEF n
<1>5. f[n] = g[n]
  BY <1>1, <1>2, <1>4, WorthAgrees
<1>6. m \in 0 .. m /\ m # 0 /\ m - 1 = n
  BY <1>1
<1>7. g[m] = Worth(g, t, m)
  BY <1>2, <1>6, Zenon DEF IsWorth
<1>8. g[m] = IF is_digit(t[m]) THEN g[n] * 10 + ValueOf(t[m]) ELSE g[n]
  BY <1>6, <1>7, Zenon DEF Worth
<1> QED BY <1>3, <1>5, <1>8, Zenon DEF m

\* What a piece of the text is worth, and what it is when a byte is read.
LEMMA WorthOfText ==
  ASSUME NEW first \in Nat \ {0}, NEW size \in Nat, text \in Seq(Byte),
         first + size <= Len(text) + 1
  PROVE  /\ TextOf(first, size) \in Seq(Byte) /\ Len(TextOf(first, size)) = size
         /\ \A k \in 1 .. size : TextOf(first, size)[k] = text[first + k - 1]
<1> DEFINE t == SubSeq(text, first, first + size - 1)
<1>1. \A i \in first .. first + size - 1 : i \in 1 .. Len(text)
  BY SMTT(30)
<1>2. t \in Seq(Byte) /\ Len(t) = size
  BY <1>1, SubSeqProperties
<1>3. \A k \in 1 .. size : t[k] = text[first + k - 1]
  BY <1>1, <1>2, SubSeqProperties
<1> QED BY <1>2, <1>3 DEF TextOf

\* The digits from first to before p are worth v, when 64 bits hold them.
Counts(first, p, v) ==
  LET w == WorthOf(TextOf(first, p - first))
  IN  w \in Nat /\ (w <= UI64_MAX => v = w)

LEMMA ModSmall ==
  ASSUME NEW x \in Nat, NEW n \in Nat, x <= n
  PROVE  x % (n + 1) = x
OBVIOUS

LEMMA CountsNothing ==
  ASSUME NEW p \in Nat \ {0}, text \in Seq(Byte), p <= Len(text) + 1
  PROVE  Counts(p, p, 0)
<1>1. p - p = 0 /\ 0 \in Nat /\ p + 0 <= Len(text) + 1
  OBVIOUS
<1>2. TextOf(p, 0) \in Seq(Byte) /\ Len(TextOf(p, 0)) = 0
  BY <1>1, WorthOfText
<1>3. TextOf(p, 0) = << >>
  BY <1>2
<1> QED BY <1>1, <1>3, WorthOfNothing DEF Counts

LEMMA CountsMore ==
  ASSUME NEW first \in Nat \ {0}, NEW p \in Nat, first <= p, text \in Seq(Byte),
         p <= Len(text), NEW v, Counts(first, p, v)
  PROVE  /\ ~ is_digit(text[p]) => Counts(first, p + 1, v)
         /\ is_digit(text[p]) =>
              Counts(first, p + 1, (v * 10 + ValueOf(text[p])) % (UI64_MAX + 1))
<1> DEFINE n == p - first
           s == TextOf(first, n)
           t == TextOf(first, n + 1)
           d == ValueOf(text[p])
<1>1. n \in Nat /\ n + 1 \in Nat /\ first + n = p /\ first + (n + 1) = p + 1
      /\ (p + 1) - first = n + 1 /\ first + n <= Len(text) + 1
      /\ first + (n + 1) <= Len(text) + 1 /\ first + (n + 1) - 1 = p
  OBVIOUS
<1> HIDE DEF n
<1>2. /\ s \in Seq(Byte) /\ Len(s) = n
      /\ \A k \in 1 .. n : s[k] = text[first + k - 1]
  BY <1>1, WorthOfText
<1>3. /\ t \in Seq(Byte) /\ Len(t) = n + 1
      /\ \A k \in 1 .. n + 1 : t[k] = text[first + k - 1]
  BY <1>1, WorthOfText
<1>4. Counts(first, p, v) <=> WorthOf(s) \in Nat /\ (WorthOf(s) <= UI64_MAX => v = WorthOf(s))
  BY DEF Counts, n
<1>5. \A x : Counts(first, p + 1, x) <=>
               WorthOf(t) \in Nat /\ (WorthOf(t) <= UI64_MAX => x = WorthOf(t))
  BY <1>1, Zenon DEF Counts
<1> HIDE DEF s, t, d
<1>6. Len(t) = Len(s) + 1 /\ Agree(s, t, Len(s)) /\ text[p] = t[Len(t)]
  <2>1. \A k \in 1 .. n : k \in 1 .. n + 1
    BY <1>1
  <2>2. Agree(s, t, n)
    BY <1>2, <1>3, <2>1, Zenon DEF Agree
  <2>3. n + 1 \in 1 .. n + 1
    BY <1>1
  <2>4. t[n + 1] = text[first + (n + 1) - 1]
    BY <1>3, <2>3, Zenon
  <2>5. first + (n + 1) - 1 = p
    BY <1>1
  <2> QED BY <1>2, <1>3, <2>2, <2>4, <2>5
<1>7. WorthOf(t) = IF is_digit(text[p]) THEN WorthOf(s) * 10 + d ELSE WorthOf(s)
  BY <1>2, <1>3, <1>6, WorthGrows, Zenon DEF d
<1> DEFINE w == WorthOf(s)
           u == WorthOf(t)
<1>8. w \in Nat /\ (w <= UI64_MAX => v = w)
  BY <1>4
<1>9. ASSUME ~ is_digit(text[p]) PROVE Counts(first, p + 1, v)
  <2>1. u = w
    BY <1>7, <1>9
  <2> HIDE DEF u, w
  <2>2. u \in Nat /\ (u <= UI64_MAX => v = u)
    BY <1>8, <2>1
  <2> QED BY <1>5, <2>2 DEF u
<1>10. ASSUME is_digit(text[p])
       PROVE  Counts(first, p + 1, (v * 10 + d) % (UI64_MAX + 1))
  <2>1. d \in Nat
    <3>1. d \in 0 .. 15
      BY <1>10, ValueOfDigit DEF is_digit, d
    <3> QED BY <3>1
  <2>2. u = w * 10 + d
    BY <1>7, <1>10
  <2> HIDE DEF u, w
  <2>3. u \in Nat
    BY <1>8, <2>1, <2>2
  <2>4. ASSUME u <= UI64_MAX PROVE (v * 10 + d) % (UI64_MAX + 1) = u
    <3>1. UI64_MAX \in Nat
      BY WidthsAssumption
    <3>2. v = w
      BY <1>8, <2>1, <2>2, <2>4, <3>1
    <3>3. u % (UI64_MAX + 1) = u
      BY <2>3, <2>4, <3>1, ModSmall
    <3> QED BY <2>2, <3>2, <3>3
  <2> QED BY <1>5, <2>3, <2>4, Zenon DEF u
<1> QED BY <1>9, <1>10 DEF d

-----------------------------------------------------------------------------
(* A decoded string, with its escapes written again, is the source's       *)

LEMMA EscapesAre ==
  /\ DOMAIN Escape = {"n", "r", "t", "v"}
  /\ Escape["n"] = "\n" /\ Escape["r"] = "\r" /\ Escape["t"] = "\t" /\ Escape["v"] = "VT"
BY Zenon DEF Escape

LEMMA EscapesTold ==
  /\ \A d, e \in DOMAIN Escape : Escape[d] = Escape[e] => d = e
  /\ \A e \in DOMAIN Escape : Escape[e] # "\\"
BY EscapesAre, Zenon

LEMMA EscapedIs ==
  /\ \A c : c # "\\" /\ c \notin {Escape[e] : e \in DOMAIN Escape} => Escaped(c) = <<c>>
  /\ \A e \in DOMAIN Escape : Escaped(Escape[e]) = <<"\\", e>>
  /\ Escaped("\\") = <<"\\", "\\">>
<1>1. \A c : c # "\\" /\ c \notin {Escape[e] : e \in DOMAIN Escape} => Escaped(c) = <<c>>
  BY Zenon DEF Escaped
<1>2. ASSUME NEW x \in DOMAIN Escape PROVE Escaped(Escape[x]) = <<"\\", x>>
  <2> DEFINE c == Escape[x]
             d == CHOOSE e \in DOMAIN Escape : Escape[e] = c
  <2>1. \E e \in DOMAIN Escape : Escape[e] = c
    OBVIOUS
  <2>2. d \in DOMAIN Escape /\ Escape[d] = c
    BY <2>1, Zenon
  <2>3. d = x
    BY <2>2, EscapesTold, Zenon
  <2>a. c # "\\"
    BY EscapesTold, Zenon
  <2> HIDE DEF c
  <2>4. Escaped(c) = <<"\\", d>>
    BY <2>1, <2>a DEF Escaped
  <2> QED BY <2>3, <2>4 DEF c
<1>3. Escaped("\\") = <<"\\", "\\">>
  <2>1. ~ \E e \in DOMAIN Escape : Escape[e] = "\\"
    BY EscapesTold, Zenon
  <2> QED BY <2>1, Zenon DEF Escaped
<1> QED BY <1>1, <1>2, <1>3

Written(f, s, i) == IF i > Len(s) THEN << >> ELSE Escaped(s[i]) \o f[i + 1]
IsWritten(f, s, m) == f = [i \in m .. Len(s) + 1 |-> Written(f, s, i)]

LEMMA WrittenFunction ==
  ASSUME NEW s
  PROVE  WithEscapes(s) = (CHOOSE f : IsWritten(f, s, 1))[1]
BY DEF WithEscapes, IsWritten, Written

LEMMA WrittenExists ==
  ASSUME NEW U, NEW s \in Seq(U)
  PROVE  \E f : IsWritten(f, s, 1)
<1> DEFINE top == Len(s) + 1
           P(m) == \E f : IsWritten(f, s, m)
           S == {m \in 1 .. top : ~ P(m)}
<1>0. top \in Nat \ {0} /\ Len(s) \in Nat
  OBVIOUS
<1>1. SUFFICES ASSUME ~ P(1) PROVE FALSE
  OBVIOUS
<1>2. PICK m \in S : \A k \in S : k <= m
  <2>1. 1 \in 1 .. top
    BY <1>0
  <2>2. S # {} /\ S \subseteq 0 .. top
    BY <1>1, <2>1
  <2> HIDE DEF S, top
  <2> QED BY <1>0, <2>2, GreatestNumber, Zenon
<1>3. m \in 1 .. top /\ ~ P(m)
  OBVIOUS
<1>4. \E f : \A i \in m + 1 .. top : f[i] = Written(f, s, i)
  <2>1. CASE m = top
    BY <1>0, <2>1
  <2>2. CASE m # top
    <3>1. m + 1 \in 1 .. top /\ ~ (m + 1 <= m)
      BY <1>0, <1>3, <2>2
    <3>2. P(m + 1)
      <4> HIDE DEF P
      <4> QED BY <1>2, <3>1, Zenon
    <3>3. PICK f : IsWritten(f, s, m + 1)
      BY <3>2
    <3>4. \A i \in m + 1 .. top : f[i] = Written(f, s, i)
      BY <3>3, Zenon DEF IsWritten
    <3> QED BY <3>4
  <2> QED BY <2>1, <2>2
<1>5. PICK f : \A i \in m + 1 .. top : f[i] = Written(f, s, i)
  BY <1>4
<1> DEFINE g == [i \in m .. top |-> IF i = m THEN Written(f, s, m) ELSE f[i]]
<1>6. \A i \in m + 1 .. top : i # m /\ i \in m .. top /\ g[i] = f[i]
  BY <1>3
<1>7. \A i \in m .. top : Written(g, s, i) = Written(f, s, i)
  <2> SUFFICES ASSUME NEW i \in m .. top PROVE Written(g, s, i) = Written(f, s, i)
    OBVIOUS
  <2>1. i > Len(s) \/ i + 1 \in m + 1 .. top
    BY <1>0, <1>3
  <2> HIDE DEF g, top
  <2> QED BY <1>6, <2>1, Zenon DEF Written
<1>8. \A i \in m .. top : g[i] = Written(g, s, i)
  <2>1. g[m] = Written(f, s, m)
    BY <1>3
  <2>2. \A i \in m .. top : i = m \/ i \in m + 1 .. top
    BY <1>3
  <2> HIDE DEF g, top
  <2> QED BY <1>5, <1>6, <1>7, <2>1, <2>2, Zenon
<1>9. g = [i \in m .. top |-> Written(g, s, i)]
  <2>1. g = [i \in m .. top |-> g[i]]
    OBVIOUS
  <2> HIDE DEF g
  <2> QED BY <1>8, <2>1, Zenon
<1>10. IsWritten(g, s, m)
  BY <1>9, Zenon DEF IsWritten
<1> QED BY <1>3, <1>10

\* r is the byte c, then s.
Follows(r, c, s) ==
  /\ Len(r) = Len(s) + 1 /\ r[1] = c
  /\ \A i \in 1 .. Len(s) : r[i + 1] = s[i]

LEMMA WrittenAgrees ==
  ASSUME NEW U, NEW s \in Seq(U), NEW r \in Seq(U), NEW c, Follows(r, c, s),
         NEW f, IsWritten(f, s, 1), NEW g, IsWritten(g, r, 1)
  PROVE  f[1] = g[2]
<1> DEFINE top == Len(s) + 1
           S == {i \in 1 .. top : f[i] # g[i + 1]}
<1>0. /\ Len(s) \in Nat /\ top \in Nat \ {0} /\ Len(r) = Len(s) + 1
      /\ \A i \in 1 .. Len(s) + 1 : f[i] = Written(f, s, i)
      /\ \A i \in 1 .. Len(r) + 1 : g[i] = Written(g, r, i)
  <2>1. Len(s) \in Nat /\ top \in Nat \ {0} /\ Len(r) = Len(s) + 1
    BY DEF Follows
  <2>2. /\ \A i \in 1 .. Len(s) + 1 : f[i] = Written(f, s, i)
        /\ \A i \in 1 .. Len(r) + 1 : g[i] = Written(g, r, i)
    BY Zenon DEF IsWritten
  <2> QED BY <2>1, <2>2
<1>1. CASE S = {}
  <2>1. 1 \in 1 .. top /\ 1 + 1 = 2
    BY <1>0
  <2> QED BY <1>1, <2>1
<1>2. CASE S # {}
  <2>1. PICK m \in S : \A k \in S : k <= m
    <3>1. S \subseteq 0 .. top
      OBVIOUS
    <3> HIDE DEF S, top
    <3> QED BY <1>0, <1>2, <3>1, GreatestNumber, Zenon
  <2>2. m \in 1 .. Len(s) + 1 /\ m + 1 \in 1 .. Len(r) + 1 /\ f[m] # g[m + 1]
    BY <1>0
  <2>3. CASE m = Len(s) + 1
    <3>1. m > Len(s) /\ m + 1 > Len(r)
      BY <1>0, <2>3
    <3>2. Written(f, s, m) = << >> /\ Written(g, r, m + 1) = << >>
      BY <3>1, Zenon DEF Written
    <3> QED BY <1>0, <2>2, <3>2
  <2>4. CASE m # Len(s) + 1
    <3>1. ~ (m > Len(s)) /\ ~ (m + 1 > Len(r)) /\ m \in 1 .. Len(s)
          /\ m + 1 \in 1 .. top /\ ~ (m + 1 <= m)
      BY <1>0, <2>2, <2>4
    <3>2. f[m + 1] = g[m + 1 + 1]
      BY <2>1, <3>1
    <3>3. r[m + 1] = s[m]
      BY <3>1 DEF Follows
    <3>4. Written(f, s, m) = Escaped(s[m]) \o f[m + 1]
      BY <3>1, Zenon DEF Written
    <3>5. Written(g, r, m + 1) = Escaped(r[m + 1]) \o g[m + 1 + 1]
      BY <3>1, Zenon DEF Written
    <3> HIDE DEF S
    <3>6. f[m] = g[m + 1]
      BY <1>0, <2>2, <3>2, <3>3, <3>4, <3>5
    <3> QED BY <2>2, <3>6
  <2> QED BY <2>3, <2>4
<1> QED BY <1>1, <1>2

LEMMA WrittenIs ==
  ASSUME NEW U, NEW s \in Seq(U), NEW r \in Seq(U), NEW c, Follows(r, c, s)
  PROVE  WithEscapes(r) = Escaped(c) \o WithEscapes(s)
<1> DEFINE f == CHOOSE f : IsWritten(f, s, 1)
           g == CHOOSE g : IsWritten(g, r, 1)
<1>1. IsWritten(f, s, 1) /\ IsWritten(g, r, 1)
  <2>1. (\E h : IsWritten(h, s, 1)) /\ (\E h : IsWritten(h, r, 1))
    BY WrittenExists
  <2> QED BY <2>1, Zenon
<1>2. WithEscapes(s) = f[1] /\ WithEscapes(r) = g[1]
  BY WrittenFunction, Zenon
<1> HIDE DEF f, g
<1>3. f[1] = g[2]
  BY <1>1, WrittenAgrees
<1>4. 1 \in 1 .. Len(r) + 1 /\ ~ (1 > Len(r)) /\ 1 + 1 = 2 /\ r[1] = c
  BY DEF Follows
<1>5. g[1] = Written(g, r, 1)
  BY <1>1, <1>4, Zenon DEF IsWritten
<1>6. Written(g, r, 1) = Escaped(r[1]) \o g[1 + 1]
  BY <1>4, Zenon DEF Written
<1> QED BY <1>2, <1>3, <1>4, <1>5, <1>6

LEMMA NothingWritten ==
  WithEscapes(<< >>) = << >>
<1> DEFINE f == CHOOSE f : IsWritten(f, << >>, 1)
<1>1. << >> \in Seq(Byte) /\ 1 \in 1 .. Len(<< >>) + 1 /\ 1 > Len(<< >>)
  OBVIOUS
<1>2. \E h : IsWritten(h, << >>, 1)
  BY <1>1, WrittenExists
<1>3. IsWritten(f, << >>, 1)
  BY <1>2, Zenon
<1>4. WithEscapes(<< >>) = f[1]
  BY WrittenFunction, Zenon
<1> HIDE DEF f
<1>5. f[1] = Written(f, << >>, 1)
  BY <1>1, <1>3, Zenon DEF IsWritten
<1> QED BY <1>1, <1>4, <1>5, Zenon DEF Written

\* The bytes of t from i on.
Rest(t, i) == SubSeq(t, i, Len(t))

LEMMA RestIs ==
  ASSUME NEW t \in Seq(Byte), NEW i \in 1 .. Len(t)
  PROVE  /\ Rest(t, i) = <<t[i]>> \o Rest(t, i + 1)
         /\ Rest(t, i + 1) \in Seq(Byte)
<1> DEFINE n == Len(t)
           r == SubSeq(t, i + 1, n)
           s == SubSeq(t, i, n)
           u == <<t[i]>> \o r
<1>1. n \in Nat /\ i \in 1 .. n
  OBVIOUS
<1>2. /\ r \in Seq(Byte) /\ Len(r) = n - i
      /\ \A k \in 1 .. n - i : r[k] = t[i + k]
  <2>1. \A k \in i + 1 .. n : k \in 1 .. n
    BY <1>1
  <2> QED BY <1>1, <2>1, SubSeqProperties
<1>3. /\ s \in Seq(Byte) /\ Len(s) = n - i + 1
      /\ \A k \in 1 .. n - i + 1 : s[k] = t[i + k - 1]
  <2>1. \A k \in i .. n : k \in 1 .. n
    BY <1>1
  <2> QED BY <1>1, <2>1, SubSeqProperties
<1>4. t[i] \in Byte
  OBVIOUS
<1> HIDE DEF r, s, n
<1>5. /\ u \in Seq(Byte) /\ Len(u) = n - i + 1 /\ u[1] = t[i]
      /\ \A k \in 2 .. n - i + 1 : u[k] = r[k - 1]
  <2>1. <<t[i]>> \in Seq(Byte) /\ Len(<<t[i]>>) = 1 /\ <<t[i]>>[1] = t[i]
    BY <1>4
  <2>2. /\ u \in Seq(Byte) /\ Len(u) = 1 + Len(r)
        /\ \A k \in 1 .. 1 + Len(r) :
             u[k] = IF k <= 1 THEN <<t[i]>>[k] ELSE r[k - 1]
    BY <1>2, <2>1, ConcatProperties
  <2>3. 1 \in 1 .. 1 + Len(r) /\ 1 + Len(r) = n - i + 1
    BY <1>1, <1>2
  <2>4. u[1] = t[i]
    BY <2>1, <2>2, <2>3
  <2>5. \A k \in 2 .. n - i + 1 : k \in 1 .. 1 + Len(r) /\ ~ (k <= 1)
    BY <2>3
  <2> HIDE DEF u
  <2> QED BY <2>2, <2>3, <2>4, <2>5, Zenon
<1> HIDE DEF u
<1>6. \A k \in 1 .. n - i + 1 : u[k] = s[k]
  <2> SUFFICES ASSUME NEW k \in 1 .. n - i + 1 PROVE u[k] = s[k]
    OBVIOUS
  <2>1. CASE k = 1
    BY <1>1, <1>3, <1>5, <2>1
  <2>2. CASE k # 1
    <3>1. k \in 2 .. n - i + 1 /\ k - 1 \in 1 .. n - i /\ i + (k - 1) = i + k - 1
      BY <1>1, <2>2
    <3> QED BY <1>2, <1>3, <1>5, <3>1
  <2> QED BY <2>1, <2>2
<1>7. u = s
  BY <1>1, <1>3, <1>5, <1>6
<1> QED BY <1>2, <1>7 DEF Rest, r, s, u, n

LEMMA RestOfAll ==
  ASSUME NEW t \in Seq(Byte)
  PROVE  Rest(t, 1) = t /\ Rest(t, Len(t) + 1) = << >>
<1> DEFINE n == Len(t)
<1>1. n \in Nat
  OBVIOUS
<1>2. SubSeq(t, 1, n) = t
  OBVIOUS
<1>3. SubSeq(t, n + 1, n) = << >>
  <2>1. \A k \in n + 1 .. n : k \in 1 .. n
    BY <1>1
  <2>2. SubSeq(t, n + 1, n) \in Seq(Byte) /\ Len(SubSeq(t, n + 1, n)) = 0
    BY <1>1, <2>1, SubSeqProperties
  <2> QED BY <2>2
<1> QED BY <1>2, <1>3 DEF Rest

\* No byte of s is one that the allocator gave.
Clean(s) == \A j \in DOMAIN s : s[j] # Uninitialized
\* The text holds none of the bytes that escapes stand for.
Plain(t) == \A i \in 1 .. Len(t) : t[i] \notin {Escape[e] : e \in DOMAIN Escape}

LEMMA ConsIs ==
  ASSUME NEW U, NEW s \in Seq(U), NEW c \in U, NEW r, r = <<c>> \o s
  PROVE  r \in Seq(U) /\ Follows(r, c, s) /\ (Clean(r) => Clean(s) /\ c # Uninitialized)
<1>1. <<c>> \in Seq(U) /\ Len(<<c>>) = 1 /\ <<c>>[1] = c /\ Len(s) \in Nat
  OBVIOUS
<1>2. /\ r \in Seq(U) /\ Len(r) = 1 + Len(s)
      /\ \A k \in 1 .. 1 + Len(s) : r[k] = IF k <= 1 THEN <<c>>[k] ELSE s[k - 1]
  BY <1>1, ConcatProperties
<1>3. 1 \in 1 .. 1 + Len(s) /\ 1 <= 1
  BY <1>1
<1>4. r[1] = c
  BY <1>1, <1>2, <1>3, Zenon
<1>5. \A i \in 1 .. Len(s) : i + 1 \in 1 .. 1 + Len(s) /\ ~ (i + 1 <= 1) /\ i + 1 - 1 = i
  BY <1>1
<1>6. \A i \in 1 .. Len(s) : r[i + 1] = s[i]
  BY <1>2, <1>5
<1>7. DOMAIN r = 1 .. 1 + Len(s) /\ DOMAIN s = 1 .. Len(s)
  BY <1>2
<1>8. Clean(r) => Clean(s) /\ c # Uninitialized
  BY <1>3, <1>4, <1>5, <1>6, <1>7, Zenon DEF Clean
<1>9. Follows(r, c, s)
  BY <1>1, <1>2, <1>4, <1>6 DEF Follows
<1> QED BY <1>2, <1>8, <1>9

LEMMA TwoConses ==
  ASSUME NEW U, NEW s \in Seq(U), NEW a \in U, NEW b \in U
  PROVE  <<a>> \o (<<b>> \o s) = <<a, b>> \o s
<1> DEFINE r == <<b>> \o s
           x == <<a>> \o r
           y == <<a, b>> \o s
           n == Len(s)
<1>0. r = <<b>> \o s /\ x = <<a>> \o r /\ n \in Nat
  OBVIOUS
<1> HIDE DEF r, x
<1>1. n \in Nat /\ r \in Seq(U) /\ Follows(r, b, s)
  BY <1>0, ConsIs
<1>2. x \in Seq(U) /\ Follows(x, a, r)
  BY <1>0, <1>1, ConsIs, ZenonT(40)
<1>3. <<a, b>> \in Seq(U) /\ Len(<<a, b>>) = 2 /\ <<a, b>>[1] = a /\ <<a, b>>[2] = b
  OBVIOUS
<1>4. /\ y \in Seq(U) /\ Len(y) = 2 + n
      /\ \A k \in 1 .. 2 + n : y[k] = IF k <= 2 THEN <<a, b>>[k] ELSE s[k - 2]
  BY <1>3, ConcatProperties
<1> HIDE DEF y, n
<1>5. /\ Len(r) = n + 1 /\ r[1] = b /\ \A i \in 1 .. n : r[i + 1] = s[i]
      /\ Len(x) = 2 + n /\ x[1] = a /\ \A i \in 1 .. n + 1 : x[i + 1] = r[i]
  BY <1>1, <1>2 DEF Follows, n
<1>6. \A k \in 1 .. 2 + n : x[k] = y[k]
  <2> SUFFICES ASSUME NEW k \in 1 .. 2 + n PROVE x[k] = y[k]
    OBVIOUS
  <2>1. CASE k = 1
    BY <1>1, <1>3, <1>4, <1>5, <2>1
  <2>2. CASE k = 2
    <3>1. 1 \in 1 .. n + 1 /\ 1 + 1 = 2 /\ 2 \in 1 .. 2 + n /\ 2 <= 2
      BY <1>1
    <3>2. x[2] = b
      BY <1>5, <3>1
    <3>3. y[2] = b
      BY <1>3, <1>4, <3>1
    <3> QED BY <2>2, <3>2, <3>3
  <2>3. CASE k \notin {1, 2}
    <3>1. k - 2 \in 1 .. n /\ k - 1 \in 1 .. n + 1 /\ ~ (k <= 2)
          /\ (k - 1) + 1 = k /\ (k - 2) + 1 = k - 1
      BY <1>1, <2>3
    <3>2. x[k] = r[k - 1] /\ r[k - 1] = s[k - 2]
      BY <1>5, <3>1
    <3>3. y[k] = s[k - 2]
      BY <1>4, <3>1
    <3> QED BY <3>2, <3>3
  <2> QED BY <2>1, <2>2, <2>3
<1>7. x = y
  BY <1>2, <1>4, <1>5, <1>6
<1> QED BY <1>7 DEF x, y, r

LEMMA PolishedBack ==
  ASSUME NEW t \in Seq(Byte), Plain(t), NEW s, s = polish_string_literal(t), Clean(s)
  PROVE  WithEscapes(s) = t
<1> DEFINE f == CHOOSE f : IsPolish(f, t, 1)
           U == Byte \cup {Uninitialized}
           top == Len(t) + 1
           Back(i) == Clean(f[i]) => WithEscapes(f[i]) = Rest(t, i)
           S == {i \in 1 .. top : ~ Back(i)}
<1>0. top \in Nat \ {0} /\ Len(t) \in Nat
  OBVIOUS
<1>1. IsPolish(f, t, 1)
  BY PolishExists, Zenon
<1>2. s = f[1]
  BY PolishFunction, Zenon
<1> HIDE DEF f
<1>3. \A i \in 1 .. top : f[i] = Polish(f, t, i) /\ f[i] \in Seq(U)
  <2>1. \A i \in 1 .. top : f[i] = Polish(f, t, i)
    BY <1>1, Zenon DEF IsPolish
  <2>2. \A i \in 1 .. top : f[i] \in Seq(U)
    BY <1>1, PolishTyped
  <2> QED BY <2>1, <2>2
<1>4. \A c : Unescaped(c) \in U
  BY EscapesAssumption, Zenon DEF Unescaped
<1>5. S = {}
  <2> SUFFICES ASSUME S # {} PROVE FALSE
    OBVIOUS
  <2>1. PICK m \in S : \A k \in S : k <= m
    <3>1. S \subseteq 0 .. top
      OBVIOUS
    <3> HIDE DEF S, top
    <3> QED BY <1>0, <3>1, GreatestNumber, Zenon
  <2>2. m \in 1 .. Len(t) + 1 /\ ~ Back(m)
    OBVIOUS
  <2>3. \A k \in m + 1 .. Len(t) + 1 : Back(k)
    <3> SUFFICES ASSUME NEW k \in m + 1 .. Len(t) + 1, ~ Back(k) PROVE FALSE
      OBVIOUS
    <3>1. k \in 1 .. top /\ ~ (k <= m)
      BY <1>0, <2>2
    <3> HIDE DEF Back
    <3> QED BY <2>1, <3>1
  <2> HIDE DEF S
  <2>4. Clean(f[m]) /\ WithEscapes(f[m]) # Rest(t, m)
    BY <2>2
  <2>5. f[m] = Polish(f, t, m)
    BY <1>3, <2>2
  <2>6. CASE m = Len(t) + 1
    <3>1. f[m] = << >>
      BY <2>2, <2>5, <2>6, PolishIs, Zenon
    <3> QED BY <2>4, <2>6, <3>1, NothingWritten, RestOfAll
  <2>7. CASE m <= Len(t) /\ t[m] # "\\"
    <3>1. f[m] = <<t[m]>> \o f[m + 1]
      BY <2>2, <2>5, <2>7, PolishIs, Zenon
    <3>2. m \in 1 .. Len(t) /\ m + 1 \in m + 1 .. Len(t) + 1 /\ m + 1 \in 1 .. top
      BY <1>0, <2>2, <2>7
    <3>3. t[m] \in U /\ f[m + 1] \in Seq(U)
      BY <1>3, <3>2
    <3> DEFINE r == f[m]
               q == f[m + 1]
               c == t[m]
    <3>a. q \in Seq(U) /\ c \in U /\ r = <<c>> \o q
      BY <3>1, <3>3
    <3> HIDE DEF r, q, c, U
    <3>b. r \in Seq(U) /\ Follows(r, c, q) /\ (Clean(r) => Clean(q))
      BY <3>a, ConsIs
    <3>c. WithEscapes(r) = Escaped(c) \o WithEscapes(q)
      BY <3>a, <3>b, WrittenIs
    <3>4. Clean(f[m + 1])
      BY <2>4, <3>b DEF r, q
    <3>5. WithEscapes(f[m + 1]) = Rest(t, m + 1)
      BY <2>3, <3>2, <3>4
    <3>6. Escaped(t[m]) = <<t[m]>>
      BY <2>7, <3>2, EscapedIs, Zenon DEF Plain
    <3>7. WithEscapes(f[m]) = <<t[m]>> \o Rest(t, m + 1)
      BY <3>c, <3>5, <3>6 DEF r, q, c
    <3> QED BY <2>4, <3>2, <3>7, RestIs
  <2>8. CASE m = Len(t) /\ t[m] = "\\"
    <3>1. f[m] = <<Uninitialized>>
      BY <2>2, <2>5, <2>8, PolishIs, Zenon
    <3>2. 1 \in DOMAIN f[m] /\ f[m][1] = Uninitialized
      BY <3>1
    <3> QED BY <2>4, <3>2, Zenon DEF Clean
  <2>9. CASE m < Len(t) /\ t[m] = "\\"
    <3> DEFINE c == t[m + 1]
               u == Unescaped(c)
    <3>1. f[m] = <<u>> \o f[m + 2]
      BY <2>2, <2>5, <2>9, PolishIs, Zenon
    <3>2. /\ m \in 1 .. Len(t) /\ m + 1 \in 1 .. Len(t) /\ (m + 1) + 1 = m + 2
          /\ m + 2 \in m + 1 .. Len(t) + 1 /\ m + 2 \in 1 .. top
      BY <1>0, <2>2, <2>9
    <3>3. u \in U /\ f[m + 2] \in Seq(U)
      BY <1>3, <1>4, <3>2
    <3> HIDE DEF u
    <3> DEFINE r == f[m]
               q == f[m + 2]
    <3>a. q \in Seq(U) /\ u \in U /\ r = <<u>> \o q
      BY <3>1, <3>3
    <3> HIDE DEF r, q, U
    <3>b. /\ r \in Seq(U) /\ Follows(r, u, q)
          /\ Clean(r) => Clean(q) /\ u # Uninitialized
      BY <3>a, ConsIs
    <3>c. WithEscapes(r) = Escaped(u) \o WithEscapes(q)
      BY <3>a, <3>b, WrittenIs
    <3>4. Clean(f[m + 2]) /\ u # Uninitialized
      BY <2>4, <3>b DEF r, q
    <3>5. WithEscapes(f[m + 2]) = Rest(t, m + 2)
      BY <2>3, <3>2, <3>4
    <3>6. Escaped(u) = <<"\\", c>>
      <4>1. CASE c \in DOMAIN Escape
        <5>1. u = Escape[c] \/ c = "\\"
          BY <4>1, Zenon DEF u, Unescaped
        <5>2. c # "\\"
          BY <4>1, EscapesAre, Zenon
        <5> QED BY <4>1, <5>1, <5>2, EscapedIs
      <4>2. CASE c \notin DOMAIN Escape
        <5>1. c = "\\" /\ u = "\\"
          BY <3>4, <4>2, Zenon DEF u, Unescaped
        <5> QED BY <5>1, EscapedIs
      <4> QED BY <4>1, <4>2
    <3>7. WithEscapes(f[m]) = <<"\\", c>> \o Rest(t, m + 2)
      BY <3>c, <3>5, <3>6 DEF r, q
    <3>8. Rest(t, m) = <<"\\">> \o (<<c>> \o Rest(t, m + 2))
          /\ Rest(t, m + 2) \in Seq(Byte)
      BY <2>9, <3>2, RestIs
    <3>9. "\\" \in Byte /\ c \in Byte
      BY <3>2, EscapesAssumption
    <3>10. Rest(t, m) = <<"\\", c>> \o Rest(t, m + 2)
      <4> DEFINE b == "\\"
                 rest == Rest(t, m + 2)
      <4>1. b \in Byte /\ c \in Byte /\ rest \in Seq(Byte)
        BY <3>8, <3>9
      <4> HIDE DEF b, c, rest
      <4>2. <<b>> \o (<<c>> \o rest) = <<b, c>> \o rest
        BY <4>1, TwoConses
      <4> QED BY <3>8, <4>2 DEF b, rest
    <3> QED BY <2>4, <3>7, <3>10
  <2> QED BY <1>0, <2>2, <2>6, <2>7, <2>8, <2>9
<1>6. 1 \in 1 .. top
  BY <1>0
<1>7. Back(1)
  BY <1>5, <1>6
<1> QED BY <1>2, <1>7, RestOfAll

-----------------------------------------------------------------------------
(* What the tokens hold *)

HasPrefix(first, p) == first + 2 <= p /\ text[first + 1] \in {"x", "b"}

\* What an integer token is worth, and a string token decodes.
Piece(x, t) == SubSeq(x, t.first, t.first + t.size - 1)
RightString(x, t) ==
  t.type = "STRING_LITERAL" => t.string = polish_string_literal(Piece(x, t))
RightInteger(x, t) ==
  LET raw == Piece(x, t)
  IN  (t.type \in IntegerType /\ ~\E c \in {"x", "b"} : Contains(raw, c))
        => (WorthOf(raw) <= UI64_MAX => t.value = WorthOf(raw))
Right(x, t) == RightString(x, t) /\ RightInteger(x, t)

\* The literal under way is worth what is read of it, in base ten and as long as
\* it is an integer.
Values ==
  /\ \A i \in DOMAIN tokens : Right(text, tokens[i])
  /\ mode = "decimal" /\ ~ IsFloating => Counts(start.first, position, literal.value)
  /\ mode \in {"hexadecimal", "binary"} => HasPrefix(start.first, position)
  /\ mode \in {"fraction", "exponent"} => IsFloating

LEMMA ValuesBegin ==
  ASSUME Init
  PROVE  Values
BY DEF Init, Values

LEMMA ValuesStay ==
  ASSUME Values, text' = text, tokens' = tokens,
         \/ mode' \notin NumberModes
         \/ UNCHANGED <<position, mode, start, literal>>
  PROVE  Values'
<1>1. \A i \in DOMAIN tokens' : Right(text', tokens'[i])
  BY DEF Values
<1>2. CASE mode' \notin NumberModes
  BY <1>1, <1>2 DEF Values, NumberModes
<1>3. CASE UNCHANGED <<position, mode, start, literal>>
  <2>1. /\ IsFloating' <=> IsFloating
        /\ Counts(start.first, position, literal.value)' <=>
             Counts(start.first, position, literal.value)
        /\ HasPrefix(start.first, position)' <=> HasPrefix(start.first, position)
    BY <1>3 DEF IsFloating, Counts, TextOf, HasPrefix
  <2>2. /\ mode' = "decimal" /\ ~ IsFloating' => Counts(start.first, position, literal.value)'
        /\ mode' \in {"hexadecimal", "binary"} => HasPrefix(start.first, position)'
        /\ mode' \in {"fraction", "exponent"} => IsFloating'
    BY <1>3, <2>1, Zenon DEF Values
  <2> QED BY <1>1, <2>2, Zenon DEF Values
<1> QED BY <1>2, <1>3

LEMMA ValuesStop ==
  ASSUME Values, NEW end, Stop(end)
  PROVE  Values'
<1>1. /\ text' = text /\ tokens' = tokens
      /\ UNCHANGED <<position, mode, start, literal>>
  BY DEF Stop
<1> QED BY <1>1, ValuesStay

\* A token that holds what it should is emitted.
LEMMA ValuesPush ==
  ASSUME IInv, Values, text' = text, mode' = "main",
         NEW tok, tokens' = Append(tokens, tok), Right(text, tok)
  PROVE  Values'
<1>1. tokens \in Seq(Token \cup {tok}) /\ tok \in Token \cup {tok}
  BY Known
<1>2. /\ DOMAIN tokens' = DOMAIN tokens \cup {Len(tokens) + 1}
      /\ \A i \in DOMAIN tokens : tokens'[i] = tokens[i]
      /\ tokens'[Len(tokens) + 1] = tok
  <2> DEFINE T == Token \cup {tok}
             s == tokens
             r == Append(s, tok)
  <2>1. s \in Seq(T) /\ tok \in T /\ tokens' = r
    BY <1>1
  <2> HIDE DEF T, s
  <2>2. /\ DOMAIN r = DOMAIN s \cup {Len(s) + 1}
        /\ \A i \in DOMAIN s : r[i] = s[i]
        /\ r[Len(s) + 1] = tok
    BY <2>1
  <2> QED BY <2>1, <2>2 DEF s
<1>3. \A i \in DOMAIN tokens : Right(text, tokens[i])
  BY DEF Values
<1>4. \A i \in DOMAIN tokens' : Right(text', tokens'[i])
  BY <1>2, <1>3
<1> QED BY <1>4 DEF Values

\* The literal is worth what it should after a step that keeps to it.
Keeps(n, m, l) ==
  /\ m = "decimal" /\ "IS_FLOATING_POINT" \notin l.flags =>
       Counts(start.first, position + n, l.value)
  /\ m \in {"hexadecimal", "binary"} => HasPrefix(start.first, position + n)
  /\ m \in {"fraction", "exponent"} => "IS_FLOATING_POINT" \in l.flags

LEMMA ValuesRead ==
  ASSUME Values, NEW n, NEW m, NEW l, Reads(n, m, l), Keeps(n, m, l)
  PROVE  Values'
<1>1. /\ position' = position + n /\ mode' = m /\ literal' = l
      /\ text' = text /\ start' = start /\ tokens' = tokens
  BY DEF Reads, Peek
<1>2. \A i \in DOMAIN tokens' : Right(text', tokens'[i])
  BY <1>1 DEF Values
<1>3. /\ IsFloating' <=> "IS_FLOATING_POINT" \in l.flags
      /\ Counts(start.first, position, literal.value)' <=>
           Counts(start.first, position + n, l.value)
      /\ HasPrefix(start.first, position)' <=> HasPrefix(start.first, position + n)
  BY <1>1 DEF IsFloating, Counts, TextOf, HasPrefix
<1>4. /\ mode' = "decimal" /\ ~ IsFloating' => Counts(start.first, position, literal.value)'
      /\ mode' \in {"hexadecimal", "binary"} => HasPrefix(start.first, position)'
      /\ mode' \in {"fraction", "exponent"} => IsFloating'
  BY <1>1, <1>3, Zenon DEF Keeps
<1> QED BY <1>2, <1>4, Zenon DEF Values

\* A byte is read that is no digit, or none, and the literal stays what it was.
LEMMA KeepsOther ==
  ASSUME IInv, Values, InNumber, NEW n \in 0 .. 1, position <= Len(text),
         n = 1 => ~ is_digit(text[position]),
         NEW l, l.value = literal.value,
         "IS_FLOATING_POINT" \in literal.flags => "IS_FLOATING_POINT" \in l.flags
  PROVE  Keeps(n, mode, l)
<1>1. /\ text \in Seq(Byte) /\ start.first \in Nat \ {0} /\ position \in Nat
      /\ start.first <= position
  BY Known
<1>2. ASSUME mode = "decimal", "IS_FLOATING_POINT" \notin l.flags
      PROVE  Counts(start.first, position + n, l.value)
  <2>1. Counts(start.first, position, l.value)
    BY <1>2 DEF Values, IsFloating
  <2>2. CASE n = 0
    <3>1. position + n = position
      BY <1>1, <2>2
    <3> QED BY <2>1, <3>1
  <2>3. CASE n = 1
    BY <1>1, <2>1, <2>3, CountsMore
  <2> QED BY <2>2, <2>3
<1>3. ASSUME mode \in {"hexadecimal", "binary"} PROVE HasPrefix(start.first, position + n)
  <2>1. HasPrefix(start.first, position)
    BY <1>3 DEF Values
  <2> QED BY <1>1, <2>1 DEF HasPrefix
<1>4. mode \in {"fraction", "exponent"} => "IS_FLOATING_POINT" \in l.flags
  BY DEF Values, IsFloating
<1> QED BY <1>2, <1>3, <1>4 DEF Keeps

LEMMA NoDigits ==
  \A c \in {"_", "u", "L"} : ~ is_digit(c)
BY DecimalDigits, Zenon DEF is_digit

LEMMA ValuesEnter ==
  ASSUME IInv, Values, BeginPrefixed \/ BeginDecimal
  PROVE  Values'
<1>1. /\ text' = text /\ tokens' = tokens /\ start'.first = position
      /\ position <= Len(text)
  BY Known DEF BeginPrefixed, BeginDecimal, InMain, In, Here
<1>2. text \in Seq(Byte) /\ position \in Nat \ {0}
  BY Known
<1>3. \A i \in DOMAIN tokens' : Right(text', tokens'[i])
  BY <1>1 DEF Values
<1>4. CASE BeginPrefixed
  <2>1. PICK x : x \in {"x", "b"} /\ Pair = <<"0", x>>
    BY <1>4 DEF BeginPrefixed
  <2>2. text[position + 1] = x
    BY <1>2, <2>1, PairIs
  <2>3. position' = position + 2 /\ mode' \in {"hexadecimal", "binary"}
    BY <1>4 DEF BeginPrefixed, Peek
  <2>4. HasPrefix(start.first, position)'
    BY <1>1, <1>2, <2>1, <2>2, <2>3 DEF HasPrefix
  <2> QED BY <1>3, <2>3, <2>4 DEF Values
<1>5. CASE BeginDecimal
  <2> DEFINE d == ValueOf(text[position])
  <2>1. /\ is_digit(text[position]) /\ position' = position + 1 /\ mode' = "decimal"
        /\ literal'.value = d
    BY <1>5 DEF BeginDecimal, Peek, Current, NoLiteral
  <2>2. d \in 0 .. 15 /\ UI64_MAX \in Nat /\ 15 < UI64_MAX
    BY <2>1, ValueOfDigit, WidthsAssumption DEF is_digit
  <2>3. Counts(position, position, 0) /\ position <= position
    BY <1>1, <1>2, CountsNothing
  <2>4. Counts(position, position + 1, (0 * 10 + d) % (UI64_MAX + 1))
    BY <1>1, <1>2, <2>1, <2>3, CountsMore
  <2> HIDE DEF d
  <2>5. 0 * 10 + d = d /\ d \in Nat /\ d <= UI64_MAX
    BY <2>2
  <2>6. d % (UI64_MAX + 1) = d
    BY <2>2, <2>5, ModSmall
  <2>7. Counts(position, position + 1, d)
    BY <2>4, <2>5, <2>6
  <2>8. Counts(start.first, position, literal.value)'
    BY <1>1, <2>1, <2>7 DEF Counts, TextOf
  <2> QED BY <1>3, <2>1, <2>8 DEF Values
<1> QED BY <1>4, <1>5

LEMMA ValuesDigit ==
  ASSUME IInv, Values, ReadDigit
  PROVE  Values'
<1> DEFINE v == (literal.value * BaseOf[mode] + ValueOf(Current)) % (UI64_MAX + 1)
           l == [literal EXCEPT !.value = v]
<1>1. /\ InNumber /\ position <= Len(text) /\ mode \in {"hexadecimal", "binary", "decimal"}
      /\ Current = text[position]
      /\ Current \in DigitsOf(BaseOf[mode]) /\ Reads(1, mode, l)
  BY Known DEF ReadDigit, BaseOf, Current
<1>2. /\ text \in Seq(Byte) /\ start.first \in Nat \ {0} /\ position \in Nat
      /\ start.first <= position
  BY Known
<1>3. l.value = v /\ l.flags = literal.flags
  BY Known DEF Literal
<1> HIDE DEF l
<1>4. ASSUME mode = "decimal", "IS_FLOATING_POINT" \notin l.flags
      PROVE  Counts(start.first, position + 1, v)
  <2>1. BaseOf[mode] = 10
    BY <1>4 DEF BaseOf
  <2>2. Counts(start.first, position, literal.value)
    BY <1>3, <1>4 DEF Values, IsFloating
  <2>3. is_digit(text[position])
    BY <1>1, <2>1 DEF is_digit
  <2>4. Counts(start.first, position + 1,
               (literal.value * 10 + ValueOf(text[position])) % (UI64_MAX + 1))
    BY <1>1, <1>2, <2>2, <2>3, CountsMore
  <2> QED BY <1>1, <2>1, <2>4
<1>5. ASSUME mode \in {"hexadecimal", "binary"} PROVE HasPrefix(start.first, position + 1)
  <2>1. HasPrefix(start.first, position)
    BY <1>5 DEF Values
  <2> QED BY <1>2, <2>1 DEF HasPrefix
<1>6. Keeps(1, mode, l)
  BY <1>1, <1>3, <1>4, <1>5 DEF Keeps
<1> QED BY <1>1, <1>6, ValuesRead

LEMMA ValuesUnderscore ==
  ASSUME IInv, Values, ReadUnderscore
  PROVE  Values'
<1>1. /\ InNumber /\ position <= Len(text) /\ text[position] = "_"
      /\ Reads(1, mode, literal)
  BY Known DEF ReadUnderscore, Current
<1>2. ~ is_digit(text[position]) /\ 1 \in 0 .. 1
  <2>1. ~ is_digit(text[position])
    BY <1>1, NoDigits, Zenon
  <2> QED BY <2>1
<1>3. Keeps(1, mode, literal)
  BY <1>1, <1>2, KeepsOther
<1> QED BY <1>1, <1>3, ValuesRead

LEMMA ValuesDecimal ==
  ASSUME IInv, Values, ReadPoint \/ BeginExponent \/ ReadUnsignedSuffix \/ ReadLongSuffix
  PROVE  Values'
<1>1. InNumber /\ mode = "decimal" /\ position <= Len(text) /\ literal \in Literal
  BY Known DEF ReadPoint, BeginExponent, ReadUnsignedSuffix, ReadLongSuffix,
     Reading, In, InNumber
<1>2. CASE ReadPoint
  <2> DEFINE l == [literal EXCEPT !.flags = @ \cup {"IS_FLOATING_POINT"},
                                  !.fraction = FALSE]
  <2>1. "IS_FLOATING_POINT" \in l.flags
    BY <1>1 DEF Literal
  <2>2. Stop("error") \/ Reads(1, "fraction", l)
    BY <1>2 DEF ReadPoint
  <2> HIDE DEF l
  <2>3. Keeps(1, "fraction", l)
    BY <2>1 DEF Keeps
  <2> QED BY <2>2, <2>3, ValuesStop, ValuesRead
<1>3. CASE BeginExponent
  <2> DEFINE l == [literal EXCEPT
                     !.flags = @ \cup {"IS_FLOATING_POINT", "HAS_EXPONENT"}]
  <2>1. "IS_FLOATING_POINT" \in l.flags
    BY <1>1 DEF Literal
  <2>2. Reads(1, "exponent", l)
    BY <1>3 DEF BeginExponent
  <2> HIDE DEF l
  <2>3. Keeps(1, "exponent", l)
    BY <2>1 DEF Keeps
  <2> QED BY <2>2, <2>3, ValuesRead
<1>4. ASSUME NEW f, Reads(1, mode, [literal EXCEPT !.flags = @ \cup {f}]),
             text[position] \in {"u", "L"}
      PROVE  Values'
  <2> DEFINE l == [literal EXCEPT !.flags = @ \cup {f}]
  <2>1. l.value = literal.value /\ (\A x \in literal.flags : x \in l.flags)
    BY <1>1 DEF Literal
  <2>2. ~ is_digit(text[position]) /\ 1 \in 0 .. 1
    <3>1. ~ is_digit(text[position])
      BY <1>4, NoDigits, Zenon
    <3> QED BY <3>1
  <2>3. Reads(1, mode, l)
    BY <1>4
  <2> HIDE DEF l
  <2>4. Keeps(1, mode, l)
    BY <1>1, <2>1, <2>2, KeepsOther
  <2> QED BY <2>3, <2>4, ValuesRead
<1>5. CASE ReadUnsignedSuffix
  <2>1. text[position] = "u"
    BY <1>5 DEF ReadUnsignedSuffix, CanBeUnsigned, Current
  <2>2. Stop("error") \/ Reads(1, mode, [literal EXCEPT !.flags = @ \cup {"UNSIGNED_SUFFIX"}])
    BY <1>5 DEF ReadUnsignedSuffix
  <2> QED BY <1>4, <2>1, <2>2, ValuesStop
<1>6. CASE ReadLongSuffix
  <2>1. text[position] = "L"
    BY <1>6 DEF ReadLongSuffix, CanBeLong, Current
  <2>2. Reads(1, mode, [literal EXCEPT !.flags = @ \cup {"LONG_SUFFIX"}])
    BY <1>6 DEF ReadLongSuffix
  <2> QED BY <1>4, <2>1, <2>2
<1> QED BY <1>2, <1>3, <1>5, <1>6

LEMMA ValuesFraction ==
  ASSUME IInv, Values, ReadFraction \/ EndOfFraction \/ ReadExponent \/ EndOfExponent
  PROVE  Values'
<1>1. mode \in {"fraction", "exponent"} /\ literal \in Literal
  BY Known DEF ReadFraction, EndOfFraction, ReadExponent, EndOfExponent, Reading, In
<1>2. "IS_FLOATING_POINT" \in literal.flags
  BY <1>1 DEF Values, IsFloating
<1>3. \A n, m : m \in {"fraction", "exponent", "decimal"} => Keeps(n, m, literal)
  BY <1>2 DEF Keeps
<1>4. CASE ReadFraction
  <2> DEFINE l == [literal EXCEPT !.fraction = TRUE]
  <2>1. "IS_FLOATING_POINT" \in l.flags
    BY <1>1, <1>2 DEF Literal
  <2>2. Reads(1, mode, l)
    BY <1>4 DEF ReadFraction
  <2> HIDE DEF l
  <2>3. Keeps(1, mode, l)
    BY <1>1, <2>1 DEF Keeps
  <2> QED BY <2>2, <2>3, ValuesRead
<1>5. CASE EndOfFraction
  <2>1. Stop("error") \/ Reads(0, "decimal", literal)
    BY <1>5 DEF EndOfFraction
  <2> QED BY <1>3, <2>1, ValuesStop, ValuesRead
<1>6. CASE ReadExponent
  <2>1. Reads(1, mode, literal)
    BY <1>6 DEF ReadExponent
  <2> QED BY <1>1, <1>3, <2>1, ValuesRead
<1>7. CASE EndOfExponent
  <2>1. Reads(0, "decimal", literal)
    BY <1>7 DEF EndOfExponent
  <2> QED BY <1>3, <2>1, ValuesRead
<1> QED BY <1>4, <1>5, <1>6, <1>7

\* A token that is neither a decoded string nor an integer holds what it should.
LEMMA RightOther ==
  ASSUME NEW tok, tok.type \notin {"STRING_LITERAL"} \cup IntegerType
  PROVE  Right(text, tok)
BY Zenon DEF Right, RightString, RightInteger

LEMMA ValuesString ==
  ASSUME IInv, Values, CloseString
  PROVE  Values'
<1> DEFINE first == start.first + 1
           size == position - first
           raw == TokenAt(start, "STRING_LITERAL_RAW", first, size)
           polished == polish_string_literal(TextOf(first, size))
           cooked == [raw EXCEPT !.type = "STRING_LITERAL", !.string = polished]
           tok == IF mode = "raw_string" THEN raw ELSE cooked
<1>1. /\ mode' = "main" /\ tokens' = Append(tokens, tok) /\ text' = text
  BY DEF CloseString
<1> HIDE DEF first, size, polished
<1>2. raw.type = "STRING_LITERAL_RAW"
  BY DEF TokenAt
<1>3. /\ cooked.type = "STRING_LITERAL" /\ cooked.string = polished
      /\ cooked.first = first /\ cooked.size = size
  BY DEF TokenAt
<1> HIDE DEF raw, cooked
<1>4. Right(text, raw)
  BY <1>2, RightOther DEF IntegerType
<1>5. Right(text, cooked)
  <2>1. cooked.type \notin IntegerType
    BY <1>3 DEF IntegerType
  <2>2. polished = polish_string_literal(Piece(text, cooked))
    BY <1>3 DEF polished, TextOf, Piece
  <2> QED BY <1>3, <2>1, <2>2, Zenon DEF Right, RightString, RightInteger
<1>6. Right(text, tok)
  BY <1>4, <1>5
<1> QED BY <1>1, <1>6, ValuesPush

LEMMA ValuesWord ==
  ASSUME IInv, Values, ReadOperator \/ EndOfIdentifier
  PROVE  Values'
<1>1. ASSUME NEW from, NEW type \in {"SYNTAXE_OPERATOR", "KEYWORD", "IDENTIFIER"},
             NEW first, NEW size,
             tokens' = Append(tokens, TokenAt(from, type, first, size)),
             mode' = "main", text' = text
      PROVE  Values'
  <2> DEFINE tok == TokenAt(from, type, first, size)
  <2>1. tok.type \notin {"STRING_LITERAL"} \cup IntegerType
    BY DEF TokenAt, IntegerType
  <2>2. tokens' = Append(tokens, tok)
    BY <1>1
  <2> HIDE DEF tok
  <2> QED BY <1>1, <2>1, <2>2, RightOther, ValuesPush
<1>2. CASE ReadOperator
  <2> DEFINE size == IF Pair \in Operator2 THEN 2 ELSE 1
  <2>1. /\ tokens' = Append(tokens, TokenAt(Here, "SYNTAXE_OPERATOR", position, size))
        /\ mode' = "main" /\ text' = text
    BY <1>2 DEF ReadOperator, InMain, In
  <2> HIDE DEF size
  <2> QED BY <1>1, <2>1
<1>3. CASE EndOfIdentifier
  <2> DEFINE size == position - start.first
             type == IF is_keyword(TextOf(start.first, size)) THEN "KEYWORD" ELSE "IDENTIFIER"
  <2>1. /\ tokens' = Append(tokens, TokenAt(start, type, start.first, size))
        /\ mode' = "main" /\ text' = text
    BY <1>3 DEF EndOfIdentifier
  <2>2. type \in {"SYNTAXE_OPERATOR", "KEYWORD", "IDENTIFIER"}
    OBVIOUS
  <2> HIDE DEF size, type
  <2> QED BY <1>1, <2>1, <2>2
<1> QED BY <1>2, <1>3

\* The text of a literal in another base than ten shows it.
LEMMA PrefixShows ==
  ASSUME IInv, Values, mode \in {"hexadecimal", "binary"}
  PROVE  \E c \in {"x", "b"} : Contains(TextOf(start.first, position - start.first), c)
<1> DEFINE size == position - start.first
           raw == TextOf(start.first, size)
<1>1. HasPrefix(start.first, position)
  BY DEF Values
<1>2. size \in Nat /\ 2 \in 1 .. size /\ start.first \in Nat \ {0}
      /\ start.first + size <= Len(text) + 1 /\ start.first + 2 - 1 = start.first + 1
      /\ text \in Seq(Byte)
  BY <1>1, Known, Z3T(30) DEF HasPrefix
<1> HIDE DEF size
<1>3. Len(raw) = size /\ raw[2] = text[start.first + 2 - 1]
  BY <1>2, WorthOfText
<1>4. raw[2] \in {"x", "b"}
  BY <1>1, <1>2, <1>3 DEF HasPrefix
<1> HIDE DEF raw
<1>5. Contains(raw, raw[2])
  BY <1>2, <1>3 DEF Contains
<1> QED BY <1>4, <1>5 DEF raw, size

LEMMA ValuesNumber ==
  ASSUME IInv, Values, EndOfNumber \/ EndWithSuffix
  PROVE  Values'
<1>1. ASSUME NEW type, NEW value, NEW end, PushNumber(type, value, end),
             \A tok : /\ tok.type = type /\ tok.value = value
                      /\ tok.first = start.first /\ tok.size = end - start.first
                      => Right(text, tok)
      PROVE  Values'
  <2> DEFINE size == end - start.first
             tok == [TokenAt(start, type, start.first, size) EXCEPT !.value = value]
  <2>1. mode' = "main" /\ text' = text /\ tokens' = Append(tokens, tok)
    <3>1. tokens' = Append(tokens, tok)
      BY <1>1, Zenon DEF PushNumber
    <3> HIDE DEF tok
    <3> QED BY <1>1, <3>1 DEF PushNumber
  <2>2. tok.type = type /\ tok.value = value /\ tok.first = start.first /\ tok.size = size
    <3> HIDE DEF size
    <3> QED BY DEF TokenAt
  <2> HIDE DEF tok
  <2>3. Right(text, tok)
    BY <1>1, <2>2
  <2> QED BY <2>1, <2>3, ValuesPush
<1>2. CASE EndWithSuffix
  <2> DEFINE type == FloatingSuffix[Current]
  <2>1. Current \in {"L", "d", "f"}
    BY <1>2 DEF EndWithSuffix, CanBeLong
  <2>2. type \notin {"STRING_LITERAL"} \cup IntegerType
    BY <2>1 DEF FloatingSuffix, IntegerType
  <2>3. Stop("asserted") \/ PushNumber(type, 0, position + 1)
    BY <1>2 DEF EndWithSuffix
  <2> HIDE DEF type
  <2>4. \A tok : tok.type = type => Right(text, tok)
    BY <2>2, RightOther
  <2> QED BY <1>1, <2>3, <2>4, ValuesStop
<1>3. CASE EndOfNumber
  <2> DEFINE type == TypeOfLiteral(literal)
             value == IF IsFloating THEN 0 ELSE literal.value
             size == position - start.first
  <2>1. /\ PushNumber(type, value, position)
        /\ mode \in {"hexadecimal", "binary", "decimal"}
    BY <1>3 DEF EndOfNumber, BaseOf
  <2>2. type # "STRING_LITERAL"
    BY DEF TypeOfLiteral
  <2>3. ASSUME type \in IntegerType
        PROVE  ~ IsFloating /\ value = literal.value
    BY <2>3 DEF TypeOfLiteral, IsFloating, IntegerType
  <2> HIDE DEF type, value
  <2>4. ASSUME NEW tok, tok.type = type, tok.value = value,
               tok.first = start.first, tok.size = size
        PROVE  Right(text, tok)
    <3>1. RightString(text, tok)
      BY <2>2, <2>4 DEF RightString
    <3>2. Piece(text, tok) = TextOf(start.first, size)
      BY <2>4 DEF Piece, TextOf
    <3> DEFINE raw == TextOf(start.first, size)
    <3>3. ASSUME type \in IntegerType, ~\E c \in {"x", "b"} : Contains(raw, c)
          PROVE  WorthOf(raw) <= UI64_MAX => value = WorthOf(raw)
      <4>1. CASE mode = "decimal"
        BY <2>3, <3>3, <4>1 DEF Values, Counts
      <4>2. CASE mode \in {"hexadecimal", "binary"}
        BY <3>3, <4>2, PrefixShows
      <4> QED BY <2>1, <4>1, <4>2
    <3> HIDE DEF raw
    <3>4. RightInteger(text, tok)
      BY <2>3, <2>4, <3>2, <3>3, Zenon DEF RightInteger, raw
    <3> QED BY <3>1, <3>4 DEF Right
  <2> QED BY <1>1, <2>1, <2>4
<1> QED BY <1>2, <1>3

LEMMA ValuesStep ==
  ASSUME IInv, Values, [Next]_vars
  PROVE  Values'
<1>1. CASE ReadFile
  <2>1. CASE BeginFile
    <3>1. text' = text /\ tokens' = tokens /\ mode' = "main"
      BY <2>1 DEF BeginFile
    <3> QED BY <3>1, ValuesStay DEF NumberModes
  <2> QED BY <1>1, <2>1, ValuesStop DEF ReadFile, EmptyFile, CutBom, EndOfFile
<1>2. CASE ReadGap
  <2>1. CASE OpenBlockCommentAtEof
    BY <2>1, ValuesStop DEF OpenBlockCommentAtEof
  <2>2. CASE ~ OpenBlockCommentAtEof
    <3>1. text' = text /\ tokens' = tokens
          /\ mode' \in {"main", "line_comment", "block_comment"}
      BY <1>2, <2>2 DEF ReadGap, ReadBlank, ReadSingleQuote, BeginComment,
         ReadLineComment, ReadBlockComment, InMain, In
    <3> QED BY <3>1, ValuesStay DEF NumberModes
  <2> QED BY <2>1, <2>2
<1>3. CASE ReadStringLiteral
  <2>1. CASE BeginString \/ ReadString
    <3>1. text' = text /\ tokens' = tokens /\ mode' \in StringModes
      BY <2>1 DEF BeginString, ReadString, InString, CloseOf, StringModes
    <3> QED BY <3>1, ValuesStay DEF NumberModes, StringModes
  <2> QED BY <1>3, <2>1, ValuesString, ValuesStop
          DEF ReadStringLiteral, QuoteAtEof, OpenStringAtEof
<1>4. CASE ReadWord
  <2>1. CASE BeginIdentifier \/ ReadIdentifier
    <3>1. text' = text /\ tokens' = tokens /\ mode' = "identifier"
      BY <2>1 DEF BeginIdentifier, ReadIdentifier, InIdentifier, In
    <3> QED BY <3>1, ValuesStay DEF NumberModes
  <2> QED BY <1>4, <2>1, ValuesWord DEF ReadWord
<1>5. CASE ReadNumber
  <2>1. NumberAtEof \/ HexadecimalFloat => Values'
    BY ValuesStop DEF NumberAtEof, HexadecimalFloat
  <2> QED BY <1>5, <2>1, ValuesEnter, ValuesDigit, ValuesUnderscore, ValuesDecimal,
             ValuesFraction, ValuesNumber DEF ReadNumber
<1>6. CASE UNCHANGED vars
  BY <1>6, ValuesStay DEF vars
<1> QED BY <1>1, <1>2, <1>3, <1>4, <1>5, <1>6 DEF Next, lex, Lexed

\* At each step the tokens hold what the text says, and the literal under way is
\* worth what is read of it.
THEOREM ValuesInvariant == Spec => []Values
<1>1. Init => Values
  BY ValuesBegin
<1>2. IInv /\ Values /\ [Next]_vars => Values'
  BY ValuesStep
<1> QED BY <1>1, <1>2, InductiveInvariant, PTL DEF Spec

LEMMA StringsRight ==
  ASSUME IInv, Values
  PROVE  StringsDecoded
<1> SUFFICES ASSUME NEW i \in DOMAIN tokens,
                    tokens[i].type = "STRING_LITERAL",
                    \A j \in 1 .. tokens[i].size :
                      TextOf(tokens[i].first, tokens[i].size)[j]
                        \notin {Escape[e] : e \in DOMAIN Escape},
                    \A j \in DOMAIN tokens[i].string :
                      tokens[i].string[j] # Uninitialized
             PROVE  WithEscapes(tokens[i].string)
                      = TextOf(tokens[i].first, tokens[i].size)
  BY Zenon DEF StringsDecoded
<1> DEFINE t == tokens[i]
           raw == TextOf(t.first, t.size)
<1>1. t \in Token /\ i \in 1 .. Len(tokens) /\ text \in Seq(Byte) /\ Len(text) \in Nat
  BY Known
<1>2. t.string = polish_string_literal(raw)
  BY Zenon DEF Values, Right, RightString, Piece, TextOf
<1>3. TokenFits(text, EndBefore(text, tokens, i), t)
  BY <1>1 DEF IInv, Pieces, Cut
<1>4. Clean(t.string) /\ t.type = "STRING_LITERAL"
  BY Zenon DEF Clean
<1>5. \A j \in 1 .. t.size : raw[j] \notin {Escape[e] : e \in DOMAIN Escape}
  OBVIOUS
<1> HIDE DEF t
<1>6. t.first \in Nat \ {0} /\ t.size \in Nat /\ t.first + t.size <= Len(text) + 1
  <2>1. t.first \in Nat /\ t.size \in Nat
    BY <1>1 DEF Token
  <2>2. FirstByte(t) = t.first - 1 /\ LastByte(t) = t.first + t.size - 0
    BY <1>4 DEF FirstByte, LastByte, IsString
  <2>3. BodyOf(text) <= FirstByte(t) /\ LastByte(t) <= Len(text)
    BY <1>3 DEF TokenFits
  <2> QED BY <1>1, <2>1, <2>2, <2>3, BodyIs
<1>7. raw \in Seq(Byte) /\ Len(raw) = t.size
  BY <1>1, <1>6, WorthOfText
<1> HIDE DEF raw
<1>8. Plain(raw)
  BY <1>5, <1>7, Zenon DEF Plain
<1>9. WithEscapes(t.string) = raw
  BY <1>2, <1>4, <1>7, <1>8, PolishedBack
<1> QED BY <1>9 DEF t, raw

\* A string literal whose escapes the language knows is decoded, whatever the
\* text: to write the escapes again gives the source back.
THEOREM StringsAlwaysDecoded == Spec => []StringsDecoded
BY InductiveInvariant, ValuesInvariant, StringsRight, PTL

-----------------------------------------------------------------------------
(***************************************************************************)
(* The types of numerals.  The flags of the literal under way say which of *)
(* the bytes that make a type were read, wherever they are: the invariant  *)
(* Marked.                                                                 *)
(***************************************************************************)

Point == "."
DecimalModes == {"decimal", "fraction", "exponent"}

Seen(c, first, p) == \E k \in first .. p - 1 : text[k] = c
MarkedBy(flags, first, p) ==
  /\ "UNSIGNED_SUFFIX" \in flags <=> Seen("u", first, p)
  /\ "LONG_SUFFIX" \in flags <=> Seen("L", first, p)
  /\ "IS_FLOATING_POINT" \in flags <=> Seen(Point, first, p) \/ Seen("e", first, p)
  /\ ~ Seen("d", first, p) /\ ~ Seen("f", first, p)
  /\ "IS_FLOATING_POINT" \in flags => text[p - 1] # "L"

\* The flags that a byte adds.
Marks(c, flags, more) ==
  /\ "UNSIGNED_SUFFIX" \in more <=> ("UNSIGNED_SUFFIX" \in flags \/ c = "u")
  /\ "LONG_SUFFIX" \in more <=> ("LONG_SUFFIX" \in flags \/ c = "L")
  /\ "IS_FLOATING_POINT" \in more <=>
       ("IS_FLOATING_POINT" \in flags \/ c = Point \/ c = "e")
  /\ c # "d" /\ c # "f"
  /\ "IS_FLOATING_POINT" \in more => c # "L"

Typed(x, t) ==
  LET raw == Piece(x, t)
  IN  (IsNumeral(t) /\ ~\E c \in {"x", "b"} : Contains(raw, c))
        => TypedAsWritten(t, raw)
Marked ==
  /\ \A i \in DOMAIN tokens : Typed(text, tokens[i])
  /\ mode \in DecimalModes => MarkedBy(literal.flags, start.first, position)

LEMMA SeenMore ==
  ASSUME NEW first \in Nat, NEW p \in Nat, first <= p, NEW c
  PROVE  Seen(c, first, p + 1) <=> (Seen(c, first, p) \/ text[p] = c)
<1>1. first .. (p + 1) - 1 = (first .. p - 1) \cup {p}
  OBVIOUS
<1> QED BY <1>1, Zenon DEF Seen

LEMMA MarkedMore ==
  ASSUME NEW first \in Nat, NEW p \in Nat, first <= p, NEW flags, NEW more,
         MarkedBy(flags, first, p), Marks(text[p], flags, more)
  PROVE  MarkedBy(more, first, p + 1)
<1>1. (p + 1) - 1 = p
  OBVIOUS
<1>2. \A c : Seen(c, first, p + 1) <=> (Seen(c, first, p) \/ text[p] = c)
  BY SeenMore
<1>3. /\ "UNSIGNED_SUFFIX" \in more <=> Seen("u", first, p + 1)
      /\ "LONG_SUFFIX" \in more <=> Seen("L", first, p + 1)
      /\ "IS_FLOATING_POINT" \in more <=>
           Seen(Point, first, p + 1) \/ Seen("e", first, p + 1)
      /\ ~ Seen("d", first, p + 1) /\ ~ Seen("f", first, p + 1)
  BY <1>2, Zenon DEF MarkedBy, Marks
<1>4. "IS_FLOATING_POINT" \in more => text[(p + 1) - 1] # "L"
  BY <1>1, Zenon DEF Marks
<1> QED BY <1>3, <1>4, Zenon DEF MarkedBy

\* A byte that makes no type.
IsMark(c) == c = Point \/ c \in {"e", "d", "f", "u", "L"}

LEMMA DigitsAreNoMarks ==
  \A c : is_digit(c) \/ c = "_" => ~ IsMark(c)
BY DecimalDigits, Zenon DEF is_digit, IsMark, Point

LEMMA SignsAreNoMarks ==
  \A c \in {"+", "-"} : ~ IsMark(c)
BY Zenon DEF IsMark, Point

LEMMA NoMark ==
  ASSUME NEW c, ~ IsMark(c), NEW flags
  PROVE  Marks(c, flags, flags)
BY Zenon DEF Marks, IsMark

LEMMA MarkedBegin ==
  ASSUME Init
  PROVE  Marked
BY DEF Init, Marked, DecimalModes

LEMMA MarkedStay ==
  ASSUME Marked, text' = text, tokens' = tokens,
         \/ mode' \notin DecimalModes
         \/ UNCHANGED <<position, mode, start, literal>>
  PROVE  Marked'
<1>1. \A i \in DOMAIN tokens' : Typed(text', tokens'[i])
  BY DEF Marked
<1>2. CASE mode' \notin DecimalModes
  BY <1>1, <1>2 DEF Marked
<1>3. CASE UNCHANGED <<position, mode, start, literal>>
  <2>1. MarkedBy(literal.flags, start.first, position)' <=>
          MarkedBy(literal.flags, start.first, position)
    BY <1>3, Zenon DEF MarkedBy, Seen
  <2> QED BY <1>1, <1>3, <2>1 DEF Marked
<1> QED BY <1>2, <1>3

LEMMA MarkedPush ==
  ASSUME IInv, Marked, text' = text, mode' = "main",
         NEW tok, tokens' = Append(tokens, tok), Typed(text, tok)
  PROVE  Marked'
<1>1. tokens \in Seq(Token \cup {tok}) /\ tok \in Token \cup {tok}
  BY Known
<1>2. /\ DOMAIN tokens' = DOMAIN tokens \cup {Len(tokens) + 1}
      /\ \A i \in DOMAIN tokens : tokens'[i] = tokens[i]
      /\ tokens'[Len(tokens) + 1] = tok
  <2> DEFINE T == Token \cup {tok}
             s == tokens
             r == Append(s, tok)
  <2>1. s \in Seq(T) /\ tok \in T /\ tokens' = r
    BY <1>1
  <2> HIDE DEF T, s
  <2>2. /\ DOMAIN r = DOMAIN s \cup {Len(s) + 1}
        /\ \A i \in DOMAIN s : r[i] = s[i]
        /\ r[Len(s) + 1] = tok
    BY <2>1
  <2> QED BY <2>1, <2>2 DEF s
<1>3. \A i \in DOMAIN tokens' : Typed(text', tokens'[i])
  BY <1>2 DEF Marked
<1> QED BY <1>3 DEF Marked, DecimalModes

\* A byte of the literal is read, or none.
LEMMA MarkedReads ==
  ASSUME IInv, Marked, mode \in DecimalModes, position <= Len(text),
         NEW n \in 0 .. 1, NEW m, NEW l, Reads(n, m, l),
         n = 0 => l.flags = literal.flags,
         n = 1 => Marks(text[position], literal.flags, l.flags)
  PROVE  Marked'
<1>1. /\ position' = position + n /\ literal' = l
      /\ text' = text /\ start' = start /\ tokens' = tokens
  BY DEF Reads, Peek
<1>2. \A i \in DOMAIN tokens' : Typed(text', tokens'[i])
  BY <1>1 DEF Marked
<1>3. start.first \in Nat /\ position \in Nat /\ start.first <= position
  BY Known
<1>4. MarkedBy(literal.flags, start.first, position)
  BY DEF Marked
<1>5. MarkedBy(l.flags, start.first, position + n)
  <2>1. CASE n = 0
    <3>1. position + n = position
      BY <1>3, <2>1
    <3> QED BY <1>4, <2>1, <3>1
  <2>2. CASE n = 1
    BY <1>3, <1>4, <2>2, MarkedMore
  <2> QED BY <2>1, <2>2
<1>6. MarkedBy(literal.flags, start.first, position)'
  BY <1>1, <1>5, Zenon DEF MarkedBy, Seen
<1> QED BY <1>2, <1>6 DEF Marked

LEMMA MarkedEnter ==
  ASSUME IInv, Marked, BeginPrefixed \/ BeginDecimal
  PROVE  Marked'
<1>1. text' = text /\ tokens' = tokens /\ position \in Nat
  BY Known DEF BeginPrefixed, BeginDecimal
<1>2. CASE BeginPrefixed
  <2>1. mode' \notin DecimalModes
    BY <1>2 DEF BeginPrefixed, DecimalModes
  <2> QED BY <1>1, <2>1, MarkedStay
<1>3. CASE BeginDecimal
  <2>1. /\ is_digit(text[position]) /\ position' = position + 1
        /\ start'.first = position /\ literal'.flags = {}
    BY <1>3 DEF BeginDecimal, Peek, Current, NoLiteral, Here
  <2>2. position .. position - 1 = {}
    BY <1>1
  <2>3. MarkedBy({}, position, position)
    BY <2>2, Zenon DEF MarkedBy, Seen
  <2>4. Marks(text[position], {}, {})
    BY <2>1, DigitsAreNoMarks, NoMark, Zenon
  <2>5. MarkedBy({}, position, position + 1)
    BY <1>1, <2>3, <2>4, MarkedMore
  <2>6. MarkedBy(literal.flags, start.first, position)'
    BY <1>1, <2>1, <2>5, Zenon DEF MarkedBy, Seen
  <2>7. \A i \in DOMAIN tokens' : Typed(text', tokens'[i])
    BY <1>1 DEF Marked
  <2> QED BY <2>6, <2>7 DEF Marked
<1> QED BY <1>2, <1>3

LEMMA MarkedDigit ==
  ASSUME IInv, Marked, ReadDigit \/ ReadUnderscore
  PROVE  Marked'
<1>0. (~ IsEof <=> position <= Len(text)) /\ literal \in Literal
  BY Known
<1>1. /\ InNumber /\ position <= Len(text) /\ Current = text[position]
      /\ literal \in Literal
  BY <1>0, Zenon DEF ReadDigit, ReadUnderscore, Current
<1>2. PICK l : Reads(1, mode, l) /\ l.flags = literal.flags
  <2>1. CASE ReadDigit
    BY <1>1, <2>1 DEF ReadDigit, Literal
  <2>2. CASE ReadUnderscore
    BY <2>2, Zenon DEF ReadUnderscore
  <2> QED BY <2>1, <2>2
<1>3. CASE mode \in DecimalModes
  <2>1. is_digit(text[position]) \/ text[position] = "_"
    <3>1. CASE ReadDigit
      <4>1. BaseOf[mode] = 10
        BY <1>3, <3>1 DEF ReadDigit, DecimalModes, BaseOf
      <4> QED BY <1>1, <3>1, <4>1, Zenon DEF ReadDigit, is_digit
    <3>2. CASE ReadUnderscore
      BY <1>1, <3>2, Zenon DEF ReadUnderscore
    <3> QED BY <3>1, <3>2, Zenon
  <2>2. Marks(text[position], literal.flags, l.flags)
    BY <1>2, <2>1, DigitsAreNoMarks, NoMark, Zenon
  <2>3. 1 \in 0 .. 1
    OBVIOUS
  <2> QED BY <1>1, <1>2, <1>3, <2>2, <2>3, MarkedReads
<1>4. CASE mode \notin DecimalModes
  BY <1>2, <1>4, MarkedStay DEF Reads
<1> QED BY <1>3, <1>4

LEMMA MarkedFraction ==
  ASSUME IInv, Marked, ReadFraction \/ EndOfFraction \/ ReadExponent \/ EndOfExponent
  PROVE  Marked'
<1>0. (~ IsEof <=> position <= Len(text)) /\ literal \in Literal
  BY Known
<1>1. /\ mode \in DecimalModes /\ position <= Len(text) /\ literal \in Literal
      /\ Current = text[position]
  BY <1>0, Zenon DEF ReadFraction, EndOfFraction, ReadExponent, EndOfExponent, Reading, In,
     DecimalModes, Current
<1>2. 0 \in 0 .. 1 /\ 1 \in 0 .. 1 /\ 0 # 1
  OBVIOUS
<1>3. ASSUME ~ IsMark(text[position]), NEW l, Reads(1, mode, l), l.flags = literal.flags
      PROVE  Marked'
  <2>1. Marks(text[position], literal.flags, l.flags)
    BY <1>3, NoMark, Zenon
  <2> QED BY <1>1, <1>2, <1>3, <2>1, MarkedReads
<1>4. CASE ReadFraction
  <2> DEFINE l == [literal EXCEPT !.fraction = TRUE]
  <2>1. Reads(1, mode, l) /\ l.flags = literal.flags
    BY <1>1, <1>4 DEF ReadFraction, Literal
  <2>2. ~ IsMark(text[position])
    BY <1>1, <1>4, DigitsAreNoMarks, Zenon DEF ReadFraction
  <2> HIDE DEF l
  <2> QED BY <1>3, <2>1, <2>2
<1>5. CASE ReadExponent
  <2>1. Reads(1, mode, literal)
    BY <1>5, Zenon DEF ReadExponent
  <2>2. ~ IsMark(text[position])
    BY <1>1, <1>5, DigitsAreNoMarks, SignsAreNoMarks, Zenon DEF ReadExponent
  <2> QED BY <1>3, <2>1, <2>2
<1>6. CASE EndOfFraction \/ EndOfExponent
  <2>1. Stop("error") \/ Reads(0, "decimal", literal)
    BY <1>6, Zenon DEF EndOfFraction, EndOfExponent
  <2>2. Stop("error") => Marked'
    BY MarkedStay DEF Stop
  <2> QED BY <1>1, <1>2, <2>1, <2>2, MarkedReads
<1> QED BY <1>4, <1>5, <1>6

LEMMA MarkedSuffix ==
  ASSUME IInv, Marked, ReadPoint \/ BeginExponent \/ ReadUnsignedSuffix \/ ReadLongSuffix
  PROVE  Marked'
<1>1. /\ mode \in DecimalModes /\ position <= Len(text) /\ literal \in Literal
      /\ Current = text[position]
  BY Known, Zenon DEF ReadPoint, BeginExponent, ReadUnsignedSuffix, ReadLongSuffix,
     Reading, In, DecimalModes, Current
<1>2. 1 \in 0 .. 1 /\ 1 # 0
  OBVIOUS
<1>3. ASSUME NEW m, NEW l, Reads(1, m, l), Marks(text[position], literal.flags, l.flags)
      PROVE  Marked'
  BY <1>1, <1>2, <1>3, MarkedReads
<1>4. ASSUME NEW end, Stop(end) PROVE Marked'
  BY <1>4, MarkedStay DEF Stop
<1>5. CASE ReadPoint
  <2> DEFINE more == literal.flags \cup {"IS_FLOATING_POINT"}
             l == [literal EXCEPT !.flags = more, !.fraction = FALSE]
  <2>1. text[position] = Point /\ (Stop("error") \/ Reads(1, "fraction", l))
    BY <1>1, <1>5, Zenon DEF ReadPoint, Point
  <2>2. l.flags = more
    BY <1>1 DEF Literal
  <2>3. Marks(text[position], literal.flags, more)
    BY <2>1, Zenon DEF Marks, Point
  <2> HIDE DEF l, more
  <2> QED BY <1>3, <1>4, <2>1, <2>2, <2>3
<1>6. CASE BeginExponent
  <2> DEFINE more == literal.flags \cup {"IS_FLOATING_POINT", "HAS_EXPONENT"}
             l == [literal EXCEPT !.flags = more]
  <2>1. text[position] = "e" /\ Reads(1, "exponent", l)
    BY <1>1, <1>6, Zenon DEF BeginExponent
  <2>2. l.flags = more
    BY <1>1 DEF Literal
  <2>3. Marks(text[position], literal.flags, more)
    BY <2>1, Zenon DEF Marks, Point
  <2> HIDE DEF l, more
  <2> QED BY <1>3, <2>1, <2>2, <2>3
<1>7. CASE ReadUnsignedSuffix
  <2> DEFINE more == literal.flags \cup {"UNSIGNED_SUFFIX"}
             l == [literal EXCEPT !.flags = more]
  <2>1. text[position] = "u" /\ (Stop("error") \/ Reads(1, mode, l))
    BY <1>1, <1>7, Zenon DEF ReadUnsignedSuffix, CanBeUnsigned
  <2>2. l.flags = more
    BY <1>1 DEF Literal
  <2>3. Marks(text[position], literal.flags, more)
    BY <2>1, Zenon DEF Marks, Point
  <2> HIDE DEF l, more
  <2> QED BY <1>3, <1>4, <2>1, <2>2, <2>3
<1>8. CASE ReadLongSuffix
  <2> DEFINE more == literal.flags \cup {"LONG_SUFFIX"}
             l == [literal EXCEPT !.flags = more]
  <2>1. text[position] = "L" /\ Reads(1, mode, l) /\ "IS_FLOATING_POINT" \notin literal.flags
    BY <1>1, <1>8, Zenon DEF ReadLongSuffix, CanBeLong, IsFloating
  <2>2. l.flags = more
    BY <1>1 DEF Literal
  <2>3. Marks(text[position], literal.flags, more)
    BY <2>1, Zenon DEF Marks, Point
  <2> HIDE DEF l, more
  <2> QED BY <1>3, <2>1, <2>2, <2>3
<1> QED BY <1>5, <1>6, <1>7, <1>8
\* What the text read so far holds, and ends with.
LEMMA TextShows ==
  ASSUME IInv, NEW first \in Nat \ {0}, NEW p \in Nat, first < p, p <= Len(text) + 1
  PROVE  LET raw == TextOf(first, p - first)
         IN  /\ \A c : Contains(raw, c) <=> Seen(c, first, p)
             /\ Last(raw) = text[p - 1]
<1> DEFINE n == p - first
           raw == TextOf(first, n)
<1>1. n \in Nat \ {0} /\ first + n = p /\ text \in Seq(Byte) /\ first + n <= Len(text) + 1
  BY Known
<1> HIDE DEF n
<1>2. Len(raw) = n /\ \A k \in 1 .. n : raw[k] = text[first + k - 1]
  BY <1>1, WorthOfText
<1> HIDE DEF raw
<1>3. Last(raw) = text[p - 1]
  <2>1. first + n - 1 = p - 1 /\ n \in 1 .. n
    BY <1>1
  <2> QED BY <1>2, <2>1 DEF Last
<1>4. ASSUME NEW c PROVE Contains(raw, c) <=> Seen(c, first, p)
  <2>1. Contains(raw, c) <=> \E k \in 1 .. n : text[first + k - 1] = c
    BY <1>2 DEF Contains
  <2>2. ASSUME NEW k \in 1 .. n, text[first + k - 1] = c PROVE Seen(c, first, p)
    <3>1. first + k - 1 \in first .. p - 1
      BY <1>1, <2>2
    <3> QED BY <2>2, <3>1, Zenon DEF Seen
  <2>3. ASSUME NEW k \in first .. p - 1, text[k] = c
        PROVE  \E j \in 1 .. n : text[first + j - 1] = c
    <3>1. k - first + 1 \in 1 .. n /\ first + (k - first + 1) - 1 = k
      BY <1>1
    <3> QED BY <2>3, <3>1
  <2> QED BY <2>1, <2>2, <2>3, Zenon DEF Seen
<1> QED BY <1>3, <1>4 DEF raw, n

LEMMA MarksOfText ==
  ASSUME IInv, NEW first \in Nat \ {0}, NEW p \in Nat, first < p, p <= Len(text) + 1,
         NEW flags, MarkedBy(flags, first, p)
  PROVE  LET raw == TextOf(first, p - first)
         IN  /\ "UNSIGNED_SUFFIX" \in flags <=> Contains(raw, "u")
             /\ "LONG_SUFFIX" \in flags <=> Contains(raw, "L")
             /\ "IS_FLOATING_POINT" \in flags <=> Floats(raw)
             /\ "IS_FLOATING_POINT" \in flags => Last(raw) # "L"
             /\ Last(raw) \notin {"d", "f"}
<1> DEFINE raw == TextOf(first, p - first)
<1>1. (\A c : Contains(raw, c) <=> Seen(c, first, p)) /\ Last(raw) = text[p - 1]
  BY TextShows
<1> HIDE DEF raw
<1>2. p - 1 \in first .. p - 1
  OBVIOUS
<1>3. text[p - 1] \notin {"d", "f"}
  BY <1>2, Zenon DEF MarkedBy, Seen
<1>4. "IS_FLOATING_POINT" \in flags <=> Floats(raw)
  BY <1>1, <1>3, Zenon DEF MarkedBy, Floats, Point
<1>5. /\ "UNSIGNED_SUFFIX" \in flags <=> Contains(raw, "u")
      /\ "LONG_SUFFIX" \in flags <=> Contains(raw, "L")
      /\ "IS_FLOATING_POINT" \in flags => Last(raw) # "L"
  BY <1>1, Zenon DEF MarkedBy
<1> QED BY <1>1, <1>3, <1>4, <1>5 DEF raw

LEMMA NumeralTyped ==
  ASSUME NEW raw, NEW l \in Literal, NEW tok,
         "UNSIGNED_SUFFIX" \in l.flags <=> Contains(raw, "u"),
         "LONG_SUFFIX" \in l.flags <=> Contains(raw, "L"),
         "IS_FLOATING_POINT" \in l.flags <=> Floats(raw),
         "IS_FLOATING_POINT" \in l.flags => Last(raw) # "L",
         Last(raw) \notin {"d", "f"},
         tok.type = TypeOfLiteral(l), ~ Floats(raw) => tok.value = l.value
  PROVE  TypedAsWritten(tok, raw)
<1> DEFINE limit == IF Contains(raw, "u") THEN UI32_MAX ELSE I32_MAX
<1>1. CASE Floats(raw)
  BY <1>1 DEF TypedAsWritten, TypeOfLiteral, IntegerType
<1>2. CASE ~ Floats(raw)
  <2>1. NeedsLong(raw, tok.value) <=> Contains(raw, "L") \/ l.value > limit
    BY <1>2 DEF NeedsLong
  <2>2. CASE Contains(raw, "u")
    BY <1>2, <2>1, <2>2 DEF TypedAsWritten, TypeOfLiteral, IntegerType
  <2>3. CASE ~ Contains(raw, "u")
    BY <1>2, <2>1, <2>3 DEF TypedAsWritten, TypeOfLiteral, IntegerType
  <2> QED BY <2>2, <2>3
<1> QED BY <1>1, <1>2

LEMMA MarkedNumber ==
  ASSUME IInv, Values, Marked, EndOfNumber \/ EndWithSuffix
  PROVE  Marked'
<1>0. /\ (~ IsEof <=> position <= Len(text)) /\ literal \in Literal
      /\ start.first \in Nat \ {0} /\ position \in Nat /\ start.first <= position
      /\ Len(text) \in Nat /\ position <= Len(text) + 1
  <2>1. /\ (~ IsEof <=> position <= Len(text)) /\ literal \in Literal
        /\ start.first \in 1 .. position /\ position \in 1 .. Len(text) + 1
        /\ Len(text) \in Nat
    BY Known, Zenon
  <2> QED BY <2>1
<1>1. ASSUME NEW type, NEW value, NEW end, PushNumber(type, value, end),
             \A tok : /\ tok.type = type /\ tok.value = value
                      /\ tok.first = start.first /\ tok.size = end - start.first
                      => Typed(text, tok)
      PROVE  Marked'
  <2> DEFINE size == end - start.first
             tok == [TokenAt(start, type, start.first, size) EXCEPT !.value = value]
  <2>1. mode' = "main" /\ text' = text /\ tokens' = Append(tokens, tok)
    <3>1. tokens' = Append(tokens, tok)
      BY <1>1, Zenon DEF PushNumber
    <3> HIDE DEF tok
    <3> QED BY <1>1, <3>1 DEF PushNumber
  <2>2. tok.type = type /\ tok.value = value /\ tok.first = start.first /\ tok.size = size
    <3> HIDE DEF size
    <3> QED BY DEF TokenAt
  <2> HIDE DEF tok
  <2>3. Typed(text, tok)
    BY <1>1, <2>2
  <2> QED BY <2>1, <2>3, MarkedPush
<1>2. \A tok, first, size : tok.first = first /\ tok.size = size =>
                              Piece(text, tok) = TextOf(first, size)
  BY DEF Piece, TextOf
<1>3. mode = "decimal" =>
        start.first < position /\ MarkedBy(literal.flags, start.first, position)
  BY DEF IInv, UnderWay, NumberModes, Marked, DecimalModes
<1>4. CASE EndWithSuffix
  <2> DEFINE type == FloatingSuffix[Current]
             p == position + 1
             raw == TextOf(start.first, p - start.first)
  <2>1. /\ mode = "decimal" /\ position <= Len(text)
        /\ Current \in {"L", "d", "f"} /\ (Current = "L" => IsFloating)
        /\ Stop("asserted") \/ PushNumber(type, 0, p)
    BY <1>0, <1>4 DEF EndWithSuffix, CanBeLong, Reading, In
  <2>2. start.first < p /\ p <= Len(text) + 1 /\ p \in Nat /\ p - 1 = position
    BY <1>0, <2>1
  <2>3. \A c : Seen(c, start.first, position) => Seen(c, start.first, p)
    BY <1>0, SeenMore
  <2> HIDE DEF type, p
  <2>4. /\ \A c : Contains(raw, c) <=> Seen(c, start.first, p)
        /\ Last(raw) = text[p - 1]
    BY <1>0, <2>2, TextShows
  <2>5. Last(raw) = Current
    BY <2>2, <2>4 DEF Current
  <2> HIDE DEF raw
  <2>6. Floats(raw)
    <3>1. CASE Current \in {"d", "f"}
      BY <2>5, <3>1, Zenon DEF Floats
    <3>2. CASE IsFloating
      <4>1. Seen(Point, start.first, position) \/ Seen("e", start.first, position)
        BY <1>3, <2>1, <3>2, Zenon DEF MarkedBy, IsFloating
      <4>2. Contains(raw, Point) \/ Contains(raw, "e")
        BY <2>3, <2>4, <4>1, Zenon
      <4> QED BY <4>2, Zenon DEF Floats, Point
    <3> QED BY <2>1, <3>1, <3>2
  <2>7. ASSUME NEW tok, tok.type = type PROVE TypedAsWritten(tok, raw)
    <3>1. /\ type \notin IntegerType \cup {"UNKNOWN"}
          /\ type = "F32" <=> Current = "f"
          /\ type = "REAL" <=> Current = "L"
      BY <2>1 DEF type, FloatingSuffix, IntegerType
    <3> QED BY <2>1, <2>5, <2>6, <2>7, <3>1, Zenon DEF TypedAsWritten
  <2>8. ASSUME NEW tok, tok.type = type, tok.first = start.first,
               tok.size = p - start.first
        PROVE  Typed(text, tok)
    <3>1. Piece(text, tok) = raw
      BY <1>2, <2>8 DEF raw
    <3> QED BY <2>7, <2>8, <3>1, Zenon DEF Typed
  <2>9. PushNumber(type, 0, p) => Marked'
    BY <1>1, <2>8
  <2>10. Stop("asserted") => Marked'
    BY MarkedStay DEF Stop
  <2> QED BY <2>1, <2>9, <2>10
<1>5. CASE EndOfNumber
  <2> DEFINE type == TypeOfLiteral(literal)
             value == IF IsFloating THEN 0 ELSE literal.value
             raw == TextOf(start.first, position - start.first)
  <2>1. /\ PushNumber(type, value, position)
        /\ mode \in {"hexadecimal", "binary", "decimal"}
    BY <1>5 DEF EndOfNumber, BaseOf
  <2>2. ASSUME NEW tok, tok.type = type, tok.value = value,
               ~\E c \in {"x", "b"} : Contains(raw, c)
        PROVE  TypedAsWritten(tok, raw)
    <3>1. mode = "decimal"
      BY <2>1, <2>2, PrefixShows
    <3>2. /\ "UNSIGNED_SUFFIX" \in literal.flags <=> Contains(raw, "u")
          /\ "LONG_SUFFIX" \in literal.flags <=> Contains(raw, "L")
          /\ "IS_FLOATING_POINT" \in literal.flags <=> Floats(raw)
          /\ "IS_FLOATING_POINT" \in literal.flags => Last(raw) # "L"
          /\ Last(raw) \notin {"d", "f"}
      BY <1>0, <1>3, <3>1, MarksOfText
    <3>3. ~ Floats(raw) => value = literal.value
      BY <3>2 DEF IsFloating
    <3> HIDE DEF raw, value
    <3> QED BY <1>0, <2>2, <3>2, <3>3, NumeralTyped
  <2> HIDE DEF type, value
  <2>3. \A tok : /\ tok.type = type /\ tok.value = value
                 /\ tok.first = start.first /\ tok.size = position - start.first
                 => Typed(text, tok)
    BY <1>2, <2>2 DEF Typed
  <2> QED BY <1>1, <2>1, <2>3
<1> QED BY <1>4, <1>5

\* A token that is no numeral.
LEMMA MarkedOther ==
  ASSUME IInv, Marked, CloseString \/ ReadOperator \/ EndOfIdentifier
  PROVE  Marked'
<1> DEFINE Wordlike == {"STRING_LITERAL_RAW", "STRING_LITERAL", "SYNTAXE_OPERATOR",
                        "KEYWORD", "IDENTIFIER"}
<1>1. ASSUME NEW from, NEW type \in Wordlike, NEW first, NEW size
      PROVE  TokenAt(from, type, first, size).type \in Wordlike
  BY DEF TokenAt
<1>2. mode' = "main" /\ text' = text
  BY DEF CloseString, ReadOperator, EndOfIdentifier, InMain, In
<1>3. ASSUME NEW tok, tok.type \in Wordlike, tokens' = Append(tokens, tok)
      PROVE  Marked'
  <2>1. Typed(text, tok)
    BY <1>3 DEF Typed, IsNumeral, NumericType
  <2> QED BY <1>2, <1>3, <2>1, MarkedPush
<1>4. CASE ReadOperator
  <2> DEFINE size == IF Pair \in Operator2 THEN 2 ELSE 1
  <2>1. tokens' = Append(tokens, TokenAt(Here, "SYNTAXE_OPERATOR", position, size))
    BY <1>4 DEF ReadOperator
  <2> HIDE DEF size
  <2> QED BY <1>1, <1>3, <2>1
<1>5. CASE EndOfIdentifier
  <2> DEFINE size == position - start.first
             type == IF is_keyword(TextOf(start.first, size)) THEN "KEYWORD" ELSE "IDENTIFIER"
  <2>1. tokens' = Append(tokens, TokenAt(start, type, start.first, size))
    BY <1>5 DEF EndOfIdentifier
  <2>2. type \in Wordlike
    OBVIOUS
  <2> HIDE DEF size, type
  <2> QED BY <1>1, <1>3, <2>1, <2>2
<1>6. CASE CloseString
  <2> DEFINE first == start.first + 1
             size == position - first
             raw == TokenAt(start, "STRING_LITERAL_RAW", first, size)
             polished == polish_string_literal(TextOf(first, size))
             tok == IF mode = "raw_string" THEN raw
                    ELSE [raw EXCEPT !.type = "STRING_LITERAL", !.string = polished]
  <2>1. tokens' = Append(tokens, tok)
    BY <1>6 DEF CloseString
  <2> HIDE DEF first, size, polished
  <2>2. tok.type \in Wordlike
    BY DEF TokenAt
  <2> HIDE DEF tok
  <2> QED BY <1>3, <2>1, <2>2
<1> QED BY <1>4, <1>5, <1>6

LEMMA MarkedStep ==
  ASSUME IInv, Values, Marked, [Next]_vars
  PROVE  Marked'
<1>1. ASSUME text' = text, tokens' = tokens, mode' \notin DecimalModes
      PROVE  Marked'
  BY <1>1, MarkedStay
<1>2. ASSUME NEW end, Stop(end) PROVE Marked'
  BY <1>2, MarkedStay DEF Stop
<1>3. CASE ReadFile
  <2>1. BeginFile => text' = text /\ tokens' = tokens /\ mode' = "main"
    BY DEF BeginFile
  <2> QED BY <1>1, <1>2, <1>3, <2>1
          DEF ReadFile, EmptyFile, CutBom, EndOfFile, DecimalModes
<1>4. CASE ReadGap
  <2>1. CASE ~ OpenBlockCommentAtEof
    <3>1. text' = text /\ tokens' = tokens
          /\ mode' \in {"main", "line_comment", "block_comment"}
      BY <1>4, <2>1 DEF ReadGap, ReadBlank, ReadSingleQuote, BeginComment,
         ReadLineComment, ReadBlockComment, InMain, In
    <3> QED BY <1>1, <3>1 DEF DecimalModes
  <2> QED BY <1>2, <2>1 DEF OpenBlockCommentAtEof
<1>5. CASE ReadStringLiteral
  <2>1. CASE BeginString \/ ReadString
    <3>1. text' = text /\ tokens' = tokens /\ mode' \in StringModes
      BY <2>1, Zenon DEF BeginString, ReadString, InString, CloseOf, StringModes
    <3> QED BY <1>1, <3>1 DEF DecimalModes, StringModes
  <2>2. QuoteAtEof \/ OpenStringAtEof => Marked'
    BY <1>2, Zenon DEF QuoteAtEof, OpenStringAtEof
  <2> QED BY <1>5, <2>1, <2>2, MarkedOther, Zenon DEF ReadStringLiteral
<1>6. CASE ReadWord
  <2>1. CASE BeginIdentifier \/ ReadIdentifier
    <3>1. text' = text /\ tokens' = tokens /\ mode' = "identifier"
      BY <2>1 DEF BeginIdentifier, ReadIdentifier, InIdentifier, In
    <3> QED BY <1>1, <3>1 DEF DecimalModes
  <2> QED BY <1>6, <2>1, MarkedOther DEF ReadWord
<1>7. CASE ReadNumber
  <2>1. NumberAtEof \/ HexadecimalFloat => Marked'
    BY <1>2 DEF NumberAtEof, HexadecimalFloat
  <2> QED BY <1>7, <2>1, MarkedEnter, MarkedDigit, MarkedSuffix, MarkedFraction,
             MarkedNumber DEF ReadNumber
<1>8. CASE UNCHANGED vars
  BY <1>8, MarkedStay DEF vars
<1> QED BY <1>3, <1>4, <1>5, <1>6, <1>7, <1>8 DEF Next, lex, Lexed

LEMMA NumeralsRight ==
  ASSUME Values, Marked
  PROVE  NumeralsExact
<1> SUFFICES ASSUME NEW i \in DOMAIN tokens,
                    IsNumeral(tokens[i]),
                    ~\E c \in {"x", "b"} :
                        Contains(TextOf(tokens[i].first, tokens[i].size), c)
             PROVE  LET t == tokens[i]
                        raw == TextOf(t.first, t.size)
                    IN  /\ TypedAsWritten(t, raw)
                        /\ t.type \in IntegerType /\ WorthOf(raw) <= UI64_MAX =>
                             t.value = WorthOf(raw)
  BY Zenon DEF NumeralsExact
<1>1. Typed(text, tokens[i]) /\ RightInteger(text, tokens[i])
  BY Zenon DEF Values, Marked, Right
<1> QED BY <1>1, Zenon DEF Typed, RightInteger, Piece, TextOf

\* A numeral in base ten is of the type its text asks for, by its point, its
\* exponent and its suffixes wherever they are, and an integer is worth what its
\* digits say, whatever the text and the widths of the integers.
THEOREM NumeralsAlwaysExact == Spec => []NumeralsExact
<1>1. Init => Marked
  BY MarkedBegin
<1>2. IInv /\ Values /\ Marked /\ [Next]_vars => Marked'
  BY MarkedStep
<1>3. Values /\ Marked => NumeralsExact
  BY NumeralsRight
<1> QED BY <1>1, <1>2, <1>3, InductiveInvariant, ValuesInvariant, PTL DEF Spec
=============================================================================
