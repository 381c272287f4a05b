--------------------------- MODULE PEBackendsProofs ---------------------------
(***************************************************************************)
(* What the writers of executables promise, for any number of literals and *)
(* of libraries, of any size: the pieces of the file follow each other,    *)
(* the headers, which were written before and patched after, say where     *)
(* each section is in the file, the sections are mapped one after another, *)
(* and a loader that follows the import directory finds the tables and the *)
(* names when the literals leave them on their page.                       *)
(*                                                                         *)
(* SumTo is a recursive function: that it is defined, and what it is, is   *)
(* proved by looking at the least number for which it would not.           *)
(***************************************************************************)
EXTENDS PEBackends, FiniteSetTheorems, SequenceTheorems, WellFoundedInduction, TLAPS

-----------------------------------------------------------------------------
(* Sums *)

LEMMA LessIsWellFounded ==
  \A m, n \in Nat : n < m => <<n, m>> \in OpToRel(<, Nat)
BY DEF OpToRel

LEMMA LeastNumber ==
  ASSUME NEW S, S \subseteq Nat, S # {}
  PROVE  \E m \in S : \A n \in S : m <= n
<1>1. PICK m \in S : \A n \in S : ~ (<<n, m>> \in OpToRel(<, Nat))
  BY NatLessThanWellFounded, WFMin
<1>2. \A n \in S : ~ (n < m)
  BY <1>1, LessIsWellFounded, Zenon
<1>3. \A n \in S : m <= n
  BY <1>2
<1> QED BY <1>3

\* The function SumTo is defined with, up to n.
IsTotal(sizes, n, total) ==
  total = [i \in 0 .. n |-> IF i = 0 THEN 0 ELSE total[i - 1] + sizes[i]]

LEMMA TotalExists ==
  ASSUME NEW sizes, NEW n \in Nat, \A i \in 1 .. n : sizes[i] \in Int
  PROVE  \E total : IsTotal(sizes, n, total) /\ \A i \in 0 .. n : total[i] \in Int
<1> DEFINE P(m) == \E total : /\ IsTotal(sizes, m, total)
                              /\ \A i \in 0 .. m : total[i] \in Int
           S == {m \in 0 .. n : ~ P(m)}
<1>1. SUFFICES ASSUME S # {} PROVE FALSE
  OBVIOUS
<1>2. S \subseteq Nat
  OBVIOUS
<1>3. PICK m \in S : \A k \in S : m <= k
  <2> HIDE DEF S
  <2> QED BY <1>1, <1>2, LeastNumber
<1>4. m # 0
  <2> DEFINE t == [i \in 0 .. 0 |-> 0]
  <2>1. IsTotal(sizes, 0, t) /\ \A i \in 0 .. 0 : t[i] \in Int
    BY DEF IsTotal
  <2>2. P(0)
    BY <2>1
  <2> QED BY <1>3, <2>2
<1>5. P(m - 1)
  BY <1>3, <1>4
<1>6. PICK total : IsTotal(sizes, m - 1, total) /\ \A i \in 0 .. m - 1 : total[i] \in Int
  BY <1>5
<1> DEFINE t == [i \in 0 .. m |-> IF i = m THEN total[m - 1] + sizes[m] ELSE total[i]]
<1>7. m \in Nat \ {0} /\ m <= n
  BY <1>3, <1>4
<1>8. \A i \in 0 .. m - 1 : total[i] = IF i = 0 THEN 0 ELSE total[i - 1] + sizes[i]
  BY <1>6 DEF IsTotal
<1>9. IsTotal(sizes, m, t)
  <2>1. \A i \in 0 .. m : t[i] = IF i = 0 THEN 0 ELSE t[i - 1] + sizes[i]
    BY <1>7, <1>8
  <2> QED BY <2>1 DEF IsTotal
<1>10. \A i \in 0 .. m : t[i] \in Int
  BY <1>6, <1>7
<1>11. P(m)
  <2> HIDE DEF t
  <2> QED BY <1>9, <1>10
<1> QED BY <1>3, <1>11

LEMMA TotalsAgree ==
  ASSUME NEW sizes, NEW n \in Nat, NEW m \in 0 .. n,
         NEW a, IsTotal(sizes, n, a), NEW b, IsTotal(sizes, m, b)
  PROVE  a[m] = b[m]
<1> DEFINE S == {k \in 0 .. m : a[k] # b[k]}
<1>1. SUFFICES ASSUME S # {} PROVE FALSE
  OBVIOUS
<1>2. S \subseteq Nat
  OBVIOUS
<1>3. PICK k \in S : \A j \in S : k <= j
  <2> HIDE DEF S
  <2> QED BY <1>1, <1>2, LeastNumber
<1>4. /\ a[k] = IF k = 0 THEN 0 ELSE a[k - 1] + sizes[k]
      /\ b[k] = IF k = 0 THEN 0 ELSE b[k - 1] + sizes[k]
  BY <1>3 DEF IsTotal
<1>5. k # 0 => a[k - 1] = b[k - 1]
  BY <1>3
<1> QED BY <1>3, <1>4, <1>5

LEMMA SumIsTotal ==
  ASSUME NEW sizes, NEW n \in Nat, NEW t, IsTotal(sizes, n, t)
  PROVE  SumTo(sizes, n) = t[n]
<1> DEFINE c == CHOOSE total : IsTotal(sizes, n, total)
<1>1. IsTotal(sizes, n, c)
  BY Zenon
<1>2. SumTo(sizes, n) = c[n]
  BY DEF SumTo, IsTotal
<1> HIDE DEF c
<1> QED BY <1>1, <1>2, TotalsAgree

\* The sum of the first n sizes is the one of the first n - 1, and the last.
LEMMA SumRecurrence ==
  ASSUME NEW sizes, NEW n \in Nat, \A i \in 1 .. n : sizes[i] \in Int
  PROVE  /\ SumTo(sizes, n) \in Int
         /\ SumTo(sizes, n) = IF n = 0 THEN 0 ELSE SumTo(sizes, n - 1) + sizes[n]
<1>1. PICK a : IsTotal(sizes, n, a) /\ \A i \in 0 .. n : a[i] \in Int
  BY TotalExists
<1>2. SumTo(sizes, n) = a[n]
  BY <1>1, SumIsTotal
<1>3. a[n] = IF n = 0 THEN 0 ELSE a[n - 1] + sizes[n]
  BY <1>1 DEF IsTotal
<1>4. ASSUME n # 0 PROVE SumTo(sizes, n - 1) = a[n - 1]
  <2>1. n - 1 \in Nat /\ \A i \in 1 .. n - 1 : sizes[i] \in Int
    BY <1>4
  <2>2. PICK b : IsTotal(sizes, n - 1, b)
    BY <2>1, TotalExists
  <2>3. SumTo(sizes, n - 1) = b[n - 1]
    BY <2>1, <2>2, SumIsTotal
  <2>4. a[n - 1] = b[n - 1]
    BY <1>1, <1>4, <2>1, <2>2, TotalsAgree
  <2> QED BY <2>3, <2>4
<1> QED BY <1>1, <1>2, <1>3, <1>4

\* Sizes that agree have the same sum.
LEMMA SumOfSame ==
  ASSUME NEW a, NEW b, NEW n \in Nat, \A i \in 1 .. n : a[i] \in Int /\ a[i] = b[i]
  PROVE  SumTo(a, n) = SumTo(b, n)
<1>1. PICK t : IsTotal(a, n, t)
  BY TotalExists
<1>2. \A i \in 0 .. n : t[i] = IF i = 0 THEN 0 ELSE t[i - 1] + b[i]
  BY <1>1 DEF IsTotal
<1>3. IsTotal(b, n, t)
  BY <1>1, <1>2 DEF IsTotal
<1> QED BY <1>1, <1>3, SumIsTotal

LEMMA SumIsNat ==
  ASSUME NEW sizes, NEW n \in Nat, \A i \in 1 .. n : sizes[i] \in Nat
  PROVE  SumTo(sizes, n) \in Nat
<1> DEFINE S == {m \in 0 .. n : SumTo(sizes, m) \notin Nat}
<1>1. SUFFICES ASSUME S # {} PROVE FALSE
  OBVIOUS
<1>2. S \subseteq Nat
  OBVIOUS
<1>3. PICK k \in S : \A j \in S : k <= j
  <2> HIDE DEF S
  <2> QED BY <1>1, <1>2, LeastNumber
<1>4. k \in 0 .. n /\ k \in Nat /\ \A i \in 1 .. k : sizes[i] \in Int
  BY <1>3
<1>5. SumTo(sizes, k) = IF k = 0 THEN 0 ELSE SumTo(sizes, k - 1) + sizes[k]
  BY <1>4, SumRecurrence
<1>6. k # 0 => SumTo(sizes, k - 1) \in Nat /\ sizes[k] \in Nat
  BY <1>3, <1>4
<1> QED BY <1>3, <1>5, <1>6

\* A sum of the first sizes is at most the sum of more of them.
LEMMA SumGrows ==
  ASSUME NEW sizes, NEW n \in Nat, \A i \in 1 .. n : sizes[i] \in Nat, NEW m \in 0 .. n
  PROVE  SumTo(sizes, m) <= SumTo(sizes, n)
<1> DEFINE S == {k \in m .. n : ~ (SumTo(sizes, m) <= SumTo(sizes, k))}
<1>1. SUFFICES ASSUME S # {} PROVE FALSE
  OBVIOUS
<1>2. S \subseteq Nat
  OBVIOUS
<1>3. PICK k \in S : \A j \in S : k <= j
  <2> HIDE DEF S
  <2> QED BY <1>1, <1>2, LeastNumber
<1>4. k \in m .. n /\ k \in Nat /\ \A i \in 1 .. k : sizes[i] \in Nat
  BY <1>3
<1>5. /\ SumTo(sizes, k) = IF k = 0 THEN 0 ELSE SumTo(sizes, k - 1) + sizes[k]
      /\ SumTo(sizes, m) \in Nat
  BY <1>4, SumRecurrence, SumIsNat
<1>6. k # m
  BY <1>3, <1>5
<1>7. SumTo(sizes, m) <= SumTo(sizes, k - 1) /\ SumTo(sizes, k - 1) \in Nat
  <2>1. k - 1 \in Nat /\ k - 1 \in m .. n /\ \A i \in 1 .. k - 1 : sizes[i] \in Nat
    BY <1>4, <1>6
  <2> QED BY <1>3, <2>1, SumIsNat
<1> QED BY <1>3, <1>4, <1>5, <1>6, <1>7

-----------------------------------------------------------------------------
(* Sizes and addresses *)

LEMMA Aligned ==
  ASSUME NEW n \in Nat, NEW unit \in {512, 4096}
  PROVE  LET a == compute_aligned_size(n, unit)
         IN  a \in Nat /\ a % unit = 0 /\ n < a /\ a <= n + unit
BY DEF compute_aligned_size

LEMMA OnPages ==
  ASSUME NEW n \in Nat
  PROVE  /\ compute_aligned_size(n, 4096) \in Nat /\ n < compute_aligned_size(n, 4096)
         /\ compute_aligned_size(n, 4096) % 4096 = 0
BY DEF compute_aligned_size

\* An address that is aligned stays, and a size before it counts for itself.
LEMMA AlignedFrom ==
  ASSUME NEW n \in Nat, NEW a \in Nat, a % 4096 = 0
  PROVE  compute_aligned_size(a + n, 4096) = a + compute_aligned_size(n, 4096)
BY DEF compute_aligned_size

SectionNames == {"text", "rdata", "idata"}
Pointers == [s \in SectionNames |->
  IF s = "text" THEN text_pointer_to_raw_data
  ELSE IF s = "rdata" THEN rdata_pointer_to_raw_data ELSE idata_pointer_to_raw_data]
RawSizes == [s \in SectionNames |-> SizeOfRawData(s)]

InputOK ==
  /\ function \in Functions
  /\ input.literals \in Seq(Nat) /\ input.libraries \in Seq(Nat)

LEMMA LiteralsSum ==
  ASSUME InputOK
  PROVE  Sum(input.literals) \in Nat
<1>1. /\ Len(input.literals) \in Nat
      /\ \A i \in 1 .. Len(input.literals) : input.literals[i] \in Nat
  BY LenProperties, ElementOfSeq DEF InputOK
<1> QED BY <1>1, SumIsNat DEF Sum

\* Where everything is, whatever the writer and the input.
Layout ==
  /\ HeadersEnd \in 1 .. 1023
  /\ text_pointer_to_raw_data = 1024 /\ text_section_address = 4096
  /\ SizeOfRawData("text") = 512 /\ SizeOfRawData("idata") = 512
  /\ rdata_pointer_to_raw_data = 1536 /\ rdata_section_address = 8192
  /\ SizeOfRawData("rdata") = compute_aligned_size(Sum(input.literals), 512)
  /\ SizeOfRawData("rdata") \in Nat /\ SizeOfRawData("rdata") % 512 = 0
  /\ Sum(input.literals) < SizeOfRawData("rdata")
  /\ SizeOfRawData("rdata") <= Sum(input.literals) + 512
  /\ idata_pointer_to_raw_data = 1536 + SizeOfRawData("rdata")
  /\ idata_section_address = 8192 + compute_aligned_size(SizeOfRawData("rdata"), 4096)

LEMMA LayoutFacts == InputOK => Layout
<1> SUFFICES ASSUME InputOK PROVE Layout
  OBVIOUS
<1>1. HeadersEnd \in {576, 592}
  BY DEF HeadersEnd, PE_header_start_address, NtHeadersSize, Sections,
     SectionHeaderSize, InputOK, Functions
<1>2. text_pointer_to_raw_data = 1024 /\ text_section_address = 4096
  BY <1>1 DEF text_pointer_to_raw_data, text_section_address, compute_aligned_size,
     file_alignment, section_alignment
<1>3. SizeOfRawData("text") = 512 /\ SizeOfRawData("idata") = 512
  BY DEF SizeOfRawData, VirtualSize, InstructionsSize, compute_aligned_size,
     file_alignment
<1>4. rdata_pointer_to_raw_data = 1536 /\ rdata_section_address = 8192
  BY <1>2, <1>3 DEF rdata_pointer_to_raw_data, rdata_section_address, align_address,
     compute_aligned_size, file_alignment, section_alignment
<1>5. SizeOfRawData("rdata") = compute_aligned_size(Sum(input.literals), 512)
  BY DEF SizeOfRawData, VirtualSize, file_alignment
<1> DEFINE R == SizeOfRawData("rdata")  L == Sum(input.literals)
<1>6. /\ R \in Nat /\ R % 512 = 0 /\ L < R /\ R <= L + 512
  BY <1>5, LiteralsSum, Aligned
<1> HIDE DEF R, L
<1>7. idata_pointer_to_raw_data = 1536 + R
  BY <1>4, <1>6 DEF idata_pointer_to_raw_data, align_address, file_alignment, R
<1>8. idata_section_address = 8192 + compute_aligned_size(R, 4096)
  <2>1. 8192 \in Nat /\ 8192 % 4096 = 0
    OBVIOUS
  <2> QED BY <1>4, <1>6, <2>1, AlignedFrom DEF idata_section_address, section_alignment, R
<1> QED BY <1>1, <1>2, <1>3, <1>4, <1>5, <1>6, <1>7, <1>8 DEF Layout, R, L

-----------------------------------------------------------------------------
(* The pieces of the file *)

Whats == {"dos_header", "zeros", "nt_headers", "text", "rdata", "idata", "code", "literal",
          "descriptor", "ILT", "IAT", "GetStdHandle", "WriteFile", "ExitProcess", "library"}
AllSections == {"headers"} \cup SectionNames
PieceSet == [what : Whats, section : AllSections,
             at : Nat, size : Nat, rvas : Seq(Int)]

\* TypeOK and RawDataWhereHeadersSay, of any pieces.
PieceOK(w, i, ptr, raw) ==
  LET section == w[i].section
  IN  /\ section = "headers" => EndOf(w[i]) <= ptr["text"]
      /\ section # "headers" /\ (i = 1 \/ w[i - 1].section # section) =>
           w[i].at = ptr[section]
      /\ i < Len(w) =>
           /\ EndOf(w[i]) <= w[i + 1].at
           /\ w[i + 1].section = section => EndOf(w[i]) = w[i + 1].at
           /\ w[i + 1].section # section /\ section \in {"text", "rdata"} =>
                EndOf(w[i]) = ptr[section] + raw[section]
PiecesOK(w, ptr, raw) == \A i \in 1 .. Len(w) : PieceOK(w, i, ptr, raw)

\* The pieces that a Write at the position pos adds.
Placed(pieces, pos) ==
  [i \in DOMAIN pieces |->
     [pieces[i] EXCEPT !.at = pos + SumTo(Sizes(pieces), i - 1)]]

LEMMA PlacedFacts ==
  ASSUME NEW pieces \in Seq(PieceSet), NEW pos \in Nat
  PROVE  /\ Placed(pieces, pos) \in Seq(PieceSet)
         /\ Len(Placed(pieces, pos)) = Len(pieces) /\ Len(pieces) \in Nat
         /\ \A k \in 1 .. Len(pieces) :
              /\ Placed(pieces, pos)[k].section = pieces[k].section
              /\ Placed(pieces, pos)[k].what = pieces[k].what
              /\ Placed(pieces, pos)[k].at = pos + SumTo(Sizes(pieces), k - 1)
              /\ EndOf(Placed(pieces, pos)[k]) = pos + SumTo(Sizes(pieces), k)
              /\ SumTo(Sizes(pieces), k - 1) \in Nat /\ SumTo(Sizes(pieces), k) \in Nat
              /\ SumTo(Sizes(pieces), k) <= SumTo(Sizes(pieces), Len(pieces))
<1> DEFINE n == Len(pieces)  sizes == Sizes(pieces)  r == Placed(pieces, pos)
<1>1. /\ n \in Nat /\ DOMAIN pieces = 1 .. n
      /\ \A k \in 1 .. n : pieces[k] \in PieceSet
  BY LenProperties, ElementOfSeq
<1>2. \A k \in 1 .. n : sizes[k] = pieces[k].size /\ sizes[k] \in Nat
  BY <1>1 DEF Sizes, PieceSet
<1> HIDE DEF sizes
<1>3. ASSUME NEW k \in 1 .. n
      PROVE  /\ SumTo(sizes, k - 1) \in Nat /\ SumTo(sizes, k) \in Nat
             /\ SumTo(sizes, k) = SumTo(sizes, k - 1) + sizes[k]
             /\ SumTo(sizes, k) <= SumTo(sizes, n)
  <2>1. k \in Nat /\ k - 1 \in Nat /\ k # 0 /\ k \in 0 .. n
        /\ (\A i \in 1 .. k : sizes[i] \in Nat) /\ \A i \in 1 .. k - 1 : sizes[i] \in Nat
    BY <1>1, <1>2
  <2>2. SumTo(sizes, k - 1) \in Nat /\ SumTo(sizes, k) \in Nat
    BY <2>1, SumIsNat
  <2>3. SumTo(sizes, k) = SumTo(sizes, k - 1) + sizes[k]
    BY <2>1, SumRecurrence
  <2> QED BY <1>1, <1>2, <2>1, <2>2, <2>3, SumGrows
<1>4. DOMAIN r = 1 .. n
      /\ \A k \in 1 .. n : r[k] = [pieces[k] EXCEPT !.at = pos + SumTo(sizes, k - 1)]
  BY <1>1 DEF Placed, sizes
<1> HIDE DEF r
<1>5. ASSUME NEW k \in 1 .. n
      PROVE  /\ r[k] \in PieceSet /\ r[k].section = pieces[k].section
             /\ r[k].what = pieces[k].what /\ r[k].at = pos + SumTo(sizes, k - 1)
             /\ r[k].size = sizes[k]
  <2>1. pieces[k] \in PieceSet /\ pos + SumTo(sizes, k - 1) \in Nat
    BY <1>1, <1>3
  <2> QED BY <1>2, <1>4, <2>1 DEF PieceSet
<1>6. r \in Seq(PieceSet) /\ Len(r) = n
  <2>1. r = [k \in 1 .. n |-> r[k]]
    BY <1>4 DEF r, Placed
  <2>2. r \in [1 .. n -> PieceSet]
    BY <1>5, <2>1
  <2> QED BY <1>1, <2>2
<1>7. \A k \in 1 .. n : EndOf(r[k]) = pos + SumTo(sizes, k)
  <2> TAKE k \in 1 .. n
  <2>1. EndOf(r[k]) = pos + SumTo(sizes, k - 1) + sizes[k]
    BY <1>5 DEF EndOf
  <2>2. /\ SumTo(sizes, k) = SumTo(sizes, k - 1) + sizes[k]
        /\ SumTo(sizes, k - 1) \in Nat /\ sizes[k] \in Nat
    BY <1>2, <1>3
  <2> QED BY <2>1, <2>2
<1>8. /\ r \in Seq(PieceSet) /\ Len(r) = n /\ n \in Nat
      /\ \A k \in 1 .. n :
           /\ r[k].section = pieces[k].section /\ r[k].what = pieces[k].what
           /\ r[k].at = pos + SumTo(sizes, k - 1) /\ EndOf(r[k]) = pos + SumTo(sizes, k)
           /\ SumTo(sizes, k - 1) \in Nat /\ SumTo(sizes, k) \in Nat
           /\ SumTo(sizes, k) <= SumTo(sizes, n)
  BY <1>1, <1>3, <1>5, <1>6, <1>7
<1> QED BY <1>8, Zenon DEF r, sizes

\* What a Write at the position pos needs, to put pieces of a section.
Follows(w, sec, pos, end, ptr, raw) ==
  /\ w = <<>> => sec = "headers"
  /\ w # <<>> =>
       LET last == w[Len(w)]
       IN  /\ EndOf(last) <= pos
           /\ last.section = sec => EndOf(last) = pos
           /\ last.section # sec =>
                /\ sec # "headers" /\ pos = ptr[sec]
                /\ last.section \in {"text", "rdata"} =>
                     pos = ptr[last.section] + raw[last.section] /\ EndOf(last) = pos
  /\ sec = "headers" => end <= ptr["text"]
EndsAt(w, sec, end) ==
  w # <<>> /\ w[Len(w)].section = sec /\ EndOf(w[Len(w)]) = end

\* What is in the file after n more pieces of a section.
Added(w, w2, pieces, n, sec) ==
  /\ n \in Nat /\ n # 0 /\ w2 \in Seq(PieceSet) /\ Len(w2) = Len(w) + n
  /\ \A i \in 1 .. Len(w) : w2[i] = w[i]
  /\ \A k \in 1 .. n : /\ w2[Len(w) + k].section = sec
                       /\ w2[Len(w) + k].what = pieces[k].what

LEMMA ConcatFacts ==
  ASSUME NEW S, NEW a \in Seq(S), NEW b \in Seq(S), NEW m, m = Len(a), NEW n, n = Len(b),
         NEW c, c = a \o b
  PROVE  /\ c \in Seq(S) /\ Len(c) = m + n
         /\ \A i \in 1 .. m + n : c[i] = IF i <= m THEN a[i] ELSE b[i - m]
BY ConcatProperties

\* Pieces of a section are written at pos, up to end.
Writing(w, pieces, sec, pos, end, w2, ptr, raw) ==
  /\ w \in Seq(PieceSet) /\ pieces \in Seq(PieceSet) /\ pieces # <<>>
  /\ \A k \in 1 .. Len(pieces) : pieces[k].section = sec
  /\ pos \in Nat /\ end = pos + SumTo(Sizes(pieces), Len(pieces))
  /\ w2 = w \o Placed(pieces, pos)
  /\ PiecesOK(w, ptr, raw) /\ Follows(w, sec, pos, end, ptr, raw) /\ ptr["text"] \in Nat

LEMMA PiecesFollow ==
  ASSUME NEW w, NEW pieces, NEW sec, NEW pos, NEW end, NEW w2, NEW ptr, NEW raw,
         Writing(w, pieces, sec, pos, end, w2, ptr, raw)
  PROVE  /\ PiecesOK(w2, ptr, raw) /\ EndsAt(w2, sec, end) /\ end \in Nat
         /\ Added(w, w2, pieces, Len(pieces), sec)
<1>0. /\ w \in Seq(PieceSet) /\ pieces \in Seq(PieceSet) /\ pieces # <<>>
      /\ \A k \in 1 .. Len(pieces) : pieces[k].section = sec
      /\ pos \in Nat /\ end = pos + SumTo(Sizes(pieces), Len(pieces))
      /\ w2 = w \o Placed(pieces, pos)
      /\ PiecesOK(w, ptr, raw) /\ Follows(w, sec, pos, end, ptr, raw) /\ ptr["text"] \in Nat
  BY DEF Writing
<1> USE <1>0
<1> DEFINE m == Len(w)  n == Len(pieces)  s(k) == SumTo(Sizes(pieces), k)
<1>1. /\ m \in Nat /\ n \in Nat \ {0} /\ (w # <<>> <=> m > 0)
      /\ \A i \in 1 .. m : w[i] \in PieceSet
  BY LenProperties, EmptySeq, ElementOfSeq
<1>2. /\ w2 \in Seq(PieceSet) /\ Len(w2) = m + n
      /\ \A i \in 1 .. m : w2[i] = w[i]
      /\ \A i \in 1 .. m + n : i > m => w2[i] = Placed(pieces, pos)[i - m]
  <2> DEFINE r == Placed(pieces, pos)
  <2>1. r \in Seq(PieceSet) /\ n = Len(r) /\ w2 = w \o r /\ m = Len(w)
    BY PlacedFacts
  <2> HIDE DEF r, m, n
  <2>2. /\ w2 \in Seq(PieceSet) /\ Len(w2) = m + n
        /\ \A i \in 1 .. m + n : w2[i] = IF i <= m THEN w[i] ELSE r[i - m]
    BY <2>1, ConcatFacts
  <2>3. \A i \in 1 .. m : i \in 1 .. m + n /\ i <= m
    BY <1>1
  <2>4. \A i \in 1 .. m + n : i > m => ~ (i <= m)
    BY <1>1
  <2> QED BY <2>2, <2>3, <2>4 DEF r
<1>3. \A k \in 1 .. n : /\ w2[m + k].section = sec /\ w2[m + k].what = pieces[k].what
                        /\ w2[m + k].at = pos + s(k - 1) /\ EndOf(w2[m + k]) = pos + s(k)
                        /\ s(k - 1) \in Nat /\ s(k) \in Nat /\ s(k) <= s(n)
  <2> TAKE k \in 1 .. n
  <2>1. m + k \in 1 .. m + n /\ m + k > m /\ m + k - m = k
    BY <1>1
  <2>2. w2[m + k] = Placed(pieces, pos)[k]
    BY <1>2, <2>1
  <2>3. /\ Placed(pieces, pos)[k].section = pieces[k].section
        /\ Placed(pieces, pos)[k].what = pieces[k].what
        /\ Placed(pieces, pos)[k].at = pos + s(k - 1)
        /\ EndOf(Placed(pieces, pos)[k]) = pos + s(k)
        /\ s(k - 1) \in Nat /\ s(k) \in Nat /\ s(k) <= s(n)
    BY PlacedFacts
  <2> HIDE DEF s
  <2> QED BY <2>2, <2>3
<1>4. s(0) = 0 /\ s(n) \in Nat /\ end = pos + s(n)
  BY <1>1, <1>3, SumRecurrence
<1> HIDE DEF s
<1>5. EndsAt(w2, sec, end) /\ end \in Nat
  <2>1. w2 # <<>>
    BY <1>1, <1>2, EmptySeq
  <2>2. n \in 1 .. n /\ Len(w2) = m + n
    BY <1>1, <1>2
  <2>3. w2[m + n].section = sec /\ EndOf(w2[m + n]) = pos + s(n)
    BY <1>3, <2>2
  <2> HIDE <1>0
  <2>4. end = pos + s(n) /\ pos \in Nat /\ s(n) \in Nat
    BY <1>0, <1>4
  <2> QED BY <2>1, <2>2, <2>3, <2>4 DEF EndsAt
<1>6. PiecesOK(w2, ptr, raw)
  <2> SUFFICES ASSUME NEW i \in 1 .. m + n PROVE PieceOK(w2, i, ptr, raw)
    BY <1>2 DEF PiecesOK
  <2>1. CASE i < m
    <3>1. i \in 1 .. m /\ i + 1 \in 1 .. m /\ (i # 1 => i - 1 \in 1 .. m)
      BY <1>1, <2>1
    <3>2. w2[i] = w[i] /\ w2[i + 1] = w[i + 1] /\ (i # 1 => w2[i - 1] = w[i - 1])
      BY <1>2, <3>1
    <3>3. PieceOK(w, i, ptr, raw)
      BY <3>1 DEF PiecesOK
    <3>4. i < Len(w) /\ i < Len(w2)
      BY <1>1, <1>2, <2>1
    <3> QED BY <3>2, <3>3, <3>4 DEF PieceOK
  <2>2. CASE i = m
    <3>1. /\ i \in 1 .. m /\ (i # 1 => i - 1 \in 1 .. m) /\ i + 1 = m + 1 /\ 1 \in 1 .. n
          /\ 1 - 1 = 0 /\ w # <<>>
      BY <1>1, <2>2
    <3>2. w2[i] = w[i] /\ (i # 1 => w2[i - 1] = w[i - 1])
      BY <1>2, <3>1
    <3>3. w2[i + 1].section = sec /\ w2[i + 1].at = pos
      <4>1. w2[m + 1].section = sec /\ w2[m + 1].at = pos + s(0)
        BY <1>3, <3>1
      <4> QED BY <1>4, <2>2, <4>1
    <3>4. /\ EndOf(w[m]) <= pos
          /\ w[m].section = sec => EndOf(w[m]) = pos
          /\ w[m].section # sec /\ w[m].section \in {"text", "rdata"} =>
               EndOf(w[m]) = ptr[w[m].section] + raw[w[m].section]
      BY <3>1 DEF Follows
    <3>5. /\ w[i].section = "headers" => EndOf(w[i]) <= ptr["text"]
          /\ w[i].section # "headers" /\ (i = 1 \/ w[i - 1].section # w[i].section) =>
               w[i].at = ptr[w[i].section]
      BY <3>1 DEF PiecesOK, PieceOK
    <3>6. i < m + n
      BY <1>1, <2>2
    <3> QED BY <1>2, <2>2, <3>2, <3>3, <3>4, <3>5, <3>6 DEF PieceOK
  <2>3. CASE i > m
    <3> DEFINE k == i - m
    <3>1. k \in 1 .. n /\ i = m + k
      BY <1>1, <2>3
    <3>2. /\ w2[i].section = sec /\ w2[i].at = pos + s(k - 1) /\ EndOf(w2[i]) = pos + s(k)
          /\ s(k - 1) \in Nat /\ s(k) \in Nat /\ s(k) <= s(n)
      BY <1>3, <3>1
    <3>3. sec = "headers" => EndOf(w2[i]) <= ptr["text"]
      BY <1>4, <3>2, SMTT(30) DEF Follows
    <3>4. sec # "headers" /\ (i = 1 \/ w2[i - 1].section # sec) => w2[i].at = ptr[sec]
      <4>1. CASE k = 1
        <5>1. w2[i].at = pos
          BY <1>4, <3>2, <4>1
        <5>2. CASE m = 0
          BY <1>1, <5>2 DEF Follows
        <5>3. CASE m > 0
          <6>1. w2[i - 1] = w[m] /\ i # 1 /\ w # <<>>
            BY <1>1, <1>2, <3>1, <4>1, <5>3
          <6> QED BY <5>1, <6>1 DEF Follows
        <5> QED BY <1>1, <5>2, <5>3
      <4>2. CASE k # 1
        <5>1. k - 1 \in 1 .. n /\ i - 1 = m + (k - 1) /\ i # 1
          BY <1>1, <3>1, <4>2
        <5> QED BY <1>3, <5>1
      <4> QED BY <4>1, <4>2
    <3>5. i < m + n => w2[i + 1].section = sec /\ w2[i + 1].at = EndOf(w2[i])
                       /\ EndOf(w2[i]) \in Nat
      <4> SUFFICES ASSUME i < m + n
                   PROVE  w2[i + 1].section = sec /\ w2[i + 1].at = EndOf(w2[i])
                          /\ EndOf(w2[i]) \in Nat
        OBVIOUS
      <4>1. k + 1 \in 1 .. n /\ i + 1 = m + (k + 1) /\ k + 1 - 1 = k
        BY <1>1, <3>1
      <4> DEFINE j == k + 1
      <4>2. j \in 1 .. n /\ i + 1 = m + j /\ j - 1 = k
        BY <4>1
      <4> HIDE DEF k, j
      <4>3. w2[m + j].section = sec /\ w2[m + j].at = pos + s(j - 1)
        BY <1>3, <4>2
      <4>4. w2[i + 1].section = sec /\ w2[i + 1].at = pos + s(k)
        BY <4>2, <4>3
      <4> QED BY <3>2, <4>4
    <3> HIDE DEF k
    <3>6. i < Len(w2) <=> i < m + n
      BY <1>2
    <3>7. ASSUME i < m + n
          PROVE  /\ w2[i + 1].section = w2[i].section /\ EndOf(w2[i]) = w2[i + 1].at
                 /\ EndOf(w2[i]) <= w2[i + 1].at
      <4>1. /\ w2[i + 1].section = sec /\ w2[i + 1].at = EndOf(w2[i])
            /\ EndOf(w2[i]) \in Nat
        BY <3>5, <3>7
      <4>2. \A e \in Nat : e <= e
        OBVIOUS
      <4> QED BY <3>2, <4>1, <4>2
    <3> QED BY <3>2, <3>3, <3>4, <3>6, <3>7 DEF PieceOK
  <2> QED BY <1>1, <2>1, <2>2, <2>3
<1>7. Added(w, w2, pieces, n, sec)
  BY <1>1, <1>2, <1>3 DEF Added
<1> QED BY <1>5, <1>6, <1>7

-----------------------------------------------------------------------------
(* A step that writes *)

NbIn(w, what) == Cardinality({i \in DOMAIN w : w[i].what = what})
Has(w, section) == \E i \in 1 .. Len(w) : w[i].section = section

LEMMA NbIsNat ==
  ASSUME NEW w \in Seq(PieceSet), NEW what
  PROVE  /\ IsFiniteSet({i \in DOMAIN w : w[i].what = what})
         /\ NbIn(w, what) \in Nat /\ Len(w) \in Nat /\ DOMAIN w = 1 .. Len(w)
<1>1. Len(w) \in Nat /\ DOMAIN w = 1 .. Len(w)
  BY LenProperties
<1>2. IsFiniteSet(1 .. Len(w))
  BY <1>1, FS_Interval
<1>3. {i \in DOMAIN w : w[i].what = what} \in SUBSET (1 .. Len(w))
  BY <1>1
<1>4. IsFiniteSet({i \in DOMAIN w : w[i].what = what})
  BY <1>2, <1>3, FS_Subset
<1> QED BY <1>1, <1>4, FS_CardinalityType DEF NbIn

LEMMA NbKept ==
  ASSUME NEW w \in Seq(PieceSet), NEW w2, NEW pieces, NEW n, NEW sec,
         Added(w, w2, pieces, n, sec), NEW what, \A k \in 1 .. n : pieces[k].what # what
  PROVE  NbIn(w2, what) = NbIn(w, what)
<1>1. /\ n \in Nat /\ w2 \in Seq(PieceSet) /\ Len(w2) = Len(w) + n
      /\ \A i \in 1 .. Len(w) : w2[i] = w[i]
      /\ \A k \in 1 .. n : w2[Len(w) + k].what # what
  BY DEF Added
<1>2. Len(w) \in Nat /\ DOMAIN w = 1 .. Len(w) /\ DOMAIN w2 = 1 .. Len(w2)
  BY <1>1, LenProperties
<1>3. ASSUME NEW i \in DOMAIN w2, w2[i].what = what PROVE i \in DOMAIN w
  <2>1. SUFFICES ASSUME i > Len(w) PROVE FALSE
    BY <1>1, <1>2
  <2>2. i - Len(w) \in 1 .. n /\ i = Len(w) + (i - Len(w))
    BY <1>1, <1>2, <2>1
  <2> QED BY <1>1, <1>3, <2>2
<1>4. DOMAIN w \subseteq DOMAIN w2
  BY <1>1, <1>2
<1>5. {i \in DOMAIN w2 : w2[i].what = what} = {i \in DOMAIN w : w[i].what = what}
  BY <1>1, <1>2, <1>3, <1>4
<1> QED BY <1>5 DEF NbIn

LEMMA NbIncremented ==
  ASSUME NEW w \in Seq(PieceSet), NEW w2, NEW pieces, NEW sec,
         Added(w, w2, pieces, 1, sec), NEW what, pieces[1].what = what
  PROVE  NbIn(w2, what) = NbIn(w, what) + 1
<1>1. /\ w2 \in Seq(PieceSet) /\ Len(w2) = Len(w) + 1
      /\ \A i \in 1 .. Len(w) : w2[i] = w[i]
      /\ w2[Len(w) + 1].what = what
  <2>1. 1 \in 1 .. 1
    OBVIOUS
  <2>2. \A k \in 1 .. 1 : w2[Len(w) + k].what = pieces[k].what
    BY Zenon DEF Added
  <2>3. w2[Len(w) + 1].what = what
    BY <2>1, <2>2, Zenon
  <2> QED BY <2>3 DEF Added
<1>2. Len(w) \in Nat /\ DOMAIN w = 1 .. Len(w) /\ DOMAIN w2 = 1 .. Len(w2)
  BY <1>1, LenProperties
<1> DEFINE S == {i \in DOMAIN w : w[i].what = what}
<1>3. {i \in DOMAIN w2 : w2[i].what = what} = S \cup {Len(w) + 1}
  BY <1>1, <1>2
<1>4. Len(w) + 1 \notin S /\ IsFiniteSet(S)
  <2>1. Len(w) + 1 \notin S
    BY <1>2
  <2>2. IsFiniteSet(S)
    BY NbIsNat, Zenon
  <2> QED BY <2>1, <2>2
<1> HIDE DEF S
<1>5. Cardinality(S \cup {Len(w) + 1}) = Cardinality(S) + 1
  BY <1>4, FS_AddElement
<1> QED BY <1>3, <1>5 DEF NbIn, S

LEMMA HasMore ==
  ASSUME NEW w \in Seq(PieceSet), NEW w2, NEW pieces, NEW n, NEW sec,
         Added(w, w2, pieces, n, sec)
  PROVE  Has(w2, sec) /\ \A s : Has(w, s) => Has(w2, s)
<1>1. Len(w) \in Nat /\ Len(w2) = Len(w) + n /\ n \in Nat \ {0}
  BY LenProperties DEF Added
<1>2. 1 \in 1 .. n /\ Len(w) + 1 \in 1 .. Len(w2)
  BY <1>1
<1>3. \A i \in 1 .. Len(w) : i \in 1 .. Len(w2)
  BY <1>1
<1> QED BY <1>2, <1>3 DEF Added, Has

FileOK == /\ written \in Seq(PieceSet) /\ position \in Nat
          /\ PiecesOK(written, Pointers, RawSizes)
FileKept == /\ written' \in Seq(PieceSet) /\ position' \in Nat
            /\ PiecesOK(written', Pointers, RawSizes)

LEMMA WriteStep ==
  ASSUME InputOK, FileOK, NEW pieces \in Seq(PieceSet), NEW n, n = Len(pieces), n # 0,
         NEW sec, \A k \in 1 .. n : pieces[k].section = sec, Write(pieces),
         NEW total, total = SumTo(Sizes(pieces), n),
         Follows(written, sec, position, position + total, Pointers, RawSizes)
  PROVE  /\ FileKept /\ position' = position + total /\ EndsAt(written', sec, position')
         /\ Added(written, written', pieces, n, sec)
<1>1. /\ n \in Nat /\ Len(Sizes(pieces)) = n /\ pieces # <<>>
  <2>1. Len(pieces) \in Nat /\ DOMAIN pieces = 1 .. Len(pieces)
    BY LenProperties
  <2>2. pieces # <<>>
    BY EmptySeq
  <2> QED BY <2>1, <2>2 DEF Sizes
<1>2. position' = position + total
  <2>1. position' = position + Sum(Sizes(pieces))
    BY DEF Write
  <2>2. Sum(Sizes(pieces)) = SumTo(Sizes(pieces), n)
    BY <1>1 DEF Sum
  <2> QED BY <2>1, <2>2
<1>3. written' = written \o Placed(pieces, position)
  BY DEF Write, Placed
<1>4. Pointers["text"] \in Nat
  BY LayoutFacts DEF Pointers, SectionNames, Layout
<1>5. /\ written \in Seq(PieceSet) /\ position \in Nat
      /\ PiecesOK(written, Pointers, RawSizes)
  BY DEF FileOK
<1> DEFINE w2 == written'  end == position'  ptr == Pointers  raw == RawSizes
<1>6. Writing(written, pieces, sec, position, end, w2, ptr, raw)
  BY <1>1, <1>2, <1>3, <1>4, <1>5 DEF Writing
<1> HIDE DEF w2, end, ptr, raw
<1>7. /\ PiecesOK(w2, ptr, raw) /\ EndsAt(w2, sec, end) /\ end \in Nat
      /\ Added(written, w2, pieces, Len(pieces), sec)
  BY <1>6, PiecesFollow
<1>8. Added(written, w2, pieces, n, sec) /\ w2 \in Seq(PieceSet)
  BY <1>1, <1>7 DEF Added
<1> QED BY <1>2, <1>7, <1>8 DEF FileKept, w2, end, ptr, raw

\* What does not depend on the step.
LEMMA LayoutKept ==
  ASSUME UNCHANGED <<function, input>>
  PROVE  /\ Pointers' = Pointers /\ RawSizes' = RawSizes /\ (InputOK' <=> InputOK)
         /\ \A s \in SectionNames : SizeOfRawData(s)' = SizeOfRawData(s)
         /\ HeadersEnd' = HeadersEnd /\ TableSize' = TableSize
         /\ text_section_address' = text_section_address
         /\ rdata_section_address' = rdata_section_address
         /\ idata_section_address' = idata_section_address
         /\ idata_pointer_to_raw_data' = idata_pointer_to_raw_data
<1>1. \A s \in SectionNames : SizeOfRawData(s)' = SizeOfRawData(s)
  BY DEF SizeOfRawData, VirtualSize
<1>2. HeadersEnd' = HeadersEnd /\ TableSize' = TableSize
  BY DEF HeadersEnd, NtHeadersSize, TableSize, ThunkSize
<1>3. /\ text_pointer_to_raw_data' = text_pointer_to_raw_data
      /\ text_section_address' = text_section_address
  BY <1>2 DEF text_pointer_to_raw_data, text_section_address
<1>4. /\ SizeOfRawData("text")' = SizeOfRawData("text")
      /\ SizeOfRawData("rdata")' = SizeOfRawData("rdata")
  BY <1>1 DEF SectionNames
<1>5. /\ rdata_pointer_to_raw_data' = rdata_pointer_to_raw_data
      /\ rdata_section_address' = rdata_section_address
  BY <1>3, <1>4 DEF rdata_pointer_to_raw_data, rdata_section_address
<1>6. /\ idata_pointer_to_raw_data' = idata_pointer_to_raw_data
      /\ idata_section_address' = idata_section_address
  BY <1>4, <1>5 DEF idata_pointer_to_raw_data, idata_section_address
<1>7. Pointers' = Pointers /\ RawSizes' = RawSizes
  BY <1>1, <1>3, <1>5, <1>6 DEF Pointers, RawSizes
<1> QED BY <1>1, <1>2, <1>3, <1>5, <1>6, <1>7 DEF InputOK

-----------------------------------------------------------------------------
(* The inductive invariant *)

NameSizes == [i \in DOMAIN input.libraries |-> input.libraries[i] + 1]
Imports == 2 * DescriptorSize + 2 * TableSize + HNT_size
ImportsEnd ==
  idata_pointer_to_raw_data + Imports + Sum(NameSizes)
    + ((512 - (Imports + Sum(NameSizes))) % DWORD_SIZE)

\* The steps that are before the literals and the names of the libraries, and
\* from where a field of the headers is not written again.
Starting == {"open", "error", "false"}
BeforeLiterals == Starting \cup {"text", "code"}
BeforeNames == BeforeLiterals \cup {"literals", "descriptor", "tables", "names"}
IdataPatched == {"closed"}
RdataPatched == IdataPatched \cup {"idata_header"}
TextPatched == RdataPatched \cup {"rdata_header"}
ImagePatched == TextPatched \cup {"text_header"}
AddressesPatched == ImagePatched \cup {"size_of_image"}
DataWritten == AddressesPatched \cup {"size_of_code", "address_of_entry_point"}

\* What is in the file, which section is at its end, and what counted counts.
AtStart == written = <<>> /\ position = 0
AtText == EndsAt(written, "headers", position) /\ position = HeadersEnd
AtCode == EndsAt(written, "headers", HeadersEnd) /\ position = 1024
AtLiterals ==
  LET n == NbWritten("literal")
  IN  /\ n <= Len(input.literals)
      /\ counted = SumTo(input.literals, n)
      /\ position = 1536 + counted
      /\ EndsAt(written, IF n = 0 THEN "text" ELSE "rdata", position)
AtDescriptor ==
  EndsAt(written, "rdata", position) /\ position = idata_pointer_to_raw_data
AtImports(count) ==
  /\ EndsAt(written, "idata", position)
  /\ position = idata_pointer_to_raw_data + count
  /\ counted = count
AtLibraries ==
  LET n == NbWritten("library")
  IN  /\ n <= Len(input.libraries)
      /\ AtImports(Imports + SumTo(NameSizes, n))
AtEnd == EndsAt(written, "idata", position) /\ position = ImportsEnd
StageOK ==
  /\ step \in Steps
  /\ step \in Starting => AtStart
  /\ step = "text" => AtText
  /\ step = "code" => AtCode
  /\ step = "literals" => AtLiterals
  /\ step = "descriptor" => AtDescriptor
  /\ step = "tables" => AtImports(2 * DescriptorSize)
  /\ step = "names" => AtImports(2 * DescriptorSize + 2 * TableSize)
  /\ step = "libraries" => AtLibraries
  /\ step \in DataWritten => AtEnd

CountsOK ==
  /\ step \in BeforeLiterals => NbWritten("literal") = 0
  /\ step \in BeforeNames => NbWritten("library") = 0

SectionsOK ==
  /\ step \notin BeforeLiterals => Has(written, "text")
  /\ step \notin BeforeLiterals \cup {"literals"} => Has(written, "rdata")

ImageOK ==
  /\ step = "code" => size_of_image = 4096
  /\ step = "literals" => size_of_image = 8192
  /\ step \in {"descriptor", "tables", "names", "libraries"} =>
       size_of_image = idata_section_address
  /\ step \in DataWritten => size_of_image = idata_section_address + 4096

HeaderSet ==
  [SizeOfCode : Nat, SizeOfInitializedData : Nat, SizeOfUninitializedData : Nat,
   AddressOfEntryPoint : Nat, BaseOfCode : Nat, BaseOfData : Nat, SizeOfImage : Nat,
   SizeOfHeaders : Nat, VirtualAddress : [SectionNames -> Nat],
   PointerToRawData : [SectionNames -> Nat]]
HeaderOK ==
  /\ header \in HeaderSet
  /\ step \in AddressesPatched =>
       /\ header.AddressOfEntryPoint = 4096
       /\ HasBaseOfData => header.BaseOfData = 8192
  /\ step \in ImagePatched =>
       /\ header.SizeOfImage = idata_section_address + 4096
       /\ header.SizeOfHeaders = 1024
  /\ step \in TextPatched =>
       header.VirtualAddress["text"] = 4096 /\ header.PointerToRawData["text"] = 1024
  /\ step \in RdataPatched =>
       header.VirtualAddress["rdata"] = 8192 /\ header.PointerToRawData["rdata"] = 1536
  /\ step \in IdataPatched =>
       /\ header.VirtualAddress["idata"] = idata_section_address
       /\ header.PointerToRawData["idata"] = idata_pointer_to_raw_data

IInv == InputOK /\ FileOK /\ StageOK /\ CountsOK /\ SectionsOK /\ ImageOK /\ HeaderOK

-----------------------------------------------------------------------------
(* The pieces of each step *)

PieceIs(p, what, section, size) ==
  p \in PieceSet /\ p.what = what /\ p.section = section /\ p.size = size

LEMMA PieceFacts ==
  ASSUME FileOK, NEW what \in Whats, NEW section \in AllSections,
         NEW size \in Nat, NEW rvas \in Seq(Int)
  PROVE  PieceIs(Piece(what, section, size, rvas), what, section, size)
BY DEF FileOK, Piece, PieceSet, PieceIs

LEMMA ContentFacts ==
  ASSUME FileOK, NEW what \in Whats, NEW section \in AllSections, NEW size \in Nat
  PROVE  PieceIs(Content(what, section, size), what, section, size)
<1>1. <<>> \in Seq(Int)
  OBVIOUS
<1>2. PieceIs(Piece(what, section, size, <<>>), what, section, size)
  BY <1>1, PieceFacts, Zenon
<1> QED BY <1>2 DEF Content

LEMMA ZerosFacts ==
  ASSUME FileOK, NEW section \in AllSections, NEW count \in Int
  PROVE  /\ PieceIs(Zeros(section, count), "zeros", section, count % DWORD_SIZE)
         /\ count % DWORD_SIZE \in Nat
         /\ count \in 0 .. 512 => count % DWORD_SIZE = count
<1>1. DWORD_SIZE \in Nat /\ DWORD_SIZE > 512
  BY SizesAssumption DEF file_alignment
<1>2. count % DWORD_SIZE \in Nat /\ (count \in 0 .. 512 => count % DWORD_SIZE = count)
  BY <1>1
<1>3. <<>> \in Seq(Int)
  OBVIOUS
<1>4. "zeros" \in Whats
  BY DEF Whats
<1>5. PieceIs(Piece("zeros", section, count % DWORD_SIZE, <<>>), "zeros", section,
              count % DWORD_SIZE)
  BY <1>2, <1>3, <1>4, PieceFacts, Zenon
<1> QED BY <1>2, <1>5 DEF Zeros

\* Sums of a few sizes.
LEMMA SumOfFew ==
  ASSUME NEW sizes, NEW n \in {1, 2, 3, 4, 6}, \A i \in 1 .. n : sizes[i] \in Nat
  PROVE  /\ SumTo(sizes, 0) = 0 /\ SumTo(sizes, 1) = sizes[1]
         /\ n >= 2 => SumTo(sizes, 2) = sizes[1] + sizes[2]
         /\ n >= 3 => SumTo(sizes, 3) = sizes[1] + sizes[2] + sizes[3]
         /\ n >= 4 => SumTo(sizes, 4) = sizes[1] + sizes[2] + sizes[3] + sizes[4]
         /\ n = 6 => SumTo(sizes, 6) = sizes[1] + sizes[2] + sizes[3] + sizes[4]
                                       + sizes[5] + sizes[6]
<1>1. ASSUME NEW m \in 0 .. n
      PROVE  SumTo(sizes, m) = IF m = 0 THEN 0 ELSE SumTo(sizes, m - 1) + sizes[m]
  <2>1. m \in Nat /\ \A i \in 1 .. m : sizes[i] \in Int
    BY <1>1
  <2> QED BY <2>1, SumRecurrence
<1>2. SumTo(sizes, 0) = 0
  BY <1>1
<1>3. SumTo(sizes, 1) = sizes[1]
  <2>1. SumTo(sizes, 1) = SumTo(sizes, 0) + sizes[1]
    BY <1>1
  <2> QED BY <1>2, <2>1
<1>4. n >= 2 => SumTo(sizes, 2) = SumTo(sizes, 1) + sizes[2]
  BY <1>1
<1>5. n >= 3 => SumTo(sizes, 3) = SumTo(sizes, 2) + sizes[3]
  BY <1>1
<1>6. n >= 4 => SumTo(sizes, 4) = SumTo(sizes, 3) + sizes[4]
  BY <1>1
<1>7. n = 6 => SumTo(sizes, 5) = SumTo(sizes, 4) + sizes[5]
  BY <1>1
<1>8. n = 6 => SumTo(sizes, 6) = SumTo(sizes, 5) + sizes[6]
  BY <1>1
<1> QED BY <1>2, <1>3, <1>4, <1>5, <1>6, <1>7, <1>8

\* The names of the functions, and the addresses of the tables.
LEMMA ImportFacts ==
  ASSUME InputOK
  PROVE  /\ HNT_size = 41 /\ TableSize \in {16, 32} /\ Imports \in {113, 145}
         /\ TableSize = 4 * ThunkSize /\ ThunkSize \in {4, 8}
         /\ Imports = 2 * DescriptorSize + 2 * TableSize + HNT_size
         /\ IATDirectory \in Int
         /\ \A k \in 1 .. 3 : FunctionRVA(k) \in Int
<1> DEFINE sizes == [k \in DOMAIN FunctionSizes |-> 2 + FunctionSizes[k] + 1]
<1>1. /\ DOMAIN FunctionSizes = 1 .. 3 /\ FunctionSizes[1] = 12 /\ FunctionSizes[2] = 9
      /\ FunctionSizes[3] = 11
  BY DEF FunctionSizes
<1>2. /\ DOMAIN sizes = 1 .. 3 /\ sizes[1] = 15 /\ sizes[2] = 12 /\ sizes[3] = 14
      /\ Len(sizes) = 3
  BY <1>1
<1> HIDE DEF sizes
<1>3. \A i \in 1 .. 3 : sizes[i] \in Nat
  BY <1>2
<1>4. SumTo(sizes, 3) = 41
  BY <1>2, <1>3, SumOfFew
<1>5. HNT_size = 41
  BY <1>2, <1>4 DEF HNT_size, Sum, sizes
<1>6. Len(FunctionNames) = 3 /\ ThunkSize \in {4, 8}
  BY DEF FunctionNames, ThunkSize
<1>7. TableSize = 4 * ThunkSize /\ TableSize \in {16, 32}
  BY <1>6 DEF TableSize
<1>8. Imports \in {113, 145}
  BY <1>5, <1>7 DEF Imports, DescriptorSize
<1>9. IATDirectory \in Int
  <2>1. Len(input.libraries) \in Nat
    BY LenProperties DEF InputOK
  <2> QED BY <1>7, <2>1 DEF IATDirectory, Libraries, ImportAddress, DescriptorSize
<1>10. ASSUME NEW k \in 1 .. 3 PROVE FunctionRVA(k) \in Int
  <2>1. k - 1 \in Nat /\ \A i \in 1 .. k - 1 : sizes[i] \in Nat
    BY <1>3
  <2>2. SumTo(sizes, k - 1) \in Nat
    BY <2>1, SumIsNat
  <2>3. ImportTables + 2 * TableSize \in Int
    BY <1>7 DEF ImportTables, ImportAddress, DescriptorSize
  <2> QED BY <1>1, <2>2, <2>3 DEF FunctionRVA, sizes
<1> QED BY <1>5, <1>6, <1>7, <1>8, <1>9, <1>10 DEF Imports

LEMMA FollowsSame ==
  ASSUME NEW w, NEW sec, sec # "headers", NEW pos \in Nat, EndsAt(w, sec, pos),
         NEW end, NEW ptr, NEW raw
  PROVE  Follows(w, sec, pos, end, ptr, raw)
BY DEF EndsAt, Follows

\* The sums of the names of the libraries.
LEMMA NameSums ==
  ASSUME InputOK
  PROVE  /\ Len(NameSizes) = Len(input.libraries) /\ Len(input.libraries) \in Nat
         /\ \A n \in 0 .. Len(input.libraries) : SumTo(NameSizes, n) \in Nat
         /\ \A n \in 1 .. Len(input.libraries) :
              /\ input.libraries[n] \in Nat
              /\ SumTo(NameSizes, n) = SumTo(NameSizes, n - 1) + input.libraries[n] + 1
<1>1. /\ Len(input.libraries) \in Nat /\ DOMAIN input.libraries = 1 .. Len(input.libraries)
      /\ \A i \in 1 .. Len(input.libraries) : input.libraries[i] \in Nat
  BY LenProperties, ElementOfSeq DEF InputOK
<1>2. /\ Len(NameSizes) = Len(input.libraries)
      /\ \A i \in 1 .. Len(input.libraries) :
           NameSizes[i] = input.libraries[i] + 1 /\ NameSizes[i] \in Nat
  BY <1>1 DEF NameSizes
<1>3. ASSUME NEW n \in 0 .. Len(input.libraries) PROVE SumTo(NameSizes, n) \in Nat
  <2>1. n \in Nat /\ \A i \in 1 .. n : NameSizes[i] \in Nat
    BY <1>1, <1>2
  <2> QED BY <2>1, SumIsNat
<1>4. ASSUME NEW n \in 1 .. Len(input.libraries)
      PROVE  SumTo(NameSizes, n) = SumTo(NameSizes, n - 1) + input.libraries[n] + 1
  <2>1. n \in Nat /\ n # 0 /\ n - 1 \in 0 .. Len(input.libraries)
        /\ \A i \in 1 .. n : NameSizes[i] \in Int
    BY <1>1, <1>2
  <2>2. SumTo(NameSizes, n) = SumTo(NameSizes, n - 1) + NameSizes[n]
    BY <2>1, SumRecurrence
  <2>3. NameSizes[n] = input.libraries[n] + 1 /\ input.libraries[n] \in Nat
    BY <1>1, <1>2
  <2>4. SumTo(NameSizes, n - 1) \in Nat
    BY <1>3, <2>1
  <2> QED BY <2>2, <2>3, <2>4
<1> QED BY <1>1, <1>2, <1>3, <1>4

LEMMA LiteralSums ==
  ASSUME InputOK
  PROVE  /\ Len(input.literals) \in Nat
         /\ \A n \in 0 .. Len(input.literals) : SumTo(input.literals, n) \in Nat
         /\ \A n \in 1 .. Len(input.literals) :
              /\ input.literals[n] \in Nat
              /\ SumTo(input.literals, n)
                   = SumTo(input.literals, n - 1) + input.literals[n]
<1>1. /\ Len(input.literals) \in Nat
      /\ \A i \in 1 .. Len(input.literals) : input.literals[i] \in Nat
  BY LenProperties, ElementOfSeq DEF InputOK
<1>2. ASSUME NEW n \in 0 .. Len(input.literals) PROVE SumTo(input.literals, n) \in Nat
  <2>1. n \in Nat /\ \A i \in 1 .. n : input.literals[i] \in Nat
    BY <1>1
  <2> QED BY <2>1, SumIsNat
<1>3. ASSUME NEW n \in 1 .. Len(input.literals)
      PROVE  SumTo(input.literals, n) = SumTo(input.literals, n - 1) + input.literals[n]
  <2>1. n \in Nat /\ n # 0 /\ \A i \in 1 .. n : input.literals[i] \in Int
    BY <1>1
  <2> QED BY <2>1, SumRecurrence
<1> QED BY <1>1, <1>2, <1>3

LEMMA SizeOfFew ==
  ASSUME NEW pieces \in Seq(PieceSet), NEW n \in {1, 2, 3, 4, 6}, n = Len(pieces),
         NEW total, total = SumTo(Sizes(pieces), n)
  PROVE  /\ n = 1 => total = pieces[1].size
         /\ n = 2 => total = pieces[1].size + pieces[2].size
         /\ n = 3 => total = pieces[1].size + pieces[2].size + pieces[3].size
         /\ n = 4 => total = pieces[1].size + pieces[2].size + pieces[3].size
                               + pieces[4].size
         /\ n = 6 => total = pieces[1].size + pieces[2].size + pieces[3].size
                               + pieces[4].size + pieces[5].size + pieces[6].size
<1>1. DOMAIN pieces = 1 .. n /\ \A i \in 1 .. n : pieces[i] \in PieceSet
  BY LenProperties, ElementOfSeq
<1> DEFINE sizes == Sizes(pieces)
<1>2. \A i \in 1 .. n : sizes[i] = pieces[i].size /\ sizes[i] \in Nat
  BY <1>1 DEF Sizes, PieceSet
<1> HIDE DEF sizes
<1>3. \A i \in 1 .. n : sizes[i] \in Nat
  BY <1>2
<1>4. /\ n >= 1 => SumTo(sizes, 1) = sizes[1]
      /\ n >= 2 => SumTo(sizes, 2) = sizes[1] + sizes[2]
      /\ n >= 3 => SumTo(sizes, 3) = sizes[1] + sizes[2] + sizes[3]
      /\ n >= 4 => SumTo(sizes, 4) = sizes[1] + sizes[2] + sizes[3] + sizes[4]
      /\ n = 6 => SumTo(sizes, 6) = sizes[1] + sizes[2] + sizes[3] + sizes[4]
                                    + sizes[5] + sizes[6]
  BY <1>3, SumOfFew
<1>5. total = SumTo(sizes, n)
  BY DEF sizes
<1>6. /\ 1 \in 1 .. n
      /\ n >= 2 => 2 \in 1 .. n
      /\ n >= 3 => 3 \in 1 .. n
      /\ n >= 4 => 4 \in 1 .. n
      /\ n = 6 => 5 \in 1 .. n /\ 6 \in 1 .. n
  OBVIOUS
<1>7. /\ sizes[1] = pieces[1].size
      /\ n >= 2 => sizes[2] = pieces[2].size
      /\ n >= 3 => sizes[3] = pieces[3].size
      /\ n >= 4 => sizes[4] = pieces[4].size
      /\ n = 6 => sizes[5] = pieces[5].size /\ sizes[6] = pieces[6].size
  BY <1>2, <1>6
<1>8. CASE n = 1
  BY <1>4, <1>5, <1>7, <1>8
<1>9. CASE n = 2
  BY <1>4, <1>5, <1>7, <1>9
<1>10. CASE n = 3
  BY <1>4, <1>5, <1>7, <1>10
<1>11. CASE n = 4
  BY <1>4, <1>5, <1>7, <1>11
<1>12. CASE n = 6
  BY <1>4, <1>5, <1>7, <1>12
<1> QED BY <1>8, <1>9, <1>10, <1>11, <1>12

\* Pieces of a section that are not counted: no literal, and no library.
Uncounted(pieces, n, sec) ==
  /\ pieces \in Seq(PieceSet) /\ Len(pieces) = n
  /\ \A k \in 1 .. n : /\ pieces[k].section = sec
                       /\ pieces[k].what # "literal" /\ pieces[k].what # "library"

\* What such a step leaves, whatever it is.
LEMMA UncountedStep ==
  ASSUME InputOK, FileOK, UNCHANGED <<function, input>>,
         NEW pieces, NEW n \in Nat \ {0}, NEW sec, Uncounted(pieces, n, sec), Write(pieces),
         NEW total, total = SumTo(Sizes(pieces), n),
         Follows(written, sec, position, position + total, Pointers, RawSizes)
  PROVE  /\ InputOK' /\ FileOK' /\ position' = position + total
         /\ EndsAt(written', sec, position')
         /\ Has(written', sec) /\ (\A s : Has(written, s) => Has(written', s))
         /\ NbWritten("literal")' = NbWritten("literal")
         /\ NbWritten("library")' = NbWritten("library")
<1>1. pieces \in Seq(PieceSet) /\ n = Len(pieces) /\ n # 0
      /\ \A k \in 1 .. n : pieces[k].section = sec
  BY DEF Uncounted
<1>2. /\ FileKept /\ position' = position + total /\ EndsAt(written', sec, position')
      /\ Added(written, written', pieces, n, sec)
  BY <1>1, WriteStep
<1>3. written \in Seq(PieceSet)
  BY DEF FileOK
<1>4. Has(written', sec) /\ \A s : Has(written, s) => Has(written', s)
  BY <1>2, <1>3, HasMore
<1>5. /\ NbIn(written', "literal") = NbIn(written, "literal")
      /\ NbIn(written', "library") = NbIn(written, "library")
  <2>1. /\ \A k \in 1 .. n : pieces[k].what # "literal"
        /\ \A k \in 1 .. n : pieces[k].what # "library"
    BY DEF Uncounted
  <2> QED BY <1>2, <1>3, <2>1, NbKept
<1>6. InputOK' /\ FileOK'
  BY <1>2, LayoutKept DEF FileKept, FileOK
<1> QED BY <1>2, <1>4, <1>5, <1>6 DEF NbWritten, NbIn

HeaderPieces ==
  <<Content("dos_header", "headers", DosHeaderSize),
    Zeros("headers", PE_header_start_address - DosHeaderSize),
    Piece("nt_headers", "headers", NtHeadersSize, <<ImportAddress, IATDirectory>>)>>
  \o [i \in DOMAIN Sections |-> Content(Sections[i], "headers", SectionHeaderSize)]

LEMMA HeaderPiecesFacts ==
  ASSUME InputOK, FileOK
  PROVE  /\ Uncounted(HeaderPieces, 6, "headers")
         /\ SumTo(Sizes(HeaderPieces), 6) = HeadersEnd
         /\ \A k \in 1 .. 6 : HeaderPieces[k].what # "descriptor"
<1> DEFINE a == Content("dos_header", "headers", DosHeaderSize)
           b == Zeros("headers", PE_header_start_address - DosHeaderSize)
           c == Piece("nt_headers", "headers", NtHeadersSize, <<ImportAddress, IATDirectory>>)
           d(i) == Content(Sections[i], "headers", SectionHeaderSize)
<1>1. "headers" \in AllSections /\ "dos_header" \in Whats /\ "nt_headers" \in Whats
      /\ "text" \in Whats /\ "rdata" \in Whats /\ "idata" \in Whats
  BY DEF AllSections, Whats
<1>2. /\ 64 \in Nat /\ 40 \in Nat /\ NtHeadersSize \in Nat /\ 144 \in Int /\ 144 \in 0 .. 512
      /\ <<ImportAddress, IATDirectory>> \in Seq(Int)
  <2>1. IATDirectory \in Int
    BY ImportFacts
  <2> QED BY <2>1 DEF NtHeadersSize, ImportAddress
<1>3. DosHeaderSize = 64 /\ PE_header_start_address - DosHeaderSize = 144
      /\ SectionHeaderSize = 40
  BY DEF DosHeaderSize, PE_header_start_address, SectionHeaderSize
<1>4. PieceIs(a, "dos_header", "headers", 64)
  <2>1. PieceIs(Content("dos_header", "headers", 64), "dos_header", "headers", 64)
    BY <1>1, <1>2, ContentFacts, Zenon
  <2> QED BY <1>3, <2>1
<1>5. PieceIs(b, "zeros", "headers", 144)
  BY <1>1, <1>2, <1>3, ZerosFacts
<1>6. PieceIs(c, "nt_headers", "headers", NtHeadersSize)
  BY <1>1, <1>2, PieceFacts, Zenon
<1>7. /\ Sections[1] = "text" /\ Sections[2] = "rdata" /\ Sections[3] = "idata"
      /\ DOMAIN Sections = 1 .. 3 /\ Len(Sections) = 3
  BY DEF Sections
<1>8. /\ PieceIs(d(1), "text", "headers", 40)
      /\ PieceIs(d(2), "rdata", "headers", 40)
      /\ PieceIs(d(3), "idata", "headers", 40)
  <2>1. /\ PieceIs(Content("text", "headers", 40), "text", "headers", 40)
        /\ PieceIs(Content("rdata", "headers", 40), "rdata", "headers", 40)
        /\ PieceIs(Content("idata", "headers", 40), "idata", "headers", 40)
    BY <1>1, <1>2, ContentFacts, Zenon
  <2> QED BY <1>3, <1>7, <2>1
<1>9. HeaderPieces = <<a, b, c>> \o [i \in 1 .. 3 |-> d(i)]
  BY <1>7 DEF HeaderPieces
<1> HIDE DEF a, b, c, d
<1>10. \A i \in 1 .. 3 : d(i) \in PieceSet
  <2>1. d(1) \in PieceSet /\ d(2) \in PieceSet /\ d(3) \in PieceSet
    BY <1>8 DEF PieceIs
  <2>2. \A i \in 1 .. 3 : i = 1 \/ i = 2 \/ i = 3
    OBVIOUS
  <2> QED BY <2>1, <2>2
<1> DEFINE e == [i \in 1 .. 3 |-> d(i)]
<1>11. e \in Seq(PieceSet) /\ Len(e) = 3 /\ e[1] = d(1) /\ e[2] = d(2) /\ e[3] = d(3)
  BY <1>10
<1> HIDE DEF e
<1>12. <<a, b, c>> \in Seq(PieceSet)
  BY <1>4, <1>5, <1>6 DEF PieceIs
<1> DEFINE p == HeaderPieces
<1>13. /\ p \in Seq(PieceSet) /\ Len(p) = 6
       /\ p[1] = a /\ p[2] = b /\ p[3] = c /\ p[4] = d(1) /\ p[5] = d(2) /\ p[6] = d(3)
  BY <1>9, <1>11, <1>12 DEF e
<1> HIDE DEF p
<1>14. /\ PieceIs(p[1], "dos_header", "headers", 64) /\ PieceIs(p[2], "zeros", "headers", 144)
       /\ PieceIs(p[3], "nt_headers", "headers", NtHeadersSize)
       /\ PieceIs(p[4], "text", "headers", 40) /\ PieceIs(p[5], "rdata", "headers", 40)
       /\ PieceIs(p[6], "idata", "headers", 40)
  BY <1>4, <1>5, <1>6, <1>8, <1>13
<1>15. Uncounted(p, 6, "headers") /\ \A k \in 1 .. 6 : p[k].what # "descriptor"
  <2>1. \A k \in 1 .. 6 : k = 1 \/ k = 2 \/ k = 3 \/ k = 4 \/ k = 5 \/ k = 6
    OBVIOUS
  <2> QED BY <1>13, <1>14, <2>1 DEF Uncounted, PieceIs
<1>16. SumTo(Sizes(p), 6) = 64 + 144 + NtHeadersSize + 40 + 40 + 40
  <2> DEFINE total == SumTo(Sizes(p), 6)
  <2>1. 6 \in {1, 2, 3, 4, 6} /\ 6 = Len(p) /\ total = SumTo(Sizes(p), 6)
    BY <1>13
  <2> HIDE DEF total
  <2>2. total = p[1].size + p[2].size + p[3].size + p[4].size + p[5].size + p[6].size
    BY <1>13, <2>1, SizeOfFew
  <2> QED BY <1>14, <2>2 DEF PieceIs, total
<1>17. HeadersEnd = 208 + NtHeadersSize + 120
  BY <1>7, <1>3 DEF HeadersEnd, PE_header_start_address
<1> QED BY <1>2, <1>15, <1>16, <1>17 DEF p

LEMMA StepWriteHeaders ==
  ASSUME IInv, WriteHeaders, UNCHANGED function
  PROVE  IInv'
<1> DEFINE total == SumTo(Sizes(HeaderPieces), 6)
<1>1. /\ InputOK /\ FileOK /\ step = "open" /\ step' = "text" /\ Write(HeaderPieces)
      /\ UNCHANGED <<input, counted, size_of_image, header>>
      /\ UNCHANGED <<function, input>>
  BY DEF IInv, WriteHeaders, At, HeaderPieces
<1>2. Layout
  BY <1>1, LayoutFacts
<1>3. written = <<>> /\ position = 0 /\ NbWritten("literal") = 0 /\ NbWritten("library") = 0
  BY <1>1 DEF IInv, StageOK, CountsOK, AtStart, Starting, BeforeNames, BeforeLiterals
<1>4. Uncounted(HeaderPieces, 6, "headers") /\ total = HeadersEnd
  BY <1>1, HeaderPiecesFacts
<1> HIDE DEF total
<1>5. Follows(written, "headers", position, position + total, Pointers, RawSizes)
  BY <1>2, <1>3, <1>4 DEF Follows, Layout, Pointers, SectionNames
<1>6. /\ InputOK' /\ FileOK' /\ position' = position + total
      /\ EndsAt(written', "headers", position')
      /\ NbWritten("literal")' = NbWritten("literal")
      /\ NbWritten("library")' = NbWritten("library")
  <2>1. 6 \in Nat \ {0} /\ total = SumTo(Sizes(HeaderPieces), 6)
    BY DEF total
  <2> QED BY <1>1, <1>4, <1>5, <2>1, UncountedStep
<1>7. StageOK'
  <2>1. HeadersEnd' = HeadersEnd
    BY <1>1, LayoutKept
  <2>2. AtText'
    BY <1>2, <1>3, <1>4, <1>6, <2>1 DEF AtText, Layout
  <2> QED BY <1>1, <2>2 DEF StageOK, Steps, Starting, DataWritten, AddressesPatched,
             ImagePatched, TextPatched, RdataPatched, IdataPatched
<1>8. CountsOK'
  BY <1>3, <1>6 DEF CountsOK
<1>9. SectionsOK' /\ ImageOK'
  BY <1>1 DEF SectionsOK, ImageOK, BeforeLiterals, DataWritten, AddressesPatched,
     ImagePatched, TextPatched, RdataPatched, IdataPatched
<1>10. HeaderOK'
  BY <1>1 DEF IInv, HeaderOK, AddressesPatched, ImagePatched, TextPatched, RdataPatched,
     IdataPatched
<1> QED BY <1>6, <1>7, <1>8, <1>9, <1>10 DEF IInv

\* A step that writes a literal, or the name of a library.
LEMMA CountedStep ==
  ASSUME InputOK, FileOK, UNCHANGED <<function, input>>,
         NEW what \in {"literal", "library"}, NEW sec \in SectionNames, NEW size \in Nat,
         Write(<<Content(what, sec, size)>>),
         Follows(written, sec, position, position + size, Pointers, RawSizes)
  PROVE  /\ InputOK' /\ FileOK' /\ position' = position + size
         /\ EndsAt(written', sec, position')
         /\ Has(written', sec) /\ (\A s : Has(written, s) => Has(written', s))
         /\ NbWritten(what)' = NbWritten(what) + 1
         /\ \A other \in {"literal", "library"} :
              other # what => NbWritten(other)' = NbWritten(other)
<1> DEFINE c == Content(what, sec, size)  pieces == <<c>>
           total == SumTo(Sizes(pieces), 1)
<1>1. PieceIs(c, what, sec, size)
  <2>1. what \in Whats /\ sec \in AllSections
    BY DEF Whats, AllSections
  <2> QED BY <2>1, ContentFacts, Zenon
<1> HIDE DEF c
<1>2. /\ pieces \in Seq(PieceSet) /\ 1 = Len(pieces) /\ pieces[1] = c
      /\ \A k \in 1 .. 1 : pieces[k].section = sec
  BY <1>1 DEF PieceIs
<1>3. /\ \A other \in {"literal", "library"} :
           other # what => \A k \in 1 .. 1 : pieces[k].what # other
      /\ pieces[1].what = what
  BY <1>1 DEF PieceIs
<1>4. Write(pieces)
  BY DEF c
<1> HIDE DEF pieces, total
<1>5. total = size
  <2>1. 1 \in {1, 2, 3, 4, 6} /\ total = SumTo(Sizes(pieces), 1)
    BY DEF total
  <2>2. total = pieces[1].size
    BY <1>2, <2>1, SizeOfFew
  <2> QED BY <1>1, <1>2, <2>2 DEF PieceIs
<1>6. Follows(written, sec, position, position + total, Pointers, RawSizes)
  BY <1>5
<1>7. /\ FileKept /\ position' = position + total /\ EndsAt(written', sec, position')
      /\ Added(written, written', pieces, 1, sec)
  <2>1. 1 # 0 /\ total = SumTo(Sizes(pieces), 1)
    BY DEF total
  <2> QED BY <1>2, <1>4, <1>6, <2>1, WriteStep
<1>8. written \in Seq(PieceSet)
  BY DEF FileOK
<1>9. Has(written', sec) /\ \A s : Has(written, s) => Has(written', s)
  BY <1>7, <1>8, HasMore
<1>10. NbIn(written', what) = NbIn(written, what) + 1
  BY <1>3, <1>7, <1>8, NbIncremented
<1>11. \A other \in {"literal", "library"} :
         other # what => NbIn(written', other) = NbIn(written, other)
  BY <1>3, <1>7, <1>8, NbKept
<1>12. InputOK' /\ FileOK'
  BY <1>7, LayoutKept DEF FileKept, FileOK
<1> QED BY <1>5, <1>7, <1>9, <1>10, <1>11, <1>12 DEF NbWritten, NbIn

-----------------------------------------------------------------------------
(* The steps of the headers, the code and the literals *)

LEMMA StepSeekText ==
  ASSUME IInv, SeekText, UNCHANGED function
  PROVE  IInv'
<1>1. /\ InputOK /\ FileOK /\ step = "text" /\ step' = "code"
      /\ position' = text_pointer_to_raw_data
      /\ size_of_image' = compute_aligned_size(text_pointer_to_raw_data, section_alignment)
      /\ UNCHANGED <<input, written, counted, header>> /\ UNCHANGED <<function, input>>
  BY DEF IInv, SeekText, At
<1>2. Layout
  BY <1>1, LayoutFacts
<1>3. position' = 1024 /\ size_of_image' = 4096
  BY <1>1, <1>2 DEF Layout, compute_aligned_size, section_alignment
<1>4. EndsAt(written, "headers", HeadersEnd)
  BY <1>1 DEF IInv, StageOK, AtText
<1>5. InputOK' /\ FileOK'
  BY <1>1, <1>3, LayoutKept DEF FileOK
<1>6. StageOK'
  <2>1. HeadersEnd' = HeadersEnd
    BY <1>1, LayoutKept
  <2>2. AtCode'
    BY <1>1, <1>3, <1>4, <2>1 DEF AtCode, EndsAt
  <2> QED BY <1>1, <2>2 DEF StageOK, Steps, Starting, DataWritten, AddressesPatched,
             ImagePatched, TextPatched, RdataPatched, IdataPatched
<1>7. CountsOK'
  BY <1>1 DEF IInv, CountsOK, NbWritten, BeforeNames, BeforeLiterals
<1>8. SectionsOK' /\ ImageOK'
  BY <1>1, <1>3 DEF SectionsOK, ImageOK, BeforeLiterals, DataWritten, AddressesPatched,
     ImagePatched, TextPatched, RdataPatched, IdataPatched
<1>9. HeaderOK'
  BY <1>1 DEF IInv, HeaderOK, AddressesPatched, ImagePatched, TextPatched, RdataPatched,
     IdataPatched
<1> QED BY <1>5, <1>6, <1>7, <1>8, <1>9 DEF IInv

LEMMA CodePieces ==
  ASSUME InputOK, FileOK
  PROVE  /\ PieceIs(Content("code", "text", InstructionsSize), "code", "text", 44)
         /\ PieceIs(Zeros("text", SizeOfRawData("text") - InstructionsSize),
                    "zeros", "text", 468)
<1>1. /\ "text" \in AllSections /\ "code" \in Whats /\ 44 \in Nat /\ 468 \in Int
      /\ 468 \in 0 .. 512
  BY DEF AllSections, SectionNames, Whats
<1>2. PieceIs(Content("code", "text", 44), "code", "text", 44)
  BY <1>1, ContentFacts, Zenon
<1>3. PieceIs(Zeros("text", 468), "zeros", "text", 468)
  BY <1>1, ZerosFacts
<1>4. InstructionsSize = 44 /\ SizeOfRawData("text") - InstructionsSize = 468
  BY LayoutFacts DEF InstructionsSize, Layout
<1> QED BY <1>2, <1>3, <1>4

LEMMA StepWriteCode ==
  ASSUME IInv, WriteCode, UNCHANGED function
  PROVE  IInv'
<1> DEFINE a == Content("code", "text", InstructionsSize)
           b == Zeros("text", SizeOfRawData("text") - InstructionsSize)
           pieces == <<a, b>>
           total == SumTo(Sizes(pieces), 2)
<1>1. /\ InputOK /\ FileOK /\ step = "code" /\ step' = "literals" /\ Write(pieces)
      /\ size_of_image' = size_of_image
           + compute_aligned_size(SizeOfRawData("text"), section_alignment)
      /\ counted' = 0 /\ UNCHANGED <<input, header>> /\ UNCHANGED <<function, input>>
  BY DEF IInv, WriteCode, At
<1>2. Layout
  BY <1>1, LayoutFacts
<1>3. /\ EndsAt(written, "headers", HeadersEnd) /\ position = 1024 /\ size_of_image = 4096
      /\ NbWritten("literal") = 0 /\ NbWritten("library") = 0
  BY <1>1 DEF IInv, StageOK, AtCode, ImageOK, CountsOK, BeforeLiterals, BeforeNames
<1>4. PieceIs(a, "code", "text", 44) /\ PieceIs(b, "zeros", "text", 468)
  BY <1>1, CodePieces
<1> HIDE DEF a, b
<1>5. Uncounted(pieces, 2, "text") /\ pieces[1] = a /\ pieces[2] = b
  BY <1>4 DEF Uncounted, PieceIs
<1> HIDE DEF pieces
<1>6. 2 \in Nat \ {0} /\ 2 \in {1, 2, 3, 4, 6} /\ total = SumTo(Sizes(pieces), 2)
  OBVIOUS
<1> HIDE DEF total
<1>7. total = 512
  <2>1. pieces \in Seq(PieceSet) /\ 2 = Len(pieces)
    BY <1>5 DEF Uncounted
  <2>2. total = pieces[1].size + pieces[2].size
    BY <1>6, <2>1, SizeOfFew
  <2> QED BY <1>4, <1>5, <2>2 DEF PieceIs
<1>8. Follows(written, "text", position, position + total, Pointers, RawSizes)
  BY <1>2, <1>3 DEF EndsAt, Follows, Layout, Pointers, SectionNames
<1>9. /\ InputOK' /\ FileOK' /\ position' = position + total
      /\ EndsAt(written', "text", position') /\ Has(written', "text")
      /\ NbWritten("literal")' = NbWritten("literal")
      /\ NbWritten("library")' = NbWritten("library")
  BY <1>1, <1>5, <1>6, <1>8, UncountedStep
<1>10. StageOK'
  <2>1. SumTo(input.literals, 0) = 0 /\ 0 <= Len(input.literals)
    BY <1>1, LiteralSums, SumRecurrence
  <2>2. AtLiterals'
    BY <1>1, <1>3, <1>7, <1>9, <2>1 DEF AtLiterals
  <2> QED BY <1>1, <2>2 DEF StageOK, Steps, Starting, DataWritten, AddressesPatched,
             ImagePatched, TextPatched, RdataPatched, IdataPatched
<1>11. CountsOK'
  BY <1>1, <1>3, <1>9 DEF CountsOK
<1>12. SectionsOK'
  BY <1>1, <1>9 DEF SectionsOK
<1>13. ImageOK'
  <2>1. size_of_image' = 8192
    BY <1>1, <1>2, <1>3 DEF Layout, compute_aligned_size, section_alignment
  <2> QED BY <1>1, <2>1 DEF ImageOK, DataWritten, AddressesPatched,
             ImagePatched, TextPatched, RdataPatched, IdataPatched
<1>14. HeaderOK'
  BY <1>1 DEF IInv, HeaderOK, AddressesPatched, ImagePatched, TextPatched, RdataPatched,
     IdataPatched
<1> QED BY <1>9, <1>10, <1>11, <1>12, <1>13, <1>14 DEF IInv

\* At the literals, the file ends where they go, whether there is one or not.
LEMMA LiteralFollows ==
  ASSUME InputOK, FileOK, AtLiterals, NEW end
  PROVE  /\ Follows(written, "rdata", position, end, Pointers, RawSizes)
         /\ NbWritten("literal") \in 0 .. Len(input.literals)
         /\ counted \in Nat /\ position = 1536 + counted
         /\ counted = SumTo(input.literals, NbWritten("literal"))
<1> DEFINE n == NbWritten("literal")
<1>1. /\ n <= Len(input.literals) /\ counted = SumTo(input.literals, n)
      /\ position = 1536 + counted
      /\ EndsAt(written, IF n = 0 THEN "text" ELSE "rdata", position)
  BY DEF AtLiterals
<1>2. n \in Nat
  BY NbIsNat DEF NbWritten, NbIn, FileOK
<1> HIDE DEF n
<1>3. n \in 0 .. Len(input.literals) /\ SumTo(input.literals, 0) = 0
  BY <1>1, <1>2, LiteralSums, SumRecurrence
<1>4. counted \in Nat /\ position \in Nat
  BY <1>1, <1>3, LiteralSums
<1>5. Layout
  BY LayoutFacts
<1>6. CASE n = 0
  <2>1. position = 1536 /\ EndsAt(written, "text", position)
    BY <1>1, <1>3, <1>6
  <2>2. /\ position = Pointers["rdata"] /\ position = Pointers["text"] + RawSizes["text"]
    BY <1>5, <2>1 DEF Layout, Pointers, RawSizes, SectionNames
  <2>3. Follows(written, "rdata", position, end, Pointers, RawSizes)
    BY <1>4, <2>1, <2>2 DEF EndsAt, Follows
  <2> QED BY <1>1, <1>3, <1>4, <2>3 DEF n
<1>7. CASE n # 0
  <2>1. EndsAt(written, "rdata", position)
    BY <1>1, <1>7
  <2>2. Follows(written, "rdata", position, end, Pointers, RawSizes)
    BY <1>4, <2>1, FollowsSame
  <2> QED BY <1>1, <1>3, <1>4, <2>2 DEF n
<1> QED BY <1>6, <1>7

LEMMA StepWriteLiteral ==
  ASSUME IInv, WriteLiteral, UNCHANGED function
  PROVE  IInv'
<1> DEFINE n == NbWritten("literal")
           size == input.literals[n + 1]
<1>1. /\ InputOK /\ FileOK /\ step = "literals" /\ step' = "literals"
      /\ n + 1 <= Len(input.literals)
      /\ Write(<<Content("literal", "rdata", size)>>)
      /\ counted' = counted + size
      /\ UNCHANGED <<input, size_of_image, header>> /\ UNCHANGED <<function, input>>
  BY DEF IInv, WriteLiteral
<1>2. AtLiterals
  BY <1>1 DEF IInv, StageOK
<1>3. /\ Follows(written, "rdata", position, position + size, Pointers, RawSizes)
      /\ n \in 0 .. Len(input.literals) /\ counted \in Nat /\ position = 1536 + counted
      /\ counted = SumTo(input.literals, n)
  BY <1>1, <1>2, LiteralFollows
<1> HIDE DEF n
<1>4. /\ size \in Nat /\ SumTo(input.literals, n + 1) = SumTo(input.literals, n) + size
  <2> DEFINE m == n + 1
  <2>1. m \in 1 .. Len(input.literals) /\ m - 1 = n
    BY <1>1, <1>3, LiteralSums
  <2> HIDE DEF m
  <2>2. /\ input.literals[m] \in Nat
        /\ SumTo(input.literals, m) = SumTo(input.literals, m - 1) + input.literals[m]
    BY <1>1, <2>1, LiteralSums
  <2> QED BY <2>1, <2>2 DEF m
<1> HIDE DEF size
<1>5. /\ InputOK' /\ FileOK' /\ position' = position + size
      /\ EndsAt(written', "rdata", position')
      /\ Has(written', "rdata") /\ (\A s : Has(written, s) => Has(written', s))
      /\ NbWritten("literal")' = NbWritten("literal") + 1
      /\ NbWritten("library")' = NbWritten("library")
  <2>1. "literal" \in {"literal", "library"} /\ "library" \in {"literal", "library"}
        /\ "rdata" \in SectionNames
    BY DEF SectionNames
  <2> QED BY <1>1, <1>3, <1>4, <2>1, CountedStep
<1>6. StageOK'
  <2>1. NbWritten("literal")' = n + 1 /\ n + 1 # 0
    BY <1>3, <1>5 DEF n
  <2>2. counted' = SumTo(input.literals, n + 1) /\ position' = 1536 + counted'
    BY <1>1, <1>3, <1>4, <1>5
  <2>3. AtLiterals'
    BY <1>1, <1>5, <2>1, <2>2 DEF AtLiterals
  <2> QED BY <1>1, <2>3 DEF StageOK, Steps, Starting, DataWritten, AddressesPatched,
             ImagePatched, TextPatched, RdataPatched, IdataPatched
<1>7. CountsOK'
  BY <1>1, <1>5 DEF IInv, CountsOK, BeforeLiterals, BeforeNames, Starting
<1>8. SectionsOK'
  BY <1>1, <1>5 DEF IInv, SectionsOK, BeforeLiterals, Starting
<1>9. ImageOK'
  BY <1>1 DEF IInv, ImageOK, DataWritten, AddressesPatched, ImagePatched, TextPatched,
     RdataPatched, IdataPatched
<1>10. HeaderOK'
  BY <1>1 DEF IInv, HeaderOK, AddressesPatched, ImagePatched, TextPatched, RdataPatched,
     IdataPatched
<1> QED BY <1>5, <1>6, <1>7, <1>8, <1>9, <1>10 DEF IInv

\* A padding of count zeros, in the section that the file ends with or is next.
LEMMA ZerosStep ==
  ASSUME InputOK, FileOK, UNCHANGED <<function, input>>, NEW sec \in SectionNames,
         NEW count \in Int, Write(<<Zeros(sec, count)>>),
         \A end : Follows(written, sec, position, end, Pointers, RawSizes)
  PROVE  /\ InputOK' /\ FileOK' /\ position' = position + (count % DWORD_SIZE)
         /\ count \in 0 .. 512 => position' = position + count
         /\ EndsAt(written', sec, position')
         /\ Has(written', sec) /\ (\A s : Has(written, s) => Has(written', s))
         /\ NbWritten("literal")' = NbWritten("literal")
         /\ NbWritten("library")' = NbWritten("library")
<1> DEFINE z == Zeros(sec, count)  size == count % DWORD_SIZE  pieces == <<z>>
           total == SumTo(Sizes(pieces), 1)
<1>1. PieceIs(z, "zeros", sec, size) /\ size \in Nat /\ (count \in 0 .. 512 => size = count)
  <2>1. sec \in AllSections
    BY DEF AllSections
  <2> QED BY <2>1, ZerosFacts
<1> HIDE DEF z, size
<1>2. Uncounted(pieces, 1, sec) /\ pieces[1] = z
  BY <1>1 DEF Uncounted, PieceIs
<1>3. Write(pieces) /\ 1 \in Nat \ {0} /\ 1 \in {1, 2, 3, 4, 6}
      /\ total = SumTo(Sizes(pieces), 1)
  BY DEF z
<1> HIDE DEF pieces, total
<1>4. total = size
  <2>1. pieces \in Seq(PieceSet) /\ 1 = Len(pieces)
    BY <1>2 DEF Uncounted
  <2>2. total = pieces[1].size
    BY <1>3, <2>1, SizeOfFew
  <2> QED BY <1>1, <1>2, <2>2 DEF PieceIs
<1>5. /\ InputOK' /\ FileOK' /\ position' = position + total
      /\ EndsAt(written', sec, position')
      /\ Has(written', sec) /\ (\A s : Has(written, s) => Has(written', s))
      /\ NbWritten("literal")' = NbWritten("literal")
      /\ NbWritten("library")' = NbWritten("library")
  BY <1>2, <1>3, UncountedStep
<1> QED BY <1>1, <1>4, <1>5 DEF size

LEMMA StepPadReadOnlyData ==
  ASSUME IInv, PadReadOnlyData, UNCHANGED function
  PROVE  IInv'
<1> DEFINE count == SizeOfRawData("rdata") - counted
<1>1. /\ InputOK /\ FileOK /\ step = "literals" /\ step' = "descriptor"
      /\ NbWritten("literal") = Len(input.literals)
      /\ Write(<<Zeros("rdata", count)>>)
      /\ size_of_image' = size_of_image
           + compute_aligned_size(SizeOfRawData("rdata"), section_alignment)
      /\ UNCHANGED <<input, header>> /\ UNCHANGED <<function, input>>
  BY DEF IInv, PadReadOnlyData, At
<1>2. AtLiterals /\ Layout
  BY <1>1, LayoutFacts DEF IInv, StageOK
<1>3. /\ \A end : Follows(written, "rdata", position, end, Pointers, RawSizes)
      /\ counted \in Nat /\ position = 1536 + counted
      /\ counted = SumTo(input.literals, Len(input.literals))
  BY <1>1, <1>2, LiteralFollows
<1>4. counted = Sum(input.literals)
  BY <1>3 DEF Sum
<1>5. count \in 0 .. 512 /\ count \in Int /\ count + counted = SizeOfRawData("rdata")
  BY <1>2, <1>3, <1>4 DEF Layout
<1> HIDE DEF count
<1>6. /\ InputOK' /\ FileOK' /\ position' = position + count
      /\ EndsAt(written', "rdata", position')
      /\ Has(written', "rdata") /\ (\A s : Has(written, s) => Has(written', s))
      /\ NbWritten("literal")' = NbWritten("literal")
      /\ NbWritten("library")' = NbWritten("library")
  <2>1. "rdata" \in SectionNames
    BY DEF SectionNames
  <2> QED BY <1>1, <1>3, <1>5, <2>1, ZerosStep, SMTT(30)
<1>7. /\ idata_pointer_to_raw_data' = idata_pointer_to_raw_data
      /\ idata_section_address' = idata_section_address
  BY <1>1, LayoutKept
<1>8. StageOK'
  <2>1. position' = 1536 + SizeOfRawData("rdata")
    BY <1>2, <1>3, <1>5, <1>6 DEF Layout
  <2>2. AtDescriptor'
    BY <1>2, <1>6, <1>7, <2>1 DEF AtDescriptor, Layout
  <2> QED BY <1>1, <2>2 DEF StageOK, Steps, Starting, DataWritten, AddressesPatched,
             ImagePatched, TextPatched, RdataPatched, IdataPatched
<1>9. CountsOK'
  BY <1>1, <1>6 DEF IInv, CountsOK, BeforeLiterals, BeforeNames, Starting
<1>10. SectionsOK'
  BY <1>1, <1>6 DEF IInv, SectionsOK, BeforeLiterals, Starting
<1>11. ImageOK'
  <2>1. size_of_image = 8192
    BY <1>1 DEF IInv, ImageOK
  <2>2. size_of_image' = idata_section_address
    BY <1>1, <1>2, <2>1 DEF Layout, section_alignment
  <2> QED BY <1>1, <1>7, <2>2 DEF ImageOK, DataWritten, AddressesPatched,
             ImagePatched, TextPatched, RdataPatched, IdataPatched
<1>12. HeaderOK'
  BY <1>1 DEF IInv, HeaderOK, AddressesPatched, ImagePatched, TextPatched, RdataPatched,
     IdataPatched
<1> QED BY <1>6, <1>8, <1>9, <1>10, <1>11, <1>12 DEF IInv

-----------------------------------------------------------------------------
(* The steps of the imports *)

\* What a step that goes from one part of the imports to the next one keeps.
ImportStep ==
  /\ InputOK' /\ FileOK' /\ NbWritten("literal")' = NbWritten("literal")
  /\ \A s : Has(written, s) => Has(written', s)
  /\ UNCHANGED <<input, size_of_image, header>> /\ UNCHANGED <<function, input>>

LEMMA ImportStepKeeps ==
  ASSUME IInv, ImportStep, step \in {"descriptor", "tables", "names", "libraries"},
         step' \in {"tables", "names", "libraries"},
         step' # "libraries" => NbWritten("library")' = NbWritten("library")
                                /\ step # "libraries"
  PROVE  CountsOK' /\ SectionsOK' /\ ImageOK' /\ HeaderOK'
<1>1. CountsOK'
  BY DEF IInv, ImportStep, CountsOK, BeforeLiterals, BeforeNames, Starting
<1>2. SectionsOK'
  BY DEF IInv, ImportStep, SectionsOK, BeforeLiterals, Starting
<1>3. ImageOK'
  <2>1. idata_section_address' = idata_section_address
    BY LayoutKept DEF ImportStep
  <2> QED BY <2>1 DEF IInv, ImportStep, ImageOK, DataWritten, AddressesPatched,
             ImagePatched, TextPatched, RdataPatched, IdataPatched
<1>4. HeaderOK'
  BY DEF IInv, ImportStep, HeaderOK, AddressesPatched, ImagePatched, TextPatched,
     RdataPatched, IdataPatched
<1> QED BY <1>1, <1>2, <1>3, <1>4

\* The sizes of the import tables do not depend on the step either.
LEMMA ImportsKept ==
  ASSUME UNCHANGED <<function, input>>
  PROVE  /\ TableSize' = TableSize /\ Imports' = Imports /\ NameSizes' = NameSizes
         /\ ImportsEnd' = ImportsEnd
<1>1. TableSize' = TableSize /\ idata_pointer_to_raw_data' = idata_pointer_to_raw_data
  BY LayoutKept
<1>2. Imports' = Imports
  BY <1>1 DEF Imports
<1>3. NameSizes' = NameSizes
  BY DEF NameSizes
<1> QED BY <1>1, <1>2, <1>3 DEF ImportsEnd

\* What the descriptor and the tables point to.
DescriptorRVAs ==
  <<ImportTables, ImportTables + 2 * TableSize + HNT_size, ImportTables + TableSize>>
TableRVAs == [k \in DOMAIN FunctionNames |-> FunctionRVA(k)]

LEMMA DescriptorPieces ==
  ASSUME InputOK, FileOK
  PROVE  /\ PieceIs(Piece("descriptor", "idata", DescriptorSize, DescriptorRVAs),
                    "descriptor", "idata", 20)
         /\ PieceIs(Zeros("idata", DescriptorSize), "zeros", "idata", 20)
<1>1. /\ "idata" \in AllSections /\ "descriptor" \in Whats /\ 20 \in Nat /\ 20 \in Int
      /\ 20 \in 0 .. 512 /\ DescriptorSize = 20
  BY DEF AllSections, SectionNames, Whats, DescriptorSize
<1>2. DescriptorRVAs \in Seq(Int)
  <2>1. ImportTables \in Int /\ TableSize \in Int /\ HNT_size \in Int
    BY ImportFacts DEF ImportTables, ImportAddress, DescriptorSize
  <2> QED BY <2>1 DEF DescriptorRVAs
<1>3. PieceIs(Piece("descriptor", "idata", 20, DescriptorRVAs), "descriptor", "idata", 20)
  BY <1>1, <1>2, PieceFacts, Zenon
<1>4. PieceIs(Zeros("idata", 20), "zeros", "idata", 20)
  BY <1>1, ZerosFacts
<1> QED BY <1>1, <1>3, <1>4

LEMMA StepWriteDescriptor ==
  ASSUME IInv, WriteDescriptor, UNCHANGED function
  PROVE  IInv'
<1> DEFINE a == Piece("descriptor", "idata", DescriptorSize, DescriptorRVAs)
           b == Zeros("idata", DescriptorSize)
           pieces == <<a, b>>
           total == SumTo(Sizes(pieces), 2)
<1>1. /\ InputOK /\ FileOK /\ step = "descriptor" /\ step' = "tables" /\ Write(pieces)
      /\ counted' = 2 * DescriptorSize
      /\ UNCHANGED <<input, size_of_image, header>> /\ UNCHANGED <<function, input>>
  BY DEF IInv, WriteDescriptor, At, DescriptorRVAs
<1>2. Layout
  BY <1>1, LayoutFacts
<1>3. EndsAt(written, "rdata", position) /\ position = idata_pointer_to_raw_data
      /\ position \in Nat
  BY <1>1 DEF IInv, StageOK, AtDescriptor, FileOK
<1>4. PieceIs(a, "descriptor", "idata", 20) /\ PieceIs(b, "zeros", "idata", 20)
  BY <1>1, DescriptorPieces
<1> HIDE DEF a, b
<1>5. Uncounted(pieces, 2, "idata") /\ pieces[1] = a /\ pieces[2] = b
  BY <1>4 DEF Uncounted, PieceIs
<1> HIDE DEF pieces
<1>6. 2 \in Nat \ {0} /\ 2 \in {1, 2, 3, 4, 6} /\ total = SumTo(Sizes(pieces), 2)
  OBVIOUS
<1> HIDE DEF total
<1>7. total = 2 * DescriptorSize
  <2>1. pieces \in Seq(PieceSet) /\ 2 = Len(pieces)
    BY <1>5 DEF Uncounted
  <2>2. total = pieces[1].size + pieces[2].size
    BY <1>6, <2>1, SizeOfFew
  <2> QED BY <1>4, <1>5, <2>2 DEF PieceIs, DescriptorSize
<1>8. Follows(written, "idata", position, position + total, Pointers, RawSizes)
  BY <1>2, <1>3 DEF EndsAt, Follows, Layout, Pointers, RawSizes, SectionNames
<1>9. /\ InputOK' /\ FileOK' /\ position' = position + total
      /\ EndsAt(written', "idata", position')
      /\ \A s : Has(written, s) => Has(written', s)
      /\ NbWritten("literal")' = NbWritten("literal")
      /\ NbWritten("library")' = NbWritten("library")
  BY <1>1, <1>5, <1>6, <1>8, UncountedStep
<1>10. StageOK'
  <2>1. idata_pointer_to_raw_data' = idata_pointer_to_raw_data
    BY <1>1, LayoutKept
  <2>2. AtImports(2 * DescriptorSize)'
    BY <1>1, <1>3, <1>7, <1>9, <2>1 DEF AtImports
  <2> QED BY <1>1, <2>2 DEF StageOK, Steps, Starting, DataWritten, AddressesPatched,
             ImagePatched, TextPatched, RdataPatched, IdataPatched
<1>11. CountsOK' /\ SectionsOK' /\ ImageOK' /\ HeaderOK'
  <2>1. ImportStep
    BY <1>1, <1>9 DEF ImportStep
  <2> QED BY <1>1, <1>9, <2>1, ImportStepKeeps
<1> QED BY <1>9, <1>10, <1>11 DEF IInv

LEMMA TablePieces ==
  ASSUME InputOK, FileOK
  PROVE  /\ PieceIs(Table("ILT"), "ILT", "idata", 3 * ThunkSize)
         /\ PieceIs(Zeros("idata", ThunkSize), "zeros", "idata", ThunkSize)
         /\ PieceIs(Table("IAT"), "IAT", "idata", 3 * ThunkSize)
         /\ \A what : Table(what) = Piece(what, "idata", 3 * ThunkSize, TableRVAs)
<1>1. ThunkSize \in {4, 8} /\ \A k \in 1 .. 3 : FunctionRVA(k) \in Int
  BY ImportFacts
<1>2. /\ "idata" \in AllSections /\ "ILT" \in Whats /\ "IAT" \in Whats
      /\ 3 * ThunkSize \in Nat /\ ThunkSize \in Int /\ ThunkSize \in 0 .. 512
  BY <1>1 DEF AllSections, SectionNames, Whats
<1>3. DOMAIN FunctionNames = 1 .. 3 /\ Len(FunctionNames) = 3
  BY DEF FunctionNames
<1>4. TableRVAs \in Seq(Int)
  BY <1>1, <1>3 DEF TableRVAs
<1>5. \A what : Table(what) = Piece(what, "idata", 3 * ThunkSize, TableRVAs)
  BY <1>3 DEF Table, TableRVAs
<1> DEFINE size == 3 * ThunkSize
<1> HIDE DEF size
<1>6. size \in Nat
  BY <1>2 DEF size
<1>7. /\ PieceIs(Piece("ILT", "idata", size, TableRVAs), "ILT", "idata", size)
      /\ PieceIs(Piece("IAT", "idata", size, TableRVAs), "IAT", "idata", size)
  BY <1>2, <1>4, <1>6, PieceFacts, Zenon
<1>8. PieceIs(Zeros("idata", ThunkSize), "zeros", "idata", ThunkSize)
  BY <1>2, ZerosFacts
<1> QED BY <1>5, <1>7, <1>8 DEF size

LEMMA StepWriteTables ==
  ASSUME IInv, WriteTables, UNCHANGED function
  PROVE  IInv'
<1> DEFINE a == Table("ILT")
           b == Zeros("idata", ThunkSize)
           c == Table("IAT")
           pieces == <<a, b, c, b>>
           total == SumTo(Sizes(pieces), 4)
<1>1. /\ InputOK /\ FileOK /\ step = "tables" /\ step' = "names" /\ Write(pieces)
      /\ counted' = counted + 2 * TableSize
      /\ UNCHANGED <<input, size_of_image, header>> /\ UNCHANGED <<function, input>>
  BY DEF IInv, WriteTables, At
<1>2. AtImports(2 * DescriptorSize) /\ position \in Nat
  BY <1>1 DEF IInv, StageOK, FileOK
<1>3. /\ TableSize \in {16, 32} /\ TableSize = 4 * ThunkSize /\ ThunkSize \in {4, 8}
      /\ \A k \in 1 .. 3 : FunctionRVA(k) \in Int
  BY <1>1, ImportFacts
<1>4. /\ PieceIs(a, "ILT", "idata", 3 * ThunkSize) /\ PieceIs(b, "zeros", "idata", ThunkSize)
      /\ PieceIs(c, "IAT", "idata", 3 * ThunkSize)
  BY <1>1, TablePieces
<1> HIDE DEF a, b, c
<1>5. /\ Uncounted(pieces, 4, "idata") /\ pieces[1] = a /\ pieces[2] = b /\ pieces[3] = c
      /\ pieces[4] = b
  BY <1>4 DEF Uncounted, PieceIs
<1> HIDE DEF pieces
<1>6. 4 \in Nat \ {0} /\ 4 \in {1, 2, 3, 4, 6} /\ total = SumTo(Sizes(pieces), 4)
  OBVIOUS
<1> HIDE DEF total
<1>7. total = 2 * TableSize
  <2>1. pieces \in Seq(PieceSet) /\ 4 = Len(pieces)
    BY <1>5 DEF Uncounted
  <2>2. total = pieces[1].size + pieces[2].size + pieces[3].size + pieces[4].size
    BY <1>6, <2>1, SizeOfFew
  <2> QED BY <1>3, <1>4, <1>5, <2>2 DEF PieceIs
<1>8. Follows(written, "idata", position, position + total, Pointers, RawSizes)
  BY <1>2, FollowsSame DEF AtImports
<1>9. /\ InputOK' /\ FileOK' /\ position' = position + total
      /\ EndsAt(written', "idata", position')
      /\ \A s : Has(written, s) => Has(written', s)
      /\ NbWritten("literal")' = NbWritten("literal")
      /\ NbWritten("library")' = NbWritten("library")
  BY <1>1, <1>5, <1>6, <1>8, UncountedStep
<1>10. StageOK'
  <2>1. idata_pointer_to_raw_data' = idata_pointer_to_raw_data /\ TableSize' = TableSize
    BY <1>1, LayoutKept
  <2>2. idata_pointer_to_raw_data \in Nat
    BY <1>1, LayoutFacts DEF Layout
  <2>3. AtImports(2 * DescriptorSize + 2 * TableSize)'
    BY <1>1, <1>2, <1>3, <1>7, <1>9, <2>1, <2>2 DEF AtImports, DescriptorSize
  <2> QED BY <1>1, <2>3 DEF StageOK, Steps, Starting, DataWritten, AddressesPatched,
             ImagePatched, TextPatched, RdataPatched, IdataPatched
<1>11. CountsOK' /\ SectionsOK' /\ ImageOK' /\ HeaderOK'
  <2>1. ImportStep
    BY <1>1, <1>9 DEF ImportStep
  <2> QED BY <1>1, <1>9, <2>1, ImportStepKeeps
<1> QED BY <1>9, <1>10, <1>11 DEF IInv

NamePiece(k) == Content(FunctionNames[k], "idata", 2 + FunctionSizes[k] + 1)

LEMMA NamePieces ==
  ASSUME InputOK, FileOK
  PROVE  /\ PieceIs(NamePiece(1), "GetStdHandle", "idata", 15)
         /\ PieceIs(NamePiece(2), "WriteFile", "idata", 12)
         /\ PieceIs(NamePiece(3), "ExitProcess", "idata", 14)
<1>1. /\ FunctionNames[1] = "GetStdHandle" /\ FunctionNames[2] = "WriteFile"
      /\ FunctionNames[3] = "ExitProcess" /\ FunctionSizes[1] = 12 /\ FunctionSizes[2] = 9
      /\ FunctionSizes[3] = 11
  BY DEF FunctionNames, FunctionSizes
<1>2. /\ "idata" \in AllSections /\ "GetStdHandle" \in Whats /\ "WriteFile" \in Whats
      /\ "ExitProcess" \in Whats /\ 15 \in Nat /\ 12 \in Nat /\ 14 \in Nat
  BY DEF AllSections, SectionNames, Whats
<1>3. /\ PieceIs(Content("GetStdHandle", "idata", 15), "GetStdHandle", "idata", 15)
      /\ PieceIs(Content("WriteFile", "idata", 12), "WriteFile", "idata", 12)
      /\ PieceIs(Content("ExitProcess", "idata", 14), "ExitProcess", "idata", 14)
  BY <1>2, ContentFacts, Zenon
<1> QED BY <1>1, <1>3 DEF NamePiece

LEMMA StepWriteFunctionNames ==
  ASSUME IInv, WriteFunctionNames, UNCHANGED function
  PROVE  IInv'
<1> DEFINE c(k) == NamePiece(k)
           pieces == [k \in DOMAIN FunctionNames |-> c(k)]
           total == SumTo(Sizes(pieces), 3)
<1>1. /\ InputOK /\ FileOK /\ step = "names" /\ step' = "libraries" /\ Write(pieces)
      /\ counted' = counted + HNT_size
      /\ UNCHANGED <<input, size_of_image, header>> /\ UNCHANGED <<function, input>>
  BY DEF IInv, WriteFunctionNames, At, NamePiece
<1>2. /\ AtImports(2 * DescriptorSize + 2 * TableSize) /\ position \in Nat
      /\ NbWritten("library") = 0
  BY <1>1 DEF IInv, StageOK, FileOK, CountsOK, BeforeNames
<1>3. DOMAIN FunctionNames = 1 .. 3
  BY DEF FunctionNames
<1>4. /\ PieceIs(c(1), "GetStdHandle", "idata", 15) /\ PieceIs(c(2), "WriteFile", "idata", 12)
      /\ PieceIs(c(3), "ExitProcess", "idata", 14)
  BY <1>1, NamePieces
<1> HIDE DEF c
<1>5. /\ Uncounted(pieces, 3, "idata") /\ pieces[1] = c(1) /\ pieces[2] = c(2)
      /\ pieces[3] = c(3)
  <2>1. \A k \in 1 .. 3 : k = 1 \/ k = 2 \/ k = 3
    OBVIOUS
  <2>2. \A k \in 1 .. 3 : /\ c(k) \in PieceSet /\ c(k).section = "idata"
                          /\ c(k).what # "literal" /\ c(k).what # "library"
    BY <1>4, <2>1 DEF PieceIs
  <2>3. pieces = [k \in 1 .. 3 |-> c(k)]
    BY <1>3
  <2>4. pieces \in Seq(PieceSet) /\ Len(pieces) = 3 /\ \A k \in 1 .. 3 : pieces[k] = c(k)
    BY <2>2, <2>3
  <2> HIDE DEF pieces
  <2> QED BY <2>2, <2>4 DEF Uncounted
<1> HIDE DEF pieces
<1>6. 3 \in Nat \ {0} /\ 3 \in {1, 2, 3, 4, 6} /\ total = SumTo(Sizes(pieces), 3)
  OBVIOUS
<1> HIDE DEF total
<1>7. total = HNT_size
  <2>1. pieces \in Seq(PieceSet) /\ 3 = Len(pieces)
    BY <1>5 DEF Uncounted
  <2>2. total = pieces[1].size + pieces[2].size + pieces[3].size
    BY <1>6, <2>1, SizeOfFew
  <2>3. HNT_size = 41
    BY <1>1, ImportFacts
  <2> QED BY <1>4, <1>5, <2>2, <2>3 DEF PieceIs
<1>8. Follows(written, "idata", position, position + total, Pointers, RawSizes)
  BY <1>2, FollowsSame DEF AtImports
<1>9. /\ InputOK' /\ FileOK' /\ position' = position + total
      /\ EndsAt(written', "idata", position')
      /\ \A s : Has(written, s) => Has(written', s)
      /\ NbWritten("literal")' = NbWritten("literal")
      /\ NbWritten("library")' = NbWritten("library")
  BY <1>1, <1>5, <1>6, <1>8, UncountedStep
<1>10. StageOK'
  <2>1. /\ idata_pointer_to_raw_data' = idata_pointer_to_raw_data /\ NameSizes' = NameSizes
        /\ Imports' = Imports
    BY <1>1, LayoutKept, ImportsKept
  <2>2. idata_pointer_to_raw_data \in Nat
    BY <1>1, LayoutFacts DEF Layout
  <2>3. SumTo(NameSizes, 0) = 0 /\ 0 <= Len(input.libraries)
    BY <1>1, NameSums, SumRecurrence
  <2>4. /\ TableSize \in {16, 32} /\ HNT_size = 41
        /\ Imports = 2 * DescriptorSize + 2 * TableSize + HNT_size
    BY <1>1, ImportFacts
  <2>5. /\ counted' = Imports + SumTo(NameSizes, 0)
        /\ position' = idata_pointer_to_raw_data + (Imports + SumTo(NameSizes, 0))
    BY <1>1, <1>2, <1>7, <1>9, <2>2, <2>3, <2>4 DEF AtImports, DescriptorSize
  <2>6. AtLibraries'
    BY <1>1, <1>2, <1>9, <2>1, <2>3, <2>5 DEF AtLibraries, AtImports
  <2> QED BY <1>1, <2>6 DEF StageOK, Steps, Starting, DataWritten, AddressesPatched,
             ImagePatched, TextPatched, RdataPatched, IdataPatched
<1>11. CountsOK' /\ SectionsOK' /\ ImageOK' /\ HeaderOK'
  <2>1. ImportStep
    BY <1>1, <1>9 DEF ImportStep
  <2> QED BY <1>1, <1>9, <2>1, ImportStepKeeps
<1> QED BY <1>9, <1>10, <1>11 DEF IInv

LEMMA LibrariesFacts ==
  ASSUME InputOK, FileOK, AtLibraries
  PROVE  /\ \A end : Follows(written, "idata", position, end, Pointers, RawSizes)
         /\ NbWritten("library") \in 0 .. Len(input.libraries)
         /\ counted = Imports + SumTo(NameSizes, NbWritten("library"))
         /\ SumTo(NameSizes, NbWritten("library")) \in Nat /\ Imports \in Nat
         /\ position = idata_pointer_to_raw_data + counted
         /\ idata_pointer_to_raw_data \in Nat
<1> DEFINE n == NbWritten("library")
<1>1. /\ n <= Len(input.libraries) /\ counted = Imports + SumTo(NameSizes, n)
      /\ EndsAt(written, "idata", position)
      /\ position = idata_pointer_to_raw_data + counted
  BY DEF AtLibraries, AtImports
<1>2. n \in Nat /\ position \in Nat
  BY NbIsNat DEF NbWritten, NbIn, FileOK
<1> HIDE DEF n
<1>3. n \in 0 .. Len(input.libraries) /\ SumTo(NameSizes, n) \in Nat
  BY <1>1, <1>2, NameSums
<1>4. Imports \in Nat /\ idata_pointer_to_raw_data \in Nat
  BY ImportFacts, LayoutFacts DEF Layout
<1>5. \A end : Follows(written, "idata", position, end, Pointers, RawSizes)
  BY <1>1, <1>2, FollowsSame
<1> QED BY <1>1, <1>3, <1>4, <1>5 DEF n

LEMMA StepWriteLibraryName ==
  ASSUME IInv, WriteLibraryName, UNCHANGED function
  PROVE  IInv'
<1> DEFINE n == NbWritten("library")
           size == input.libraries[n + 1] + 1
<1>1. /\ InputOK /\ FileOK /\ step = "libraries" /\ step' = "libraries"
      /\ n + 1 <= Len(input.libraries)
      /\ Write(<<Content("library", "idata", size)>>)
      /\ counted' = counted + input.libraries[n + 1] + 1
      /\ UNCHANGED <<input, size_of_image, header>> /\ UNCHANGED <<function, input>>
  BY DEF IInv, WriteLibraryName
<1>2. AtLibraries
  BY <1>1 DEF IInv, StageOK
<1>3. /\ Follows(written, "idata", position, position + size, Pointers, RawSizes)
      /\ n \in 0 .. Len(input.libraries)
      /\ counted = Imports + SumTo(NameSizes, n)
      /\ SumTo(NameSizes, n) \in Nat /\ Imports \in Nat
      /\ position = idata_pointer_to_raw_data + counted
      /\ idata_pointer_to_raw_data \in Nat
  BY <1>1, <1>2, LibrariesFacts
<1> HIDE DEF n
<1>4. /\ size \in Nat /\ input.libraries[n + 1] \in Nat
      /\ SumTo(NameSizes, n + 1) = SumTo(NameSizes, n) + size
  <2> DEFINE m == n + 1
  <2>1. m \in 1 .. Len(input.libraries) /\ m - 1 = n
    <3>1. Len(input.libraries) \in Nat
      BY <1>1, NameSums
    <3>2. n + 1 <= Len(input.libraries) /\ n \in 0 .. Len(input.libraries)
      BY <1>1, <1>3
    <3> QED BY <3>1, <3>2
  <2> HIDE DEF m
  <2>2. /\ input.libraries[m] \in Nat
        /\ SumTo(NameSizes, m) = SumTo(NameSizes, m - 1) + input.libraries[m] + 1
    BY <1>1, <2>1, NameSums
  <2>3. SumTo(NameSizes, m) = SumTo(NameSizes, n) + (input.libraries[m] + 1)
    BY <1>3, <2>1, <2>2
  <2> QED BY <2>2, <2>3 DEF m
<1>5. counted' = counted + size
  <2>1. counted \in Nat
    BY <1>3
  <2> QED BY <1>1, <1>4, <2>1
<1> HIDE DEF size
<1>6. /\ InputOK' /\ FileOK' /\ position' = position + size
      /\ EndsAt(written', "idata", position')
      /\ (\A s : Has(written, s) => Has(written', s))
      /\ NbWritten("library")' = NbWritten("library") + 1
      /\ NbWritten("literal")' = NbWritten("literal")
  <2>1. "literal" \in {"literal", "library"} /\ "library" \in {"literal", "library"}
        /\ "idata" \in SectionNames
    BY DEF SectionNames
  <2> QED BY <1>1, <1>3, <1>4, <2>1, CountedStep
<1>7. StageOK'
  <2>1. NbWritten("library")' = n + 1
    BY <1>6 DEF n
  <2>2. /\ idata_pointer_to_raw_data' = idata_pointer_to_raw_data /\ NameSizes' = NameSizes
        /\ Imports' = Imports
    BY <1>1, LayoutKept, ImportsKept
  <2>3. /\ counted' = Imports + SumTo(NameSizes, n + 1)
        /\ position' = idata_pointer_to_raw_data + (Imports + SumTo(NameSizes, n + 1))
    <3> DEFINE s == SumTo(NameSizes, n)  t == SumTo(NameSizes, n + 1)
    <3>1. /\ t = s + size /\ s \in Nat /\ size \in Nat /\ counted = Imports + s
          /\ counted' = counted + size /\ position' = position + size
      BY <1>3, <1>4, <1>5, <1>6
    <3> HIDE DEF s, t, n
    <3>2. Imports \in Nat /\ idata_pointer_to_raw_data \in Nat
          /\ position = idata_pointer_to_raw_data + counted
      BY <1>3
    <3>3. counted' = Imports + t
      BY <3>1, <3>2
    <3>4. position' = idata_pointer_to_raw_data + (Imports + t)
      BY <3>1, <3>2
    <3> QED BY <3>3, <3>4 DEF t
  <2>4. AtLibraries'
    BY <1>1, <1>6, <2>1, <2>2, <2>3 DEF AtLibraries, AtImports
  <2> QED BY <1>1, <2>4 DEF StageOK, Steps, Starting, DataWritten, AddressesPatched,
             ImagePatched, TextPatched, RdataPatched, IdataPatched
<1>8. CountsOK' /\ SectionsOK' /\ ImageOK' /\ HeaderOK'
  <2>1. ImportStep
    BY <1>1, <1>6 DEF ImportStep
  <2> QED BY <1>1, <2>1, ImportStepKeeps
<1> QED BY <1>6, <1>7, <1>8 DEF IInv

LEMMA StepPadImportData ==
  ASSUME IInv, PadImportData, UNCHANGED function
  PROVE  IInv'
<1> DEFINE count == SizeOfRawData("idata") - counted
<1>1. /\ InputOK /\ FileOK /\ step = "libraries" /\ step' = "size_of_code"
      /\ NbWritten("library") = Len(input.libraries)
      /\ Write(<<Zeros("idata", count)>>)
      /\ size_of_image' = size_of_image
           + compute_aligned_size(SizeOfRawData("idata"), section_alignment)
      /\ UNCHANGED <<input, counted, header>> /\ UNCHANGED <<function, input>>
  BY DEF IInv, PadImportData, At
<1>2. AtLibraries /\ Layout
  BY <1>1, LayoutFacts DEF IInv, StageOK
<1>3. /\ \A end : Follows(written, "idata", position, end, Pointers, RawSizes)
      /\ counted = Imports + SumTo(NameSizes, Len(input.libraries))
      /\ SumTo(NameSizes, Len(input.libraries)) \in Nat /\ Imports \in Nat
      /\ position = idata_pointer_to_raw_data + counted
      /\ idata_pointer_to_raw_data \in Nat
  BY <1>1, <1>2, LibrariesFacts
<1>4. Sum(NameSizes) = SumTo(NameSizes, Len(input.libraries))
  BY <1>1, NameSums DEF Sum
<1>5. count = 512 - (Imports + Sum(NameSizes)) /\ count \in Int
  BY <1>2, <1>3, <1>4 DEF Layout
<1> HIDE DEF count
<1>6. /\ InputOK' /\ FileOK' /\ position' = position + (count % DWORD_SIZE)
      /\ EndsAt(written', "idata", position')
      /\ (\A s : Has(written, s) => Has(written', s))
      /\ NbWritten("literal")' = NbWritten("literal")
      /\ NbWritten("library")' = NbWritten("library")
  <2>1. "idata" \in SectionNames
    BY DEF SectionNames
  <2> QED BY <1>1, <1>3, <1>5, <2>1, ZerosStep
<1>7. /\ ImportsEnd' = ImportsEnd /\ idata_section_address' = idata_section_address
  BY <1>1, LayoutKept, ImportsKept
<1>8. StageOK'
  <2>1. position' = ImportsEnd
    <3>1. position' = idata_pointer_to_raw_data + counted + (count % DWORD_SIZE)
      BY <1>3, <1>6
    <3>2. counted = Imports + Sum(NameSizes)
      BY <1>3, <1>4
    <3> DEFINE pad == count % DWORD_SIZE
    <3>3. ImportsEnd = idata_pointer_to_raw_data + Imports + Sum(NameSizes) + pad
      BY <1>5 DEF ImportsEnd
    <3>4. pad \in Int
      BY <1>5, SizesAssumption DEF file_alignment
    <3>5. position' = idata_pointer_to_raw_data + counted + pad
      BY <3>1
    <3> HIDE DEF pad
    <3> QED BY <1>3, <1>4, <3>2, <3>3, <3>4, <3>5
  <2>2. AtEnd'
    BY <1>6, <1>7, <2>1 DEF AtEnd
  <2> QED BY <1>1, <2>2 DEF StageOK, Steps, Starting, DataWritten, AddressesPatched,
             ImagePatched, TextPatched, RdataPatched, IdataPatched
<1>9. CountsOK'
  BY <1>1, <1>6 DEF IInv, CountsOK, BeforeLiterals, BeforeNames, Starting
<1>10. SectionsOK'
  BY <1>1, <1>6 DEF IInv, SectionsOK, BeforeLiterals, Starting
<1>11. ImageOK'
  <2>1. size_of_image = idata_section_address
    BY <1>1 DEF IInv, ImageOK
  <2>2. size_of_image' = idata_section_address + 4096
    BY <1>1, <1>2, <2>1 DEF Layout, section_alignment, compute_aligned_size
  <2> QED BY <1>1, <1>7, <2>2 DEF ImageOK, DataWritten, AddressesPatched,
             ImagePatched, TextPatched, RdataPatched, IdataPatched
<1>12. HeaderOK'
  BY <1>1 DEF IInv, HeaderOK, AddressesPatched, ImagePatched, TextPatched, RdataPatched,
     IdataPatched
<1> QED BY <1>6, <1>8, <1>9, <1>10, <1>11, <1>12 DEF IInv

-----------------------------------------------------------------------------
(* The steps that patch the headers, and those that stop *)

\* One section header is patched, and nothing else.
PatchedFor(h, g, section, address, pointer) ==
  /\ g \in HeaderSet
  /\ g.VirtualAddress[section] = address /\ g.PointerToRawData[section] = pointer
  /\ \A other \in SectionNames \ {section} :
       /\ g.VirtualAddress[other] = h.VirtualAddress[other]
       /\ g.PointerToRawData[other] = h.PointerToRawData[other]
  /\ g.AddressOfEntryPoint = h.AddressOfEntryPoint /\ g.BaseOfData = h.BaseOfData
  /\ g.SizeOfImage = h.SizeOfImage /\ g.SizeOfHeaders = h.SizeOfHeaders

SectionIn(h, section, address, pointer) ==
  [h EXCEPT !.VirtualAddress[section] = address, !.PointerToRawData[section] = pointer]

LEMMA SectionPatched ==
  ASSUME NEW h \in HeaderSet, NEW section \in SectionNames, NEW address \in Nat,
         NEW pointer \in Nat
  PROVE  PatchedFor(h, SectionIn(h, section, address, pointer), section, address, pointer)
<1> DEFINE g == SectionIn(h, section, address, pointer)
           va == [h.VirtualAddress EXCEPT ![section] = address]
           pr == [h.PointerToRawData EXCEPT ![section] = pointer]
<1>1. h.VirtualAddress \in [SectionNames -> Nat] /\ h.PointerToRawData \in [SectionNames -> Nat]
  BY DEF HeaderSet
<1>2. /\ va \in [SectionNames -> Nat] /\ va[section] = address
      /\ pr \in [SectionNames -> Nat] /\ pr[section] = pointer
      /\ \A other \in SectionNames \ {section} :
           va[other] = h.VirtualAddress[other] /\ pr[other] = h.PointerToRawData[other]
  BY <1>1
<1>3. g = [h EXCEPT !.VirtualAddress = va, !.PointerToRawData = pr]
  BY DEF HeaderSet, SectionIn
<1> HIDE DEF g, va, pr
<1>4. g \in HeaderSet /\ g.VirtualAddress = va /\ g.PointerToRawData = pr
      /\ g.AddressOfEntryPoint = h.AddressOfEntryPoint /\ g.BaseOfData = h.BaseOfData
      /\ g.SizeOfImage = h.SizeOfImage /\ g.SizeOfHeaders = h.SizeOfHeaders
  BY <1>2, <1>3 DEF HeaderSet
<1> QED BY <1>2, <1>4 DEF PatchedFor, g

SizesIn(h, a, b, c) ==
  [h EXCEPT !.SizeOfCode = a, !.SizeOfInitializedData = b, !.SizeOfUninitializedData = c]
AddressesIn(h, a, b, c) ==
  [h EXCEPT !.AddressOfEntryPoint = a, !.BaseOfCode = b, !.BaseOfData = c]
ImageIn(h, a, b) == [h EXCEPT !.SizeOfImage = a, !.SizeOfHeaders = b]

LEMMA FieldsPatched ==
  ASSUME NEW h \in HeaderSet, NEW a \in Nat, NEW b \in Nat, NEW c \in Nat
  PROVE  /\ SizesIn(h, a, b, c) \in HeaderSet
         /\ AddressesIn(h, a, b, c) \in HeaderSet
         /\ AddressesIn(h, a, b, c).AddressOfEntryPoint = a
         /\ AddressesIn(h, a, b, c).BaseOfData = c
         /\ ImageIn(h, a, b) \in HeaderSet
         /\ ImageIn(h, a, b).SizeOfImage = a /\ ImageIn(h, a, b).SizeOfHeaders = b
         /\ ImageIn(h, a, b).AddressOfEntryPoint = h.AddressOfEntryPoint
         /\ ImageIn(h, a, b).BaseOfData = h.BaseOfData
BY DEF HeaderSet, SizesIn, AddressesIn, ImageIn

\* What is in the file does not change, and the header has one more field.
LEMMA StepPatches ==
  ASSUME IInv, UNCHANGED function, Patches
  PROVE  IInv'
<1>1. /\ UNCHANGED <<input, written, position, counted, size_of_image>>
      /\ UNCHANGED <<function, input>> /\ step \in DataWritten /\ step' \in DataWritten
  BY DEF Patches, PatchSizes, PatchAddresses, PatchSizeOfImage, PatchTextHeader,
     PatchRdataHeader, PatchIdataHeader, Patch, At, DataWritten, AddressesPatched,
     ImagePatched, TextPatched, RdataPatched, IdataPatched
<1>2. /\ step \notin BeforeNames \cup {"libraries"} /\ step' \notin BeforeNames \cup {"libraries"}
      /\ step \notin BeforeLiterals /\ step' \notin BeforeLiterals
      /\ step' \notin Starting /\ step' \in Steps
      /\ step' \notin {"text", "code", "literals", "descriptor", "tables", "names", "libraries"}
      /\ step \notin {"text", "code", "literals", "descriptor", "tables", "names", "libraries"}
  BY <1>1 DEF BeforeNames, BeforeLiterals, Starting, Steps, DataWritten,
     AddressesPatched, ImagePatched, TextPatched, RdataPatched, IdataPatched
<1>3. /\ InputOK /\ FileOK /\ Layout
  BY LayoutFacts DEF IInv
<1>4. InputOK' /\ FileOK'
  BY <1>1, <1>3, LayoutKept DEF FileOK
<1>5. StageOK'
  <2>1. ImportsEnd' = ImportsEnd
    BY <1>1, ImportsKept
  <2>2. AtEnd'
    BY <1>1, <2>1 DEF IInv, StageOK, AtEnd, EndsAt
  <2> QED BY <1>2, <2>2 DEF StageOK
<1>6. CountsOK'
  BY <1>2 DEF CountsOK
<1>7. SectionsOK'
  BY <1>1, <1>2 DEF IInv, SectionsOK, Has
<1>8. ImageOK'
  <2>1. idata_section_address' = idata_section_address
    BY <1>1, LayoutKept
  <2> QED BY <1>1, <1>2, <2>1 DEF IInv, ImageOK
<1>9. HeaderOK'
  <2>1. /\ idata_section_address' = idata_section_address /\ (HasBaseOfData' <=> HasBaseOfData)
        /\ idata_pointer_to_raw_data' = idata_pointer_to_raw_data
    BY <1>1, LayoutKept DEF HasBaseOfData
  <2>2. /\ header \in HeaderSet /\ size_of_image = idata_section_address + 4096
        /\ idata_section_address \in Nat /\ idata_pointer_to_raw_data \in Nat
    <3>1. compute_aligned_size(SizeOfRawData("rdata"), 4096) \in Nat
      BY <1>3, Aligned DEF Layout
    <3> QED BY <1>1, <1>3, <3>1 DEF IInv, HeaderOK, ImageOK, Layout
  <2>3. /\ text_section_address = 4096 /\ text_pointer_to_raw_data = 1024
        /\ rdata_section_address = 8192 /\ rdata_pointer_to_raw_data = 1536
        /\ SizeOfRawData("text") = 512
    BY <1>3 DEF Layout
  <2> USE DEF AddressesPatched, ImagePatched, TextPatched, RdataPatched, IdataPatched
  <2> DEFINE raw == SizeOfRawData("text")
             base == IF HasBaseOfData THEN rdata_section_address ELSE 0
  <2>5. CASE PatchSizes
    <3>1. /\ step = "size_of_code" /\ step' = "address_of_entry_point"
          /\ header' = SizesIn(header, raw, raw, 0)
      BY <2>5 DEF PatchSizes, Patch, At, SizesIn
    <3>2. header' \in HeaderSet
      <4>1. raw \in Nat /\ 0 \in Nat
        BY <2>3
      <4> HIDE DEF raw
      <4> QED BY <2>2, <3>1, <4>1, FieldsPatched, Zenon
    <3> QED BY <3>1, <3>2 DEF HeaderOK
  <2>6. CASE PatchAddresses
    <3>1. /\ step = "address_of_entry_point" /\ step' = "size_of_image"
          /\ header' = AddressesIn(header, text_section_address, text_section_address, base)
      BY <2>6 DEF PatchAddresses, Patch, At, AddressesIn
    <3>2. /\ header' \in HeaderSet /\ header'.AddressOfEntryPoint = 4096
          /\ HasBaseOfData => header'.BaseOfData = 8192
      <4>1. text_section_address \in Nat /\ base \in Nat /\ (HasBaseOfData => base = 8192)
        BY <2>3
      <4> HIDE DEF base
      <4>2. header' \in HeaderSet /\ header'.AddressOfEntryPoint = text_section_address
            /\ header'.BaseOfData = base
        <5>1. /\ AddressesIn(header, text_section_address, text_section_address, base)
                    \in HeaderSet
              /\ AddressesIn(header, text_section_address, text_section_address,
                             base).AddressOfEntryPoint = text_section_address
              /\ AddressesIn(header, text_section_address, text_section_address,
                             base).BaseOfData = base
          BY <2>2, <4>1, FieldsPatched
        <5> QED BY <3>1, <5>1
      <4> QED BY <2>3, <4>1, <4>2
    <3> QED BY <2>1, <3>1, <3>2 DEF HeaderOK
  <2>7. CASE PatchSizeOfImage
    <3>1. /\ step = "size_of_image" /\ step' = "text_header"
          /\ header' = ImageIn(header, size_of_image, text_pointer_to_raw_data)
      BY <2>7 DEF PatchSizeOfImage, Patch, At, ImageIn, text_pointer_to_raw_data
    <3>2. size_of_image \in Nat
      BY <2>2
    <3>3. /\ header' \in HeaderSet /\ header'.AddressOfEntryPoint = header.AddressOfEntryPoint
          /\ header'.BaseOfData = header.BaseOfData
          /\ header'.SizeOfImage = size_of_image
          /\ header'.SizeOfHeaders = text_pointer_to_raw_data
      <4>1. text_pointer_to_raw_data \in Nat
        BY <2>3
      <4> DEFINE h2 == ImageIn(header, size_of_image, text_pointer_to_raw_data)
      <4>2. /\ h2 \in HeaderSet /\ h2.AddressOfEntryPoint = header.AddressOfEntryPoint
            /\ h2.BaseOfData = header.BaseOfData /\ h2.SizeOfImage = size_of_image
            /\ h2.SizeOfHeaders = text_pointer_to_raw_data
        BY <2>2, <3>2, <4>1, FieldsPatched
      <4> QED BY <3>1, <4>2
    <3> QED BY <2>1, <2>2, <2>3, <3>1, <3>3 DEF IInv, HeaderOK
  <2>8. CASE PatchTextHeader
    <3>1. /\ step = "text_header" /\ step' = "rdata_header"
          /\ header' = SectionIn(header, "text", text_section_address, text_pointer_to_raw_data)
      BY <2>8 DEF PatchTextHeader, Patch, At, SectionIn
    <3>2. PatchedFor(header, header', "text", text_section_address, text_pointer_to_raw_data)
      <4>1. "text" \in SectionNames /\ text_section_address \in Nat /\ text_pointer_to_raw_data \in Nat
        BY <2>3 DEF SectionNames
      <4> QED BY <2>2, <3>1, <4>1, SectionPatched, Zenon
    <3> QED BY <2>1, <2>2, <2>3, <3>1, <3>2 DEF IInv, HeaderOK, PatchedFor
  <2>9. CASE PatchRdataHeader
    <3>1. /\ step = "rdata_header" /\ step' = "idata_header"
          /\ header' = SectionIn(header, "rdata", rdata_section_address, rdata_pointer_to_raw_data)
      BY <2>9 DEF PatchRdataHeader, Patch, At, SectionIn
    <3>2. PatchedFor(header, header', "rdata", rdata_section_address, rdata_pointer_to_raw_data)
      <4>1. "rdata" \in SectionNames /\ rdata_section_address \in Nat /\ rdata_pointer_to_raw_data \in Nat
        BY <2>3 DEF SectionNames
      <4> QED BY <2>2, <3>1, <4>1, SectionPatched, Zenon
    <3>3. "text" \in SectionNames \ {"rdata"}
      BY DEF SectionNames
    <3> QED BY <2>1, <2>2, <2>3, <3>1, <3>2, <3>3 DEF IInv, HeaderOK, PatchedFor
  <2>10. CASE PatchIdataHeader
    <3>1. /\ step = "idata_header" /\ step' = "closed"
          /\ header' = SectionIn(header, "idata", idata_section_address,
                                 idata_pointer_to_raw_data)
      BY <2>10 DEF PatchIdataHeader, Patch, At, SectionIn
    <3>2. PatchedFor(header, header', "idata", idata_section_address,
                     idata_pointer_to_raw_data)
      BY <2>2, <3>1, SectionPatched DEF SectionNames
    <3>3. "text" \in SectionNames \ {"idata"} /\ "rdata" \in SectionNames \ {"idata"}
      BY DEF SectionNames
    <3> QED BY <2>1, <2>2, <3>1, <3>2, <3>3 DEF IInv, HeaderOK, PatchedFor
  <2> QED BY <2>5, <2>6, <2>7, <2>8, <2>9, <2>10 DEF Patches
<1> QED BY <1>4, <1>5, <1>6, <1>7, <1>8, <1>9 DEF IInv

LEMMA StepStops ==
  ASSUME IInv, UNCHANGED function, step = "open", step' \in {"error", "false"},
         UNCHANGED image
  PROVE  IInv'
<1>1. /\ InputOK /\ FileOK /\ AtStart
      /\ UNCHANGED <<input, written, position, counted, size_of_image, header>>
      /\ UNCHANGED <<function, input>>
  BY DEF IInv, StageOK, Starting, image
<1>2. InputOK' /\ FileOK'
  BY <1>1, LayoutKept DEF FileOK
<1>3. StageOK'
  BY <1>1 DEF StageOK, AtStart, Steps, Starting, DataWritten, AddressesPatched,
     ImagePatched, TextPatched, RdataPatched, IdataPatched
<1>4. CountsOK'
  BY <1>1 DEF IInv, CountsOK, NbWritten, BeforeNames, BeforeLiterals, Starting
<1>5. SectionsOK' /\ ImageOK'
  BY <1>1 DEF SectionsOK, ImageOK, BeforeLiterals, Starting, DataWritten,
     AddressesPatched, ImagePatched, TextPatched, RdataPatched, IdataPatched
<1>6. HeaderOK'
  BY <1>1 DEF IInv, HeaderOK, AddressesPatched, ImagePatched, TextPatched, RdataPatched,
     IdataPatched
<1> QED BY <1>2, <1>3, <1>4, <1>5, <1>6 DEF IInv

LEMMA StepStutters ==
  ASSUME IInv, UNCHANGED vars
  PROVE  IInv'
<1>1. /\ InputOK /\ FileOK /\ UNCHANGED <<function, input>>
      /\ UNCHANGED <<input, written, position, counted, size_of_image, header, step>>
  BY DEF IInv, vars, image
<1>2. InputOK' /\ FileOK'
  BY <1>1, LayoutKept DEF FileOK
<1>3. /\ TableSize' = TableSize /\ Imports' = Imports /\ NameSizes' = NameSizes
      /\ ImportsEnd' = ImportsEnd /\ HeadersEnd' = HeadersEnd
      /\ idata_section_address' = idata_section_address
      /\ idata_pointer_to_raw_data' = idata_pointer_to_raw_data
      /\ (HasBaseOfData' <=> HasBaseOfData)
  BY <1>1, LayoutKept, ImportsKept DEF HasBaseOfData
<1>4. NbWritten("literal")' = NbWritten("literal") /\ NbWritten("library")' = NbWritten("library")
  BY <1>1 DEF NbWritten
<1>5. StageOK'
  BY <1>1, <1>3, <1>4 DEF IInv, StageOK, AtStart, AtText, AtCode, AtLiterals,
     AtDescriptor, AtImports, AtLibraries, AtEnd
<1>6. CountsOK' /\ SectionsOK' /\ ImageOK'
  BY <1>1, <1>3, <1>4 DEF IInv, CountsOK, SectionsOK, ImageOK
<1>7. HeaderOK'
  BY <1>1, <1>3 DEF IInv, HeaderOK
<1> QED BY <1>2, <1>5, <1>6, <1>7 DEF IInv

-----------------------------------------------------------------------------
(* The theorems *)

LEMMA SectionsAre == ToSet(Sections) = SectionNames
<1>1. /\ DOMAIN Sections = {1, 2, 3} /\ Sections[1] = "text" /\ Sections[2] = "rdata"
      /\ Sections[3] = "idata"
  BY DEF Sections
<1> QED BY <1>1 DEF ToSet, SectionNames

LEMMA InitHolds ==
  ASSUME Init
  PROVE  IInv
<1>1. /\ function \in Functions /\ input \in InputsOf(function) /\ written = <<>>
      /\ position = 0 /\ counted = 0 /\ size_of_image = 0 /\ header = Blank /\ step = "open"
  BY DEF Init, Open
<1>2. InputOK
  <2>1. CASE function = "generate_hello_world"
    <3>1. HelloWorld.literals \in Seq(Nat) /\ HelloWorld.libraries \in Seq(Nat)
      BY DEF HelloWorld
    <3>2. input = HelloWorld
      BY <1>1, <2>1 DEF InputsOf
    <3> QED BY <1>1, <3>1, <3>2 DEF InputOK
  <2>2. CASE function # "generate_hello_world"
    <3>1. function \in {"x64", "x86"} /\ input \in Inputs[function]
      BY <1>1, <2>2 DEF Functions, InputsOf
    <3>2. input.literals \in Seq(Nat) /\ input.libraries \in Seq(Nat)
      BY <3>1, InputsAssumption, Zenon
    <3> QED BY <1>1, <3>2 DEF InputOK
  <2> QED BY <2>1, <2>2
<1>3. FileOK
  <2>1. written \in Seq(PieceSet) /\ Len(written) = 0
    BY <1>1
  <2> QED BY <1>1, <2>1 DEF FileOK, PiecesOK
<1>4. StageOK
  BY <1>1 DEF StageOK, AtStart, Steps, Starting, DataWritten, AddressesPatched,
     ImagePatched, TextPatched, RdataPatched, IdataPatched
<1>5. CountsOK
  <2>1. \A what : {i \in DOMAIN written : written[i].what = what} = {}
    BY <1>1
  <2>2. \A what : NbWritten(what) = 0
    BY <2>1, FS_EmptySet DEF NbWritten
  <2> QED BY <2>2 DEF CountsOK
<1>6. SectionsOK /\ ImageOK
  BY <1>1 DEF SectionsOK, ImageOK, BeforeLiterals, Starting, DataWritten,
     AddressesPatched, ImagePatched, TextPatched, RdataPatched, IdataPatched
<1>7. HeaderOK
  <2>1. header \in HeaderSet
    BY <1>1, SectionsAre DEF Blank, HeaderSet
  <2> QED BY <1>1, <2>1 DEF HeaderOK, AddressesPatched, ImagePatched, TextPatched,
             RdataPatched, IdataPatched
<1> QED BY <1>2, <1>3, <1>4, <1>5, <1>6, <1>7 DEF IInv

LEMMA NextKeeps ==
  ASSUME IInv, [Next]_vars
  PROVE  IInv'
<1>1. CASE UNCHANGED vars
  BY <1>1, StepStutters
<1>2. ASSUME Next PROVE IInv'
  <2>1. UNCHANGED function
    BY <1>2 DEF Next
  <2>2. \/ step = "open" /\ step' \in {"error", "false"} /\ UNCHANGED image
        \/ WriteHeaders \/ Data \/ Patches
    BY <1>2 DEF Next, compile_x64, compile_x86, generate_hello_world, compile,
       compile_headers, generate_headers, OpenFails, At, compile_text_and_rdata,
       generate_text_and_rdata, compile_idata, generate_idata, Data,
       compile_header_patches, generate_header_patches, compile_section_patches,
       generate_section_patches, Patches
  <2>3. CASE step = "open" /\ step' \in {"error", "false"} /\ UNCHANGED image
    BY <2>1, <2>3, StepStops
  <2>4. CASE WriteHeaders
    BY <2>1, <2>4, StepWriteHeaders
  <2>5. CASE SeekText
    BY <2>1, <2>5, StepSeekText
  <2>6. CASE WriteCode
    BY <2>1, <2>6, StepWriteCode
  <2>7. CASE WriteLiteral
    BY <2>1, <2>7, StepWriteLiteral
  <2>8. CASE PadReadOnlyData
    BY <2>1, <2>8, StepPadReadOnlyData
  <2>9. CASE WriteDescriptor
    BY <2>1, <2>9, StepWriteDescriptor
  <2>10. CASE WriteTables
    BY <2>1, <2>10, StepWriteTables
  <2>11. CASE WriteFunctionNames
    BY <2>1, <2>11, StepWriteFunctionNames
  <2>12. CASE WriteLibraryName
    BY <2>1, <2>12, StepWriteLibraryName
  <2>13. CASE PadImportData
    BY <2>1, <2>13, StepPadImportData
  <2>14. CASE Patches
    BY <2>1, <2>14, StepPatches
  <2> QED BY <2>2, <2>3, <2>4, <2>5, <2>6, <2>7, <2>8, <2>9, <2>10, <2>11, <2>12, <2>13,
             <2>14 DEF Data
<1> QED BY <1>1, <1>2

\* The inductive invariant: at every step, the pieces are where the headers will
\* say, the file ends where the step expects, and the header has its final values
\* up to the field the step patches.
THEOREM InductiveInvariant == Spec => []IInv
<1>1. Init => IInv
  BY InitHolds
<1>2. IInv /\ [Next]_vars => IInv'
  BY NextKeeps
<1> QED BY <1>1, <1>2, PTL DEF Spec

\* Where the file is, in every step but the one after the seek.
LEMMA FileEnd ==
  ASSUME IInv, step # "code"
  PROVE  position = IF written = <<>> THEN 0 ELSE EndOf(written[Len(written)])
<1>1. \/ AtStart
      \/ AtText \/ AtLiterals \/ AtDescriptor \/ AtImports(2 * DescriptorSize)
      \/ AtImports(2 * DescriptorSize + 2 * TableSize) \/ AtLibraries \/ AtEnd
  BY DEF IInv, StageOK, Steps, Starting, DataWritten, AddressesPatched, ImagePatched,
     TextPatched, RdataPatched, IdataPatched
<1> QED BY <1>1 DEF AtStart, AtText, AtLiterals, AtDescriptor, AtImports, AtLibraries, AtEnd,
           EndsAt

\* Nothing is written over: the pieces of the file follow each other, and the
\* position of the file is where the last one ends, for any literals and any
\* libraries, up to the patches of the headers.
THEOREM TypeCorrect == Spec => []TypeOK
<1>1. ASSUME IInv PROVE TypeOK
  <2>1. step \in Steps /\ written \in Seq(PieceSet) /\ PiecesOK(written, Pointers, RawSizes)
    BY <1>1 DEF IInv, StageOK, FileOK
  <2>2. ASSUME NEW i \in 1 .. Len(written) - 1
        PROVE  /\ EndOf(written[i]) <= written[i + 1].at
               /\ written[i].section = written[i + 1].section =>
                    EndOf(written[i]) = written[i + 1].at
    <3>1. Len(written) \in Nat
      BY <2>1, LenProperties
    <3>2. i \in 1 .. Len(written) /\ i < Len(written)
      BY <3>1
    <3> QED BY <2>1, <3>2 DEF PiecesOK, PieceOK
  <2>3. step # "code" => position = IF written = <<>> THEN 0 ELSE EndOf(Last(written))
    BY <1>1, FileEnd DEF Last
  <2> QED BY <2>1, <2>2, <2>3 DEF TypeOK
<1> QED BY <1>1, InductiveInvariant, PTL

\* When the file is closed.
LEMMA AtClosed ==
  ASSUME IInv, step = "closed"
  PROVE  /\ InputOK /\ Layout /\ header \in HeaderSet
         /\ written \in Seq(PieceSet) /\ PiecesOK(written, Pointers, RawSizes)
         /\ EndsAt(written, "idata", position) /\ position = ImportsEnd
         /\ Has(written, "text") /\ Has(written, "rdata") /\ Has(written, "idata")
         /\ header.AddressOfEntryPoint = 4096 /\ (HasBaseOfData => header.BaseOfData = 8192)
         /\ header.SizeOfImage = idata_section_address + 4096 /\ header.SizeOfHeaders = 1024
         /\ header.VirtualAddress["text"] = 4096 /\ header.VirtualAddress["rdata"] = 8192
         /\ header.VirtualAddress["idata"] = idata_section_address
         /\ \A s \in SectionNames : header.PointerToRawData[s] = Pointers[s]
         /\ idata_section_address \in Nat /\ idata_section_address % 4096 = 0
         /\ idata_section_address
              = 8192 + compute_aligned_size(SizeOfRawData("rdata"), 4096)
<1>1. InputOK /\ Layout /\ written \in Seq(PieceSet)
      /\ PiecesOK(written, Pointers, RawSizes)
  BY LayoutFacts DEF IInv, FileOK
<1>2. EndsAt(written, "idata", position) /\ position = ImportsEnd
  BY DEF IInv, StageOK, AtEnd, DataWritten, AddressesPatched, ImagePatched, TextPatched,
     RdataPatched, IdataPatched
<1>3. Has(written, "text") /\ Has(written, "rdata")
  BY DEF IInv, SectionsOK, BeforeLiterals, Starting
<1>4. Has(written, "idata")
  <2>1. written # <<>> /\ Len(written) \in Nat
    BY <1>1, <1>2, LenProperties DEF EndsAt
  <2>2. Len(written) \in 1 .. Len(written)
    BY <1>1, <2>1, EmptySeq
  <2> QED BY <1>2, <2>2 DEF EndsAt, Has
<1>5. /\ header \in HeaderSet
      /\ header.AddressOfEntryPoint = 4096 /\ (HasBaseOfData => header.BaseOfData = 8192)
      /\ header.SizeOfImage = idata_section_address + 4096 /\ header.SizeOfHeaders = 1024
      /\ header.VirtualAddress["text"] = 4096 /\ header.PointerToRawData["text"] = 1024
      /\ header.VirtualAddress["rdata"] = 8192 /\ header.PointerToRawData["rdata"] = 1536
      /\ header.VirtualAddress["idata"] = idata_section_address
      /\ header.PointerToRawData["idata"] = idata_pointer_to_raw_data
  BY DEF IInv, HeaderOK, AddressesPatched, ImagePatched, TextPatched, RdataPatched,
     IdataPatched
<1>6. \A s \in SectionNames : header.PointerToRawData[s] = Pointers[s]
  BY <1>1, <1>5 DEF SectionNames, Pointers, Layout
<1>7. /\ idata_section_address = 8192 + compute_aligned_size(SizeOfRawData("rdata"), 4096)
      /\ idata_section_address \in Nat /\ idata_section_address % 4096 = 0
  <2> DEFINE R == SizeOfRawData("rdata")
             a == compute_aligned_size(R, 4096)
  <2>1. R \in Nat /\ idata_section_address = 8192 + a
    BY <1>1 DEF Layout
  <2> HIDE DEF R
  <2>2. a \in Nat /\ a % 4096 = 0
    BY <2>1, OnPages
  <2> HIDE DEF a
  <2>3. idata_section_address \in Nat /\ idata_section_address % 4096 = 0
    BY <2>1, <2>2
  <2> QED BY <2>1, <2>3 DEF a, R
<1> QED BY <1>1, <1>2, <1>3, <1>4, <1>5, <1>6, <1>7

\* Every section's header leads to its data and to nothing else, whatever was
\* written between the header and its patch; and the padding of the imports wraps
\* exactly when the names of the libraries do not fit.
THEOREM HeadersLeadToData == Spec => []RawDataWhereHeadersSay
<1>1. ASSUME IInv, step = "closed" PROVE RawDataWhereHeadersSay
  <2> DEFINE ptr == header.PointerToRawData  n == Len(written)
  <2>1. /\ InputOK /\ Layout /\ written \in Seq(PieceSet)
        /\ PiecesOK(written, Pointers, RawSizes)
        /\ EndsAt(written, "idata", position) /\ position = ImportsEnd
        /\ Has(written, "text") /\ Has(written, "rdata") /\ Has(written, "idata")
        /\ header.SizeOfHeaders = 1024 /\ \A s \in SectionNames : ptr[s] = Pointers[s]
    BY <1>1, AtClosed
  <2>2. n \in Nat /\ DOMAIN written = 1 .. n
        /\ \A i \in 1 .. n : written[i].section \in AllSections
    <3>1. n \in Nat /\ DOMAIN written = 1 .. n /\ \A i \in 1 .. n : written[i] \in PieceSet
      BY <2>1, LenProperties, ElementOfSeq
    <3> QED BY <3>1 DEF PieceSet
  <2>3. /\ Pointers["text"] = 1024 /\ ptr["text"] = 1024
        /\ ptr["idata"] = idata_pointer_to_raw_data
        /\ SizeOfRawData("idata") = 512 /\ idata_pointer_to_raw_data \in Nat
    BY <2>1 DEF Layout, SectionNames, Pointers
  <2> HIDE DEF ptr
  <2>4. \A section \in ToSet(Sections) : \E i \in DOMAIN written : written[i].section = section
    BY <2>1, <2>2, SectionsAre DEF SectionNames, Has
  <2>5. ASSUME NEW i \in DOMAIN written
        PROVE  LET section == written[i].section
               IN  /\ section = "headers" => EndOf(written[i]) <= header.SizeOfHeaders
                   /\ section # "headers" /\ StartsSection(i) => written[i].at = ptr[section]
                   /\ section \in {"text", "rdata"} /\ EndsSection(i) =>
                        EndOf(written[i]) = ptr[section] + SizeOfRawData(section)
    <3> DEFINE section == written[i].section
    <3>1. PieceOK(written, i, Pointers, RawSizes) /\ i \in 1 .. n /\ section \in AllSections
      BY <2>1, <2>2 DEF PiecesOK
    <3>2. section = "headers" => EndOf(written[i]) <= header.SizeOfHeaders
      BY <2>1, <2>3, <3>1 DEF PieceOK
    <3>3. section # "headers" => section \in SectionNames
      BY <3>1 DEF AllSections
    <3>4. section # "headers" /\ StartsSection(i) => written[i].at = ptr[section]
      BY <2>1, <3>1, <3>3 DEF PieceOK, StartsSection
    <3>5. ASSUME section \in {"text", "rdata"}, EndsSection(i)
          PROVE  EndOf(written[i]) = ptr[section] + SizeOfRawData(section)
      <4>1. section \in SectionNames /\ RawSizes[section] = SizeOfRawData(section)
        BY <3>5 DEF SectionNames, RawSizes
      <4>2. i # n
        BY <2>1, <3>5 DEF EndsAt
      <4>3. i < n /\ written[i + 1].section # section
        BY <2>2, <3>1, <3>5, <4>2 DEF EndsSection
      <4> QED BY <2>1, <3>1, <3>5, <4>1, <4>3 DEF PieceOK
    <3> QED BY <3>2, <3>4, <3>5
  <2>6. (NamesFit <=> position = ptr["idata"] + SizeOfRawData("idata"))
    <3> DEFINE t == Imports + Sum(NameSizes)  pad == (512 - t) % DWORD_SIZE
    <3>1. t \in Nat
      <4>1. /\ Len(NameSizes) = Len(input.libraries) /\ Len(input.libraries) \in Nat
            /\ SumTo(NameSizes, Len(input.libraries)) \in Nat
        BY <2>1, NameSums
      <4>2. Imports \in Nat
        BY <2>1, ImportFacts
      <4> QED BY <4>1, <4>2 DEF Sum
    <3>2. NamesFit <=> 512 >= t
      BY <2>3 DEF NamesFit, Imports, NameSizes
    <3>3. position = idata_pointer_to_raw_data + t + pad
      <4>1. Imports \in Nat /\ Sum(NameSizes) \in Int
        <5>1. /\ Len(NameSizes) = Len(input.libraries) /\ Len(input.libraries) \in Nat
              /\ SumTo(NameSizes, Len(input.libraries)) \in Nat
          BY <2>1, NameSums
        <5> QED BY <2>1, <5>1, ImportFacts DEF Sum
      <4>2. position = idata_pointer_to_raw_data + Imports + Sum(NameSizes) + pad
        BY <2>1 DEF ImportsEnd
      <4> HIDE DEF pad
      <4>3. idata_pointer_to_raw_data + Imports + Sum(NameSizes)
              = idata_pointer_to_raw_data + t
        BY <2>3, <4>1
      <4> QED BY <4>2, <4>3
    <3>4. pad \in Nat /\ (512 >= t => pad = 512 - t)
      <4>1. DWORD_SIZE \in Nat /\ DWORD_SIZE > 512
        BY SizesAssumption DEF file_alignment
      <4> HIDE DEF t
      <4> QED BY <3>1, <4>1
    <3> HIDE DEF t, pad
    <3> QED BY <2>3, <3>1, <3>2, <3>3, <3>4
  <2> QED BY <2>1, <2>3, <2>4, <2>5, <2>6 DEF RawDataWhereHeadersSay, ptr
<1>2. IInv => RawDataWhereHeadersSay
  BY <1>1 DEF RawDataWhereHeadersSay
<1> QED BY <1>2, InductiveInvariant, PTL

\* The sections are mapped one after another, on pages of their own, with room
\* for what they hold; the image ends where the last one does, and the code and
\* the message are where the instructions say, for any literals.
THEOREM MappedOneAfterAnother == Spec => []SectionsMapped
<1> DEFINE After(section) ==
             compute_aligned_size(header.VirtualAddress[section] + SizeOfRawData(section),
                                  section_alignment)
           va == header.VirtualAddress
<1>1. ASSUME IInv, step = "closed" PROVE SectionsMapped
  <2> DEFINE R == SizeOfRawData("rdata")  I == idata_section_address
  <2>1. /\ InputOK /\ Layout
        /\ header.AddressOfEntryPoint = 4096 /\ (HasBaseOfData => header.BaseOfData = 8192)
        /\ header.SizeOfImage = I + 4096 /\ header.SizeOfHeaders = 1024
        /\ va["text"] = 4096 /\ va["rdata"] = 8192 /\ va["idata"] = I
        /\ \A s \in SectionNames : header.PointerToRawData[s] = Pointers[s]
        /\ I \in Nat /\ I % 4096 = 0 /\ I = 8192 + compute_aligned_size(R, 4096)
    BY <1>1, AtClosed
  <2>2. /\ SizeOfRawData("text") = 512 /\ SizeOfRawData("idata") = 512
        /\ R \in Nat /\ R % 512 = 0 /\ Sum(input.literals) < R /\ Sum(input.literals) \in Nat
        /\ Pointers["text"] = 1024 /\ Pointers["rdata"] = 1536
        /\ Pointers["idata"] = 1536 + R
    BY <2>1, LiteralsSum DEF Layout, Pointers, SectionNames
  <2>3. /\ VirtualSize("text") = 44 /\ VirtualSize("rdata") = Sum(input.literals)
        /\ VirtualSize("idata") = 126
    BY DEF VirtualSize, InstructionsSize
  <2> HIDE DEF R, I
  <2>4. After("text") = 8192
    BY <2>1, <2>2 DEF compute_aligned_size, section_alignment
  <2>5. After("rdata") = I /\ 8192 + R < I
    <3>1. 8192 \in Nat /\ 8192 % 4096 = 0
      OBVIOUS
    <3>2. compute_aligned_size(8192 + R, 4096) = 8192 + compute_aligned_size(R, 4096)
      BY <2>2, <3>1, AlignedFrom, SMTT(30)
    <3>3. R < compute_aligned_size(R, 4096) /\ compute_aligned_size(R, 4096) \in Nat
      BY <2>2, OnPages
    <3> QED BY <2>1, <2>2, <3>2, <3>3 DEF section_alignment, R
  <2>6. After("idata") = I + 4096
    <3>1. 512 \in Nat /\ compute_aligned_size(512, 4096) = 4096
      BY DEF compute_aligned_size
    <3> QED BY <2>1, <2>2, <3>1, AlignedFrom DEF section_alignment
  <2>7. ASSUME NEW s \in SectionNames
        PROVE  /\ va[s] % section_alignment = 0
               /\ header.PointerToRawData[s] % file_alignment = 0
               /\ VirtualSize(s) <= SizeOfRawData(s)
               /\ va[s] + SizeOfRawData(s) < After(s)
    <3> HIDE DEF After, va
    <3>1. CASE s = "text"
      BY <2>1, <2>2, <2>3, <2>4, <3>1 DEF section_alignment, file_alignment
    <3>2. CASE s = "rdata"
      BY <2>1, <2>2, <2>3, <2>5, <3>2 DEF section_alignment, file_alignment, R
    <3>3. CASE s = "idata"
      BY <2>1, <2>2, <2>3, <2>6, <3>3 DEF section_alignment, file_alignment
    <3> QED BY <3>1, <3>2, <3>3 DEF SectionNames
  <2>8. \A i \in 1 .. Len(Sections) - 1 : va[Sections[i + 1]] = After(Sections[i])
    <3>1. /\ Len(Sections) = 3 /\ Sections[1] = "text" /\ Sections[2] = "rdata"
          /\ Sections[3] = "idata"
      BY DEF Sections
    <3> HIDE DEF After, va
    <3>2. \A i \in 1 .. 2 : i = 1 \/ i = 2
      OBVIOUS
    <3> QED BY <2>1, <2>4, <2>5, <3>1, <3>2
  <2>9. MessageAddress = 8192
    BY DEF MessageAddress
  <2> QED BY <1>1, <2>1, <2>6, <2>7, <2>8, <2>9, SectionsAre DEF SectionsMapped
<1>2. IInv => SectionsMapped
  BY <1>1 DEF SectionsMapped
<1> QED BY <1>2, InductiveInvariant, PTL

-----------------------------------------------------------------------------
(* The imports *)

\* What the import directory leads to, before the names of the libraries.
Link(what, offset, size, rvas) ==
  [what |-> what, section |-> "idata", at |-> idata_pointer_to_raw_data + offset,
   size |-> size, rvas |-> rvas]
NameLink(k) ==
  Link(FunctionNames[k], FunctionRVA(k) - ImportAddress, 2 + FunctionSizes[k] + 1, <<>>)
LinkNames == {"descriptor", "ILT", "IAT", "GetStdHandle", "WriteFile", "ExitProcess"}
Links ==
  [what \in LinkNames |->
     IF what = "descriptor" THEN Link(what, 0, 20, DescriptorRVAs)
     ELSE IF what = "ILT" THEN Link(what, 40, 3 * ThunkSize, TableRVAs)
     ELSE IF what = "IAT" THEN Link(what, 40 + TableSize, 3 * ThunkSize, TableRVAs)
     ELSE IF what = "GetStdHandle" THEN NameLink(1)
     ELSE IF what = "WriteFile" THEN NameLink(2) ELSE NameLink(3)]

\* Those that are in the file at a step.
WithNames == DataWritten \cup {"libraries"}
WithTables == WithNames \cup {"names"}
WithDescriptor == WithTables \cup {"tables"}
LinksAt(s) == {what \in LinkNames :
  s \in IF what = "descriptor" THEN WithDescriptor
        ELSE IF what \in {"ILT", "IAT"} THEN WithTables ELSE WithNames}

AllAt(w, what, at) == \A i \in 1 .. Len(w) : w[i].what = what => w[i].at = at
LinksIn(w, links, whats) == \A what \in whats : \E i \in 1 .. Len(w) : w[i] = links[what]
Named(w) == \E i \in 1 .. Len(w) : w[i].what = "library"
FirstName(w, at) ==
  \E i \in 1 .. Len(w) : w[i].what = "library" /\ w[i].size # 0 /\ w[i].at = at

Linked ==
  /\ AllAt(written, "descriptor", idata_pointer_to_raw_data)
  /\ LinksIn(written, Links, LinksAt(step))
  /\ Named(written) => FirstName(written, idata_pointer_to_raw_data + Imports)
  /\ step \in DataWritten /\ input.libraries # <<>> => Named(written)

LEMMA LinksKept ==
  ASSUME UNCHANGED <<function, input>>
  PROVE  Links' = Links
<1>1. /\ idata_pointer_to_raw_data' = idata_pointer_to_raw_data /\ TableSize' = TableSize
      /\ ThunkSize' = ThunkSize
  BY LayoutKept DEF ThunkSize
<1>2. DescriptorRVAs' = DescriptorRVAs
  BY <1>1 DEF DescriptorRVAs
<1>3. \A k : FunctionRVA(k)' = FunctionRVA(k)
  BY <1>1 DEF FunctionRVA
<1>4. TableRVAs' = TableRVAs
  BY <1>3 DEF TableRVAs
<1>5. /\ NameLink(1)' = NameLink(1) /\ NameLink(2)' = NameLink(2)
      /\ NameLink(3)' = NameLink(3)
  BY <1>1, <1>3 DEF NameLink, Link
<1> QED BY <1>1, <1>2, <1>4, <1>5 DEF Links, Link

\* The piece k of those that a Write at the position pos adds.
Put(pieces, pos, k) == [pieces[k] EXCEPT !.at = pos + SumTo(Sizes(pieces), k - 1)]

\* The pieces that a step adds, as they are in the file.
LEMMA WrittenMore ==
  ASSUME FileOK, NEW pieces \in Seq(PieceSet), NEW n, n = Len(pieces), Write(pieces),
         NEW m, m = Len(written)
  PROVE  /\ m \in Nat /\ n \in Nat /\ Len(written') = m + n
         /\ \A i \in 1 .. m : written'[i] = written[i]
         /\ \A k \in 1 .. n :
              written'[m + k] = Put(pieces, position, k)
<1> DEFINE r == Placed(pieces, position)
<1>1. /\ r \in Seq(PieceSet) /\ Len(r) = n /\ n \in Nat
      /\ written \in Seq(PieceSet) /\ m \in Nat
  BY PlacedFacts, LenProperties DEF FileOK
<1>2. DOMAIN pieces = 1 .. n
  BY LenProperties
<1>3. \A k \in 1 .. n : r[k] = Put(pieces, position, k)
  BY <1>2 DEF Placed, Put
<1>4. written' = written \o r
  BY DEF Write, Placed
<1> HIDE DEF r
<1>5. /\ Len(written') = m + n
      /\ \A i \in 1 .. m + n : written'[i] = IF i <= m THEN written[i] ELSE r[i - m]
  <2> DEFINE c == written'
  <2>1. /\ written \in Seq(PieceSet) /\ r \in Seq(PieceSet) /\ m = Len(written) /\ n = Len(r)
        /\ c = written \o r
    BY <1>1, <1>4
  <2> HIDE DEF c
  <2>2. /\ Len(c) = m + n
        /\ \A i \in 1 .. m + n : c[i] = IF i <= m THEN written[i] ELSE r[i - m]
    BY <2>1, ConcatFacts
  <2> QED BY <2>2 DEF c
<1>6. \A i \in 1 .. m : written'[i] = written[i]
  BY <1>1, <1>5
<1>7. ASSUME NEW k \in 1 .. n PROVE written'[m + k] = r[k]
  <2>1. m + k \in 1 .. m + n /\ ~ (m + k <= m) /\ m + k - m = k
    BY <1>1
  <2> QED BY <1>5, <2>1
<1> QED BY <1>1, <1>3, <1>5, <1>6, <1>7

\* The pieces that a step writes, some of which are next in the imports.
Linking(pieces, n) ==
  /\ pieces \in Seq(PieceSet) /\ n = Len(pieces) /\ Write(pieces)
  /\ \A k \in 1 .. n :
       /\ pieces[k].what = "descriptor" => k = 1 /\ position = idata_pointer_to_raw_data
       /\ pieces[k].what = "library" =>
            /\ k = 1 /\ pieces[k].size # 0
            /\ Named(written) \/ position = idata_pointer_to_raw_data + Imports
  /\ \A what \in LinksAt(step') : what \notin LinksAt(step) =>
       \E k \in 1 .. n :
         Links[what] = Put(pieces, position, k)
  /\ step' \in DataWritten /\ input.libraries # <<>> => Named(written)

\* The imports lead where they did, and to what the step adds.
LEMMA LinkedWrite ==
  ASSUME InputOK, FileOK, Linked, UNCHANGED <<function, input>>,
         NEW pieces, NEW n, Linking(pieces, n)
  PROVE  Linked'
<1> DEFINE m == Len(written)
           put(k) == Put(pieces, position, k)
           base == idata_pointer_to_raw_data
<1>0. /\ pieces \in Seq(PieceSet) /\ n = Len(pieces) /\ Write(pieces)
      /\ \A k \in 1 .. n :
           /\ pieces[k].what = "descriptor" => k = 1 /\ position = base
           /\ pieces[k].what = "library" =>
                /\ k = 1 /\ pieces[k].size # 0
                /\ Named(written) \/ position = base + Imports
      /\ \A what \in LinksAt(step') : what \notin LinksAt(step) =>
           \E k \in 1 .. n : Links[what] = put(k)
      /\ step' \in DataWritten /\ input.libraries # <<>> => Named(written)
  BY DEF Linking
<1> USE <1>0
<1>1. /\ m \in Nat /\ n \in Nat /\ Len(written') = m + n
      /\ \A i \in 1 .. m : written'[i] = written[i]
      /\ \A k \in 1 .. n : written'[m + k] = put(k)
  <2> DEFINE l == m
  <2>1. l = Len(written) /\ pieces \in Seq(PieceSet) /\ n = Len(pieces) /\ Write(pieces)
    OBVIOUS
  <2> HIDE DEF l
  <2> HIDE <1>0
  <2>2. /\ l \in Nat /\ n \in Nat /\ Len(written') = l + n
        /\ \A i \in 1 .. l : written'[i] = written[i]
        /\ \A k \in 1 .. n :
             written'[l + k] = Put(pieces, position, k)
    BY <2>1, WrittenMore, ZenonT(40)
  <2> QED BY <2>2 DEF l
<1>2. \A i \in 1 .. m : i \in 1 .. m + n
  BY <1>1
<1>3. ASSUME NEW k \in 1 .. n
      PROVE  /\ m + k \in 1 .. m + n
             /\ put(k).what = pieces[k].what /\ put(k).size = pieces[k].size
             /\ k = 1 => put(k).at = position
  <2>1. m + k \in 1 .. m + n
    BY <1>1
  <2>2. pieces[k] \in PieceSet
    BY ElementOfSeq
  <2>3. SumTo(Sizes(pieces), 0) = 0
    BY SumRecurrence
  <2>4. position \in Nat
    BY DEF FileOK
  <2> QED BY <2>1, <2>2, <2>3, <2>4 DEF PieceSet, Put
<1>4. base' = base /\ Imports' = Imports /\ Links' = Links
  BY LayoutKept, ImportsKept, LinksKept
<1>5. \A i \in 1 .. m + n : i \in 1 .. m \/ \E k \in 1 .. n : i = m + k
  <2> SUFFICES ASSUME NEW i \in 1 .. m + n, i \notin 1 .. m
               PROVE  \E k \in 1 .. n : i = m + k
    OBVIOUS
  <2>1. i - m \in 1 .. n /\ i = m + (i - m)
    BY <1>1
  <2> QED BY <2>1
<1> HIDE DEF put, base, m
<1>6. AllAt(written', "descriptor", base)
  <2> SUFFICES ASSUME NEW i \in 1 .. m + n, written'[i].what = "descriptor"
               PROVE  written'[i].at = base
    BY <1>1 DEF AllAt
  <2>1. CASE i \in 1 .. m
    BY <1>1, <2>1 DEF Linked, AllAt, base, m
  <2>2. ASSUME NEW k \in 1 .. n, i = m + k PROVE written'[i].at = base
    BY <1>1, <1>3, <2>2 DEF base
  <2> QED BY <1>5, <2>1, <2>2
<1>7. LinksIn(written', Links, LinksAt(step'))
  <2> SUFFICES ASSUME NEW what \in LinksAt(step')
               PROVE  \E i \in 1 .. m + n : written'[i] = Links[what]
    BY <1>1 DEF LinksIn
  <2>1. CASE what \in LinksAt(step)
    <3>1. PICK i \in 1 .. m : written[i] = Links[what]
      BY <2>1 DEF Linked, LinksIn, m
    <3> QED BY <1>1, <1>2, <3>1
  <2>2. CASE what \notin LinksAt(step)
    <3>1. PICK k \in 1 .. n : Links[what] = put(k)
      BY <2>2 DEF put
    <3> QED BY <1>1, <1>3, <3>1
  <2> QED BY <2>1, <2>2
<1>8. Named(written) => Named(written')
  BY <1>1, <1>2 DEF Named, m
<1>9. FirstName(written, base + Imports) => FirstName(written', base + Imports)
  BY <1>1, <1>2 DEF FirstName, m
<1>10. ASSUME Named(written'), ~ Named(written)
       PROVE  FirstName(written', base + Imports)
  <2>1. PICK i \in 1 .. m + n : written'[i].what = "library"
    BY <1>1, <1>10 DEF Named
  <2>2. i \notin 1 .. m
    BY <1>1, <1>10, <2>1 DEF Named, m
  <2>3. PICK k \in 1 .. n : i = m + k
    BY <1>5, <2>2
  <2>4. pieces[k].what = "library"
    BY <1>1, <1>3, <2>1, <2>3
  <2>5. k = 1 /\ pieces[k].size # 0 /\ position = base + Imports
    BY <1>10, <2>4 DEF base
  <2>6. written'[i].size # 0 /\ written'[i].at = base + Imports
    BY <1>1, <1>3, <2>3, <2>5
  <2> QED BY <1>1, <2>1, <2>6 DEF FirstName
<1>11. Named(written') => FirstName(written', base + Imports)
  BY <1>9, <1>10 DEF Linked, base
<1>12. step' \in DataWritten /\ input'.libraries # <<>> => Named(written')
  BY <1>8
<1>13. /\ AllAt(written', "descriptor", base') /\ LinksIn(written', Links', LinksAt(step'))
       /\ Named(written') => FirstName(written', base' + Imports')
  BY <1>4, <1>6, <1>7, <1>11
<1> QED BY <1>12, <1>13 DEF Linked, base, AllAt, LinksIn, Named, FirstName, LinksAt, DataWritten,
           AddressesPatched, ImagePatched, TextPatched, RdataPatched, IdataPatched

\* A step that adds nothing the imports lead to.
LEMMA LinkedOther ==
  ASSUME InputOK, FileOK, Linked, UNCHANGED <<function, input>>,
         NEW pieces \in Seq(PieceSet), NEW n, n = Len(pieces), Write(pieces),
         \A k \in 1 .. n : pieces[k].what # "descriptor" /\ pieces[k].what # "library",
         LinksAt(step') \subseteq LinksAt(step), step' \notin DataWritten
  PROVE  Linked'
<1>1. Linking(pieces, n)
  BY DEF Linking
<1> QED BY <1>1, LinkedWrite

LEMMA NothingAt ==
  ASSUME NEW s \in BeforeLiterals \cup {"literals", "descriptor"}
  PROVE  LinksAt(s) = {} /\ s \notin DataWritten
<1>1. s \notin WithDescriptor /\ s \notin WithTables /\ s \notin WithNames
      /\ s \notin DataWritten
  BY DEF BeforeLiterals, Starting, WithDescriptor, WithTables, WithNames, DataWritten,
     AddressesPatched, ImagePatched, TextPatched, RdataPatched, IdataPatched
<1> QED BY <1>1 DEF LinksAt

LEMMA EverythingAt ==
  ASSUME NEW s \in WithNames
  PROVE  LinksAt(s) = LinkNames
<1>1. s \in WithDescriptor /\ s \in WithTables
  BY DEF WithDescriptor, WithTables
<1> QED BY <1>1 DEF LinksAt

\* A step that writes nothing.
LEMMA LinkedStays ==
  ASSUME Linked, UNCHANGED <<function, input, written>>,
         \/ step' \in BeforeLiterals
         \/ step \in DataWritten /\ step' \in DataWritten
         \/ UNCHANGED step
  PROVE  Linked'
<1>1. /\ idata_pointer_to_raw_data' = idata_pointer_to_raw_data /\ Imports' = Imports
      /\ Links' = Links
  BY LayoutKept, ImportsKept, LinksKept
<1>2. LinksAt(step') \subseteq LinksAt(step)
  <2>1. CASE step' \in BeforeLiterals
    BY <2>1, NothingAt
  <2>2. CASE step \in DataWritten /\ step' \in DataWritten
    BY <2>2, EverythingAt DEF WithNames
  <2> QED BY <2>1, <2>2
<1>3. step' \in DataWritten => step \in DataWritten
  BY NothingAt
<1>4. LinksIn(written, Links, LinksAt(step'))
  BY <1>2 DEF Linked, LinksIn
<1>5. /\ AllAt(written', "descriptor", idata_pointer_to_raw_data')
      /\ LinksIn(written', Links', LinksAt(step'))
      /\ Named(written') => FirstName(written', idata_pointer_to_raw_data' + Imports')
      /\ step' \in DataWritten /\ input'.libraries # <<>> => Named(written')
  BY <1>1, <1>3, <1>4 DEF Linked
<1> QED BY <1>5 DEF Linked, AllAt, LinksIn, Named, FirstName, LinksAt, DataWritten,
           AddressesPatched, ImagePatched, TextPatched, RdataPatched, IdataPatched,
           WithDescriptor, WithTables, WithNames

LEMMA LinkedHeaders ==
  ASSUME IInv, Linked, WriteHeaders, UNCHANGED function
  PROVE  Linked'
<1>1. /\ InputOK /\ FileOK /\ step' = "text" /\ Write(HeaderPieces)
      /\ UNCHANGED <<function, input>>
  BY DEF IInv, WriteHeaders, At, HeaderPieces
<1> DEFINE p == HeaderPieces
<1>2. /\ p \in Seq(PieceSet) /\ 6 = Len(p)
      /\ \A k \in 1 .. 6 : p[k].what # "descriptor" /\ p[k].what # "library"
  BY <1>1, HeaderPiecesFacts DEF Uncounted
<1>3. Write(p)
  BY <1>1
<1> HIDE DEF p
<1>4. LinksAt(step') \subseteq LinksAt(step) /\ step' \notin DataWritten
  <2>1. "text" \in BeforeLiterals \cup {"literals", "descriptor"}
    BY DEF BeforeLiterals
  <2> QED BY <1>1, <2>1, NothingAt
<1> QED BY <1>1, <1>2, <1>3, <1>4, LinkedOther

LEMMA LinkedCode ==
  ASSUME IInv, Linked, WriteCode, UNCHANGED function
  PROVE  Linked'
<1> DEFINE a == Content("code", "text", InstructionsSize)
           b == Zeros("text", SizeOfRawData("text") - InstructionsSize)
           p == <<a, b>>
<1>1. /\ InputOK /\ FileOK /\ step' = "literals" /\ Write(p) /\ UNCHANGED <<function, input>>
  BY DEF IInv, WriteCode, At
<1>2. PieceIs(a, "code", "text", 44) /\ PieceIs(b, "zeros", "text", 468)
  BY <1>1, CodePieces
<1> HIDE DEF a, b
<1>3. /\ p \in Seq(PieceSet) /\ 2 = Len(p)
      /\ \A k \in 1 .. 2 : p[k].what # "descriptor" /\ p[k].what # "library"
  BY <1>2 DEF PieceIs
<1> HIDE DEF p
<1>4. LinksAt(step') \subseteq LinksAt(step) /\ step' \notin DataWritten
  BY <1>1, NothingAt
<1> QED BY <1>1, <1>3, <1>4, LinkedOther

LEMMA LinkedLiterals ==
  ASSUME IInv, Linked, WriteLiteral \/ PadReadOnlyData, UNCHANGED function
  PROVE  Linked'
<1>1. /\ InputOK /\ FileOK /\ step' \in {"literals", "descriptor"}
      /\ UNCHANGED <<function, input>>
  BY DEF IInv, WriteLiteral, PadReadOnlyData, At
<1>2. PICK c : Write(<<c>>) /\ c \in PieceSet /\ c.what # "descriptor" /\ c.what # "library"
  <2>0. "rdata" \in AllSections /\ "literal" \in Whats
    BY DEF AllSections, SectionNames, Whats
  <2>1. CASE WriteLiteral
    <3> DEFINE n == NbWritten("literal") + 1  size == input.literals[n]
               c == Content("literal", "rdata", size)
    <3>1. n <= Len(input.literals) /\ Write(<<c>>)
      BY <2>1 DEF WriteLiteral
    <3>2. n \in 1 .. Len(input.literals)
      <4>1. n \in Nat /\ n # 0
        <5>1. step = "literals" /\ AtLiterals
          BY <2>1 DEF WriteLiteral, IInv, StageOK
        <5>2. NbWritten("literal") \in Nat
          BY <1>1, <5>1, LiteralFollows
        <5> QED BY <5>2
      <4>2. Len(input.literals) \in Nat
        BY <1>1, LiteralSums
      <4> HIDE DEF n
      <4> QED BY <3>1, <4>1, <4>2
    <3> HIDE DEF n
    <3>3. size \in Nat
      BY <1>1, <3>2, LiteralSums
    <3> HIDE DEF size
    <3>4. PieceIs(c, "literal", "rdata", size)
      BY <1>1, <2>0, <3>3, ContentFacts, Zenon
    <3> QED BY <3>1, <3>4 DEF PieceIs
  <2>2. CASE PadReadOnlyData
    <3> DEFINE count == SizeOfRawData("rdata") - counted  c == Zeros("rdata", count)
    <3>1. Write(<<c>>)
      BY <2>2 DEF PadReadOnlyData
    <3>2. count \in Int
      <4>1. step = "literals" /\ AtLiterals
        BY <2>2 DEF PadReadOnlyData, At, IInv, StageOK
      <4>2. counted \in Nat /\ Layout
        BY <1>1, <4>1, LiteralFollows, LayoutFacts
      <4> QED BY <4>2 DEF Layout
    <3> HIDE DEF count
    <3>3. PieceIs(c, "zeros", "rdata", count % DWORD_SIZE)
      BY <1>1, <2>0, <3>2, ZerosFacts
    <3> QED BY <3>1, <3>3 DEF PieceIs
  <2> QED BY <2>1, <2>2
<1> DEFINE p == <<c>>
<1>3. /\ p \in Seq(PieceSet) /\ 1 = Len(p) /\ Write(p)
      /\ \A k \in 1 .. 1 : p[k].what # "descriptor" /\ p[k].what # "library"
  BY <1>2
<1> HIDE DEF p
<1>4. LinksAt(step') \subseteq LinksAt(step) /\ step' \notin DataWritten
  BY <1>1, NothingAt
<1> QED BY <1>1, <1>3, <1>4, LinkedOther

\* A piece that is moved where it is written.
LEMMA Moved ==
  ASSUME NEW what, NEW section, NEW size, NEW rvas, NEW at
  PROVE  [Piece(what, section, size, rvas) EXCEPT !.at = at]
           = [what |-> what, section |-> section, at |-> at, size |-> size, rvas |-> rvas]
BY DEF Piece

LEMMA LinkedDescriptor ==
  ASSUME IInv, Linked, WriteDescriptor, UNCHANGED function
  PROVE  Linked'
<1> DEFINE a == Piece("descriptor", "idata", DescriptorSize, DescriptorRVAs)
           b == Zeros("idata", DescriptorSize)
           p == <<a, b>>
<1>1. /\ InputOK /\ FileOK /\ step = "descriptor" /\ step' = "tables" /\ Write(p)
      /\ UNCHANGED <<function, input>> /\ position = idata_pointer_to_raw_data
      /\ position \in Nat
  BY DEF IInv, WriteDescriptor, At, DescriptorRVAs, StageOK, AtDescriptor, FileOK
<1>2. PieceIs(a, "descriptor", "idata", 20) /\ PieceIs(b, "zeros", "idata", 20)
  BY <1>1, DescriptorPieces
<1>3. [a EXCEPT !.at = position] = Links["descriptor"]
  <2>1. Links["descriptor"] = Link("descriptor", 0, 20, DescriptorRVAs)
    BY DEF Links, LinkNames
  <2>2. idata_pointer_to_raw_data + 0 = position /\ DescriptorSize = 20
    BY <1>1 DEF DescriptorSize
  <2> QED BY <2>1, <2>2, Moved DEF Link
<1> HIDE DEF a, b
<1>4. /\ p \in Seq(PieceSet) /\ 2 = Len(p) /\ p[1] = a
      /\ \A k \in 1 .. 2 : /\ p[k].what = "descriptor" => k = 1
                           /\ p[k].what # "library"
  BY <1>2 DEF PieceIs
<1> HIDE DEF p
<1>5. position + SumTo(Sizes(p), 1 - 1) = position
  <2>1. SumTo(Sizes(p), 0) = 0
    BY SumRecurrence
  <2> QED BY <1>1, <2>1
<1>6. \A what \in LinksAt(step') : what = "descriptor"
  <2>1. "tables" \notin WithTables /\ "tables" \notin WithNames
    BY DEF WithTables, WithNames, DataWritten, AddressesPatched, ImagePatched, TextPatched,
       RdataPatched, IdataPatched
  <2> QED BY <1>1, <2>1 DEF LinksAt
<1>7. \A what \in LinksAt(step') : what \notin LinksAt(step) =>
        \E k \in 1 .. 2 :
          Links[what] = Put(p, position, k)
  <2>1. Links["descriptor"] = Put(p, position, 1)
    BY <1>3, <1>4, <1>5 DEF Put
  <2>2. 1 \in 1 .. 2
    OBVIOUS
  <2> QED BY <1>6, <2>1, <2>2, Zenon
<1>8. step' \notin DataWritten
  BY <1>1 DEF DataWritten, AddressesPatched, ImagePatched, TextPatched, RdataPatched,
     IdataPatched
<1>9. Linking(p, 2)
  BY <1>1, <1>4, <1>7, <1>8 DEF Linking
<1> QED BY <1>1, <1>9, LinkedWrite

LEMMA LinkedTables ==
  ASSUME IInv, Linked, WriteTables, UNCHANGED function
  PROVE  Linked'
<1> DEFINE a == Table("ILT")
           b == Zeros("idata", ThunkSize)
           c == Table("IAT")
           p == <<a, b, c, b>>
           base == idata_pointer_to_raw_data
           s(k) == SumTo(Sizes(p), k)
<1>1. /\ InputOK /\ FileOK /\ step = "tables" /\ step' = "names" /\ Write(p)
      /\ UNCHANGED <<function, input>> /\ position = base + 40
  BY DEF IInv, WriteTables, At, StageOK, AtImports, DescriptorSize
<1>2. /\ PieceIs(a, "ILT", "idata", 3 * ThunkSize) /\ PieceIs(b, "zeros", "idata", ThunkSize)
      /\ PieceIs(c, "IAT", "idata", 3 * ThunkSize)
      /\ a = Piece("ILT", "idata", 3 * ThunkSize, TableRVAs)
      /\ c = Piece("IAT", "idata", 3 * ThunkSize, TableRVAs)
  BY <1>1, TablePieces
<1>3. base \in Nat /\ ThunkSize \in {4, 8} /\ TableSize = 4 * ThunkSize
  BY <1>1, LayoutFacts, ImportFacts DEF Layout
<1> HIDE DEF base
<1>4. Links["ILT"] = [a EXCEPT !.at = base + 40]
  <2>1. Links["ILT"] = Link("ILT", 40, 3 * ThunkSize, TableRVAs)
    BY DEF Links, LinkNames
  <2> QED BY <1>2, <2>1, Moved DEF Link, base
<1>5. Links["IAT"] = [c EXCEPT !.at = base + (40 + TableSize)]
  <2>1. Links["IAT"] = Link("IAT", 40 + TableSize, 3 * ThunkSize, TableRVAs)
    BY DEF Links, LinkNames
  <2> QED BY <1>2, <2>1, Moved DEF Link, base
<1> HIDE DEF a, b, c
<1>6. /\ p \in Seq(PieceSet) /\ 4 = Len(p) /\ p[1] = a /\ p[2] = b /\ p[3] = c
      /\ \A k \in 1 .. 4 : p[k].what # "descriptor" /\ p[k].what # "library"
  BY <1>2 DEF PieceIs
<1> HIDE DEF p
<1>7. s(0) = 0 /\ s(2) = TableSize
  <2> DEFINE sizes == Sizes(p)
  <2>1. sizes[1] = 3 * ThunkSize /\ sizes[2] = ThunkSize
    BY <1>2, <1>6 DEF Sizes, PieceIs
  <2> HIDE DEF sizes
  <2>2. 2 \in {1, 2, 3, 4, 6} /\ \A i \in 1 .. 2 : sizes[i] \in Nat
    <3>1. \A i \in 1 .. 2 : i = 1 \/ i = 2
      OBVIOUS
    <3> QED BY <1>3, <2>1, <3>1
  <2>3. SumTo(sizes, 0) = 0 /\ SumTo(sizes, 2) = sizes[1] + sizes[2]
    BY <2>2, SumOfFew
  <2> QED BY <1>3, <2>1, <2>3 DEF sizes
<1> HIDE DEF s
<1>8. /\ Links["ILT"] = [p[1] EXCEPT !.at = position + s(1 - 1)]
      /\ Links["IAT"] = [p[3] EXCEPT !.at = position + s(3 - 1)]
  <2>1. position + s(1 - 1) = base + 40 /\ position + s(3 - 1) = base + (40 + TableSize)
    BY <1>1, <1>3, <1>7
  <2> QED BY <1>4, <1>5, <1>6, <2>1
<1>9. \A what \in LinksAt(step') : what \notin LinksAt(step) => what \in {"ILT", "IAT"}
  <2>1. "names" \notin WithNames /\ "tables" \in WithDescriptor
    BY DEF WithDescriptor, WithNames, DataWritten, AddressesPatched, ImagePatched,
       TextPatched, RdataPatched, IdataPatched
  <2> QED BY <1>1, <2>1 DEF LinksAt
<1>10. \A what \in LinksAt(step') : what \notin LinksAt(step) =>
         \E k \in 1 .. 4 :
           Links[what] = Put(p, position, k)
  <2>1. 1 \in 1 .. 4 /\ 3 \in 1 .. 4
    OBVIOUS
  <2>2. Links["ILT"] = Put(p, position, 1) /\ Links["IAT"] = Put(p, position, 3)
    BY <1>8 DEF s, Put
  <2> QED BY <1>9, <2>1, <2>2
<1>11. step' \notin DataWritten
  BY <1>1 DEF DataWritten, AddressesPatched, ImagePatched, TextPatched, RdataPatched,
     IdataPatched
<1>12. Linking(p, 4)
  <2>1. Write(p)
    BY <1>1
  <2> QED BY <1>6, <1>10, <1>11, <2>1 DEF Linking
<1> QED BY <1>1, <1>12, LinkedWrite

LEMMA LinkedNames ==
  ASSUME IInv, Linked, WriteFunctionNames, UNCHANGED function
  PROVE  Linked'
<1> DEFINE c(k) == NamePiece(k)
           p == [k \in DOMAIN FunctionNames |-> c(k)]
           base == idata_pointer_to_raw_data
           sizes == [j \in DOMAIN FunctionSizes |-> 2 + FunctionSizes[j] + 1]
<1>1. /\ InputOK /\ FileOK /\ step = "names" /\ step' = "libraries" /\ Write(p)
      /\ UNCHANGED <<function, input>> /\ position = base + (40 + 2 * TableSize)
  BY DEF IInv, WriteFunctionNames, At, NamePiece, StageOK, AtImports, DescriptorSize
<1>2. /\ DOMAIN FunctionNames = 1 .. 3 /\ DOMAIN FunctionSizes = 1 .. 3
      /\ FunctionNames[1] = "GetStdHandle" /\ FunctionNames[2] = "WriteFile"
      /\ FunctionNames[3] = "ExitProcess"
      /\ sizes[1] = 15 /\ sizes[2] = 12 /\ sizes[3] = 14
  BY DEF FunctionNames, FunctionSizes
<1>3. \A k \in 1 .. 3 : k = 1 \/ k = 2 \/ k = 3
  OBVIOUS
<1>4. /\ PieceIs(c(1), "GetStdHandle", "idata", 15) /\ PieceIs(c(2), "WriteFile", "idata", 12)
      /\ PieceIs(c(3), "ExitProcess", "idata", 14)
  BY <1>1, NamePieces
<1>5. base \in Nat /\ TableSize \in Nat
  BY <1>1, LayoutFacts, ImportFacts DEF Layout
<1>6. \A k \in 1 .. 3 :
        /\ c(k) = Piece(FunctionNames[k], "idata", 2 + FunctionSizes[k] + 1, <<>>)
        /\ c(k) \in PieceSet /\ c(k).size = sizes[k] /\ sizes[k] \in Nat
        /\ c(k).what # "descriptor" /\ c(k).what # "library"
  <2> TAKE k \in 1 .. 3
  <2>1. c(k) = Piece(FunctionNames[k], "idata", 2 + FunctionSizes[k] + 1, <<>>)
    BY DEF NamePiece, Content
  <2> HIDE DEF c, sizes
  <2> QED BY <1>2, <1>3, <1>4, <2>1 DEF PieceIs
<1> HIDE DEF c
<1>7. /\ p \in Seq(PieceSet) /\ 3 = Len(p) /\ \A k \in 1 .. 3 : p[k] = c(k)
  BY <1>2, <1>6
<1> HIDE DEF p
<1>8. ASSUME NEW k \in 1 .. 3
      PROVE  position + SumTo(Sizes(p), k - 1) = base + (FunctionRVA(k) - ImportAddress)
  <2>1. DOMAIN p = 1 .. 3
    BY <1>7, LenProperties
  <2>2. \A i \in 1 .. 3 : Sizes(p)[i] = sizes[i]
    BY <1>6, <1>7, <2>1 DEF Sizes
  <2> DEFINE s == Sizes(p)  n == k - 1
  <2>3. n \in Nat /\ \A i \in 1 .. n : sizes[i] \in Nat /\ sizes[i] = s[i]
    BY <1>6, <2>2
  <2>4. FunctionRVA(k) = ImportTables + 2 * TableSize + SumTo(sizes, n)
    BY DEF FunctionRVA
  <2> HIDE DEF s, n, sizes, base
  <2>5. SumTo(sizes, n) = SumTo(s, n) /\ SumTo(sizes, n) \in Nat
    <3>1. \A i \in 1 .. n : sizes[i] \in Int /\ sizes[i] = s[i]
      BY <2>3
    <3> QED BY <2>3, <3>1, SumOfSame, SumIsNat
  <2>6. ImportTables = ImportAddress + 40 /\ ImportAddress \in Nat
    BY DEF ImportTables, ImportAddress, DescriptorSize
  <2>7. position + SumTo(s, n) = base + (FunctionRVA(k) - ImportAddress)
    BY <1>1, <1>5, <2>4, <2>5, <2>6
  <2> QED BY <2>7 DEF s, n
<1>9. \A k \in 1 .. 3 : NameLink(k) = Put(p, position, k)
  <2> TAKE k \in 1 .. 3
  <2>1. NameLink(k) = Link(FunctionNames[k], FunctionRVA(k) - ImportAddress,
                           2 + FunctionSizes[k] + 1, <<>>)
    BY DEF NameLink
  <2>2. Put(p, position, k) = [c(k) EXCEPT !.at = base + (FunctionRVA(k) - ImportAddress)]
    BY <1>7, <1>8 DEF Put
  <2> QED BY <1>6, <2>1, <2>2, Moved DEF Link
<1> HIDE DEF base, sizes
<1>10. /\ Links["GetStdHandle"] = Put(p, position, 1)
       /\ Links["WriteFile"] = Put(p, position, 2)
       /\ Links["ExitProcess"] = Put(p, position, 3)
  <2>1. /\ Links["GetStdHandle"] = NameLink(1) /\ Links["WriteFile"] = NameLink(2)
        /\ Links["ExitProcess"] = NameLink(3)
    BY DEF Links, LinkNames
  <2> QED BY <1>9, <2>1
<1>11. \A what \in LinksAt(step') : what \notin LinksAt(step) =>
         what \in {"GetStdHandle", "WriteFile", "ExitProcess"}
  <2>1. "names" \in WithTables /\ "names" \in WithDescriptor
    BY DEF WithDescriptor, WithTables
  <2> QED BY <1>1, <2>1 DEF LinksAt, LinkNames
<1>12. \A what \in LinksAt(step') : what \notin LinksAt(step) =>
         \E k \in 1 .. 3 : Links[what] = Put(p, position, k)
  <2>1. 1 \in 1 .. 3 /\ 2 \in 1 .. 3 /\ 3 \in 1 .. 3
    OBVIOUS
  <2> QED BY <1>10, <1>11, <2>1
<1>13. step' \notin DataWritten
  BY <1>1 DEF DataWritten, AddressesPatched, ImagePatched, TextPatched, RdataPatched,
     IdataPatched
<1>14. \A k \in 1 .. 3 : p[k].what # "descriptor" /\ p[k].what # "library"
  BY <1>6, <1>7
<1>15. Linking(p, 3)
  <2>1. Write(p)
    BY <1>1
  <2> QED BY <1>7, <1>12, <1>13, <1>14, <2>1 DEF Linking
<1> QED BY <1>1, <1>15, LinkedWrite

\* A name is where the descriptor says if it is the first one.
LEMMA LinkedLibrary ==
  ASSUME IInv, Linked, WriteLibraryName, UNCHANGED function
  PROVE  Linked'
<1> DEFINE n == NbWritten("library")
           size == input.libraries[n + 1] + 1
           a == Content("library", "idata", size)
           p == <<a>>
<1>1. /\ InputOK /\ FileOK /\ step = "libraries" /\ step' = "libraries"
      /\ n + 1 <= Len(input.libraries) /\ Write(p) /\ UNCHANGED <<function, input>>
      /\ AtLibraries
  BY DEF IInv, WriteLibraryName, StageOK
<1>2. /\ n \in 0 .. Len(input.libraries) /\ counted = Imports + SumTo(NameSizes, n)
      /\ position = idata_pointer_to_raw_data + counted
      /\ Imports \in Nat /\ idata_pointer_to_raw_data \in Nat
  BY <1>1, LibrariesFacts
<1>3. Named(written) \/ position = idata_pointer_to_raw_data + Imports
  <2>1. SUFFICES ASSUME ~ Named(written) PROVE n = 0
    <3>1. SumTo(NameSizes, 0) = 0
      BY SumRecurrence
    <3> HIDE DEF n
    <3> QED BY <1>2, <2>1, <3>1
  <2>2. DOMAIN written = 1 .. Len(written)
    BY <1>1, LenProperties DEF FileOK
  <2>3. {i \in DOMAIN written : written[i].what = "library"} = {}
    BY <2>1, <2>2 DEF Named
  <2> QED BY <2>3, FS_EmptySet DEF NbWritten
<1> HIDE DEF n
<1>4. size \in Nat /\ size # 0
  <2>1. Len(input.libraries) \in Nat
    BY <1>1, NameSums
  <2>2. n + 1 \in 1 .. Len(input.libraries)
    BY <1>1, <1>2, <2>1
  <2>3. input.libraries[n + 1] \in Nat
    BY <1>1, <2>2, NameSums
  <2> QED BY <2>3
<1> HIDE DEF size
<1>5. PieceIs(a, "library", "idata", size)
  <2>1. "library" \in Whats /\ "idata" \in AllSections
    BY DEF Whats, AllSections, SectionNames
  <2> QED BY <1>1, <1>4, <2>1, ContentFacts, Zenon
<1> HIDE DEF a
<1>6. /\ p \in Seq(PieceSet) /\ 1 = Len(p)
      /\ \A k \in 1 .. 1 : /\ p[k].what # "descriptor"
                           /\ k = 1 /\ p[k].size # 0
  BY <1>4, <1>5 DEF PieceIs
<1> HIDE DEF p
<1>7. step' \notin DataWritten /\ LinksAt(step') = LinksAt(step)
  BY <1>1 DEF DataWritten, AddressesPatched, ImagePatched, TextPatched, RdataPatched,
     IdataPatched
<1>8. Linking(p, 1)
  <2>1. Write(p)
    BY <1>1
  <2> QED BY <1>3, <1>6, <1>7, <2>1 DEF Linking
<1> QED BY <1>1, <1>8, LinkedWrite

\* When the names are padded, all of them were written.
LEMMA LinkedPadding ==
  ASSUME IInv, Linked, PadImportData, UNCHANGED function
  PROVE  Linked'
<1> DEFINE count == SizeOfRawData("idata") - counted
           a == Zeros("idata", count)
           p == <<a>>
<1>1. /\ InputOK /\ FileOK /\ step = "libraries" /\ step' = "size_of_code" /\ Write(p)
      /\ NbWritten("library") = Len(input.libraries) /\ UNCHANGED <<function, input>>
      /\ AtLibraries
  BY DEF IInv, PadImportData, At, StageOK
<1>2. count \in Int
  <2>1. /\ counted = Imports + SumTo(NameSizes, NbWritten("library")) /\ Imports \in Nat
        /\ SumTo(NameSizes, NbWritten("library")) \in Nat
    BY <1>1, LibrariesFacts
  <2>2. SizeOfRawData("idata") = 512
    BY <1>1, LayoutFacts DEF Layout
  <2> QED BY <2>1, <2>2
<1> HIDE DEF count
<1>3. PieceIs(a, "zeros", "idata", count % DWORD_SIZE)
  <2>1. "idata" \in AllSections
    BY DEF AllSections, SectionNames
  <2> QED BY <1>1, <1>2, <2>1, ZerosFacts
<1> HIDE DEF a
<1>4. /\ p \in Seq(PieceSet) /\ 1 = Len(p)
      /\ \A k \in 1 .. 1 : p[k].what # "descriptor" /\ p[k].what # "library"
  BY <1>3 DEF PieceIs
<1> HIDE DEF p
<1>5. input.libraries # <<>> => Named(written)
  <2>1. SUFFICES ASSUME ~ Named(written) PROVE input.libraries = <<>>
    OBVIOUS
  <2>2. DOMAIN written = 1 .. Len(written)
    BY <1>1, LenProperties DEF FileOK
  <2>3. {i \in DOMAIN written : written[i].what = "library"} = {}
    BY <2>1, <2>2 DEF Named
  <2>4. Len(input.libraries) = 0
    BY <1>1, <2>3, FS_EmptySet DEF NbWritten
  <2> QED BY <1>1, <2>4, EmptySeq DEF InputOK
<1>6. \A what \in LinksAt(step') : what \in LinksAt(step)
  BY <1>1, EverythingAt DEF WithNames, LinksAt
<1>7. Linking(p, 1)
  <2>1. Write(p)
    BY <1>1
  <2> QED BY <1>4, <1>5, <1>6, <2>1 DEF Linking
<1> QED BY <1>1, <1>7, LinkedWrite

LEMMA LinkedPatches ==
  ASSUME Linked, Patches, UNCHANGED function
  PROVE  Linked'
<1>1. /\ step \in DataWritten /\ step' \in DataWritten /\ UNCHANGED <<function, input, written>>
  BY DEF Patches, PatchSizes, PatchAddresses, PatchSizeOfImage, PatchTextHeader,
     PatchRdataHeader, PatchIdataHeader, Patch, At, DataWritten, AddressesPatched,
     ImagePatched, TextPatched, RdataPatched, IdataPatched
<1> QED BY <1>1, LinkedStays

LEMMA LinkedInit ==
  ASSUME Init
  PROVE  Linked
<1>1. written = <<>> /\ step = "open"
  BY DEF Init, Open
<1>2. Len(written) = 0
  BY <1>1
<1>3. LinksAt(step) = {} /\ step \notin DataWritten
  BY <1>1, NothingAt DEF BeforeLiterals, Starting
<1> QED BY <1>2, <1>3 DEF Linked, AllAt, LinksIn, Named

LEMMA NextLinks ==
  ASSUME IInv, Linked, [Next]_vars
  PROVE  Linked'
<1>1. CASE UNCHANGED vars
  BY <1>1, LinkedStays DEF vars, image
<1>2. ASSUME Next PROVE Linked'
  <2>1. UNCHANGED function
    BY <1>2 DEF Next
  <2>2. \/ step = "open" /\ step' \in {"error", "false"} /\ UNCHANGED image
        \/ WriteHeaders \/ Data \/ Patches
    BY <1>2 DEF Next, compile_x64, compile_x86, generate_hello_world, compile,
       compile_headers, generate_headers, OpenFails, At, compile_text_and_rdata,
       generate_text_and_rdata, compile_idata, generate_idata, Data,
       compile_header_patches, generate_header_patches, compile_section_patches,
       generate_section_patches, Patches
  <2>3. CASE step = "open" /\ step' \in {"error", "false"} /\ UNCHANGED image
    BY <2>1, <2>3, LinkedStays DEF image, BeforeLiterals, Starting
  <2>4. CASE WriteHeaders
    BY <2>1, <2>4, LinkedHeaders
  <2>5. CASE SeekText
    <3>1. step' = "code" /\ UNCHANGED <<input, written>>
      BY <2>5 DEF SeekText, At
    <3> QED BY <2>1, <3>1, LinkedStays DEF BeforeLiterals
  <2>6. CASE WriteCode
    BY <2>1, <2>6, LinkedCode
  <2>7. CASE WriteLiteral \/ PadReadOnlyData
    BY <2>1, <2>7, LinkedLiterals
  <2>8. CASE WriteDescriptor
    BY <2>1, <2>8, LinkedDescriptor
  <2>9. CASE WriteTables
    BY <2>1, <2>9, LinkedTables
  <2>10. CASE WriteFunctionNames
    BY <2>1, <2>10, LinkedNames
  <2>11. CASE WriteLibraryName
    BY <2>1, <2>11, LinkedLibrary
  <2>12. CASE PadImportData
    BY <2>1, <2>12, LinkedPadding
  <2>13. CASE Patches
    BY <2>1, <2>13, LinkedPatches
  <2> QED BY <2>2, <2>3, <2>4, <2>5, <2>6, <2>7, <2>8, <2>9, <2>10, <2>11, <2>12, <2>13
      DEF Data
<1> QED BY <1>1, <1>2

\* Once something that the imports lead to is in the file, it is where the import
\* directory, written with it, says, whatever is written after it.
THEOREM ImportsStayLinked == Spec => []Linked
<1>1. Init => Linked
  BY LinkedInit
<1>2. IInv /\ Linked /\ [Next]_vars => Linked'
  BY NextLinks
<1> QED BY <1>1, <1>2, InductiveInvariant, PTL DEF Spec

LEMMA PiecesTyped ==
  ASSUME NEW w \in Seq(PieceSet)
  PROVE  /\ Len(w) \in Nat /\ DOMAIN w = 1 .. Len(w)
         /\ \A k \in 1 .. Len(w) : w[k].at \in Nat /\ w[k].size \in Nat
<1>1. Len(w) \in Nat /\ DOMAIN w = 1 .. Len(w) /\ \A k \in 1 .. Len(w) : w[k] \in PieceSet
  BY LenProperties, ElementOfSeq
<1> QED BY <1>1 DEF PieceSet

\* A piece is before those that were written after it.
LEMMA PiecesInOrder ==
  ASSUME NEW w \in Seq(PieceSet), NEW ptr, NEW raw, PiecesOK(w, ptr, raw),
         NEW i \in 1 .. Len(w), NEW j \in 1 .. Len(w), i < j
  PROVE  EndOf(w[i]) <= w[j].at
<1> DEFINE S == {k \in 1 .. Len(w) : i < k /\ ~ (EndOf(w[i]) <= w[k].at)}
<1>1. Len(w) \in Nat /\ \A k \in 1 .. Len(w) : w[k].at \in Nat /\ w[k].size \in Nat
  BY PiecesTyped
<1>2. SUFFICES ASSUME S # {} PROVE FALSE
  OBVIOUS
<1>3. S \subseteq Nat
  BY <1>1
<1>4. PICK k \in S : \A l \in S : k <= l
  <2> HIDE DEF S
  <2> QED BY <1>2, <1>3, LeastNumber
<1>5. k \in 1 .. Len(w) /\ i < k /\ k - 1 \in 1 .. Len(w) /\ k - 1 < Len(w)
  BY <1>1, <1>4
<1>6. EndOf(w[k - 1]) <= w[k].at
  <2> DEFINE l == k - 1
  <2>1. l \in 1 .. Len(w) /\ l < Len(w) /\ l + 1 = k
    BY <1>1, <1>5
  <2> HIDE DEF l
  <2>2. EndOf(w[l]) <= w[l + 1].at
    BY <2>1 DEF PiecesOK, PieceOK
  <2> QED BY <2>1, <2>2 DEF l
<1>7. i # k - 1
  BY <1>4, <1>6
<1>8. EndOf(w[i]) <= w[k - 1].at
  <2>1. i < k - 1
    BY <1>1, <1>5, <1>7
  <2>2. k - 1 \notin S
    BY <1>1, <1>4, <1>5
  <2> QED BY <1>5, <2>1, <2>2
<1>9. w[k - 1].at <= EndOf(w[k - 1])
  BY <1>1, <1>5 DEF EndOf
<1>10. EndOf(w[i]) <= w[k].at
  <2>1. /\ EndOf(w[i]) \in Nat /\ w[k - 1].at \in Nat /\ EndOf(w[k - 1]) \in Nat
        /\ w[k].at \in Nat
    BY <1>1, <1>5, Z3T(30) DEF EndOf
  <2> QED BY <1>6, <1>8, <1>9, <2>1, Z3T(30)
<1> QED BY <1>4, <1>10

LEMMA OnePiecePerPlace ==
  ASSUME NEW w \in Seq(PieceSet), NEW ptr, NEW raw, PiecesOK(w, ptr, raw),
         NEW i \in 1 .. Len(w), NEW j \in 1 .. Len(w),
         w[i].at = w[j].at, w[i].size # 0, w[j].size # 0
  PROVE  i = j
<1>1. /\ Len(w) \in Nat /\ w[i].at \in Nat /\ w[i].size \in Nat
      /\ w[j].at \in Nat /\ w[j].size \in Nat
  BY PiecesTyped
<1>2. ~ (i < j)
  <2>1. SUFFICES ASSUME i < j PROVE FALSE
    OBVIOUS
  <2>2. EndOf(w[i]) <= w[j].at
    BY <2>1, PiecesInOrder
  <2> QED BY <1>1, <2>2 DEF EndOf
<1>3. ~ (j < i)
  <2>1. SUFFICES ASSUME j < i PROVE FALSE
    OBVIOUS
  <2>2. EndOf(w[j]) <= w[i].at
    BY <2>1, PiecesInOrder
  <2> QED BY <1>1, <2>2 DEF EndOf
<1> QED BY <1>1, <1>2, <1>3

\* What a loader reads at an address, when the imports are where they should be.
LEMMA ReadAt ==
  ASSUME FileOK, NEW i \in 1 .. Len(written), written[i].size # 0, NEW address \in Int,
         header.VirtualAddress["idata"] \in Int, header.PointerToRawData["idata"] \in Int,
         written[i].at - header.PointerToRawData["idata"]
           = address - header.VirtualAddress["idata"]
  PROVE  What(address) = written[i].what /\ PieceAt(address) = written[i]
<1> DEFINE p == written[i]
<1>1. written \in Seq(PieceSet) /\ PiecesOK(written, Pointers, RawSizes)
  BY DEF FileOK
<1>2. DOMAIN written = 1 .. Len(written) /\ \A k \in 1 .. Len(written) : written[k].at \in Nat
  BY <1>1, PiecesTyped
<1>3. p.at = address - header.VirtualAddress["idata"] + header.PointerToRawData["idata"]
  BY <1>2
<1>4. p \in PiecesAt(address)
  BY <1>2, <1>3 DEF PiecesAt, ToSet
<1>5. \A q \in PiecesAt(address) : q = p
  <2> TAKE q \in PiecesAt(address)
  <2>1. PICK k \in 1 .. Len(written) : q = written[k]
    BY <1>2 DEF PiecesAt, ToSet
  <2>2. q.size # 0 /\ q.at = p.at
    BY <1>3 DEF PiecesAt
  <2>3. k = i
    BY <1>1, <2>1, <2>2, OnePiecePerPlace
  <2> QED BY <2>1, <2>3
<1>6. PieceAt(address) = p
  BY <1>4, <1>5 DEF PieceAt
<1> QED BY <1>4, <1>6 DEF What

\* Where the imports are in the file and in memory.
LEMMA ImportsAtClosed ==
  ASSUME IInv, step = "closed"
  PROVE  /\ FileOK /\ InputOK /\ Layout /\ ImportAddress = 12288
         /\ header.VirtualAddress["idata"] = idata_section_address
         /\ header.PointerToRawData["idata"] = idata_pointer_to_raw_data
         /\ idata_pointer_to_raw_data \in Nat /\ idata_section_address \in Nat
<1>1. /\ InputOK /\ Layout /\ header.VirtualAddress["idata"] = idata_section_address
      /\ header.PointerToRawData["idata"] = Pointers["idata"]
      /\ idata_section_address \in Nat
  BY AtClosed DEF SectionNames
<1> QED BY <1>1 DEF IInv, Pointers, SectionNames, Layout, ImportAddress

\* A loader that follows the address of a link reads it.
LEMMA ReadLink ==
  ASSUME IInv, Linked, step = "closed", idata_section_address = ImportAddress,
         NEW what \in LinkNames, NEW offset \in Int, NEW size \in Nat \ {0}, NEW rvas,
         NEW name, Links[what] = Link(name, offset, size, rvas),
         NEW address, address = ImportAddress + offset
  PROVE  What(address) = name /\ PieceAt(address).rvas = rvas
<1>1. /\ FileOK /\ ImportAddress = 12288
      /\ header.VirtualAddress["idata"] = ImportAddress
      /\ header.PointerToRawData["idata"] = idata_pointer_to_raw_data
      /\ idata_pointer_to_raw_data \in Nat
  BY ImportsAtClosed
<1>2. what \in LinksAt(step)
  BY EverythingAt DEF WithNames, DataWritten, AddressesPatched, ImagePatched, TextPatched,
     RdataPatched, IdataPatched
<1>3. PICK i \in 1 .. Len(written) : written[i] = Links[what]
  BY <1>2 DEF Linked, LinksIn
<1>4. /\ written[i].what = name /\ written[i].size = size /\ written[i].rvas = rvas
      /\ written[i].at = idata_pointer_to_raw_data + offset
  BY <1>3 DEF Link
<1>5. What(address) = written[i].what /\ PieceAt(address) = written[i]
  <2>1. /\ written[i].size # 0 /\ address \in Int
        /\ header.VirtualAddress["idata"] \in Int /\ header.PointerToRawData["idata"] \in Int
    BY <1>1, <1>4
  <2>2. written[i].at - header.PointerToRawData["idata"]
          = address - header.VirtualAddress["idata"]
    BY <1>1, <1>4
  <2> QED BY <1>1, <2>1, <2>2, ReadAt
<1> QED BY <1>4, <1>5

LEMMA LinkFacts ==
  /\ Links["descriptor"] = Link("descriptor", 0, 20, DescriptorRVAs)
  /\ Links["ILT"] = Link("ILT", 40, 3 * ThunkSize, TableRVAs)
  /\ Links["IAT"] = Link("IAT", 40 + TableSize, 3 * ThunkSize, TableRVAs)
  /\ Links["GetStdHandle"] = NameLink(1) /\ Links["WriteFile"] = NameLink(2)
  /\ Links["ExitProcess"] = NameLink(3)
  /\ {"descriptor", "ILT", "IAT", "GetStdHandle", "WriteFile", "ExitProcess"}
       \subseteq LinkNames
BY DEF Links, LinkNames

LEMMA LoaderReadsImports ==
  ASSUME IInv, Linked, step = "closed", idata_section_address = ImportAddress
  PROVE  ImportsFound
<1>1. InputOK
  BY DEF IInv
<1>2. /\ ThunkSize \in {4, 8} /\ TableSize = 4 * ThunkSize /\ HNT_size = 41
      /\ Imports = 2 * DescriptorSize + 2 * TableSize + HNT_size
      /\ \A k \in 1 .. 3 : FunctionRVA(k) \in Int
  BY <1>1, ImportFacts
<1>3. ImportAddress = 12288 /\ DescriptorSize = 20 /\ ImportTables = 12328
  BY DEF ImportAddress, DescriptorSize, ImportTables
<1> DEFINE descriptor == PieceAt(ImportAddress).rvas
           table == PieceAt(descriptor[3]).rvas
<1>4. What(ImportAddress) = "descriptor" /\ descriptor = DescriptorRVAs
  <2>1. ImportAddress = ImportAddress + 0 /\ 0 \in Int /\ 20 \in Nat \ {0}
    BY <1>3
  <2> QED BY <2>1, LinkFacts, ReadLink
<1>5. /\ descriptor[1] = ImportAddress + 40
      /\ descriptor[2] = ImportAddress + Imports
      /\ descriptor[3] = ImportAddress + (40 + TableSize)
  <2>1. /\ DescriptorRVAs[1] = ImportTables
        /\ DescriptorRVAs[2] = ImportTables + 2 * TableSize + HNT_size
        /\ DescriptorRVAs[3] = ImportTables + TableSize
    BY DEF DescriptorRVAs
  <2> HIDE DEF descriptor
  <2> QED BY <1>2, <1>3, <1>4, <2>1
<1> HIDE DEF descriptor
<1>6. What(descriptor[1]) = "ILT" /\ PieceAt(descriptor[1]).rvas = TableRVAs
  <2>1. 40 \in Int /\ 3 * ThunkSize \in Nat \ {0} /\ "ILT" \in LinkNames
    BY <1>2, LinkFacts
  <2> DEFINE size == 3 * ThunkSize
  <2>2. size \in Nat \ {0} /\ Links["ILT"] = Link("ILT", 40, size, TableRVAs)
    BY <2>1, LinkFacts
  <2> HIDE DEF size
  <2> QED BY <1>5, <2>1, <2>2, ReadLink
<1>7. What(descriptor[3]) = "IAT" /\ PieceAt(descriptor[3]).rvas = TableRVAs
  <2> DEFINE size == 3 * ThunkSize  offset == 40 + TableSize
  <2>1. /\ size \in Nat \ {0} /\ offset \in Int /\ "IAT" \in LinkNames
        /\ Links["IAT"] = Link("IAT", offset, size, TableRVAs)
        /\ descriptor[3] = ImportAddress + offset
    BY <1>2, <1>5, LinkFacts
  <2> HIDE DEF size, offset
  <2> QED BY <2>1, ReadLink
<1>8. table = TableRVAs
  BY <1>7
<1> HIDE DEF table
<1>9. DOMAIN FunctionNames = 1 .. 3 /\ \A k \in 1 .. 3 : k = 1 \/ k = 2 \/ k = 3
  BY DEF FunctionNames
<1>10. ASSUME NEW k \in 1 .. 3 PROVE What(table[k]) = FunctionNames[k]
  <2>1. table[k] = FunctionRVA(k)
    BY <1>8, <1>9 DEF TableRVAs
  <2> DEFINE offset == FunctionRVA(k) - ImportAddress  size == 2 + FunctionSizes[k] + 1
             name == FunctionNames[k]
  <2>2. offset \in Int /\ table[k] = ImportAddress + offset
    BY <1>2, <1>3, <2>1
  <2>3. size \in Nat \ {0}
    BY <1>9 DEF FunctionSizes
  <2>4. PICK what \in LinkNames : Links[what] = Link(name, offset, size, <<>>)
    BY <1>9, LinkFacts DEF NameLink
  <2> HIDE DEF offset, size, name
  <2>5. What(table[k]) = name
    BY <2>2, <2>3, <2>4, ReadLink
  <2> QED BY <2>5 DEF name
<1>11. \A k \in 1 .. 3 : hello_world_calls[k] = descriptor[3] + (k - 1) * ThunkSize
  <2>1. /\ hello_world_calls[1] = descriptor[3]
        /\ hello_world_calls[2] = descriptor[3] + ThunkSize
        /\ hello_world_calls[3] = descriptor[3] + 2 * ThunkSize
    <3>1. descriptor[3] = 12328 + TableSize
      BY <1>2, <1>3, <1>5
    <3> QED BY <1>2, <3>1 DEF hello_world_calls, ThunkSize
  <2>2. TAKE k \in 1 .. 3
  <2>3. (1 - 1) * ThunkSize = 0 /\ (2 - 1) * ThunkSize = ThunkSize
        /\ (3 - 1) * ThunkSize = 2 * ThunkSize
    BY <1>2
  <2>4. descriptor[3] + 0 = descriptor[3]
    BY <1>2, <1>3, <1>5
  <2> QED BY <1>9, <2>1, <2>3, <2>4
<1>12. (IATDirectory = descriptor[3]) <=> (Libraries = 1)
  <2>1. Libraries \in Nat
    BY <1>1, NameSums DEF Libraries
  <2>2. IATDirectory = 12288 + (Libraries + 1) * 20 + TableSize
    BY <1>3 DEF IATDirectory
  <2> HIDE DEF Libraries
  <2>3. descriptor[3] = 12328 + TableSize /\ TableSize \in Nat
    BY <1>2, <1>3, <1>5
  <2> QED BY <2>1, <2>2, <2>3
<1>13. ASSUME input.libraries # <<>> PROVE What(descriptor[2]) = "library"
  <2>1. step \in DataWritten
    BY DEF DataWritten, AddressesPatched, ImagePatched, TextPatched, RdataPatched,
       IdataPatched
  <2>2. FirstName(written, idata_pointer_to_raw_data + Imports)
    BY <1>13, <2>1 DEF Linked
  <2>3. PICK i \in 1 .. Len(written) :
               /\ written[i].what = "library" /\ written[i].size # 0
               /\ written[i].at = idata_pointer_to_raw_data + Imports
    BY <2>2 DEF FirstName
  <2>4. /\ FileOK /\ header.VirtualAddress["idata"] = ImportAddress
        /\ header.PointerToRawData["idata"] = idata_pointer_to_raw_data
        /\ idata_pointer_to_raw_data \in Nat
    BY ImportsAtClosed
  <2>5. Imports \in Int
    BY <1>2, <1>3
  <2>6. /\ descriptor[2] \in Int
        /\ written[i].at - header.PointerToRawData["idata"]
             = descriptor[2] - header.VirtualAddress["idata"]
    BY <1>3, <1>5, <2>3, <2>4, <2>5
  <2> QED BY <1>3, <2>3, <2>4, <2>6, ReadAt
<1> QED BY <1>4, <1>6, <1>7, <1>8, <1>9, <1>10, <1>11, <1>12, <1>13
    DEF ImportsFound, descriptor, table

\* The imports are on the fourth page exactly when the literals leave them there.
LEMMA ImportPage ==
  ASSUME InputOK
  PROVE  IF Sum(input.literals) < section_alignment - file_alignment
           THEN idata_section_address = ImportAddress
           ELSE /\ idata_section_address - ImportAddress > 0
                /\ idata_section_address \in Nat
<1> DEFINE L == Sum(input.literals)  R == SizeOfRawData("rdata")
<1>1. /\ L \in Nat /\ R \in Nat /\ R % 512 = 0 /\ L < R /\ R <= L + 512
      /\ idata_section_address = 8192 + compute_aligned_size(R, 4096)
      /\ section_alignment = 4096 /\ file_alignment = 512 /\ ImportAddress = 12288
  BY LiteralsSum, LayoutFacts DEF Layout, section_alignment, file_alignment, ImportAddress
<1> HIDE DEF L, R
<1>2. compute_aligned_size(R, 4096) = R + (4096 - (R % 4096))
  BY DEF compute_aligned_size
<1>3. CASE L < 3584
  <2>1. R < 4096
    BY <1>1, <1>3
  <2>2. R % 4096 = R
    BY <1>1, <2>1
  <2> QED BY <1>1, <1>2, <1>3, <2>2 DEF L
<1>4. CASE ~ (L < 3584)
  <2>1. R >= 4096
    BY <1>1, <1>4
  <2>2. R % 4096 \in 0 .. 4095
    BY <1>1
  <2> QED BY <1>1, <1>2, <1>4, <2>1, <2>2 DEF L
<1> QED BY <1>1, <1>3, <1>4 DEF L

\* The imports are found and lead to everything a loader needs exactly when the
\* literals leave them on the fourth page, where the import directory says: for
\* any literals and any libraries, however their names are padded.
THEOREM LoaderAlwaysFindsImports == Spec => []LoaderFindsImports
<1>1. ASSUME IInv, Linked, step = "closed" PROVE LoaderFindsImports
  <2>1. /\ FileOK /\ InputOK /\ ImportAddress = 12288
        /\ header.VirtualAddress["idata"] = idata_section_address
        /\ header.PointerToRawData["idata"] = idata_pointer_to_raw_data
        /\ idata_pointer_to_raw_data \in Nat
    BY <1>1, ImportsAtClosed
  <2>2. CASE Sum(input.literals) < section_alignment - file_alignment
    <3>1. idata_section_address = ImportAddress
      BY <2>1, <2>2, ImportPage
    <3>2. ImportsFound
      BY <1>1, <3>1, LoaderReadsImports
    <3> QED BY <2>2, <3>2 DEF LoaderFindsImports
  <2>3. CASE ~ (Sum(input.literals) < section_alignment - file_alignment)
    <3>1. idata_section_address - ImportAddress > 0 /\ idata_section_address \in Nat
      BY <2>1, <2>3, ImportPage
    <3>2. \A p \in PiecesAt(ImportAddress) : p.what # "descriptor"
      <4> SUFFICES ASSUME NEW p \in PiecesAt(ImportAddress), p.what = "descriptor"
                   PROVE  FALSE
        OBVIOUS
      <4>1. p \in ToSet(written)
            /\ p.at = ImportAddress - idata_section_address + idata_pointer_to_raw_data
        BY <2>1 DEF PiecesAt
      <4>2. PICK i \in 1 .. Len(written) : p = written[i]
        BY <2>1, <4>1, PiecesTyped DEF FileOK, ToSet
      <4>3. p.at = idata_pointer_to_raw_data
        BY <1>1, <4>2 DEF Linked, AllAt
      <4> QED BY <2>1, <3>1, <4>1, <4>3
    <3>3. What(ImportAddress) # "descriptor"
      <4>1. CASE PiecesAt(ImportAddress) = {}
        BY <4>1 DEF What
      <4>2. CASE PiecesAt(ImportAddress) # {}
        <5>1. PieceAt(ImportAddress) \in PiecesAt(ImportAddress)
          BY <4>2 DEF PieceAt
        <5> QED BY <3>2, <4>2, <5>1 DEF What
      <4> QED BY <4>1, <4>2
    <3> QED BY <2>3, <3>3 DEF LoaderFindsImports
  <2> QED BY <2>2, <2>3
<1>2. ASSUME step # "closed" PROVE LoaderFindsImports
  BY <1>2 DEF LoaderFindsImports
<1>3. IInv /\ Linked => LoaderFindsImports
  BY <1>1, <1>2
<1> QED BY <1>3, InductiveInvariant, ImportsStayLinked, PTL

=============================================================================
