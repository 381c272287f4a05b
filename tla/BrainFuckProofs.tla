---------------------------- MODULE BrainFuckProofs ----------------------------
(***************************************************************************)
(* What the BrainFuck compiler promises, whatever the source, the tape and *)
(* the limits: every jump, branch and call it has written goes where it    *)
(* has to, at every step of the compilation.                               *)
(*                                                                         *)
(* The invariant says more of the loops that are open: their branches are  *)
(* the ones without a distance, in the order of the stack.  That is what   *)
(* tells the branch the end of a loop patches from those of the loops that *)
(* were closed before.                                                     *)
(***************************************************************************)
EXTENDS BrainFuck, FiniteSetTheorems, SequenceTheorems, WellFoundedInduction, TLAPS

IsSequence(s) == \E S : s \in Seq(S)

\* What an instruction of the code is, before and after it has its place.
IsInstruction(i) ==
  /\ i = [op |-> i.op, at |-> i.at, size |-> i.size,
          offset |-> i.offset, value |-> i.value]
  /\ i.size \in Nat \ {0}
Ends(i) == i.at + i.size

\* The instructions follow each other from the prologue on.
Laid(c) ==
  /\ IsSequence(c)
  /\ SizeOf(c) \in Nat
  /\ \A i \in 1 .. Len(c) :
       IsInstruction(c[i]) /\ c[i].at \in Nat /\ Ends(c[i]) <= SizeOf(c)
  /\ \A i, j \in 1 .. Len(c) : i < j => Ends(c[i]) <= c[j].at

\* The operations that go somewhere else.
Far == {"call", "jump", "branch"}
\* A far instruction, at i in the code c, goes where it has to.
Lands(c, i) ==
  LET target == Ends(c[i]) + c[i].offset
  IN  /\ c[i].op = "call" =>
           target \in {print_char_location, input_char_location}
      /\ c[i].op = "jump" =>
           \E b \in 1 .. i - 1 :
             /\ c[b].op = "branch" /\ c[b].at = target
             /\ Ends(c[b]) + c[b].offset = Ends(c[i])
      /\ c[i].op = "branch" =>
           \/ c[i].offset = 0
           \/ \E j \in i + 1 .. Len(c) : c[j].op = "jump" /\ Ends(c[j]) = target

\* The branches of the open loops.
OpenLoops(c, open) ==
  /\ IsSequence(open)
  /\ \A k \in 1 .. Len(open) :
       \E i \in 1 .. Len(c) :
         /\ c[i].op = "branch" /\ c[i].at + 5 = open[k] /\ c[i].offset = 0
         /\ c[i].size = 9
  /\ \A k, m \in 1 .. Len(open) : k < m => open[k] < open[m]

\* How many instructions of a kind there are.
Which(c, op) == {i \in 1 .. Len(c) : c[i].op = op}
Counted(c, open) ==
  Len(open) = Cardinality(Which(c, "branch")) - Cardinality(Which(c, "jump"))

Good(c, open) ==
  /\ Laid(c)
  /\ \A i \in 1 .. Len(c) : Lands(c, i)
  /\ OpenLoops(c, open)
  /\ Counted(c, open)

\* The inductive invariant.
IInv == Good(code, stack)

-----------------------------------------------------------------------------
(* Numbers and sequences *)

LEMMA BelowIsWellFounded ==
  \A m, n \in Nat : n < m => <<n, m>> \in OpToRel(<, Nat)
BY DEF OpToRel

\* A set of natural numbers has a least one.
LEMMA LeastNumber ==
  ASSUME NEW S, S \subseteq Nat, S # {}
  PROVE  \E m \in S : \A n \in S : m <= n
<1>1. PICK m \in S : \A n \in S : ~ (<<n, m>> \in OpToRel(<, Nat))
  BY NatLessThanWellFounded, WFMin
<1>2. \A n \in S : ~ (n < m)
  BY <1>1, BelowIsWellFounded, Zenon
<1>3. \A n \in S : m <= n
  BY <1>2
<1> QED BY <1>3

LEMMA IndexesOf ==
  ASSUME NEW s, IsSequence(s)
  PROVE  /\ Len(s) \in Nat /\ DOMAIN s = 1 .. Len(s)
         /\ s = <<>> <=> Len(s) = 0
<1>1. PICK S : s \in Seq(S)
  BY DEF IsSequence
<1> QED BY <1>1

\* What appending does to a sequence of anything.
LEMMA AppendTo ==
  ASSUME NEW s, IsSequence(s), NEW e
  PROVE  /\ IsSequence(Append(s, e))
         /\ Len(s) \in Nat
         /\ Len(Append(s, e)) = Len(s) + 1
         /\ \A i \in 1 .. Len(s) : Append(s, e)[i] = s[i]
         /\ Append(s, e)[Len(s) + 1] = e
         /\ Append(s, e) # <<>>
<1>1. PICK S : s \in Seq(S)
  BY DEF IsSequence
<1>2. s \in Seq(S \cup {e}) /\ e \in S \cup {e}
  BY <1>1
<1>3. Append(s, e) \in Seq(S \cup {e})
  BY <1>2
<1>4. IsSequence(Append(s, e))
  BY <1>3 DEF IsSequence
<1> QED BY <1>2, <1>3, <1>4

\* The code has no end but the one of its last instruction.
LEMMA EndOfCode ==
  ASSUME NEW c, IsSequence(c)
  PROVE  SizeOf(c) = IF Len(c) = 0 THEN PrologueEnd ELSE Ends(c[Len(c)])
BY IndexesOf DEF SizeOf, Last, Ends

-----------------------------------------------------------------------------
(* One instruction more *)

Placed(i, c) == [i EXCEPT !.at = SizeOf(c)]

LEMMA PlacedIs ==
  ASSUME NEW c, Laid(c), NEW n, IsInstruction(n)
  PROVE  /\ IsInstruction(Placed(n, c))
         /\ Placed(n, c).at = SizeOf(c) /\ Placed(n, c).op = n.op
         /\ Placed(n, c).size = n.size /\ Placed(n, c).offset = n.offset
BY DEF Placed, IsInstruction, Laid

LEMMA LaidAppend ==
  ASSUME NEW c, Laid(c), NEW n, IsInstruction(n)
  PROVE  /\ Laid(Append(c, Placed(n, c)))
         /\ SizeOf(Append(c, Placed(n, c))) = SizeOf(c) + n.size
<1> DEFINE p == Placed(n, c)
           d == Append(c, p)
<1>1. /\ IsInstruction(p) /\ p.at = SizeOf(c) /\ p.size = n.size
      /\ n.size \in Nat \ {0} /\ SizeOf(c) \in Nat
  BY PlacedIs DEF IsInstruction, Laid
<1>2. IsSequence(c)
  BY DEF Laid
<1> HIDE DEF p
<1>3. /\ IsSequence(d) /\ Len(c) \in Nat /\ Len(d) = Len(c) + 1
      /\ \A i \in 1 .. Len(c) : d[i] = c[i]
      /\ d[Len(c) + 1] = p
  BY <1>2, AppendTo
<1> HIDE DEF d
<1>4. SizeOf(d) = SizeOf(c) + n.size
  <2>1. SizeOf(d) = Ends(d[Len(d)])
    BY <1>3, EndOfCode
  <2> QED BY <2>1, <1>1, <1>3 DEF Ends
<1>5. \A i \in 1 .. Len(c) :
        /\ IsInstruction(c[i]) /\ c[i].at \in Nat /\ Ends(c[i]) <= SizeOf(c)
        /\ Ends(c[i]) \in Nat
  BY DEF Laid, IsInstruction, Ends
<1>6. ASSUME NEW i \in 1 .. Len(d)
      PROVE  IsInstruction(d[i]) /\ d[i].at \in Nat /\ Ends(d[i]) <= SizeOf(d)
  <2>1. CASE i \in 1 .. Len(c)
    BY <2>1, <1>1, <1>3, <1>4, <1>5
  <2>2. CASE i = Len(c) + 1
    BY <2>2, <1>1, <1>3, <1>4 DEF Ends
  <2> QED BY <2>1, <2>2, <1>3
<1>7. ASSUME NEW i \in 1 .. Len(d), NEW j \in 1 .. Len(d), i < j
      PROVE  Ends(d[i]) <= d[j].at
  <2>1. i \in 1 .. Len(c)
    BY <1>3, <1>7
  <2>2. CASE j \in 1 .. Len(c)
    BY <2>1, <2>2, <1>3, <1>7 DEF Laid
  <2>3. CASE j = Len(c) + 1
    BY <2>1, <2>3, <1>1, <1>3, <1>5
  <2> QED BY <2>2, <2>3, <1>3
<1>8. Laid(d)
  BY <1>1, <1>3, <1>4, <1>6, <1>7 DEF Laid
<1> QED BY <1>4, <1>8 DEF d, p

\* An instruction more is one more of its kind.
LEMMA WhichAppend ==
  ASSUME NEW c, IsSequence(c), NEW p, NEW op
  PROVE  /\ p.op # op => Which(Append(c, p), op) = Which(c, op)
         /\ p.op = op =>
              Cardinality(Which(Append(c, p), op)) = Cardinality(Which(c, op)) + 1
         /\ Cardinality(Which(c, op)) \in Nat
<1> DEFINE d == Append(c, p)
<1>1. /\ Len(c) \in Nat /\ Len(d) = Len(c) + 1
      /\ \A i \in 1 .. Len(c) : d[i] = c[i]
      /\ d[Len(c) + 1] = p
  BY AppendTo
<1> HIDE DEF d
<1>2. IsFiniteSet(Which(c, op)) /\ Len(c) + 1 \notin Which(c, op)
  <2>1. 1 \in Int /\ Len(c) \in Int
    BY <1>1
  <2>2. IsFiniteSet(1 .. Len(c))
    BY <2>1, FS_Interval
  <2>3. Which(c, op) \subseteq 1 .. Len(c)
    BY DEF Which
  <2>4. IsFiniteSet(Which(c, op))
    BY <2>2, <2>3, FS_Subset
  <2> QED BY <2>3, <2>4, <1>1
<1>3. p.op # op => Which(d, op) = Which(c, op)
  BY <1>1 DEF Which
<1>4. p.op = op => Which(d, op) = Which(c, op) \cup {Len(c) + 1}
  BY <1>1 DEF Which
<1>5. p.op = op => Cardinality(Which(d, op)) = Cardinality(Which(c, op)) + 1
  BY <1>2, <1>4, FS_AddElement
<1>6. Cardinality(Which(c, op)) \in Nat
  BY <1>2, FS_CardinalityType
<1> QED BY <1>3, <1>5, <1>6 DEF d

\* What goes where it has to still does when the code is longer.
LEMMA LandsAppend ==
  ASSUME NEW c, IsSequence(c), NEW p, NEW i \in 1 .. Len(c), Lands(c, i)
  PROVE  Lands(Append(c, p), i)
<1> DEFINE d == Append(c, p)
<1>1. /\ Len(c) \in Nat /\ Len(d) = Len(c) + 1
      /\ \A j \in 1 .. Len(c) : d[j] = c[j]
  BY AppendTo
<1> HIDE DEF d
<1>2. d[i] = c[i] /\ (\A j \in 1 .. i - 1 : d[j] = c[j])
        /\ (\A j \in i + 1 .. Len(c) : d[j] = c[j] /\ j \in i + 1 .. Len(d))
  BY <1>1
<1>3. Lands(d, i)
  BY <1>2 DEF Lands
<1> QED BY <1>3 DEF d

\* The open loops stay where they are.
LEMMA OpenAppend ==
  ASSUME NEW c, IsSequence(c), NEW p, NEW open, OpenLoops(c, open)
  PROVE  OpenLoops(Append(c, p), open)
<1> DEFINE d == Append(c, p)
<1>1. /\ Len(c) \in Nat /\ Len(d) = Len(c) + 1
      /\ \A j \in 1 .. Len(c) : d[j] = c[j] /\ j \in 1 .. Len(d)
  BY AppendTo
<1> HIDE DEF d
<1>2. OpenLoops(d, open)
  BY <1>1 DEF OpenLoops
<1> QED BY <1>2 DEF d

\* An instruction that goes nowhere, or a call of a routine, keeps it all.
LEMMA NearAppend ==
  ASSUME NEW c, NEW open, Good(c, open), NEW n, IsInstruction(n),
         n.op \notin {"jump", "branch"},
         n.op = "call" => SizeOf(c) + n.size + n.offset
                            \in {print_char_location, input_char_location}
  PROVE  Good(Append(c, Placed(n, c)), open)
<1> DEFINE p == Placed(n, c)
           d == Append(c, p)
<1>1. Laid(c) /\ IsSequence(c) /\ OpenLoops(c, open) /\ Counted(c, open)
        /\ \A i \in 1 .. Len(c) : Lands(c, i)
  BY DEF Good, Laid
<1>2. Laid(d)
  BY <1>1, LaidAppend
<1>3. p.op = n.op /\ p.at = SizeOf(c) /\ p.size = n.size /\ p.offset = n.offset
  BY <1>1, PlacedIs
<1> HIDE DEF p
<1>4. /\ Len(c) \in Nat /\ Len(d) = Len(c) + 1 /\ d[Len(c) + 1] = p
  BY <1>1, AppendTo
<1>5. Lands(d, Len(c) + 1)
  <2> HIDE DEF d
  <2> QED BY <1>3, <1>4 DEF Lands, Ends
<1>6. \A i \in 1 .. Len(d) : Lands(d, i)
  <2>1. \A i \in 1 .. Len(c) : Lands(d, i)
    BY <1>1, LandsAppend
  <2> QED BY <2>1, <1>4, <1>5
<1>7. OpenLoops(d, open)
  BY <1>1, OpenAppend
<1>8. Counted(d, open)
  <2>1. Which(d, "branch") = Which(c, "branch") /\ Which(d, "jump") = Which(c, "jump")
    BY <1>1, <1>3, WhichAppend
  <2> QED BY <1>1, <2>1 DEF Counted
<1> QED BY <1>2, <1>6, <1>7, <1>8 DEF Good, d, p

-----------------------------------------------------------------------------
(* What is emitted *)

\* The function Emit is defined with, up to n.
IsEmission(c, new, n, f) ==
  f = [i \in 0 .. n |-> IF i = 0 THEN c ELSE Append(f[i - 1], Placed(new[i], f[i - 1]))]

LEMMA EmissionExists ==
  ASSUME NEW c, NEW new, NEW n \in Nat
  PROVE  \E f : IsEmission(c, new, n, f)
<1> DEFINE P(m) == \E f : IsEmission(c, new, m, f)
           S == {m \in 0 .. n : ~ P(m)}
<1>1. SUFFICES ASSUME S # {} PROVE FALSE
  OBVIOUS
<1>2. S \subseteq Nat
  OBVIOUS
<1>3. PICK m \in S : \A k \in S : m <= k
  <2> HIDE DEF S
  <2> QED BY <1>1, <1>2, LeastNumber
<1>4. m # 0
  <2> DEFINE f == [i \in 0 .. 0 |-> c]
  <2>1. \A i \in 0 .. 0 : i = 0
    OBVIOUS
  <2>2. f = [i \in 0 .. 0 |-> IF i = 0 THEN c
                              ELSE Append(f[i - 1], Placed(new[i], f[i - 1]))]
    BY <2>1
  <2>3. IsEmission(c, new, 0, f)
    BY <2>2, Zenon DEF IsEmission
  <2>4. P(0)
    BY <2>3
  <2> QED BY <1>3, <2>4
<1>5. m - 1 \in 0 .. n /\ m \in Nat \ {0}
  BY <1>3, <1>4
<1>6. P(m - 1)
  BY <1>3, <1>5
<1>7. PICK f : IsEmission(c, new, m - 1, f)
  BY <1>6
<1> DEFINE step(e, i) == Append(e, Placed(new[i], e))
           g == [i \in 0 .. m |-> IF i = m THEN step(f[m - 1], m) ELSE f[i]]
<1>8. \A i \in 0 .. m - 1 : f[i] = IF i = 0 THEN c ELSE step(f[i - 1], i)
  BY <1>7, Zenon DEF IsEmission
<1> HIDE DEF step
<1>9. \A i \in 0 .. m : g[i] = IF i = 0 THEN c ELSE step(g[i - 1], i)
  BY <1>5, <1>8
<1>10. IsEmission(c, new, m, g)
  <2>1. g = [i \in 0 .. m |-> IF i = 0 THEN c ELSE step(g[i - 1], i)]
    BY <1>9
  <2> HIDE DEF g
  <2> QED BY <2>1, Zenon DEF IsEmission, step
<1>11. P(m)
  <2> HIDE DEF g
  <2> QED BY <1>10
<1> QED BY <1>3, <1>11

\* What is emitted is put at the end, one instruction after the other.
StepByStep(c, new, f) ==
  /\ f[0] = c /\ Emit(c, new) = f[Len(new)]
  /\ \A i \in 1 .. Len(new) : f[i] = Append(f[i - 1], Placed(new[i], f[i - 1]))
LEMMA EmitStepByStep ==
  ASSUME NEW c, NEW new, Len(new) \in Nat
  PROVE  \E f : StepByStep(c, new, f)
<1> DEFINE f == CHOOSE g : IsEmission(c, new, Len(new), g)
<1>1. IsEmission(c, new, Len(new), f)
  BY EmissionExists, Zenon
<1>2. Emit(c, new) = f[Len(new)]
  BY DEF Emit, IsEmission, Placed
<1> HIDE DEF f
<1> DEFINE step(e, i) == Append(e, Placed(new[i], e))
<1>3. \A i \in 0 .. Len(new) : f[i] = IF i = 0 THEN c ELSE step(f[i - 1], i)
  BY <1>1, Zenon DEF IsEmission
<1>4. f[0] = c /\ \A i \in 1 .. Len(new) : f[i] = step(f[i - 1], i)
  <2> HIDE DEF step
  <2> QED BY <1>3
<1>5. StepByStep(c, new, f)
  BY <1>2, <1>4 DEF StepByStep
<1> QED BY <1>5

LEMMA EmitSingle ==
  ASSUME NEW c, NEW new, Len(new) \in Nat
  PROVE  Len(new) = 1 => Emit(c, new) = Append(c, Placed(new[1], c))
<1>a. PICK f : StepByStep(c, new, f)
  BY EmitStepByStep
<1>2. /\ f[0] = c /\ Emit(c, new) = f[Len(new)]
      /\ \A i \in 1 .. Len(new) :
           f[i] = Append(f[i - 1], Placed(new[i], f[i - 1]))
  BY <1>a DEF StepByStep
<1>1. SUFFICES ASSUME Len(new) = 1 PROVE Emit(c, new) = Append(c, Placed(new[1], c))
  OBVIOUS
<1>3. f[1] = Append(f[1 - 1], Placed(new[1], f[1 - 1]))
  BY <1>1, <1>2
<1>4. 1 - 1 = 0
  OBVIOUS
<1>5. f[1] = Append(f[0], Placed(new[1], f[0]))
  BY <1>3, <1>4
<1> QED BY <1>1, <1>2, <1>5

LEMMA EmitOne ==
  ASSUME NEW c, NEW n
  PROVE  Emit(c, <<n>>) = Append(c, Placed(n, c))
<1>1. Len(<<n>>) = 1 /\ <<n>>[1] = n /\ Len(<<n>>) \in Nat
  OBVIOUS
<1>2. Emit(c, <<n>>) = Append(c, Placed(<<n>>[1], c))
  BY <1>1, EmitSingle, Zenon
<1> QED BY <1>1, <1>2, Zenon

\* Instructions that go nowhere.
AllNear(new) ==
  /\ IsSequence(new)
  /\ \A i \in 1 .. Len(new) : IsInstruction(new[i]) /\ new[i].op \notin Far

LEMMA EmitKeeps ==
  ASSUME NEW c, NEW open, Good(c, open), NEW new, AllNear(new)
  PROVE  Good(Emit(c, new), open)
<1>1. Len(new) \in Nat
  BY IndexesOf DEF AllNear
<1>a. PICK f : StepByStep(c, new, f)
  BY <1>1, EmitStepByStep
<1>2. /\ f[0] = c /\ Emit(c, new) = f[Len(new)]
      /\ \A i \in 1 .. Len(new) :
           f[i] = Append(f[i - 1], Placed(new[i], f[i - 1]))
  BY <1>a DEF StepByStep
<1> DEFINE S == {k \in 0 .. Len(new) : ~ Good(f[k], open)}
<1>3. ASSUME S # {} PROVE FALSE
  <2>1. S \subseteq Nat
    OBVIOUS
  <2>2. PICK k \in S : \A j \in S : k <= j
    <3> HIDE DEF S
    <3> QED BY <1>3, <2>1, LeastNumber
  <2>3. k # 0
    BY <1>2, <2>2
  <2>4. k \in 1 .. Len(new) /\ k - 1 \in 0 .. Len(new)
    BY <1>1, <2>2, <2>3
  <2>5. Good(f[k - 1], open)
    BY <2>2, <2>4
  <2>6. IsInstruction(new[k]) /\ new[k].op \notin Far
    BY <2>4 DEF AllNear
  <2>7. Good(Append(f[k - 1], Placed(new[k], f[k - 1])), open)
    BY <2>5, <2>6, NearAppend DEF Far
  <2> QED BY <1>2, <2>2, <2>4, <2>7
<1>4. Good(f[Len(new)], open)
  BY <1>1, <1>3
<1> QED BY <1>2, <1>4

-----------------------------------------------------------------------------
(* What a flush emits *)

LEMMA InstructionIs ==
  ASSUME NEW op, NEW size \in Nat \ {0}, NEW offset, NEW value
  PROVE  /\ IsInstruction(Instruction(op, size, offset, value))
         /\ Instruction(op, size, offset, value).op = op
         /\ Instruction(op, size, offset, value).size = size
         /\ Instruction(op, size, offset, value).offset = offset
BY DEF Instruction, IsInstruction

LEMMA AddIsNear ==
  ASSUME NEW offset, NEW value
  PROVE  IsInstruction(Add(offset, value)) /\ Add(offset, value).op \notin Far
<1>1. (IF Signed(value) \in {1, -1} THEN 2 ELSE 3) + (IF offset = 0 THEN 0 ELSE 1)
        \in Nat \ {0}
  OBVIOUS
<1> QED BY <1>1, InstructionIs DEF Add, Far

LEMMA MoveIsNear ==
  ASSUME NEW offset
  PROVE  IsInstruction(Move(offset)) /\ Move(offset).op \notin Far
<1>1. (IF offset \in INT8 THEN 4 ELSE 7) \in Nat \ {0}
  OBVIOUS
<1> QED BY <1>1, InstructionIs DEF Move, Far

LEMMA NearAppended ==
  ASSUME NEW s, AllNear(s), NEW n, IsInstruction(n), n.op \notin Far
  PROVE  AllNear(Append(s, n))
<1> DEFINE t == Append(s, n)
<1>1. /\ IsSequence(t) /\ Len(s) \in Nat /\ Len(t) = Len(s) + 1
      /\ \A i \in 1 .. Len(s) : t[i] = s[i]
      /\ t[Len(s) + 1] = n
  BY AppendTo DEF AllNear
<1> HIDE DEF t
<1>2. AllNear(t)
  BY <1>1 DEF AllNear
<1> QED BY <1>2 DEF t

LEMMA NoneIsNear ==
  ASSUME NEW s, AllNear(s)
  PROVE  /\ AllNear(<<>>)
         /\ s \o <<>> = s
         /\ \A n : s \o <<n>> = Append(s, n)
<1>1. PICK S : s \in Seq(S)
  BY DEF AllNear, IsSequence
<1>2. <<>> \in Seq({})
  OBVIOUS
<1>3. AllNear(<<>>)
  BY <1>2 DEF AllNear, IsSequence
<1>4. ASSUME NEW n PROVE s \o <<n>> = Append(s, n)
  <2>1. s \in Seq(S \cup {n}) /\ n \in S \cup {n}
    BY <1>1
  <2> QED BY <2>1
<1> QED BY <1>1, <1>3, <1>4

\* The function Additions is defined with, up to the offset n.
Adds(t, o) == InUse(t, o) /\ (o # t.offset \/ o = 0)
IsFlush(t, n, f) ==
  f = [o \in INT8_MIN - 1 .. n |->
         IF o < INT8_MIN THEN <<>>
         ELSE IF InUse(t, o) /\ (o # t.offset \/ o = 0)
           THEN Append(f[o - 1], Add(o, t.value[o]))
         ELSE f[o - 1]]

LEMMA FlushExists ==
  ASSUME NEW t, NEW n \in Nat
  PROVE  \E f : IsFlush(t, INT8_MIN - 1 + n, f)
<1> DEFINE low == INT8_MIN - 1
           P(m) == \E f : IsFlush(t, low + m, f)
           S == {m \in 0 .. n : ~ P(m)}
<1>1. SUFFICES ASSUME S # {} PROVE FALSE
  OBVIOUS
<1>2. S \subseteq Nat
  OBVIOUS
<1>3. PICK m \in S : \A k \in S : m <= k
  <2> HIDE DEF S
  <2> QED BY <1>1, <1>2, LeastNumber
<1> DEFINE step(e, o) == IF InUse(t, o) /\ (o # t.offset \/ o = 0)
                           THEN Append(e, Add(o, t.value[o]))
                         ELSE e
           last == low + m
<1>4. low \in Int /\ INT8_MIN = low + 1 /\ last \in Int
  BY <1>3, INT8Assumption DEF INT8_MIN
<1>5. \A k, f : (f = [o \in low .. k |-> IF o < INT8_MIN THEN <<>> ELSE step(f[o - 1], o)])
                  => IsFlush(t, k, f)
  BY Zenon DEF IsFlush
<1>6. \A k, f : IsFlush(t, k, f) =>
        f = [o \in low .. k |-> IF o < INT8_MIN THEN <<>> ELSE step(f[o - 1], o)]
  BY Zenon DEF IsFlush
<1> HIDE DEF step
<1>7. m # 0
  <2> DEFINE f == [o \in low .. low + 0 |-> <<>>]
  <2>1. f = [o \in low .. low + 0 |-> IF o < INT8_MIN THEN <<>> ELSE step(f[o - 1], o)]
    <3> HIDE DEF low
    <3> QED BY <1>4
  <2>2. P(0)
    <3> HIDE DEF f
    <3> QED BY <2>1, <1>5
  <2> QED BY <1>3, <2>2
<1>8. m - 1 \in 0 .. n /\ m \in Nat \ {0}
  BY <1>3, <1>7
<1>9. P(m - 1)
  BY <1>3, <1>8
<1>10. PICK f : IsFlush(t, low + (m - 1), f)
  BY <1>9
<1>11. low + (m - 1) = last - 1
  <2> HIDE DEF low
  <2> QED BY <1>4, <1>8
<1> DEFINE g == [o \in low .. last |-> IF o = last THEN step(f[last - 1], last) ELSE f[o]]
<1>12. last > low
  <2> HIDE DEF low
  <2> QED BY <1>4, <1>8
<1>13. f = [o \in low .. last - 1 |-> IF o < INT8_MIN THEN <<>> ELSE step(f[o - 1], o)]
  BY <1>6, <1>10, <1>11
<1> HIDE DEF low, last
<1>14. \A o \in low .. last - 1 : f[o] = IF o < INT8_MIN THEN <<>> ELSE step(f[o - 1], o)
  BY <1>13
<1>15. \A o \in low .. last : g[o] = IF o < INT8_MIN THEN <<>> ELSE step(g[o - 1], o)
  BY <1>4, <1>12, <1>14
<1>16. g = [o \in low .. last |-> IF o < INT8_MIN THEN <<>> ELSE step(g[o - 1], o)]
  BY <1>15
<1> HIDE DEF g
<1>17. IsFlush(t, last, g)
  BY <1>5, <1>16
<1>18. P(m)
  BY <1>17 DEF last
<1> QED BY <1>3, <1>18

LEMMA AdditionsAreNear ==
  ASSUME NEW t
  PROVE  AllNear(Additions(t))
<1> DEFINE low == INT8_MIN - 1
           high == INT8_MAX - 1
           f == CHOOSE g : IsFlush(t, high, g)
           S == {m \in 0 .. high - low : ~ AllNear(f[low + m])}
<1>1. /\ low \in Int /\ high \in Int /\ INT8_MIN = low + 1 /\ high - low \in Nat
      /\ low + (high - low) = high
  BY INT8Assumption DEF INT8_MIN
<1>2. IsFlush(t, high, f)
  <2>1. \E g : IsFlush(t, low + (high - low), g)
    BY <1>1, FlushExists
  <2>2. \E g : IsFlush(t, high, g)
    BY <1>1, <2>1
  <2> QED BY <2>2, Zenon
<1>3. Additions(t) = f[high]
  BY DEF Additions, IsFlush
<1> HIDE DEF f
<1> DEFINE step(e, o) == IF InUse(t, o) /\ (o # t.offset \/ o = 0)
                           THEN Append(e, Add(o, t.value[o]))
                         ELSE e
<1>4. f = [o \in low .. high |-> IF o < INT8_MIN THEN <<>> ELSE step(f[o - 1], o)]
  BY <1>2, Zenon DEF IsFlush
<1>5. \A e, o : AllNear(e) => AllNear(step(e, o))
  BY AddIsNear, NearAppended
<1> HIDE DEF step, low, high
<1>6. ASSUME S # {} PROVE FALSE
  <2>1. S \subseteq Nat
    OBVIOUS
  <2>2. PICK m \in S : \A j \in S : m <= j
    <3> HIDE DEF S
    <3> QED BY <1>6, <2>1, LeastNumber
  <2>3. f[low + m] = IF low + m < INT8_MIN THEN <<>>
                     ELSE step(f[low + m - 1], low + m)
    BY <1>1, <1>4, <2>2
  <2>4. CASE m = 0
    <3>1. f[low + m] = <<>>
      BY <1>1, <2>3, <2>4
    <3>2. AllNear(<<>>)
      <4>1. <<>> \in Seq({})
        OBVIOUS
      <4> QED BY <4>1 DEF AllNear, IsSequence
    <3> QED BY <2>2, <3>1, <3>2
  <2>5. CASE m # 0
    <3>1. m - 1 \in 0 .. high - low /\ low + m - 1 = low + (m - 1)
            /\ ~ (low + m < INT8_MIN)
      BY <1>1, <2>2, <2>5
    <3>2. AllNear(f[low + (m - 1)])
      BY <2>2, <3>1
    <3>3. AllNear(f[low + m])
      BY <1>5, <2>3, <3>1, <3>2
    <3> QED BY <2>2, <3>3
  <2> QED BY <2>4, <2>5
<1>7. AllNear(f[low + (high - low)])
  BY <1>1, <1>6
<1> QED BY <1>1, <1>3, <1>7

LEMMA EmittedIsNear ==
  ASSUME NEW t
  PROVE  AllNear(Emitted(t))
<1> DEFINE a == Additions(t)
           b == a \o (IF t.offset # 0 THEN <<Move(t.offset)>> ELSE <<>>)
<1>1. AllNear(a)
  BY AdditionsAreNear
<1> HIDE DEF a
<1>2. AllNear(b)
  <2>1. CASE t.offset = 0
    BY <1>1, <2>1, NoneIsNear
  <2>2. CASE t.offset # 0
    <3> DEFINE n == Move(t.offset)
    <3>1. b = a \o <<n>>
      BY <2>2
    <3>2. IsInstruction(n) /\ n.op \notin Far
      BY MoveIsNear
    <3> HIDE DEF n, b
    <3>3. b = Append(a, n)
      BY <1>1, <3>1, NoneIsNear
    <3> QED BY <1>1, <3>2, <3>3, NearAppended
  <2> QED BY <2>1, <2>2
<1>3. Emitted(t) = b \o (IF Matches(t) THEN <<Add(0, t.value[t.offset])>> ELSE <<>>)
  BY DEF Emitted, a
<1> HIDE DEF b
<1>4. CASE Matches(t)
  <2> DEFINE n == Add(0, t.value[t.offset])
  <2>1. Emitted(t) = b \o <<n>>
    BY <1>3, <1>4
  <2>2. IsInstruction(n) /\ n.op \notin Far
    BY AddIsNear
  <2> HIDE DEF n
  <2>3. Emitted(t) = Append(b, n)
    BY <1>2, <2>1, NoneIsNear
  <2> QED BY <1>2, <2>2, <2>3, NearAppended
<1>5. CASE ~ Matches(t)
  BY <1>2, <1>3, <1>5, NoneIsNear
<1> QED BY <1>4, <1>5

\* A flush keeps every jump where it goes.
LEMMA FlushKeeps ==
  ASSUME NEW c, NEW open, Good(c, open), NEW t
  PROVE  Good(Emit(c, Emitted(t)), open)
BY EmittedIsNear, EmitKeeps

-----------------------------------------------------------------------------
(* The steps *)

LEMMA Initially == Init => IInv
<1> SUFFICES ASSUME Init PROVE Good(code, stack)
  BY DEF IInv
<1>1. code = <<>> /\ stack = <<>>
  BY DEF Init
<1>2. IsSequence(<<>>) /\ Len(<<>>) = 0
  <2>1. <<>> \in Seq({})
    OBVIOUS
  <2> QED BY <2>1 DEF IsSequence
<1>3. SizeOf(code) = PrologueEnd /\ PrologueEnd \in Nat
  BY <1>1, <1>2, EndOfCode DEF PrologueEnd, entry_offset
<1>4. Laid(code)
  BY <1>1, <1>2, <1>3 DEF Laid
<1>5. OpenLoops(code, stack)
  <2>1. 1 .. Len(stack) = {}
    BY <1>1, <1>2
  <2> QED BY <2>1, <1>1, <1>2 DEF OpenLoops
<1>6. Counted(code, stack)
  <2>1. Which(code, "branch") = {} /\ Which(code, "jump") = {}
    BY <1>1, <1>2 DEF Which
  <2>2. Cardinality({}) = 0
    BY FS_EmptySet
  <2>3. Cardinality(Which(code, "branch")) = 0 /\ Cardinality(Which(code, "jump")) = 0
    BY <2>1, <2>2
  <2>4. Len(stack) = 0
    BY <1>1, <1>2
  <2> QED BY <2>3, <2>4 DEF Counted
<1>7. \A i \in 1 .. Len(code) : Lands(code, i)
  BY <1>1, <1>2
<1> QED BY <1>4, <1>5, <1>6, <1>7 DEF Good

\* Operations that emit instructions that go nowhere, after a flush.
LEMMA FlushAndKeeps ==
  ASSUME IInv, NEW n, IsInstruction(n), n.op \notin Far, FlushAnd(<<n>>),
         UNCHANGED stack
  PROVE  IInv'
<1>1. Good(Emit(code, Emitted(table)), stack)
  BY FlushKeeps DEF IInv
<1>2. code' = Append(Emit(code, Emitted(table)),
                     Placed(n, Emit(code, Emitted(table))))
  BY EmitOne DEF FlushAnd
<1>3. Good(code', stack)
  BY <1>1, <1>2, NearAppend DEF Far
<1> QED BY <1>3 DEF IInv

LEMMA CallKeeps ==
  ASSUME IInv, NEW location \in {print_char_location, input_char_location},
         FlushAnd(<<Call(location)>>), UNCHANGED stack
  PROVE  IInv'
<1> DEFINE flushed == Emit(code, Emitted(table))
           n == Call(location)
<1>1. Good(flushed, stack)
  BY FlushKeeps DEF IInv
<1>2. code' = Append(flushed, Placed(n, flushed))
  BY EmitOne DEF FlushAnd
<1>3. SizeOf(flushed) \in Nat
  BY <1>1 DEF Good, Laid
<1>4. /\ IsInstruction(n) /\ n.op = "call" /\ n.size = 5
      /\ n.offset = location - (SizeOf(flushed) + 5)
  BY InstructionIs DEF Call
<1> HIDE DEF n, flushed
<1>5. SizeOf(flushed) + n.size + n.offset = location
  BY <1>3, <1>4 DEF print_char_location, input_char_location
<1>6. Good(code', stack)
  BY <1>1, <1>2, <1>4, <1>5, NearAppend
<1> QED BY <1>6 DEF IInv

\* A loop begins: one branch more, without a distance, the last on the stack.
LEMMA WhileStartKeeps == IInv /\ WhileStart => IInv'
<1> SUFFICES ASSUME IInv, WhileStart PROVE IInv'
  OBVIOUS
<1> DEFINE flushed == Emit(code, Emitted(table))
           n == Instruction("branch", 9, 0, 0)
           p == Placed(n, flushed)
           d == Append(flushed, p)
           open == Append(stack, SizeOf(flushed) + 5)
<1>1. Good(flushed, stack)
  BY FlushKeeps DEF IInv
<1>2. code' = d /\ stack' = open
  BY EmitOne DEF WhileStart, FlushAnd
<1>3. /\ Laid(flushed) /\ IsSequence(flushed) /\ SizeOf(flushed) \in Nat
      /\ OpenLoops(flushed, stack) /\ Counted(flushed, stack)
      /\ \A i \in 1 .. Len(flushed) : Lands(flushed, i)
  BY <1>1 DEF Good, Laid
<1>4. IsInstruction(n) /\ n.op = "branch" /\ n.size = 9 /\ n.offset = 0
  BY InstructionIs
<1> HIDE DEF flushed, n
<1>5. /\ IsInstruction(p) /\ p.op = "branch" /\ p.size = 9 /\ p.offset = 0
      /\ p.at = SizeOf(flushed)
  BY <1>3, <1>4, PlacedIs
<1>6. Laid(d)
  BY <1>3, <1>4, LaidAppend
<1> HIDE DEF p
<1>7. /\ Len(flushed) \in Nat /\ Len(d) = Len(flushed) + 1
      /\ \A i \in 1 .. Len(flushed) : d[i] = flushed[i]
      /\ d[Len(flushed) + 1] = p
  BY <1>3, AppendTo
<1>8. /\ IsSequence(open) /\ Len(stack) \in Nat /\ Len(open) = Len(stack) + 1
      /\ \A i \in 1 .. Len(stack) : open[i] = stack[i]
      /\ open[Len(stack) + 1] = SizeOf(flushed) + 5
  BY <1>3, AppendTo DEF OpenLoops
<1>9. \A i \in 1 .. Len(d) : Lands(d, i)
  <2>1. \A i \in 1 .. Len(flushed) : Lands(d, i)
    BY <1>3, LandsAppend
  <2>2. Lands(d, Len(flushed) + 1)
    BY <1>5, <1>7 DEF Lands
  <2> QED BY <2>1, <2>2, <1>7
<1>10. OpenLoops(d, stack)
  BY <1>3, OpenAppend
<1>11. Counted(d, open)
  <2>1. /\ Which(d, "jump") = Which(flushed, "jump")
        /\ Cardinality(Which(d, "branch")) = Cardinality(Which(flushed, "branch")) + 1
        /\ Cardinality(Which(flushed, "branch")) \in Nat
        /\ Cardinality(Which(flushed, "jump")) \in Nat
    BY <1>3, <1>5, WhichAppend
  <2> QED BY <2>1, <1>3, <1>8 DEF Counted
<1> HIDE DEF d, open
<1>12. ASSUME NEW k \in 1 .. Len(open)
       PROVE  \E i \in 1 .. Len(d) : /\ d[i].op = "branch" /\ d[i].at + 5 = open[k]
                                     /\ d[i].offset = 0 /\ d[i].size = 9
  <2>1. CASE k \in 1 .. Len(stack)
    BY <2>1, <1>8, <1>10 DEF OpenLoops
  <2>2. CASE k = Len(stack) + 1
    BY <2>2, <1>5, <1>7, <1>8
  <2> QED BY <2>1, <2>2, <1>8
\* The branches before it are at lower addresses.
<1>13. \A k \in 1 .. Len(stack) : stack[k] \in Int /\ stack[k] < SizeOf(flushed) + 5
  <2> TAKE k \in 1 .. Len(stack)
  <2>1. PICK i \in 1 .. Len(flushed) : flushed[i].at + 5 = stack[k]
    BY <1>3 DEF OpenLoops
  <2>2. /\ flushed[i].at \in Nat /\ flushed[i].size \in Nat \ {0}
        /\ flushed[i].at + flushed[i].size <= SizeOf(flushed)
    BY <1>3 DEF Laid, IsInstruction, Ends
  <2> QED BY <1>3, <2>1, <2>2, SMTT(30)
<1>14. ASSUME NEW k \in 1 .. Len(open), NEW m \in 1 .. Len(open), k < m
       PROVE  open[k] < open[m]
  <2>1. k \in 1 .. Len(stack)
    BY <1>8, <1>14
  <2>2. CASE m \in 1 .. Len(stack)
    BY <2>1, <2>2, <1>3, <1>8, <1>14 DEF OpenLoops
  <2>3. CASE m = Len(stack) + 1
    BY <2>1, <2>3, <1>8, <1>13
  <2> QED BY <2>2, <2>3, <1>8
<1>15. OpenLoops(d, open)
  BY <1>8, <1>12, <1>14 DEF OpenLoops
<1> QED BY <1>2, <1>6, <1>9, <1>11, <1>15 DEF IInv, Good

\* A loop ends: a jump more, which goes back to the last open branch, and the
\* branch goes behind the jump.  No other instruction changes: the branch is the
\* only one at its address.
LEMMA WhileEndKeeps == IInv /\ WhileEnd => IInv'
<1> SUFFICES ASSUME IInv, WhileEnd PROVE IInv'
  OBVIOUS
<1> DEFINE flushed == Emit(code, Emitted(table))
           top     == Last(stack)
           back    == -((SizeOf(flushed) + 5) - (top - 5))
           n       == Instruction("jump", 5, back, 0)
           p       == Placed(n, flushed)
           looped  == Append(flushed, p)
           open    == Front(stack)
           last    == Len(flushed) + 1
<1>1. Good(flushed, stack)
  BY FlushKeeps DEF IInv
<1>2. /\ stack # <<>> /\ stack' = open
      /\ code' = [i \in DOMAIN looped |->
                    IF looped[i].at + 5 = top
                      THEN [looped[i] EXCEPT
                              !.offset = Distance(SizeOf(looped), top)]
                      ELSE looped[i]]
  BY EmitOne, Zenon DEF WhileEnd
<1>3. /\ Laid(flushed) /\ IsSequence(flushed) /\ SizeOf(flushed) \in Nat
      /\ OpenLoops(flushed, stack) /\ Counted(flushed, stack) /\ IsSequence(stack)
      /\ \A i \in 1 .. Len(flushed) : Lands(flushed, i)
  BY <1>1 DEF Good, Laid, OpenLoops
<1>4. IsInstruction(n) /\ n.op = "jump" /\ n.size = 5 /\ n.offset = back
  BY InstructionIs
<1> HIDE DEF flushed, n
<1>5. /\ IsInstruction(p) /\ p.op = "jump" /\ p.size = 5 /\ p.offset = back
      /\ p.at = SizeOf(flushed)
  BY <1>3, <1>4, PlacedIs
<1>6. Laid(looped) /\ SizeOf(looped) = SizeOf(flushed) + 5
  BY <1>3, <1>4, LaidAppend
<1> HIDE DEF p
<1>7. /\ IsSequence(looped) /\ Len(flushed) \in Nat /\ Len(looped) = last
      /\ \A i \in 1 .. Len(flushed) : looped[i] = flushed[i]
      /\ looped[last] = p /\ looped # <<>> /\ DOMAIN looped = 1 .. last
  BY <1>3, AppendTo, IndexesOf
<1>8. /\ OpenLoops(looped, stack)
      /\ \A i \in 1 .. Len(flushed) : Lands(looped, i)
  BY <1>3, OpenAppend, LandsAppend
<1>9. /\ Cardinality(Which(looped, "jump")) = Cardinality(Which(flushed, "jump")) + 1
      /\ Which(looped, "branch") = Which(flushed, "branch")
      /\ Cardinality(Which(flushed, "branch")) \in Nat
      /\ Cardinality(Which(flushed, "jump")) \in Nat
  BY <1>3, <1>5, WhichAppend
\* The stack, without its last branch.
<1>10. /\ Len(stack) \in Nat \ {0} /\ IsSequence(open) /\ Len(open) = Len(stack) - 1
       /\ \A k \in 1 .. Len(open) : open[k] = stack[k]
       /\ top = stack[Len(stack)]
  <2>1. PICK S : stack \in Seq(S)
    BY <1>3 DEF IsSequence
  <2>2. Len(stack) \in Nat \ {0} /\ top = stack[Len(stack)]
    BY <1>2, <2>1 DEF Last
  <2>3. PICK n1 \in Nat : n1 = Len(stack) - 1 /\ (\A k \in 1 .. n1 : stack[k] \in S)
    BY <2>1, <2>2
  <2>4. open = SubSeq(stack, 1, n1)
    BY <2>3 DEF Front
  <2>5. /\ SubSeq(stack, 1, n1) \in Seq(S)
        /\ Len(SubSeq(stack, 1, n1)) = IF 1 <= n1 THEN n1 - 1 + 1 ELSE 0
        /\ \A k \in 1 .. n1 - 1 + 1 : SubSeq(stack, 1, n1)[k] = stack[1 + k - 1]
    BY <2>3, SubSeqProperties
  <2>6. n1 - 1 + 1 = n1 /\ \A k \in 1 .. n1 : 1 + k - 1 = k
    BY <2>3
  <2> HIDE DEF open, top
  <2>7. open \in Seq(S) /\ Len(open) = n1 /\ (\A k \in 1 .. n1 : open[k] = stack[k])
    BY <2>3, <2>4, <2>5, <2>6
  <2> QED BY <2>2, <2>3, <2>7 DEF IsSequence
<1> HIDE DEF looped, open, top
<1>11. PICK b \in 1 .. Len(flushed) :
         /\ looped[b].op = "branch" /\ looped[b].at + 5 = top
         /\ looped[b].offset = 0 /\ looped[b].size = 9
  <2>1. Len(stack) \in 1 .. Len(stack)
    BY <1>10
  <2>2. PICK i \in 1 .. Len(flushed) :
          /\ flushed[i].op = "branch" /\ flushed[i].at + 5 = stack[Len(stack)]
          /\ flushed[i].offset = 0 /\ flushed[i].size = 9
    BY <1>3, <2>1 DEF OpenLoops
  <2> QED BY <1>7, <1>10, <2>2
<1>12. \A i \in 1 .. last :
         /\ IsInstruction(looped[i]) /\ looped[i].at \in Nat
         /\ looped[i].size \in Nat \ {0}
         /\ looped[i].at + looped[i].size <= SizeOf(flushed) + 5
  BY <1>6, <1>7 DEF Laid, IsInstruction, Ends
<1>a. last \in Nat /\ last = Len(flushed) + 1
  BY <1>7
<1>13. \A i, j \in 1 .. last : i < j => looped[i].at + looped[i].size <= looped[j].at
  BY <1>6, <1>7 DEF Laid, Ends
<1>14. /\ b \in 1 .. last /\ last \in 1 .. last /\ b < last /\ b \in Nat
       /\ looped[b].at \in Nat /\ top \in Int /\ top - 5 = looped[b].at
  BY <1>7, <1>11, <1>12
<1> HIDE DEF last
\* Only the branch is at the address on the stack.
<1>15. \A i \in 1 .. last : looped[i].at + 5 = top <=> i = b
  <2> TAKE i \in 1 .. last
  <2>1. /\ looped[i].at \in Nat /\ looped[i].size \in Nat \ {0} /\ i \in Nat
        /\ looped[b].size \in Nat \ {0}
    BY <1>a, <1>12, <1>14
  <2>2. CASE i < b
    <3>1. looped[i].at + looped[i].size <= looped[b].at
      BY <2>2, <1>13, <1>14
    <3> QED BY <2>1, <2>2, <3>1, <1>14, SMTT(30)
  <2>3. CASE b < i
    <3>1. looped[b].at + looped[b].size <= looped[i].at
      BY <2>3, <1>13, <1>14
    <3> QED BY <2>1, <2>3, <3>1, <1>14, SMTT(30)
  <2>4. CASE i = b
    BY <2>1, <2>4, <1>14
  <2> QED BY <2>1, <2>2, <2>3, <2>4, <1>14
<1> DEFINE distance == Distance(SizeOf(looped), top)
           d == code'
<1>16. /\ d = [i \in 1 .. last |-> d[i]]
       /\ \A i \in 1 .. last : i # b => d[i] = looped[i]
       /\ d[b] = [looped[b] EXCEPT !.offset = distance]
  BY <1>2, <1>7, <1>14, <1>15
<1>17. /\ IsInstruction(d[b]) /\ d[b].op = "branch" /\ d[b].at = looped[b].at
       /\ d[b].size = 9 /\ d[b].offset = distance
  <2>1. IsInstruction(looped[b])
    BY <1>12, <1>14
  <2> QED BY <1>11, <1>16, <2>1 DEF IsInstruction
<1>18. distance = (SizeOf(flushed) + 5) - (top + 4)
  BY <1>6 DEF Distance
<1> HIDE DEF d, distance
<1>19. \A i \in 1 .. last :
         /\ IsInstruction(d[i]) /\ d[i].op = looped[i].op
         /\ d[i].at = looped[i].at /\ d[i].size = looped[i].size
  BY <1>11, <1>12, <1>16, <1>17
<1>20. IsSequence(d) /\ Len(d) = last
  <2>1. last \in Nat
    BY <1>7
  <2>2. d \in [1 .. last -> {d[i] : i \in 1 .. last}]
    BY <1>16
  <2>3. d \in Seq({d[i] : i \in 1 .. last})
    BY <2>1, <2>2
  <2>4. IsSequence(d)
    BY <2>3 DEF IsSequence
  <2>5. DOMAIN d = 1 .. last
    BY <1>16
  <2> QED BY <2>1, <2>3, <2>4, <2>5
<1>21. SizeOf(d) = SizeOf(flushed) + 5
  <2>1. SizeOf(d) = d[last].at + d[last].size
    BY <1>7, <1>20, EndOfCode DEF Ends
  <2>2. SizeOf(looped) = looped[last].at + looped[last].size
    BY <1>7, EndOfCode DEF Ends
  <2> QED BY <1>6, <1>14, <1>19, <2>1, <2>2
<1>22. Laid(d)
  <2>1. SizeOf(d) \in Nat
    BY <1>3, <1>21
  <2>2. \A i \in 1 .. last :
          IsInstruction(d[i]) /\ d[i].at \in Nat /\ Ends(d[i]) <= SizeOf(d)
    BY <1>12, <1>19, <1>21 DEF Ends
  <2>3. \A i, j \in 1 .. last : i < j => Ends(d[i]) <= d[j].at
    BY <1>13, <1>19 DEF Ends
  <2> QED BY <1>20, <2>1, <2>2, <2>3 DEF Laid
<1>23. Counted(d, open)
  <2>1. Which(d, "branch") = Which(looped, "branch") /\ Which(d, "jump") = Which(looped, "jump")
    BY <1>7, <1>19, <1>20 DEF Which
  <2> QED BY <1>3, <1>9, <1>10, <2>1 DEF Counted
<1>24. OpenLoops(d, open)
  <2>1. ASSUME NEW k \in 1 .. Len(open)
        PROVE  \E i \in 1 .. Len(d) : /\ d[i].op = "branch" /\ d[i].at + 5 = open[k]
                                      /\ d[i].offset = 0 /\ d[i].size = 9
    <3>1. k \in 1 .. Len(stack) /\ k < Len(stack) /\ Len(stack) \in 1 .. Len(stack)
            /\ open[k] = stack[k]
      BY <1>10
    <3>2. PICK i \in 1 .. last :
            /\ looped[i].op = "branch" /\ looped[i].at + 5 = stack[k]
            /\ looped[i].offset = 0 /\ looped[i].size = 9
      BY <1>7, <1>8, <3>1 DEF OpenLoops
    <3>3. stack[k] < top
      BY <1>3, <1>10, <3>1 DEF OpenLoops
    <3>4. i # b
      BY <1>12, <1>11, <3>2, <3>3
    <3> QED BY <1>16, <1>20, <3>1, <3>2, <3>4
  <2>2. \A k, m \in 1 .. Len(open) : k < m => open[k] < open[m]
    <3>1. \A k \in 1 .. Len(open) : k \in 1 .. Len(stack)
      BY <1>10
    <3> QED BY <1>3, <1>10, <3>1 DEF OpenLoops
  <2> QED BY <1>10, <2>1, <2>2 DEF OpenLoops
<1>25. ASSUME NEW i \in 1 .. last
       PROVE  Lands(d, i)
  \* The jump goes back to the comparison of the branch, five bytes before.
  <2>1. CASE i = last
    <3>1. /\ d[last].op = "jump" /\ d[last].at = SizeOf(flushed) /\ d[last].size = 5
          /\ d[last].offset = -((SizeOf(flushed) + 5) - (top - 5))
      BY <1>5, <1>7, <1>14, <1>16
    <3>2. top \in Int /\ top - 5 = d[b].at /\ d[b].at \in Nat
      BY <1>14, <1>17
    <3>3. Ends(d[last]) + d[last].offset = d[b].at
      BY <1>3, <3>1, <3>2 DEF Ends
    <3>4. Ends(d[b]) + d[b].offset = Ends(d[last])
      BY <1>3, <1>17, <1>18, <3>1, <3>2, SMTT(30) DEF Ends
    <3>5. b \in 1 .. last - 1
      BY <1>7, <1>14
    <3> QED BY <1>17, <2>1, <3>1, <3>3, <3>4, <3>5 DEF Lands
  \* The branch goes behind the jump.
  <2>2. CASE i = b
    <3>1. d[last].op = "jump" /\ Ends(d[last]) = SizeOf(flushed) + 5
      BY <1>3, <1>5, <1>7, <1>14, <1>16 DEF Ends
    <3>2. Ends(d[b]) + d[b].offset = SizeOf(flushed) + 5
      BY <1>3, <1>11, <1>12, <1>14, <1>17, <1>18 DEF Ends
    <3>3. last \in b + 1 .. Len(d)
      BY <1>7, <1>14, <1>20
    <3> QED BY <1>17, <2>2, <3>1, <3>2, <3>3 DEF Lands
  \* The others went where they had to, and what they go to is where it was.
  <2>3. CASE i # last /\ i # b
    <3>1. i \in 1 .. Len(flushed) /\ Lands(looped, i) /\ d[i] = looped[i]
      BY <1>a, <1>7, <1>8, <1>16, <2>3
    <3>2. \A j \in 1 .. last : Ends(d[j]) = Ends(looped[j])
      BY <1>19 DEF Ends
    <3>3. ASSUME d[i].op = "jump"
          PROVE  \E c \in 1 .. i - 1 :
                   /\ d[c].op = "branch" /\ d[c].at = Ends(d[i]) + d[i].offset
                   /\ Ends(d[c]) + d[c].offset = Ends(d[i])
      <4>1. PICK c \in 1 .. i - 1 :
              /\ looped[c].op = "branch"
              /\ looped[c].at = Ends(looped[i]) + looped[i].offset
              /\ Ends(looped[c]) + looped[c].offset = Ends(looped[i])
        BY <3>1, <3>3 DEF Lands
      <4>2. c \in 1 .. last /\ i \in 1 .. last /\ c < i
        BY <1>7, <3>1
      \* A branch that is closed has a distance.
      <4>3. c # b
        <5>1. ASSUME c = b PROVE FALSE
          <6>1. Ends(looped[b]) + 0 = Ends(looped[i])
            BY <1>11, <4>1, <5>1
          <6>2. Ends(looped[b]) <= looped[i].at
            BY <1>13, <1>14, <4>2, <5>1 DEF Ends
          <6>3. looped[i].at \in Nat /\ looped[i].size \in Nat \ {0}
            BY <1>12, <4>2
          <6>4. looped[b].size \in Nat
            BY <1>12, <1>14
          <6>5. looped[b].at + looped[b].size = looped[i].at + looped[i].size
            BY <1>14, <6>1, <6>4 DEF Ends
          <6>6. looped[b].at + looped[b].size <= looped[i].at
            BY <6>2 DEF Ends
          <6> QED BY <1>14, <6>3, <6>4, <6>5, <6>6
        <5> QED BY <5>1
      <4> QED BY <1>16, <3>1, <4>1, <4>2, <4>3
    <3>4. ASSUME d[i].op = "branch"
          PROVE  \/ d[i].offset = 0
                 \/ \E j \in i + 1 .. Len(d) :
                      d[j].op = "jump" /\ Ends(d[j]) = Ends(d[i]) + d[i].offset
      <4>1. CASE looped[i].offset = 0
        BY <3>1, <4>1
      <4>2. CASE looped[i].offset # 0
        <5>1. PICK j \in i + 1 .. last :
                looped[j].op = "jump" /\ Ends(looped[j]) = Ends(looped[i]) + looped[i].offset
          BY <1>7, <3>1, <3>4, <4>2 DEF Lands
        <5>2. j \in 1 .. last
          BY <1>7, <3>1, <5>1
        <5> QED BY <1>19, <1>20, <3>1, <3>2, <5>1, <5>2
      <4> QED BY <4>1, <4>2
    <3>5. d[i].op = "call" => Ends(d[i]) + d[i].offset
                                \in {print_char_location, input_char_location}
      BY <3>1 DEF Lands
    <3> QED BY <3>3, <3>4, <3>5 DEF Lands
  <2> QED BY <2>1, <2>2, <2>3
<1>26. Good(d, open)
  BY <1>20, <1>22, <1>23, <1>24, <1>25 DEF Good
<1> QED BY <1>2, <1>26 DEF IInv, d

-----------------------------------------------------------------------------
(* Every step *)

\* The steps that emit nothing, the processor's among them.
LEMMA SameCodeKeeps == IInv /\ UNCHANGED <<code, stack>> => IInv'
BY DEF IInv

LEMMA CompilesKeeps == IInv /\ Compiles => IInv'
<1> SUFFICES ASSUME IInv, Compiles PROVE IInv'
  OBVIOUS
<1>1. CASE CannotOpen \/ ReadSource \/ AddVal \/ UnexpectedEnd \/ SkipComment
             \/ WriteExecutable
  BY <1>1, SameCodeKeeps DEF CannotOpen, ReadSource, AddVal, UnexpectedEnd, SkipComment,
                             WriteExecutable
<1>2. CASE AddPtr
  <2>1. /\ UNCHANGED stack
        /\ \E t : UNCHANGED code \/ code' = Emit(code, Emitted(t))
    BY <1>2, Zenon DEF AddPtr
  <2>2. Good(code', stack)
    BY <2>1, FlushKeeps DEF IInv
  <2> QED BY <2>1, <2>2 DEF IInv
<1>3. CASE ClearLoop
  <2>1. PICK n : n = Instruction("zero", 3, 0, 0)
    OBVIOUS
  <2>2. IsInstruction(n) /\ n.op \notin Far
    BY <2>1, InstructionIs DEF Far
  <2>3. FlushAnd(<<n>>) /\ UNCHANGED stack
    BY <1>3, <2>1 DEF ClearLoop
  <2> QED BY <2>2, <2>3, FlushAndKeeps
<1>4. CASE WhileStart
  BY <1>4, WhileStartKeeps
<1>5. CASE StackFull
  <2>1. code' = Emit(Emit(code, Emitted(table)), <<>>) /\ UNCHANGED stack
    BY <1>5 DEF StackFull, FlushAnd
  <2>2. AllNear(<<>>)
    BY AdditionsAreNear, NoneIsNear
  <2>3. Good(Emit(code, Emitted(table)), stack)
    BY FlushKeeps DEF IInv
  <2>4. Good(code', stack)
    BY <2>1, <2>2, <2>3, EmitKeeps
  <2> QED BY <2>1, <2>4 DEF IInv
<1>6. CASE WhileEnd
  BY <1>6, WhileEndKeeps
<1>7. CASE EmitPrint
  BY <1>7, CallKeeps DEF EmitPrint
<1>8. CASE EmitInput
  BY <1>8, CallKeeps DEF EmitInput
<1>9. CASE EndOfSource
  <2>1. PICK n : n = Instruction("return", 9, 0, 0)
    OBVIOUS
  <2>2. IsInstruction(n) /\ n.op \notin Far
    BY <2>1, InstructionIs DEF Far
  <2>3. code' = Append(code, Placed(n, code)) /\ UNCHANGED stack
    BY <1>9, <2>1, EmitOne DEF EndOfSource
  <2>4. Good(code', stack)
    BY <2>2, <2>3, NearAppend DEF IInv, Far
  <2> QED BY <2>3, <2>4 DEF IInv
<1> QED BY <1>1, <1>2, <1>3, <1>4, <1>5, <1>6, <1>7, <1>8, <1>9 DEF Compiles

LEMMA RunsKeeps == IInv /\ Runs => IInv'
<1>1. Runs => UNCHANGED <<code, stack>>
  BY DEF Runs, ExecuteAdd, ExecuteMove, ExecuteZero, ExecuteBranch, ExecuteJump,
         ExecuteCall, ExecuteReturn, Crash, Goes
<1> QED BY <1>1, SameCodeKeeps

\* The inductive invariant: the code is laid without holes, what goes elsewhere
\* lands, and the stack holds the branches without a distance.
THEOREM InductiveInvariant == Spec => []IInv
<1>1. Init => IInv
  BY Initially
<1>2. IInv /\ [Next]_vars => IInv'
  BY CompilesKeeps, RunsKeeps, SameCodeKeeps DEF Next, vars
<1> QED BY <1>1, <1>2, PTL DEF Spec

\* Whatever the source, every jump, branch and call goes to an instruction or a
\* routine; a loop that is closed is left behind its jump and repeated from its
\* comparison, and one that is open has its branch on the stack.
THEOREM JumpsAlwaysLand == Spec => []JumpsLand
<1>1. IInv => JumpsLand
  <2> SUFFICES ASSUME IInv PROVE JumpsLand
    OBVIOUS
  <2>1. /\ DOMAIN code = 1 .. Len(code) /\ DOMAIN stack = 1 .. Len(stack)
        /\ \A i \in 1 .. Len(code) : Lands(code, i)
        /\ OpenLoops(code, stack) /\ Counted(code, stack)
    BY IndexesOf DEF IInv, Good, Laid, OpenLoops
  <2>2. ASSUME NEW i \in DOMAIN code
        PROVE  LET target == code[i].at + code[i].size + code[i].offset
               IN  CASE code[i].op = "call" ->
                          target \in {print_char_location, input_char_location}
                     [] code[i].op = "jump" ->
                          \E b \in 1 .. i - 1 :
                            /\ code[b].op = "branch" /\ code[b].at = target
                            /\ code[b].at + code[b].size + code[b].offset
                                 = code[i].at + code[i].size
                     [] code[i].op = "branch" ->
                          \/ code[i].offset = 0
                          \/ \E j \in i + 1 .. Len(code) :
                               code[j].op = "jump" /\ code[j].at + code[j].size = target
                     [] OTHER -> TRUE
    <3>1. Lands(code, i)
      BY <2>1, <2>2
    <3>2. CASE code[i].op = "call"
      BY <3>1, <3>2 DEF Lands, Ends
    <3>3. CASE code[i].op = "jump"
      BY <3>1, <3>3 DEF Lands, Ends
    <3>4. CASE code[i].op = "branch"
      BY <3>1, <3>4 DEF Lands, Ends
    <3>5. CASE code[i].op \notin Far
      BY <3>5 DEF Far
    <3> QED BY <3>2, <3>3, <3>4, <3>5 DEF Far
  <2>3. Len(stack) = Cardinality({i \in DOMAIN code : code[i].op = "branch"})
                       - Cardinality({i \in DOMAIN code : code[i].op = "jump"})
    BY <2>1 DEF Counted, Which
  <2>4. \A k \in DOMAIN stack :
          \E i \in DOMAIN code : code[i].op = "branch" /\ code[i].at + 5 = stack[k]
    BY <2>1 DEF OpenLoops
  <2> QED BY <2>2, <2>3, <2>4 DEF JumpsLand
<1> QED BY <1>1, InductiveInvariant, PTL
=============================================================================
