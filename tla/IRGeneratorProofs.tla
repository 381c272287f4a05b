-------------------------- MODULE IRGeneratorProofs --------------------------
(***************************************************************************)
(* Proofs about the IR generator, for every program and every reserve: the *)
(* literals fill the read only data, the two arrays whose elements hash    *)
(* tables point to are never outgrown, the tables of the libraries hold    *)
(* exactly the functions recorded for each, and a generation that ends has *)
(* recorded every import of the module.                                    *)
(***************************************************************************)
EXTENDS IRGenerator, SequenceTheorems, WellFoundedInduction, TLAPS

IsSequence(s) == \E S : s \in Seq(S)
IsLibrary(l) == l = [name |-> l.name, functions |-> l.functions]

Literal == [RVA : Nat, size : Nat]
ReadOnlyDataOK ==
  /\ literals \in Seq(Literal)
  /\ current_RVA \in Nat
  /\ LiteralsFillReadOnlyData

Reserved ==
  /\ Len(libraries) <= NB_PREALLOCATED_IMPORTED_LIBRARIES
  /\ Len(functions) <= NB_PREALLOCATED_IMPORTED_LIBRARIES
                         * NB_PREALLOCATED_IMPORTED_FUNCTIONS_PER_LIBRARY

\* What a sequence of libraries holds for the functions recorded so far: no
\* name twice, and for each function one entry, in the table of its library.
Holding(libs, i) ==
  {l \in DOMAIN libs : \E g \in libs[l].functions : g.index = i}
NamedIn(libs, lib) == {l \in DOMAIN libs : libs[l].name = lib}
WellFilled(libs) ==
  /\ IsSequence(libs)
  /\ \A l \in DOMAIN libs :
       /\ IsLibrary(libs[l])
       /\ \A g \in libs[l].functions : g.index \in 1 .. Len(functions)
  /\ \A k, l \in DOMAIN libs : libs[k].name = libs[l].name => k = l
  /\ \A i \in 1 .. Len(functions) :
       /\ NamedIn(libs, LibraryOf(functions[i])) # {}
       /\ Holding(libs, i) = NamedIn(libs, LibraryOf(functions[i]))

ImportsOK ==
  /\ functions \in Seq(DOMAIN program.nodes)
  /\ Reserved
  /\ WellFilled(libraries)

IInv == program \in Programs /\ ReadOnlyDataOK /\ ImportsOK

----------------------------------------------------------------------------
(* Sequences *)

\* What appending does to a sequence of anything.
LEMMA AppendTo ==
  ASSUME NEW s, IsSequence(s), NEW e
  PROVE  /\ IsSequence(Append(s, e))
         /\ Len(s) \in Nat /\ DOMAIN s = 1 .. Len(s)
         /\ Len(Append(s, e)) = Len(s) + 1
         /\ DOMAIN Append(s, e) = 1 .. Len(s) + 1
         /\ \A i \in 1 .. Len(s) : Append(s, e)[i] = s[i]
         /\ Append(s, e)[Len(s) + 1] = e
<1>1. PICK S : s \in Seq(S)
  BY DEF IsSequence
<1>2. s \in Seq(S \cup {e}) /\ e \in S \cup {e}
  BY <1>1
<1>3. Append(s, e) \in Seq(S \cup {e})
  BY <1>2
<1>4. IsSequence(Append(s, e))
  BY <1>3 DEF IsSequence
<1> QED BY <1>2, <1>3, <1>4

\* A function on the indexes of a sequence is a sequence as long.
LEMMA MapOf ==
  ASSUME NEW s, IsSequence(s), NEW t, t = [i \in DOMAIN s |-> t[i]]
  PROVE  IsSequence(t) /\ Len(t) = Len(s) /\ DOMAIN t = DOMAIN s
<1>1. PICK S : s \in Seq(S)
  BY DEF IsSequence
<1>2. DOMAIN s = 1 .. Len(s) /\ Len(s) \in Nat
  BY <1>1
<1>3. t \in [1 .. Len(s) -> {t[i] : i \in DOMAIN s}]
  BY <1>2
<1>4. t \in Seq({t[i] : i \in DOMAIN s})
  BY <1>2, <1>3
<1>5. Len(t) = Len(s)
  BY <1>2, <1>3, <1>4
<1> QED BY <1>4, <1>5 DEF IsSequence

----------------------------------------------------------------------------
(* The steps that record nothing *)

Recorded == <<program, imports, readOnlyData>>

\* Every branch of the walk but those of a literal and of an import leaves what
\* was recorded.
LEMMA WalkRecordsNothing ==
  ASSUME NEW n, parse_ast(n), ~WalkString(n)
  PROVE  UNCHANGED Recorded
<1>1. CASE SkipNode(n) \/ SkipExpression(n) \/ WalkInto(n) \/ WalkPointer(n)
             \/ WalkArray(n) \/ WalkNumber(n)
  BY <1>1 DEF SkipNode, SkipExpression, WalkInto, WalkPointer, WalkArray,
              WalkNumber, Descend, Recorded
<1>2. CASE WalkUserType(n)
  BY <1>2 DEF WalkUserType, Stop, Recorded
<1>3. CASE WalkIdentifier(n)
  BY <1>3 DEF WalkIdentifier, Recorded
<1>4. CASE WalkVariable(n)
  BY <1>4 DEF WalkVariable, Descend, Stop, Recorded
<1>5. CASE WalkUnhandled(n)
  BY <1>5 DEF WalkUnhandled, Stop, Recorded
<1> QED BY <1>1, <1>2, <1>3, <1>4, <1>5 DEF parse_ast

\* So do the functions that are not imported, and the errors.
LEMMA DeclarationRecordsNothing ==
  ASSUME NEW n, parse_function_declaration(n), ~ImportFunction(n)
  PROVE  UNCHANGED Recorded
BY DEF parse_function_declaration, FunctionWithoutModifiers, FunctionWrong,
       FunctionNotImported, ImportRefused, ImportAsserts, Descend, Stop, Recorded

\* So does the resolution of a type.
LEMMA ResolutionRecordsNothing == resolve_type => UNCHANGED Recorded
BY DEF resolve_type, resolve_alias, resolve_identifier, resolve_returns,
       resolve_asserts, ResolveDeeper, Stop, Recorded

LEMMA OtherStepsRecordNothing ==
  ASSUME [Next]_vars,
         ~\E n \in DOMAIN program.nodes : WalkString(n) \/ ImportFunction(n)
  PROVE  UNCHANGED Recorded
<1>1. CASE \E n \in DOMAIN program.nodes :
             parse_ast(n) \/ parse_function_declaration(n)
  BY <1>1, WalkRecordsNothing, DeclarationRecordsNothing
<1>2. CASE resolve_type
  BY <1>2, ResolutionRecordsNothing
<1>3. CASE Return
  BY <1>3 DEF Return, Recorded
<1>4. CASE StackExhausted
  BY <1>4 DEF StackExhausted, Stop, Recorded
<1>5. CASE UNCHANGED vars
  BY <1>5 DEF vars, Recorded, imports, readOnlyData
<1> QED BY <1>1, <1>2, <1>3, <1>4, <1>5 DEF Next

----------------------------------------------------------------------------
(* The invariant *)

LEMMA InitHolds == Init => IInv
<1> SUFFICES ASSUME Init PROVE IInv
  OBVIOUS
<1>1. ReadOnlyDataOK
  BY DEF Init, ReadOnlyDataOK, LiteralsFillReadOnlyData
<1>2. Reserved
  BY ReserveAssumption DEF Init, Reserved
<1>3. WellFilled(libraries)
  BY DEF Init, WellFilled, IsSequence
<1> QED BY <1>1, <1>2, <1>3 DEF Init, IInv, ImportsOK

LEMMA UnchangedHolds == IInv /\ UNCHANGED Recorded => IInv'
<1> SUFFICES ASSUME IInv, UNCHANGED Recorded PROVE IInv'
  OBVIOUS
<1>1. UNCHANGED <<program, libraries, functions, literals, current_RVA>>
  BY DEF Recorded, imports, readOnlyData
<1>2. ReadOnlyDataOK'
  BY <1>1 DEF IInv, ReadOnlyDataOK, LiteralsFillReadOnlyData, EndOf
<1>3. \A n : LibraryOf(n)' = LibraryOf(n)
  BY <1>1 DEF LibraryOf, DllImports, Node
<1>4. WellFilled(libraries)'
  BY <1>1, <1>3 DEF IInv, ImportsOK, WellFilled, NamedIn, Holding
<1>5. Reserved' /\ (functions \in Seq(DOMAIN program.nodes))'
  BY <1>1 DEF IInv, ImportsOK, Reserved
<1> QED BY <1>1, <1>2, <1>4, <1>5 DEF IInv, ImportsOK

\* A literal goes where the last one ends, with the zero after it.
LEMMA LiteralKeeps ==
  ASSUME IInv, NEW n \in DOMAIN program.nodes, WalkString(n)
  PROVE  IInv'
<1>1. Node(n).size \in Nat
  BY ProgramAssumption DEF IInv, Node
<1> DEFINE added == [RVA |-> current_RVA, size |-> Node(n).size + 1]
<1>2. /\ literals' = Append(literals, added)
      /\ current_RVA' = current_RVA + Node(n).size + 1
      /\ UNCHANGED <<program, libraries, functions>>
  BY DEF WalkString, imports
<1>3. literals \in Seq(Literal) /\ current_RVA \in Nat /\ added \in Literal
  BY <1>1 DEF IInv, ReadOnlyDataOK, Literal
<1> HIDE DEF added
<1>4. /\ literals' \in Seq(Literal) /\ current_RVA' \in Nat
      /\ Len(literals') = Len(literals) + 1 /\ Len(literals) \in Nat
      /\ \A i \in 1 .. Len(literals) : literals'[i] = literals[i]
      /\ literals'[Len(literals) + 1] = added
  BY <1>1, <1>2, <1>3
<1>5. Last(literals)' = added /\ literals' # <<>>
  BY <1>4 DEF Last
<1>6. current_RVA = IF literals = <<>> THEN 0 ELSE EndOf(literals[Len(literals)])
  BY DEF IInv, ReadOnlyDataOK, LiteralsFillReadOnlyData, Last
<1>7. EndOf(added) = current_RVA' /\ added.RVA = current_RVA
  BY <1>1, <1>2, <1>3 DEF added, EndOf
<1>8. LiteralsFillReadOnlyData'
  <2>1. literals'[1].RVA = 0
    <3>1. CASE literals = <<>>
      BY <3>1, <1>4, <1>6, <1>7
    <3>2. CASE literals # <<>>
      <4>1. 1 \in 1 .. Len(literals)
        BY <3>2, <1>3, <1>4
      <4> QED BY <3>2, <4>1, <1>4 DEF IInv, ReadOnlyDataOK, LiteralsFillReadOnlyData
    <3> QED BY <3>1, <3>2
  <2>2. ASSUME NEW i \in 1 .. Len(literals') - 1
        PROVE  literals'[i + 1].RVA = EndOf(literals'[i])
    <3>1. i \in 1 .. Len(literals) /\ literals'[i] = literals[i]
      BY <1>4
    <3>2. CASE i = Len(literals)
      <4>1. literals # <<>>
        BY <3>1, <3>2, <1>3
      <4> QED BY <3>1, <3>2, <4>1, <1>4, <1>6, <1>7
    <3>3. CASE i # Len(literals)
      <4>1. i \in 1 .. Len(literals) - 1 /\ i + 1 \in 1 .. Len(literals)
        BY <3>1, <3>3, <1>4
      <4>2. literals[i + 1].RVA = EndOf(literals[i])
        BY <4>1 DEF IInv, ReadOnlyDataOK, LiteralsFillReadOnlyData
      <4> QED BY <3>1, <4>1, <4>2, <1>4
    <3> QED BY <3>2, <3>3
  <2>3. \A l : EndOf(l)' = EndOf(l)
    BY DEF EndOf
  <2> QED BY <2>1, <2>2, <2>3, <1>5, <1>7 DEF LiteralsFillReadOnlyData, EndOf
<1>9. ReadOnlyDataOK'
  BY <1>4, <1>8 DEF ReadOnlyDataOK
<1>10. \A m : LibraryOf(m)' = LibraryOf(m)
  BY <1>2 DEF LibraryOf, DllImports, Node
<1>11. ImportsOK'
  BY <1>2, <1>10 DEF IInv, ImportsOK, Reserved, WellFilled, NamedIn, Holding
<1> QED BY <1>2, <1>9, <1>11 DEF IInv

----------------------------------------------------------------------------
(* An import *)

\* The library of the import, allocated when it is not known, leaves the
\* functions recorded before where they were.
LEMMA LibraryAllocated ==
  ASSUME WellFilled(libraries), NEW lib, NEW all,
         all = allocate_imported_library(lib)
  PROVE  /\ WellFilled(all)
         /\ NamedIn(all, lib) # {}
         /\ Len(all) = IF Known(lib) = {} THEN Len(libraries) + 1
                                          ELSE Len(libraries)
<1>1. CASE Known(lib) # {}
  BY <1>1 DEF allocate_imported_library, Known, NamedIn
<1>2. CASE Known(lib) = {}
  <2> DEFINE new == [name |-> lib, functions |-> {}]
             last == Len(libraries) + 1
  <2>1. all = Append(libraries, new)
    BY <1>2 DEF allocate_imported_library, NewLibrary
  <2>2. IsLibrary(new) /\ new.name = lib /\ new.functions = {}
    BY DEF IsLibrary
  <2> HIDE DEF new
  <2>3. /\ IsSequence(all) /\ Len(libraries) \in Nat
        /\ DOMAIN libraries = 1 .. Len(libraries)
        /\ Len(all) = last /\ DOMAIN all = 1 .. last
        /\ \A l \in 1 .. Len(libraries) : all[l] = libraries[l]
        /\ all[last] = new
    BY <2>1, AppendTo DEF WellFilled
  <2>4. DOMAIN all = DOMAIN libraries \cup {last} /\ last \notin DOMAIN libraries
    BY <2>3
  <2>5. \A l \in DOMAIN libraries : all[l] = libraries[l] /\ libraries[l].name # lib
    BY <1>2, <2>3 DEF Known
  <2>6. \A l \in DOMAIN all :
          /\ IsLibrary(all[l])
          /\ \A g \in all[l].functions : g.index \in 1 .. Len(functions)
    BY <2>2, <2>3, <2>4, <2>5 DEF WellFilled
  <2>7. \A k, l \in DOMAIN all : all[k].name = all[l].name => k = l
    BY <2>2, <2>3, <2>4, <2>5 DEF WellFilled
  <2>8. ASSUME NEW i \in 1 .. Len(functions)
        PROVE  /\ NamedIn(all, LibraryOf(functions[i])) # {}
               /\ Holding(all, i) = NamedIn(all, LibraryOf(functions[i]))
    <3>1. /\ NamedIn(libraries, LibraryOf(functions[i])) # {}
          /\ Holding(libraries, i) = NamedIn(libraries, LibraryOf(functions[i]))
      BY DEF WellFilled
    <3>2. LibraryOf(functions[i]) # lib
      BY <3>1, <2>5 DEF NamedIn
    <3>3. NamedIn(all, LibraryOf(functions[i])) = NamedIn(libraries, LibraryOf(functions[i]))
      BY <3>2, <2>2, <2>3, <2>4, <2>5 DEF NamedIn
    <3>4. Holding(all, i) = Holding(libraries, i)
      BY <2>2, <2>3, <2>4, <2>5 DEF Holding
    <3> QED BY <3>1, <3>3, <3>4
  <2>9. last \in NamedIn(all, lib)
    BY <2>2, <2>3, <2>4 DEF NamedIn
  <2> QED BY <1>2, <2>3, <2>6, <2>7, <2>8, <2>9 DEF WellFilled
<1> QED BY <1>1, <1>2

\* The import is recorded under its library, and there only: an entry leads to
\* each function that was recorded, and the reserves have room.
LEMMA ImportKeeps ==
  ASSUME IInv, NEW n \in DOMAIN program.nodes, ImportFunction(n)
  PROVE  IInv'
<1> DEFINE lib   == LibraryOf(n)
           all   == allocate_imported_library(lib)
           next  == Len(functions) + 1
           entry == [hash |-> ShortHash[Node(n).name], index |-> next]
<1>1. /\ functions' = Append(functions, n)
      /\ libraries' = [l \in DOMAIN all |->
                         IF all[l].name = lib
                           THEN [all[l] EXCEPT !.functions = @ \cup {entry}]
                           ELSE all[l]]
      /\ ~LibrariesFull(lib) /\ ~FunctionsFull
      /\ UNCHANGED <<program, literals, current_RVA>>
  BY DEF ImportFunction, readOnlyData
<1>2. WellFilled(libraries) /\ functions \in Seq(DOMAIN program.nodes) /\ Reserved
  BY DEF IInv, ImportsOK
<1>3. /\ WellFilled(all) /\ NamedIn(all, lib) # {}
      /\ Len(all) = IF Known(lib) = {} THEN Len(libraries) + 1 ELSE Len(libraries)
  BY <1>2, LibraryAllocated
<1>4. entry.index = next
  OBVIOUS
<1> HIDE DEF all, entry
<1>5. /\ functions' \in Seq(DOMAIN program'.nodes)
      /\ Len(functions) \in Nat /\ Len(functions') = next
      /\ \A i \in 1 .. Len(functions) : functions'[i] = functions[i]
      /\ functions'[next] = n
  BY <1>1, <1>2
<1>6. /\ IsSequence(libraries') /\ Len(libraries') = Len(all)
      /\ DOMAIN libraries' = DOMAIN all
  <2>1. libraries' = [l \in DOMAIN all |-> libraries'[l]]
    BY <1>1
  <2>2. IsSequence(all)
    BY <1>3 DEF WellFilled
  <2> HIDE DEF lib
  <2> QED BY <2>1, <2>2, MapOf
<1>7. ASSUME NEW l \in DOMAIN all
      PROVE  /\ IsLibrary(libraries'[l])
             /\ libraries'[l].name = all[l].name
             /\ libraries'[l].functions =
                  IF all[l].name = lib THEN all[l].functions \cup {entry}
                                       ELSE all[l].functions
  <2>1. all[l] = [name |-> all[l].name, functions |-> all[l].functions]
    BY <1>3 DEF WellFilled, IsLibrary
  <2>2. CASE all[l].name = lib
    <3>1. libraries'[l] = [all[l] EXCEPT !.functions = @ \cup {entry}]
      BY <1>1, <2>2
    <3>2. libraries'[l] = [name |-> all[l].name,
                           functions |-> all[l].functions \cup {entry}]
      BY <2>1, <3>1
    <3> QED BY <2>2, <3>2 DEF IsLibrary
  <2>3. CASE all[l].name # lib
    BY <1>1, <2>1, <2>3 DEF IsLibrary
  <2> QED BY <2>2, <2>3
<1>8. \A l \in DOMAIN all : \A g \in all[l].functions : g.index \in 1 .. Len(functions)
  BY <1>3 DEF WellFilled
<1>9. \A m : LibraryOf(m)' = LibraryOf(m)
  BY <1>1 DEF LibraryOf, DllImports, Node
<1>10. ASSUME NEW i \in 1 .. next
       PROVE  /\ NamedIn(libraries', LibraryOf(functions'[i])) # {}
              /\ Holding(libraries', i) = NamedIn(libraries', LibraryOf(functions'[i]))
  <2>1. \A name : NamedIn(libraries', name) = NamedIn(all, name)
    BY <1>6, <1>7 DEF NamedIn
  <2>2. CASE i = next
    <3>1. ASSUME NEW l \in DOMAIN all
          PROVE  (\E g \in libraries'[l].functions : g.index = next)
                   <=> all[l].name = lib
      <4>1. \A g \in all[l].functions : g.index # next
        BY <1>5, <1>8
      <4>2. CASE all[l].name = lib
        <5>1. entry \in libraries'[l].functions
          BY <1>7, <4>2
        <5> QED BY <1>4, <4>2, <5>1
      <4>3. CASE all[l].name # lib
        <5>1. libraries'[l].functions = all[l].functions
          BY <1>7, <4>3
        <5> QED BY <4>1, <4>3, <5>1
      <4> QED BY <4>2, <4>3
    <3>2. Holding(libraries', next) = NamedIn(all, lib)
      BY <1>6, <3>1 DEF Holding, NamedIn
    <3> QED BY <2>1, <2>2, <3>2, <1>3, <1>5
  <2>3. CASE i # next
    <3>1. i \in 1 .. Len(functions)
      BY <2>3, <1>5
    <3>2. Holding(libraries', i) = Holding(all, i)
      BY <3>1, <2>3, <1>4, <1>6, <1>7 DEF Holding
    <3>3. /\ NamedIn(all, LibraryOf(functions[i])) # {}
          /\ Holding(all, i) = NamedIn(all, LibraryOf(functions[i]))
      BY <3>1, <1>3 DEF WellFilled
    <3> QED BY <2>1, <3>1, <3>2, <3>3, <1>5
  <2> QED BY <2>2, <2>3
<1>11. WellFilled(libraries)'
  <2>1. ASSUME NEW l \in DOMAIN libraries'
        PROVE  /\ IsLibrary(libraries'[l])
               /\ \A g \in libraries'[l].functions : g.index \in 1 .. Len(functions')
    <3>1. l \in DOMAIN all
      BY <1>6
    <3>2. libraries'[l].functions \subseteq all[l].functions \cup {entry}
      BY <3>1, <1>7
    <3>3. entry.index \in 1 .. next /\ 1 .. Len(functions) \subseteq 1 .. next
      BY <1>4, <1>5
    <3>4. \A g \in all[l].functions : g.index \in 1 .. next
      BY <3>1, <3>3, <1>8
    <3> HIDE DEF next
    <3> QED BY <3>1, <3>2, <3>3, <3>4, <1>5, <1>7
  <2>2. \A k, l \in DOMAIN libraries' : libraries'[k].name = libraries'[l].name => k = l
    BY <1>3, <1>6, <1>7 DEF WellFilled
  <2>3. \A i \in 1 .. Len(functions') :
          /\ NamedIn(libraries', LibraryOf(functions'[i])) # {}
          /\ Holding(libraries', i) = NamedIn(libraries', LibraryOf(functions'[i]))
    BY <1>5, <1>10
  <2> QED BY <1>6, <1>9, <2>1, <2>2, <2>3 DEF WellFilled
<1>12. Reserved'
  <2>1. Len(libraries) \in Nat
    BY <1>2, AppendTo DEF WellFilled
  <2>2. Len(libraries') <= NB_PREALLOCATED_IMPORTED_LIBRARIES
    BY <1>1, <1>2, <1>3, <1>6, <2>1, ReserveAssumption DEF Reserved, LibrariesFull
  <2>3. NB_PREALLOCATED_IMPORTED_LIBRARIES
          * NB_PREALLOCATED_IMPORTED_FUNCTIONS_PER_LIBRARY \in Nat
    BY ReserveAssumption
  <2>4. Len(functions') <= NB_PREALLOCATED_IMPORTED_LIBRARIES
                             * NB_PREALLOCATED_IMPORTED_FUNCTIONS_PER_LIBRARY
    BY <1>1, <1>2, <1>5, <2>3 DEF Reserved, FunctionsFull
  <2> QED BY <2>2, <2>4 DEF Reserved
<1>13. ReadOnlyDataOK'
  BY <1>1 DEF IInv, ReadOnlyDataOK, LiteralsFillReadOnlyData, EndOf
<1> QED BY <1>1, <1>5, <1>11, <1>12, <1>13 DEF IInv, ImportsOK

----------------------------------------------------------------------------
(* The theorems *)

LEMMA NextKeeps == IInv /\ [Next]_vars => IInv'
<1> SUFFICES ASSUME IInv, [Next]_vars PROVE IInv'
  OBVIOUS
<1>1. CASE \E n \in DOMAIN program.nodes : WalkString(n)
  BY <1>1, LiteralKeeps
<1>2. CASE \E n \in DOMAIN program.nodes : ImportFunction(n)
  BY <1>2, ImportKeeps
<1>3. CASE ~\E n \in DOMAIN program.nodes : WalkString(n) \/ ImportFunction(n)
  BY <1>3, OtherStepsRecordNothing, UnchangedHolds
<1> QED BY <1>1, <1>2, <1>3

\* Whatever the program, the walk records literals and imports as IInv says.
THEOREM Invariance == Spec => []IInv
<1> QED BY InitHolds, NextKeeps, PTL DEF Spec

\* The literals of any program fill the read only data from its start, without
\* a hole and without an overlap, each with its final zero.
THEOREM LiteralsAlwaysFill == Spec => []LiteralsFillReadOnlyData
<1>1. IInv => LiteralsFillReadOnlyData
  BY DEF IInv, ReadOnlyDataOK
<1> QED BY <1>1, Invariance, PTL

\* Neither array is ever outgrown, whatever a program imports: the pointers to
\* their elements in the hash tables stay valid.
THEOREM ReservesAreEnough == Spec => []Reserved
<1>1. IInv => Reserved
  BY DEF IInv, ImportsOK
<1> QED BY <1>1, Invariance, PTL

\* No library is recorded twice, and every function that was recorded is in the
\* table of its own library and in no other: what ImportsRecorded asks of the
\* end of a generation, at every step of any.
ImportTablesSound ==
  /\ \A i, j \in DOMAIN libraries :
       libraries[i].name = libraries[j].name => i = j
  /\ \A i \in DOMAIN functions :
       {l \in DOMAIN libraries : \E g \in libraries[l].functions : g.index = i}
         = Known(LibraryOf(functions[i]))

\* The tables of the libraries say so whatever the program, at every step.
THEOREM ImportTablesAlwaysSound == Spec => []ImportTablesSound
<1>1. IInv => ImportTablesSound
  <2> SUFFICES ASSUME IInv PROVE ImportTablesSound
    OBVIOUS
  <2>1. DOMAIN functions = 1 .. Len(functions)
    BY DEF IInv, ImportsOK
  <2>2. WellFilled(libraries)
    BY DEF IInv, ImportsOK
  <2> QED BY <2>1, <2>2 DEF WellFilled, ImportTablesSound, Holding, NamedIn, Known
<1> QED BY <1>1, Invariance, PTL

----------------------------------------------------------------------------
(* The calls under way *)

\* A call of parse_ast has nodes to walk over, one of resolve_type a node of the
\* tree and none to walk over; the first call is of parse_ast.
IsCall(c, nodes) ==
  /\ c = [proc |-> c.proc, node |-> c.node, todo |-> c.todo]
  /\ c.proc \in {"parse_ast", "resolve_type"}
  /\ c.node \in nodes \cup {Null}
  /\ IsSequence(c.todo)
  /\ c.proc = "resolve_type" => c.node \in nodes /\ c.todo = <<>>
CallsOf(cs, nodes) ==
  /\ IsSequence(cs)
  /\ \A i \in 1 .. Len(cs) : IsCall(cs[i], nodes)
  /\ Len(cs) # 0 => cs[1].proc = "parse_ast"

\* The nodes that calls have still to walk over.
Pending(cs, m) ==
  \E i \in 1 .. Len(cs) : \E j \in 1 .. Len(cs[i].todo) : cs[i].todo[j] = m

LEMMA IndexesOf ==
  ASSUME NEW s, IsSequence(s)
  PROVE  /\ Len(s) \in Nat /\ DOMAIN s = 1 .. Len(s)
         /\ s = <<>> <=> Len(s) = 0
<1>1. PICK S : s \in Seq(S)
  BY DEF IsSequence
<1> QED BY <1>1

LEMMA TailOf ==
  ASSUME NEW s, IsSequence(s), s # <<>>
  PROVE  /\ IsSequence(Tail(s)) /\ Len(s) \in Nat \ {0} /\ Len(Tail(s)) = Len(s) - 1
         /\ \A j \in 1 .. Len(s) - 1 : Tail(s)[j] = s[j + 1]
         /\ Head(s) = s[1]
<1>1. PICK S : s \in Seq(S)
  BY DEF IsSequence
<1>2. Tail(s) \in Seq(S) /\ Len(s) \in Nat \ {0} /\ Len(Tail(s)) = Len(s) - 1
        /\ Head(s) = s[1]
  BY <1>1
<1>3. \A j \in 1 .. Len(s) - 1 : Tail(s)[j] = s[j + 1]
  BY <1>1
<1> QED BY <1>2, <1>3 DEF IsSequence

LEMMA ConcatOf ==
  ASSUME NEW s, NEW t, IsSequence(s), IsSequence(t)
  PROVE  /\ IsSequence(s \o t) /\ Len(s \o t) = Len(s) + Len(t)
         /\ \A i \in 1 .. Len(s) : (s \o t)[i] = s[i]
         /\ \A i \in 1 .. Len(t) : (s \o t)[Len(s) + i] = t[i]
<1>1. PICK S : s \in Seq(S)
  BY DEF IsSequence
<1>2. PICK T : t \in Seq(T)
  BY DEF IsSequence
<1>3. s \in Seq(S \cup T) /\ t \in Seq(S \cup T)
  BY <1>1, <1>2
<1>4. s \o t \in Seq(S \cup T)
  BY <1>3
<1>5. /\ Len(s) \in Nat /\ Len(t) \in Nat /\ Len(s \o t) = Len(s) + Len(t)
      /\ \A i \in 1 .. Len(s) : (s \o t)[i] = s[i]
  BY <1>3
<1>6. ASSUME NEW i \in 1 .. Len(t) PROVE (s \o t)[Len(s) + i] = t[i]
  <2>1. Len(s) + i \in 1 .. Len(s) + Len(t) /\ ~ (Len(s) + i <= Len(s))
          /\ Len(s) + i - Len(s) = i
    BY <1>5
  <2> QED BY <1>3, <2>1
<1> QED BY <1>4, <1>5, <1>6 DEF IsSequence

LEMMA OneIsSequence ==
  /\ IsSequence(<<>>) /\ Len(<<>>) = 0
  /\ \A e : IsSequence(<<e>>) /\ Len(<<e>>) = 1 /\ <<e>>[1] = e
<1>1. <<>> \in Seq({})
  OBVIOUS
<1>2. ASSUME NEW e PROVE IsSequence(<<e>>) /\ Len(<<e>>) = 1 /\ <<e>>[1] = e
  <2>1. <<e>> \in Seq({e})
    OBVIOUS
  <2> QED BY <2>1 DEF IsSequence
<1> QED BY <1>1, <1>2 DEF IsSequence

\* A call of a node that was to be walked over: the other nodes still are, and so
\* are those of the new call.
LEMMA CalledKeeps ==
  ASSUME NEW nodes, CallsOf(calls, nodes), Len(calls) # 0,
         Top.proc = "parse_ast", Top.todo # <<>>,
         NEW n \in nodes, n = Head(Top.todo), NEW todo, IsSequence(todo),
         NEW cs, cs = Called(n, todo)
  PROVE  /\ CallsOf(cs, nodes) /\ Len(cs) = Len(calls) + 1
         /\ \A m : Pending(calls, m) => m = n \/ Pending(cs, m)
         /\ \A j \in 1 .. Len(todo) : Pending(cs, todo[j])
<1> DEFINE k    == Len(calls)
           mid  == [calls EXCEPT ![Len(calls)].todo = Tail(@)]
           new  == Walk(n, todo)
<1>1. /\ IsSequence(calls) /\ k \in Nat \ {0} /\ DOMAIN calls = 1 .. k
      /\ \A i \in 1 .. k : IsCall(calls[i], nodes)
      /\ calls[1].proc = "parse_ast" /\ k \in 1 .. k
  BY IndexesOf DEF CallsOf
<1>2. /\ IsSequence(calls[k].todo) /\ calls[k].todo # <<>>
      /\ calls[k].proc = "parse_ast" /\ n = Head(calls[k].todo)
  BY <1>1 DEF IsCall, Top
<1> DEFINE old == calls[k].todo
           rest == Tail(old)
<1>3. /\ IsSequence(rest) /\ Len(old) \in Nat \ {0} /\ Len(rest) = Len(old) - 1
      /\ \A j \in 1 .. Len(old) - 1 : rest[j] = old[j + 1]
      /\ n = old[1]
  BY <1>2, TailOf
<1>4. mid = [i \in DOMAIN calls |-> IF i = k THEN [calls[k] EXCEPT !.todo = rest]
                                             ELSE calls[i]]
  BY <1>1
<1> HIDE DEF rest
<1>5. IsSequence(mid) /\ Len(mid) = k /\ DOMAIN mid = 1 .. k
  <2>1. mid = [i \in DOMAIN calls |-> mid[i]]
    BY <1>4
  <2> HIDE DEF mid
  <2> QED BY <1>1, <2>1, MapOf
<1>6. \A i \in 1 .. k : i # k => mid[i] = calls[i]
  BY <1>1, <1>4
<1>7. mid[k] = [proc |-> calls[k].proc, node |-> calls[k].node, todo |-> rest]
  <2>1. calls[k] = [proc |-> calls[k].proc, node |-> calls[k].node, todo |-> calls[k].todo]
    BY <1>1 DEF IsCall
  <2>2. mid[k] = [calls[k] EXCEPT !.todo = rest]
    BY <1>1, <1>4
  <2> QED BY <2>1, <2>2
<1> HIDE DEF mid
<1>8. IsCall(mid[k], nodes)
  BY <1>1, <1>2, <1>3, <1>7 DEF IsCall
<1>9. IsCall(new, nodes) /\ new.todo = todo /\ new.proc = "parse_ast"
  BY DEF IsCall, Walk
<1> HIDE DEF new
<1>10. cs = Append(mid, new)
  BY DEF Called, mid, new
<1>11. /\ IsSequence(cs) /\ Len(cs) = k + 1
       /\ \A i \in 1 .. k : cs[i] = mid[i]
       /\ cs[k + 1] = new
  <2>1. /\ IsSequence(Append(mid, new)) /\ Len(Append(mid, new)) = Len(mid) + 1
        /\ \A i \in 1 .. Len(mid) : Append(mid, new)[i] = mid[i]
        /\ Append(mid, new)[Len(mid) + 1] = new
    BY <1>5, AppendTo
  <2> HIDE DEF k
  <2> QED BY <1>5, <1>10, <2>1
<1>12. \A i \in 1 .. k + 1 : IsCall(cs[i], nodes)
  BY <1>1, <1>6, <1>8, <1>9, <1>11
<1>13. cs[1].proc = "parse_ast"
  BY <1>1, <1>2, <1>6, <1>7, <1>11
<1>14. CallsOf(cs, nodes)
  BY <1>1, <1>11, <1>12, <1>13 DEF CallsOf
<1>15. ASSUME NEW m, Pending(calls, m), m # n
       PROVE  Pending(cs, m)
  <2>1. PICK i \in 1 .. k : \E j \in 1 .. Len(calls[i].todo) : calls[i].todo[j] = m
    BY <1>15 DEF Pending
  <2>2. PICK j \in 1 .. Len(calls[i].todo) : calls[i].todo[j] = m
    BY <2>1
  <2>3. i \in 1 .. Len(cs)
    BY <1>1, <1>11
  <2>4. CASE i # k
    <3>1. cs[i].todo = calls[i].todo
      BY <1>6, <1>11, <2>4
    <3> QED BY <2>2, <2>3, <3>1 DEF Pending
  <2>5. CASE i = k
    <3>1. cs[i].todo = rest
      BY <1>1, <1>7, <1>11, <2>5
    <3>2. j # 1 /\ j - 1 \in 1 .. Len(rest) /\ j \in 1 .. Len(old)
      BY <1>3, <1>15, <2>2, <2>5
    <3>3. rest[j - 1] = old[j - 1 + 1] /\ j - 1 + 1 = j
      BY <1>3, <3>2
    <3>4. cs[i].todo[j - 1] = m
      BY <2>2, <2>5, <3>1, <3>3
    <3> QED BY <2>3, <3>1, <3>2, <3>4 DEF Pending
  <2> QED BY <2>4, <2>5
<1>16. ASSUME NEW j \in 1 .. Len(todo)
       PROVE  Pending(cs, todo[j])
  <2>1. k + 1 \in 1 .. Len(cs) /\ cs[k + 1].todo = todo
    BY <1>1, <1>9, <1>11
  <2> QED BY <2>1 DEF Pending
<1> QED BY <1>11, <1>14, <1>15, <1>16

\* A call of resolve_type more changes nothing to walk over.
LEMMA ResolveKeeps ==
  ASSUME NEW nodes, NEW cs, CallsOf(cs, nodes), Len(cs) # 0, NEW n \in nodes,
         NEW ds, ds = Append(cs, Resolve(n))
  PROVE  /\ CallsOf(ds, nodes) /\ Len(ds) # 0
         /\ \A m : Pending(cs, m) => Pending(ds, m)
<1> DEFINE new == Resolve(n)
<1>1. IsCall(new, nodes)
  BY OneIsSequence DEF IsCall, Resolve
<1> HIDE DEF new
<1>2. /\ IsSequence(ds) /\ Len(cs) \in Nat /\ Len(ds) = Len(cs) + 1
      /\ \A i \in 1 .. Len(cs) : ds[i] = cs[i]
      /\ ds[Len(cs) + 1] = new
  BY AppendTo DEF CallsOf, new
<1>3. CallsOf(ds, nodes)
  <2>1. \A i \in 1 .. Len(ds) : IsCall(ds[i], nodes)
    BY <1>1, <1>2 DEF CallsOf
  <2>2. ds[1].proc = "parse_ast"
    BY <1>2 DEF CallsOf
  <2> QED BY <1>2, <2>1, <2>2 DEF CallsOf
<1>4. ASSUME NEW m, Pending(cs, m) PROVE Pending(ds, m)
  <2>1. PICK i \in 1 .. Len(cs) : \E j \in 1 .. Len(cs[i].todo) : cs[i].todo[j] = m
    BY <1>4 DEF Pending
  <2>2. i \in 1 .. Len(ds) /\ ds[i] = cs[i]
    BY <1>2
  <2> QED BY <2>1, <2>2 DEF Pending
<1> QED BY <1>2, <1>3, <1>4

\* The first calls, when there is nothing to walk over in the others.
FirstCalls(cs, k, ds) ==
  /\ k \in 0 .. Len(cs)
  /\ \A i \in k + 1 .. Len(cs) : cs[i].todo = <<>>
  /\ ds = SubSeq(cs, 1, k)

LEMMA FirstCallsKeep ==
  ASSUME NEW nodes, NEW cs, CallsOf(cs, nodes), NEW k, NEW ds, FirstCalls(cs, k, ds)
  PROVE  /\ CallsOf(ds, nodes) /\ Len(ds) = k
         /\ \A i \in 1 .. k : ds[i] = cs[i]
         /\ \A m : Pending(cs, m) => Pending(ds, m)
<1> USE DEF FirstCalls
<1>1. PICK S : cs \in Seq(S)
  BY DEF CallsOf, IsSequence
<1>2. k \in Nat /\ Len(cs) \in Nat /\ k <= Len(cs) /\ \A i \in 1 .. k : cs[i] \in S
  BY <1>1
<1>3. /\ SubSeq(cs, 1, k) \in Seq(S)
      /\ Len(SubSeq(cs, 1, k)) = IF 1 <= k THEN k - 1 + 1 ELSE 0
      /\ \A i \in 1 .. k - 1 + 1 : SubSeq(cs, 1, k)[i] = cs[1 + i - 1]
  BY <1>2, SubSeqProperties
<1>4. k - 1 + 1 = k /\ \A i \in 1 .. k : 1 + i - 1 = i
  BY <1>2
<1>5. ds \in Seq(S) /\ Len(ds) = k /\ \A i \in 1 .. k : ds[i] = cs[i]
  BY <1>2, <1>3, <1>4
<1>6. CallsOf(ds, nodes)
  <2>1. \A i \in 1 .. Len(ds) : IsCall(ds[i], nodes)
    BY <1>2, <1>5 DEF CallsOf
  <2>2. Len(ds) # 0 => ds[1].proc = "parse_ast"
    BY <1>2, <1>5 DEF CallsOf
  <2> QED BY <1>5, <2>1, <2>2 DEF CallsOf, IsSequence
<1>7. ASSUME NEW m, Pending(cs, m) PROVE Pending(ds, m)
  <2>1. PICK i \in 1 .. Len(cs) : \E j \in 1 .. Len(cs[i].todo) : cs[i].todo[j] = m
    BY <1>7 DEF Pending
  <2>2. i \in 1 .. k
    <3>1. cs[i].todo # <<>>
      BY <2>1
    <3> QED BY <1>2, <3>1
  <2>3. i \in 1 .. Len(ds) /\ ds[i] = cs[i]
    BY <1>5, <2>2
  <2> QED BY <2>1, <2>3 DEF Pending
<1> QED BY <1>5, <1>6, <1>7

----------------------------------------------------------------------------
(* The last call of parse_ast *)

LEMMA LessIsWellFounded ==
  \A m, n \in Nat : n < m => <<n, m>> \in OpToRel(<, Nat)
BY DEF OpToRel

\* A set of natural numbers has a least one.
LEMMA LeastNumber ==
  ASSUME NEW S, S \subseteq Nat, S # {}
  PROVE  \E m \in S : \A n \in S : m <= n
<1>1. PICK m \in S : \A n \in S : ~ (<<n, m>> \in OpToRel(<, Nat))
  BY NatLessThanWellFounded, WFMin
<1>2. \A n \in S : ~ (n < m)
  BY <1>1, LessIsWellFounded, Zenon
<1>3. \A n \in S : m <= n
  BY <1>2
<1> QED BY <1>3

LEMMA GreatestNumber ==
  ASSUME NEW n \in Nat, NEW S, S \subseteq 1 .. n, S # {}
  PROVE  \E m \in S : \A i \in S : m >= i
<1> DEFINE R == {k \in 0 .. n : n - k \in S}
<1>1. R \subseteq Nat
  OBVIOUS
<1>2. R # {}
  <2>1. PICK i \in S : TRUE
    OBVIOUS
  <2>2. n - i \in 0 .. n /\ n - (n - i) = i
    BY <2>1
  <2> QED BY <2>1, <2>2
<1>3. PICK k \in R : \A j \in R : k <= j
  <2> HIDE DEF R
  <2> QED BY <1>1, <1>2, LeastNumber
<1>4. n - k \in S /\ k \in 0 .. n
  BY <1>3
<1>5. ASSUME NEW i \in S PROVE n - k >= i
  <2>1. n - i \in 0 .. n /\ n - (n - i) = i /\ i \in 1 .. n
    OBVIOUS
  <2>2. n - i \in R
    BY <2>1
  <2>3. k <= n - i
    BY <1>3, <2>2
  <2> QED BY <1>4, <2>1, <2>3
<1> QED BY <1>4, <1>5

LEMMA CallerIs ==
  ASSUME NEW nodes, CallsOf(calls, nodes), Len(calls) # 0
  PROVE  /\ Caller \in 1 .. Len(calls)
         /\ calls[Caller].proc = "parse_ast"
         /\ \A i \in Caller + 1 .. Len(calls) : calls[i].todo = <<>>
<1> DEFINE I == {i \in 1 .. Len(calls) : calls[i].proc = "parse_ast"}
<1>1. Len(calls) \in Nat /\ 1 \in I
  BY IndexesOf DEF CallsOf
<1>2. Caller = CHOOSE x \in I : \A y \in I : x >= y
  <2>1. I # {}
    BY <1>1
  <2> QED BY <2>1, Zenon DEF Caller, SelectLastInSeq, Max
<1>3. \E x \in I : \A y \in I : x >= y
  <2>1. I \subseteq 1 .. Len(calls) /\ I # {}
    BY <1>1
  <2> HIDE DEF I
  <2> QED BY <1>1, <2>1, GreatestNumber
<1>4. Caller \in I /\ \A y \in I : Caller >= y
  <2> HIDE DEF I
  <2> QED BY <1>2, <1>3
<1>5. ASSUME NEW i \in Caller + 1 .. Len(calls)
      PROVE  calls[i].todo = <<>>
  <2>1. i \in 1 .. Len(calls) /\ ~ (Caller >= i)
    BY <1>1, <1>4
  <2>2. i \notin I
    BY <1>4, <2>1
  <2> QED BY <2>1, <2>2 DEF CallsOf, IsCall
<1> QED BY <1>4, <1>5

----------------------------------------------------------------------------
(* Resolution: a name leads to a declaration of the tree, or to none *)

\* The recursive function of get_user_type, for a name, up to the table k.
IsSearch(name, k, f) ==
  f = [t \in 0 .. k |->
         IF t = Null THEN Null
         ELSE IF program.tables[t].user_types[name] # Null
           THEN program.tables[t].user_types[name]
           ELSE f[program.tables[t].parent]]

LEMMA SearchExists ==
  ASSUME NEW name, NEW n \in Nat,
         \A t \in 1 .. n : program.tables[t].parent \in 0 .. t - 1
  PROVE  \E f : IsSearch(name, n, f)
<1> DEFINE P(m) == \E f : IsSearch(name, m, f)
           S == {m \in 0 .. n : ~ P(m)}
           body(t, x) == IF t = Null THEN Null
                         ELSE IF program.tables[t].user_types[name] # Null
                           THEN program.tables[t].user_types[name] ELSE x
           up(t) == program.tables[t].parent
<1>1. SUFFICES ASSUME S # {} PROVE FALSE
  OBVIOUS
<1>2. PICK m \in S : \A k \in S : m <= k
  <2>1. S \subseteq Nat
    OBVIOUS
  <2> HIDE DEF S
  <2> QED BY <1>1, <2>1, LeastNumber
<1>a. \A k, f : f = [t \in 0 .. k |-> body(t, f[up(t)])] => IsSearch(name, k, f)
  BY Zenon DEF IsSearch
<1>b. \A k, f : IsSearch(name, k, f) => f = [t \in 0 .. k |-> body(t, f[up(t)])]
  BY Zenon DEF IsSearch
<1>c. \A x : body(0, x) = 0
  BY DEF Null
<1>d. \A t \in 1 .. n : up(t) \in 0 .. t - 1
  OBVIOUS
<1> HIDE DEF body, up
<1>3. m # 0
  <2> DEFINE f == [t \in 0 .. 0 |-> 0]
  <2>1. \A t \in 0 .. 0 : t = 0
    OBVIOUS
  <2>2. f = [t \in 0 .. 0 |-> body(t, f[up(t)])]
    BY <1>c, <2>1
  <2>3. P(0)
    <3> HIDE DEF f
    <3> QED BY <1>a, <2>2
  <2> QED BY <1>2, <2>3
<1>4. m - 1 \in 0 .. n /\ m \in Nat \ {0} /\ m <= n
  BY <1>2, <1>3
<1>5. P(m - 1)
  BY <1>2, <1>4
<1>6. PICK f : IsSearch(name, m - 1, f)
  BY <1>5
<1>7. f = [t \in 0 .. m - 1 |-> body(t, f[up(t)])]
  BY <1>b, <1>6
<1> DEFINE g == [t \in 0 .. m |-> IF t = m THEN body(m, f[up(m)]) ELSE f[t]]
<1>8. \A t \in 0 .. m : g[t] = body(t, g[up(t)])
  <2> TAKE t \in 0 .. m
  <2>1. CASE t = 0
    <3>1. g[0] = f[0] /\ 0 \in 0 .. m - 1
      BY <1>4
    <3>2. f[0] = body(0, f[up(0)])
      BY <1>7, <3>1
    <3> QED BY <1>c, <2>1, <3>1, <3>2
  <2>2. CASE t # 0
    <3>1. t \in 1 .. n /\ t <= m
      BY <1>4, <2>2
    <3>2. up(t) \in 0 .. t - 1
      BY <1>d, <3>1
    <3>3. up(t) \in 0 .. m /\ up(t) # m /\ g[up(t)] = f[up(t)]
      BY <1>4, <3>1, <3>2
    <3>4. CASE t = m
      BY <3>3, <3>4
    <3>5. CASE t # m
      <4>1. t \in 0 .. m - 1 /\ g[t] = f[t]
        BY <1>4, <3>1, <3>5
      <4>2. f[t] = body(t, f[up(t)])
        BY <1>7, <4>1
      <4> QED BY <3>3, <4>1, <4>2
    <3> QED BY <3>4, <3>5
  <2> QED BY <2>1, <2>2
<1>9. g = [t \in 0 .. m |-> body(t, g[up(t)])]
  BY <1>8
<1> HIDE DEF g
<1>10. P(m)
  BY <1>a, <1>9
<1> QED BY <1>2, <1>10

LEMMA NameLeadsToDeclaration ==
  ASSUME program \in Programs, NEW n \in DOMAIN program.nodes, Kind(n) \in Names
  PROVE  get_user_type(n) \in {Null} \cup DOMAIN program.nodes
<1> DEFINE name  == Node(n).name
           top   == Len(program.tables)
           nodes == DOMAIN program.nodes
<1>1. /\ program.tables \in Seq(ToSet(program.tables))
      /\ Node(n).table \in DOMAIN program.tables
      /\ \A t \in DOMAIN program.tables :
           program.tables[t].user_types[name] \in {Null} \cup nodes
      /\ \A t \in DOMAIN program.tables : program.tables[t].parent \in 0 .. t - 1
  BY TreeAssumption DEF Node, Kind
<1>2. top \in Nat /\ DOMAIN program.tables = 1 .. top
  BY <1>1
<1> DEFINE f == CHOOSE g : IsSearch(name, top, g)
<1>3. IsSearch(name, top, f)
  <2>1. \A t \in 1 .. top : program.tables[t].parent \in 0 .. t - 1
    BY <1>1, <1>2
  <2> HIDE DEF name, top
  <2>2. \E g : IsSearch(name, top, g)
    BY <1>2, <2>1, SearchExists
  <2> QED BY <2>2, Zenon
<1>4. get_user_type(n) = f[Node(n).table]
  BY Zenon DEF get_user_type, IsSearch
<1> HIDE DEF f
<1> DEFINE S == {t \in 0 .. top : f[t] \notin {Null} \cup nodes}
<1>5. ASSUME S # {} PROVE FALSE
  <2>1. S \subseteq Nat
    OBVIOUS
  <2>2. PICK t \in S : \A k \in S : t <= k
    <3> HIDE DEF S
    <3> QED BY <1>5, <2>1, LeastNumber
  <2>3. f[t] = IF t = Null THEN Null
               ELSE IF program.tables[t].user_types[name] # Null
                 THEN program.tables[t].user_types[name]
                 ELSE f[program.tables[t].parent]
    <3> HIDE DEF name, top
    <3> QED BY <1>3, <2>2 DEF IsSearch
  <2>4. t \in 1 .. top
    BY <1>2, <2>2, <2>3 DEF Null
  <2>5. /\ program.tables[t].user_types[name] \in {Null} \cup nodes
        /\ program.tables[t].parent \in 0 .. t - 1
    BY <1>1, <1>2, <2>4
  <2>6. f[program.tables[t].parent] \in {Null} \cup nodes
    BY <1>2, <2>2, <2>4, <2>5
  <2> QED BY <2>2, <2>3, <2>5, <2>6
<1>6. Node(n).table \in 0 .. top
  BY <1>1, <1>2
<1> QED BY <1>4, <1>5, <1>6

----------------------------------------------------------------------------
(* The statements met so far *)

\* What a walk under way has met: a set of nodes from which every statement is
\* reached, or waits in a call; and the imported functions in it are recorded.
Visited(V, cs, fs) ==
  /\ 1 \in V \/ Pending(cs, 1)
  /\ \A v \in V : \A s \in StatementsAfter(program, v) : s \in V \/ Pending(cs, s)
  /\ \A v \in V : v \in ImportedNodes => \E i \in 1 .. Len(fs) : fs[i] = v
CallsOK == CallsOf(calls, DOMAIN program.nodes)
WalkedOK ==
  /\ status \in {"generating", "done"} =>
       \E V \in SUBSET DOMAIN program.nodes : Visited(V, calls, functions)
  /\ status = "done" => calls = <<>>

\* A sequence of nodes to walk over has a node in it.
Holds(todo, s) == \E j \in 1 .. Len(todo) : todo[j] = s

LEMMA ConcatHolds ==
  ASSUME NEW s, NEW t, IsSequence(s), IsSequence(t)
  PROVE  /\ IsSequence(s \o t)
         /\ \A e : Holds(s, e) \/ Holds(t, e) => Holds(s \o t, e)
<1>1. /\ IsSequence(s \o t) /\ Len(s \o t) = Len(s) + Len(t)
      /\ \A i \in 1 .. Len(s) : (s \o t)[i] = s[i]
      /\ \A i \in 1 .. Len(t) : (s \o t)[Len(s) + i] = t[i]
      /\ Len(s) \in Nat /\ Len(t) \in Nat
  BY ConcatOf, IndexesOf
<1> DEFINE c == s \o t
<1>2. /\ Len(c) = Len(s) + Len(t)
      /\ \A i \in 1 .. Len(s) : c[i] = s[i]
      /\ \A i \in 1 .. Len(t) : c[Len(s) + i] = t[i]
  BY <1>1
<1>3. IsSequence(c)
  BY <1>1
<1> HIDE DEF c
<1>4. ASSUME NEW e, Holds(s, e) PROVE Holds(c, e)
  <2>1. PICK j \in 1 .. Len(s) : s[j] = e
    BY <1>4 DEF Holds
  <2>2. j \in 1 .. Len(c) /\ c[j] = e
    BY <1>1, <1>2, <2>1
  <2> QED BY <2>2 DEF Holds
<1>5. ASSUME NEW e, Holds(t, e) PROVE Holds(c, e)
  <2>1. PICK j \in 1 .. Len(t) : t[j] = e
    BY <1>5 DEF Holds
  <2>2. Len(s) + j \in 1 .. Len(c) /\ c[Len(s) + j] = e
    BY <1>1, <1>2, <2>1
  <2> QED BY <2>2 DEF Holds
<1>6. \A e : Holds(s, e) \/ Holds(t, e) => Holds(c, e)
  BY <1>4, <1>5
<1> QED BY <1>3, <1>6 DEF c

LEMMA LinksHeld ==
  ASSUME NEW n
  PROVE  /\ IsSequence(SiblingOf(n))
         /\ Node(n).sibling # Null => Holds(SiblingOf(n), Node(n).sibling)
         /\ IsSequence(ChildOf(n))
         /\ Node(n).child # Null => Holds(ChildOf(n), Node(n).child)
<1>1. ASSUME NEW e PROVE Holds(<<e>>, e)
  <2>1. Len(<<e>>) = 1 /\ <<e>>[1] = e
    BY OneIsSequence
  <2>2. 1 \in 1 .. 1
    OBVIOUS
  <2> QED BY <2>1, <2>2 DEF Holds
<1>2. \A e : Holds(<<e>>, e)
  BY <1>1
<1>3. CASE Node(n).sibling = Null
  <2>1. SiblingOf(n) = <<>>
    BY <1>3 DEF SiblingOf
  <2>2. CASE Node(n).child = Null
    BY <1>3, <2>1, <2>2, OneIsSequence DEF ChildOf
  <2>3. CASE Node(n).child # Null
    BY <1>2, <1>3, <2>1, <2>3, OneIsSequence DEF ChildOf
  <2> QED BY <2>2, <2>3
<1>4. CASE Node(n).sibling # Null
  <2>1. SiblingOf(n) = <<Node(n).sibling>>
    BY <1>4 DEF SiblingOf
  <2>2. CASE Node(n).child = Null
    BY <1>2, <1>4, <2>1, <2>2, OneIsSequence DEF ChildOf
  <2>3. CASE Node(n).child # Null
    BY <1>2, <1>4, <2>1, <2>3, OneIsSequence DEF ChildOf
  <2> QED BY <2>2, <2>3
<1> QED BY <1>3, <1>4

\* A node more is met: it is no longer waited for, what comes after it is.
LEMMA VisitedMore ==
  ASSUME NEW V, Visited(V, calls, functions), NEW n, NEW cs, NEW fs,
         \A m : Pending(calls, m) => m = n \/ Pending(cs, m),
         \A s \in StatementsAfter(program, n) : Pending(cs, s),
         \A i \in 1 .. Len(functions) : Holds(fs, functions[i]),
         n \in ImportedNodes => Holds(fs, n)
  PROVE  Visited(V \cup {n}, cs, fs)
<1>1. 1 \in V \cup {n} \/ Pending(cs, 1)
  BY DEF Visited
<1>2. \A v \in V \cup {n} : \A s \in StatementsAfter(program, v) :
        s \in V \cup {n} \/ Pending(cs, s)
  BY DEF Visited
<1>3. ASSUME NEW v \in V \cup {n}, v \in ImportedNodes
      PROVE  \E i \in 1 .. Len(fs) : fs[i] = v
  <2>1. CASE v = n
    BY <1>3, <2>1 DEF Holds
  <2>2. CASE v # n
    <3>1. PICK i \in 1 .. Len(functions) : functions[i] = v
      BY <1>3, <2>2 DEF Visited
    <3> QED BY <3>1 DEF Holds
  <2> QED BY <2>1, <2>2
<1> QED BY <1>1, <1>2, <1>3 DEF Visited

LEMMA VisitedStays ==
  ASSUME NEW V, NEW cs, NEW ds, NEW fs, Visited(V, cs, fs),
         \A m : Pending(cs, m) => Pending(ds, m)
  PROVE  Visited(V, ds, fs)
BY DEF Visited

\* A call of parse_ast that has what comes after its node to walk over.
LEMMA CallVisits ==
  ASSUME CallsOK, WalkedOK, NEW n \in DOMAIN program.nodes, NEW kinds,
         WalksTo(n, kinds), NEW todo, IsSequence(todo),
         \A s \in StatementsAfter(program, n) : Holds(todo, s),
         NEW fs, \A i \in 1 .. Len(functions) : Holds(fs, functions[i]),
         n \in ImportedNodes => Holds(fs, n), NEW cs, cs = Called(n, todo)
  PROVE  /\ CallsOf(cs, DOMAIN program.nodes) /\ Len(cs) # 0
         /\ \E V \in SUBSET DOMAIN program.nodes : Visited(V, cs, fs)
<1>1. /\ status = "generating" /\ Top.proc = "parse_ast" /\ Top.todo # <<>>
      /\ n = Head(Top.todo) /\ calls # <<>>
  BY DEF WalksTo, InWalk
<1>2. Len(calls) # 0 /\ Len(calls) \in Nat
  BY <1>1, IndexesOf DEF CallsOK, CallsOf
<1>3. /\ CallsOf(cs, DOMAIN program.nodes) /\ Len(cs) = Len(calls) + 1
      /\ \A m : Pending(calls, m) => m = n \/ Pending(cs, m)
      /\ \A j \in 1 .. Len(todo) : Pending(cs, todo[j])
  BY <1>1, <1>2, CalledKeeps DEF CallsOK
<1>4. PICK V \in SUBSET DOMAIN program.nodes : Visited(V, calls, functions)
  BY <1>1 DEF WalkedOK
<1>5. \A s \in StatementsAfter(program, n) : Pending(cs, s)
  BY <1>3 DEF Holds
<1>6. Visited(V \cup {n}, cs, fs)
  BY <1>3, <1>4, <1>5, VisitedMore
<1>7. V \cup {n} \in SUBSET DOMAIN program.nodes
  OBVIOUS
<1>8. Len(cs) # 0
  BY <1>2, <1>3
<1> QED BY <1>3, <1>6, <1>7, <1>8

\* What a step that ends with such calls has to leave.
LEMMA StateAfter ==
  ASSUME UNCHANGED <<program, status>>, status = "generating",
         CallsOf(calls', DOMAIN program.nodes),
         \E V \in SUBSET DOMAIN program.nodes : Visited(V, calls', functions')
  PROVE  CallsOK' /\ WalkedOK'
<1>1. CallsOK'
  BY DEF CallsOK
<1>2. ImportedNodes' = ImportedNodes
  BY DEF ImportedNodes, DllImports, Kind, Node
<1>3. WalkedOK'
  <2>1. PICK V \in SUBSET DOMAIN program.nodes : Visited(V, calls', functions')
    OBVIOUS
  <2>2. Visited(V, calls, functions)'
    BY <1>2, <2>1 DEF Visited
  <2> QED BY <2>2 DEF WalkedOK
<1> QED BY <1>1, <1>3

LEMMA FunctionsStay ==
  ASSUME IInv, UNCHANGED functions
  PROVE  \A i \in 1 .. Len(functions) : Holds(functions', functions[i])
BY DEF Holds

LEMMA DescendKeeps ==
  ASSUME IInv, CallsOK, WalkedOK, NEW n \in DOMAIN program.nodes, NEW kinds,
         WalksTo(n, kinds), NEW todo, IsSequence(todo),
         \A s \in StatementsAfter(program, n) : Holds(todo, s),
         n \notin ImportedNodes, calls' = Called(n, todo),
         UNCHANGED <<program, functions, status>>
  PROVE  CallsOK' /\ WalkedOK'
<1>1. status = "generating"
  BY DEF WalksTo, InWalk
<1>2. \A i \in 1 .. Len(functions) : Holds(functions', functions[i])
  BY FunctionsStay
<1>3. /\ CallsOf(calls', DOMAIN program.nodes)
      /\ \E V \in SUBSET DOMAIN program.nodes : Visited(V, calls', functions')
  <2> DEFINE cs == calls'
             fs == functions'
  <2>1. cs = Called(n, todo) /\ \A i \in 1 .. Len(functions) : Holds(fs, functions[i])
    BY <1>2
  <2> HIDE DEF cs, fs
  <2>2. /\ CallsOf(cs, DOMAIN program.nodes)
        /\ \E V \in SUBSET DOMAIN program.nodes : Visited(V, cs, fs)
    BY <2>1, CallVisits
  <2> QED BY <2>2 DEF cs, fs
<1> QED BY <1>1, <1>3, StateAfter

LEMMA StopKeeps ==
  ASSUME CallsOK, NEW end, Stop(end), end \notin {"generating", "done"}
  PROVE  CallsOK' /\ WalkedOK'
BY DEF Stop, CallsOK, WalkedOK

----------------------------------------------------------------------------
(* The walk and the resolution keep the calls and what was met *)

\* Only imported functions have to be recorded.
LEMMA NotImported ==
  ASSUME NEW n, Kind(n) # "function" \/ ~Node(n).modified \/ DllImports(n) = {}
  PROVE  n \notin ImportedNodes
BY DEF ImportedNodes

LEMMA SiblingsOnly ==
  ASSUME NEW n, Kind(n) \notin {"scope", "function"}, NEW s \in StatementsAfter(program, n)
  PROVE  s = Node(n).sibling /\ s # Null /\ Kind(n) \in Statement
BY DEF StatementsAfter, Kind, Node

\* The branches of parse_ast that go on with the sibling, or with nothing when
\* the node is not a statement.
LEMMA SimpleWalksKeep ==
  ASSUME IInv, CallsOK, WalkedOK, NEW n \in DOMAIN program.nodes,
         \/ SkipNode(n) \/ SkipExpression(n) \/ WalkPointer(n) \/ WalkArray(n)
         \/ WalkNumber(n)
  PROVE  CallsOK' /\ WalkedOK'
<1>1. ASSUME NEW kinds, WalksTo(n, kinds), kinds \cap {"scope", "function"} = {},
             NEW todo, IsSequence(todo), Descend(n, todo),
             Kind(n) \in Statement /\ Node(n).sibling # Null
               => Holds(todo, Node(n).sibling)
      PROVE  CallsOK' /\ WalkedOK'
  <2>1. Kind(n) \notin {"scope", "function"}
    BY <1>1 DEF WalksTo
  <2>2. \A s \in StatementsAfter(program, n) : Holds(todo, s)
    BY <1>1, <2>1, SiblingsOnly
  <2>3. n \notin ImportedNodes
    BY <2>1, NotImported
  <2>4. calls' = Called(n, todo) /\ UNCHANGED <<program, functions, status>>
    BY <1>1 DEF Descend, imports
  <2> QED BY <1>1, <2>2, <2>3, <2>4, DescendKeeps
<1>2. CASE SkipNode(n)
  BY <1>1, <1>2, LinksHeld DEF SkipNode
<1>3. CASE SkipExpression(n)
  BY <1>1, <1>3, LinksHeld DEF SkipExpression
<1>4. CASE WalkPointer(n)
  BY <1>1, <1>4, LinksHeld DEF WalkPointer
<1>5. CASE WalkArray(n)
  <2>1. Kind(n) = "array"
    BY <1>5 DEF WalkArray, WalksTo
  <2>2. Kind(n) \notin Statement
    BY <2>1 DEF Statement
  <2> QED BY <1>1, <1>5, <2>2, LinksHeld DEF WalkArray
<1>6. CASE WalkNumber(n)
  <2>1. Kind(n) = "number"
    BY <1>6 DEF WalkNumber, WalksTo
  <2>2. Kind(n) \notin Statement
    BY <2>1 DEF Statement
  <2> QED BY <1>1, <1>6, <2>2, OneIsSequence DEF WalkNumber
<1> QED BY <1>2, <1>3, <1>4, <1>5, <1>6

LEMMA WalkIntoKeeps ==
  ASSUME IInv, CallsOK, WalkedOK, NEW n \in DOMAIN program.nodes, WalkInto(n)
  PROVE  CallsOK' /\ WalkedOK'
<1> DEFINE kinds == {"scope", "struct", "union", "address_of"}
           todo  == ChildOf(n) \o SiblingOf(n)
<1>1. WalksTo(n, kinds) /\ Descend(n, todo) /\ Kind(n) # "function"
  BY DEF WalkInto, WalksTo
<1>2. IsSequence(todo) /\ \A e : Holds(ChildOf(n), e) \/ Holds(SiblingOf(n), e)
                             => Holds(todo, e)
  BY LinksHeld, ConcatHolds
<1>3. \A s \in StatementsAfter(program, n) : Holds(todo, s)
  <2> HIDE DEF todo
  <2> QED BY <1>2, LinksHeld DEF StatementsAfter, Node
<1>4. n \notin ImportedNodes
  BY <1>1, NotImported
<1>5. calls' = Called(n, todo) /\ UNCHANGED <<program, functions, status>>
  BY <1>1 DEF Descend, imports
<1> HIDE DEF todo, kinds
<1> QED BY <1>1, <1>2, <1>3, <1>4, <1>5, DescendKeeps

LEMMA WalkStringKeeps ==
  ASSUME IInv, CallsOK, WalkedOK, NEW n \in DOMAIN program.nodes, WalkString(n)
  PROVE  CallsOK' /\ WalkedOK'
<1>1. WalksTo(n, {"string"}) /\ Kind(n) = "string"
  BY DEF WalkString, WalksTo
<1>2. \A s \in StatementsAfter(program, n) : Holds(<<>>, s)
  BY <1>1, SiblingsOnly DEF Statement
<1>3. n \notin ImportedNodes
  BY <1>1, NotImported
<1>4. calls' = Called(n, <<>>) /\ UNCHANGED <<program, functions, status>>
  BY DEF WalkString, imports
<1> QED BY <1>1, <1>2, <1>3, <1>4, OneIsSequence, DescendKeeps

LEMMA WalkVariableKeeps ==
  ASSUME IInv, CallsOK, WalkedOK, NEW n \in DOMAIN program.nodes, WalkVariable(n)
  PROVE  CallsOK' /\ WalkedOK'
<1> DEFINE size == SizedElement(Node(n).type)
           type == <<Node(n).type>>
           todo == size \o type \o SiblingOf(n)
<1>1. WalksTo(n, {"variable"}) /\ Kind(n) = "variable"
  BY DEF WalkVariable, WalksTo
<1>2. CASE Node(n).child # Null
  <2>1. Stop("assert")
    BY <1>2 DEF WalkVariable
  <2> QED BY <2>1, StopKeeps
<1>3. CASE Node(n).child = Null
  <2>1. Descend(n, todo)
    BY <1>3 DEF WalkVariable
  <2>2. IsSequence(size) /\ IsSequence(type)
    BY LinksHeld, OneIsSequence DEF SizedElement
  <2> HIDE DEF size, type
  <2>3. IsSequence(size \o type)
    BY <2>2, ConcatHolds
  <2>4. IsSequence(todo) /\ \A e : Holds(SiblingOf(n), e) => Holds(todo, e)
    <3> DEFINE front == size \o type
    <3>1. IsSequence(front)
      BY <2>3
    <3> HIDE DEF front
    <3>2. /\ IsSequence(front \o SiblingOf(n))
          /\ \A e : Holds(SiblingOf(n), e) => Holds(front \o SiblingOf(n), e)
      BY <3>1, LinksHeld, ConcatHolds
    <3> QED BY <3>2 DEF front
  <2> HIDE DEF todo
  <2>5. \A s \in StatementsAfter(program, n) : Holds(todo, s)
    BY <1>1, <2>4, SiblingsOnly, LinksHeld
  <2>6. n \notin ImportedNodes
    BY <1>1, NotImported
  <2>7. calls' = Called(n, todo) /\ UNCHANGED <<program, functions, status>>
    BY <2>1 DEF Descend, imports
  <2> QED BY <1>1, <2>4, <2>5, <2>6, <2>7, DescendKeeps
<1> QED BY <1>2, <1>3

\* The two branches that resolve a name: what is next is to resolve a node of
\* the tree.
LEMMA WalkNameKeeps ==
  ASSUME IInv, CallsOK, WalkedOK, NEW n \in DOMAIN program.nodes,
         NEW kinds, WalksTo(n, kinds), kinds \subseteq Names,
         NEW m \in DOMAIN program.nodes,
         calls' = Append(Called(n, SiblingOf(n)), Resolve(m)),
         UNCHANGED <<program, functions, status>>
  PROVE  CallsOK' /\ WalkedOK'
<1>1. status = "generating" /\ Kind(n) \in Names
  BY DEF WalksTo, InWalk
<1>2. Kind(n) \notin {"scope", "function"} /\ Kind(n) \notin Statement
  BY <1>1 DEF Names, Statement
<1>3. \A s \in StatementsAfter(program, n) : Holds(SiblingOf(n), s)
  BY <1>2, SiblingsOnly
<1>4. n \notin ImportedNodes
  BY <1>2, NotImported
<1>5. \A i \in 1 .. Len(functions) : Holds(functions', functions[i])
  BY FunctionsStay
<1> DEFINE cs == Called(n, SiblingOf(n))
           ds == Append(cs, Resolve(m))
           fs == functions'
           nodes == DOMAIN program.nodes
<1>6. /\ CallsOf(cs, nodes) /\ Len(cs) # 0
      /\ \E V \in SUBSET nodes : Visited(V, cs, fs)
  <2>1. \A i \in 1 .. Len(functions) : Holds(fs, functions[i])
    BY <1>5
  <2>2. IsSequence(SiblingOf(n))
    BY LinksHeld
  <2> HIDE DEF fs
  <2> QED BY <1>3, <1>4, <2>1, <2>2, CallVisits
<1>7. calls' = ds
  OBVIOUS
<1> HIDE DEF cs, fs
<1>8. CallsOf(ds, nodes) /\ \A e : Pending(cs, e) => Pending(ds, e)
  BY <1>6, ResolveKeeps
<1> HIDE DEF ds
<1>9. \E V \in SUBSET nodes : Visited(V, ds, fs)
  BY <1>6, <1>8, VisitedStays
<1> QED BY <1>1, <1>7, <1>8, <1>9, StateAfter DEF fs

LEMMA ParseAstKeeps ==
  ASSUME IInv, CallsOK, WalkedOK, NEW n \in DOMAIN program.nodes, parse_ast(n)
  PROVE  CallsOK' /\ WalkedOK'
<1>1. CASE SkipNode(n) \/ SkipExpression(n) \/ WalkPointer(n) \/ WalkArray(n)
             \/ WalkNumber(n)
  BY <1>1, SimpleWalksKeep
<1>2. CASE WalkInto(n)
  BY <1>2, WalkIntoKeeps
<1>3. CASE WalkUserType(n)
  <2>1. WalksTo(n, {"user_type"}) /\ Kind(n) \in Names
    BY <1>3 DEF WalkUserType, WalksTo, Names
  <2>2. get_user_type(n) \in {Null} \cup DOMAIN program.nodes
    BY <2>1, NameLeadsToDeclaration DEF IInv
  <2> DEFINE m == get_user_type(n)
  <2>3. CASE m = Null
    <3>1. Stop("unknown type")
      BY <1>3, <2>3 DEF WalkUserType
    <3> QED BY <3>1, StopKeeps
  <2>4. CASE m # Null
    <3>1. /\ calls' = Append(Called(n, SiblingOf(n)), Resolve(m))
          /\ UNCHANGED <<program, functions, status>>
      BY <1>3, <2>4 DEF WalkUserType, imports
    <3>2. m \in DOMAIN program.nodes /\ {"user_type"} \subseteq Names
      BY <2>2, <2>4 DEF Names
    <3> HIDE DEF m
    <3> QED BY <2>1, <3>1, <3>2, WalkNameKeeps
  <2> QED BY <2>3, <2>4
<1>4. CASE WalkIdentifier(n)
  <2>1. /\ WalksTo(n, {"identifier"}) /\ {"identifier"} \subseteq Names
        /\ calls' = Append(Called(n, SiblingOf(n)), Resolve(n))
        /\ UNCHANGED <<program, functions, status>>
    BY <1>4 DEF WalkIdentifier, imports, Names
  <2> QED BY <2>1, WalkNameKeeps
<1>5. CASE WalkVariable(n)
  BY <1>5, WalkVariableKeeps
<1>6. CASE WalkString(n)
  BY <1>6, WalkStringKeeps
<1>7. CASE WalkUnhandled(n)
  <2>1. Stop("assert")
    BY <1>7 DEF WalkUnhandled
  <2> QED BY <2>1, StopKeeps
<1> QED BY <1>1, <1>2, <1>3, <1>4, <1>5, <1>6, <1>7 DEF parse_ast

\* The modifiers of a function that is imported say that it has no body.
LEMMA ImportHasNoBody ==
  ASSUME program \in Programs, NEW n \in DOMAIN program.nodes,
         Analysed(n) = "none", DllImports(n) # {}
  PROVE  Node(n).child = Null
<1> DEFINE wrong == {i \in DOMAIN Node(n).modifiers : ModifierError(n, i) # "none"}
<1>1. DOMAIN Node(n).modifiers \subseteq Nat
  BY TreeAssumption DEF Node
<1>2. ASSUME wrong # {} PROVE FALSE
  <2>1. wrong \subseteq Nat
    BY <1>1
  <2>2. \E i \in wrong : \A j \in wrong : i <= j
    <3> HIDE DEF wrong
    <3> QED BY <1>2, <2>1, LeastNumber
  <2> DEFINE first == CHOOSE i \in wrong : \A j \in wrong : i <= j
  <2>3. first \in wrong
    <3> HIDE DEF wrong
    <3> QED BY <2>2
  <2>4. Analysed(n) = ModifierError(n, first)
    BY <1>2, Zenon DEF Analysed
  <2> HIDE DEF first
  <2> QED BY <2>3, <2>4
<1>3. PICK i \in DOMAIN Node(n).modifiers : Node(n).modifiers[i].name = "dll_import"
  BY DEF DllImports, ToSet
<1>4. ModifierError(n, i) = "none"
  BY <1>2, <1>3
<1> QED BY <1>3, <1>4 DEF ModifierError

LEMMA DeclaredFunctionKeeps ==
  ASSUME IInv, CallsOK, WalkedOK, NEW n \in DOMAIN program.nodes,
         WalksTo(n, {"function"}), n \notin ImportedNodes,
         Descend(n, FunctionTodo(n))
  PROVE  CallsOK' /\ WalkedOK'
<1> DEFINE type  == IF Node(n).child # Null /\ Node(n).type # Null
                      THEN <<Node(n).type>> ELSE <<>>
           front == type \o ChildOf(n)
           todo  == front \o SiblingOf(n)
<1>1. IsSequence(type)
  BY OneIsSequence
<1> HIDE DEF type
<1>2. IsSequence(front) /\ \A e : Holds(ChildOf(n), e) => Holds(front, e)
  BY <1>1, LinksHeld, ConcatHolds
<1> HIDE DEF front
<1>3. /\ IsSequence(todo)
      /\ \A e : Holds(front, e) \/ Holds(SiblingOf(n), e) => Holds(todo, e)
  BY <1>2, LinksHeld, ConcatHolds
<1>4. Descend(n, todo)
  BY DEF FunctionTodo, type, front
<1> HIDE DEF todo
<1>5. \A s \in StatementsAfter(program, n) : Holds(todo, s)
  BY <1>2, <1>3, LinksHeld DEF StatementsAfter, Node
<1>6. calls' = Called(n, todo) /\ UNCHANGED <<program, functions, status>>
  BY <1>4 DEF Descend, imports
<1> QED BY <1>3, <1>5, <1>6, DescendKeeps

LEMMA ImportFunctionKeeps ==
  ASSUME IInv, CallsOK, WalkedOK, NEW n \in DOMAIN program.nodes, ImportFunction(n)
  PROVE  CallsOK' /\ WalkedOK'
<1>1. /\ WalksTo(n, {"function"}) /\ Analysed(n) = "none" /\ DllImports(n) # {}
      /\ functions' = Append(functions, n)
      /\ calls' = Called(n, SiblingOf(n)) /\ UNCHANGED <<program, status>>
  BY DEF ImportFunction
<1>2. Node(n).child = Null /\ status = "generating"
  BY <1>1, ImportHasNoBody DEF IInv, WalksTo, InWalk
<1>3. \A s \in StatementsAfter(program, n) : Holds(SiblingOf(n), s)
  BY <1>2, LinksHeld DEF StatementsAfter, Node
<1>4. /\ \A i \in 1 .. Len(functions) : Holds(functions', functions[i])
      /\ Holds(functions', n)
  <2>1. functions \in Seq(DOMAIN program.nodes)
    BY DEF IInv, ImportsOK
  <2>2. /\ Len(functions) \in Nat /\ Len(functions') = Len(functions) + 1
        /\ \A i \in 1 .. Len(functions) : functions'[i] = functions[i]
        /\ functions'[Len(functions) + 1] = n
    BY <1>1, <2>1
  <2>3. Len(functions) + 1 \in 1 .. Len(functions')
          /\ 1 .. Len(functions) \subseteq 1 .. Len(functions')
    BY <2>2
  <2> QED BY <2>2, <2>3 DEF Holds
<1> DEFINE cs == Called(n, SiblingOf(n))
           fs == functions'
           nodes == DOMAIN program.nodes
<1>5. calls' = cs
  BY <1>1
<1>6. CallsOf(cs, nodes) /\ \E V \in SUBSET nodes : Visited(V, cs, fs)
  <2>1. (\A i \in 1 .. Len(functions) : Holds(fs, functions[i])) /\ Holds(fs, n)
    BY <1>4
  <2>2. IsSequence(SiblingOf(n))
    BY LinksHeld
  <2> HIDE DEF fs
  <2> QED BY <1>1, <1>3, <2>1, <2>2, CallVisits
<1> HIDE DEF cs
<1> QED BY <1>1, <1>2, <1>5, <1>6, StateAfter DEF fs

LEMMA FunctionDeclarationKeeps ==
  ASSUME IInv, CallsOK, WalkedOK, NEW n \in DOMAIN program.nodes,
         parse_function_declaration(n)
  PROVE  CallsOK' /\ WalkedOK'
<1>1. CASE FunctionWithoutModifiers(n)
  <2>1. CASE Stop("undefined")
    BY <2>1, StopKeeps
  <2>2. CASE Descend(n, FunctionTodo(n))
    <3>1. WalksTo(n, {"function"}) /\ n \notin ImportedNodes
      BY <1>1, NotImported DEF FunctionWithoutModifiers
    <3> QED BY <2>2, <3>1, DeclaredFunctionKeeps
  <2> QED BY <1>1, <2>1, <2>2 DEF FunctionWithoutModifiers
<1>2. CASE FunctionWrong(n)
  <2>1. Stop(Analysed(n)) /\ Analysed(n) # "none"
    BY <1>2 DEF FunctionWrong
  <2>2. \A i : ModifierError(n, i) \notin {"generating", "done"}
    BY DEF ModifierError
  <2>3. Analysed(n) \notin {"generating", "done"}
    BY <2>1, <2>2, Zenon DEF Analysed
  <2> QED BY <2>1, <2>3, StopKeeps
<1>3. CASE FunctionNotImported(n)
  <2>1. /\ WalksTo(n, {"function"}) /\ n \notin ImportedNodes
        /\ Descend(n, FunctionTodo(n))
    BY <1>3, NotImported DEF FunctionNotImported
  <2> QED BY <2>1, DeclaredFunctionKeeps
<1>4. CASE ImportRefused(n)
  <2>1. Stop("already declared")
    BY <1>4 DEF ImportRefused
  <2> QED BY <2>1, StopKeeps
<1>5. CASE ImportAsserts(n)
  <2>1. Stop("assert")
    BY <1>5 DEF ImportAsserts
  <2> QED BY <2>1, StopKeeps
<1>6. CASE ImportFunction(n)
  BY <1>6, ImportFunctionKeeps
<1> QED BY <1>1, <1>2, <1>3, <1>4, <1>5, <1>6 DEF parse_function_declaration

\* A resolution that is over: the call that asked for it may have the type it
\* found to walk over.
LEMMA ResolveReturnsKeeps ==
  ASSUME IInv, CallsOK, WalkedOK, resolve_returns
  PROVE  CallsOK' /\ WalkedOK'
<1> DEFINE nodes == DOMAIN program.nodes
           first == SubSeq(calls, 1, Caller)
           next  == [first EXCEPT ![Caller].todo = <<Top.node>> \o @]
<1>1. /\ status = "generating" /\ calls # <<>> /\ Top.proc = "resolve_type"
      /\ UNCHANGED <<program, functions, status>>
      /\ calls' = IF Kind(calls[Caller].node) = "user_type" THEN next ELSE first
  BY DEF resolve_returns, Resolving, InResolve, imports
<1>2. Len(calls) # 0 /\ Len(calls) \in Nat /\ CallsOf(calls, nodes)
  BY <1>1, IndexesOf DEF CallsOK, CallsOf
<1>3. /\ Caller \in 1 .. Len(calls)
      /\ calls[Caller].proc = "parse_ast"
      /\ \A i \in Caller + 1 .. Len(calls) : calls[i].todo = <<>>
  BY <1>2, CallerIs
<1>4. /\ CallsOf(first, nodes) /\ Len(first) = Caller
      /\ \A i \in 1 .. Caller : first[i] = calls[i]
      /\ \A m : Pending(calls, m) => Pending(first, m)
  <2> DEFINE k == Caller
  <2>1. k \in 0 .. Len(calls) /\ \A i \in k + 1 .. Len(calls) : calls[i].todo = <<>>
    BY <1>2, <1>3
  <2> HIDE DEF k
  <2>2. FirstCalls(calls, k, first)
    BY <2>1 DEF k, FirstCalls
  <2> HIDE DEF first, nodes
  <2>3. /\ CallsOf(first, nodes) /\ Len(first) = k
        /\ \A i \in 1 .. k : first[i] = calls[i]
        /\ \A m : Pending(calls, m) => Pending(first, m)
    BY <1>2, <2>1, <2>2, FirstCallsKeep
  <2> QED BY <2>3, Zenon DEF k
<1> DEFINE k == Caller
           old == first[k]
           more == <<Top.node>> \o old.todo
<1>5. k \in 1 .. Len(first) /\ k \in Nat /\ Len(first) = k /\ old.proc = "parse_ast"
        /\ IsCall(old, nodes) /\ DOMAIN first = 1 .. k /\ IsSequence(first)
  <2>1. k \in 1 .. k /\ k \in Nat
    BY <1>2, <1>3
  <2> HIDE DEF k
  <2>2. DOMAIN first = 1 .. Len(first) /\ IsSequence(first)
    BY <1>4, IndexesOf DEF CallsOf
  <2>3. Len(first) = k /\ first[k] = calls[k] /\ calls[k].proc = "parse_ast"
    BY <1>3, <1>4, <2>1 DEF k
  <2> HIDE DEF first
  <2> QED BY <1>4, <2>1, <2>2, <2>3 DEF CallsOf
<1>6. next = [i \in DOMAIN first |-> IF i = k THEN [old EXCEPT !.todo = more]
                                             ELSE first[i]]
  <2> HIDE DEF first
  <2> QED BY <1>5
<1>7. \E V \in SUBSET nodes : Visited(V, first, functions)
  <2> HIDE DEF first
  <2> QED BY <1>1, <1>4, VisitedStays DEF WalkedOK
<1> HIDE DEF first, next, k, old
<1>8. IsSequence(<<Top.node>>) /\ IsSequence(old.todo)
  BY <1>5, OneIsSequence DEF IsCall
<1>9. IsSequence(more) /\ \A e : Holds(old.todo, e) => Holds(more, e)
  BY <1>8, ConcatHolds
<1> HIDE DEF more
<1>10. /\ IsSequence(next) /\ Len(next) = Len(first) /\ DOMAIN next = DOMAIN first
  <2>1. next = [i \in DOMAIN first |-> next[i]]
    BY <1>6
  <2> QED BY <1>5, <2>1, MapOf
<1>11. \A i \in 1 .. k : i # k => next[i] = first[i]
  BY <1>5, <1>6
<1>12. next[k] = [proc |-> old.proc, node |-> old.node, todo |-> more]
  <2>1. old = [proc |-> old.proc, node |-> old.node, todo |-> old.todo]
    BY <1>5 DEF IsCall
  <2>2. next[k] = [old EXCEPT !.todo = more]
    BY <1>5, <1>6
  <2> QED BY <2>1, <2>2
<1>13. CallsOf(next, nodes)
  <2>1. IsCall(next[k], nodes)
    BY <1>5, <1>9, <1>12 DEF IsCall
  <2>2. \A i \in 1 .. Len(next) : IsCall(next[i], nodes)
    BY <1>4, <1>5, <1>10, <1>11, <2>1 DEF CallsOf
  <2>3. next[1].proc = "parse_ast"
    <3>1. CASE k = 1
      BY <1>5, <1>12, <3>1
    <3>2. CASE k # 1
      BY <1>4, <1>5, <1>11, <3>2 DEF CallsOf
    <3> QED BY <3>1, <3>2
  <2> QED BY <1>10, <2>2, <2>3 DEF CallsOf
<1>14. ASSUME NEW m, Pending(first, m) PROVE Pending(next, m)
  <2>1. PICK i \in 1 .. Len(first) : Holds(first[i].todo, m)
    BY <1>14 DEF Pending, Holds
  <2>2. Holds(next[i].todo, m) /\ i \in 1 .. Len(next)
    <3>1. CASE i = k
      <4>1. next[k].todo = more /\ first[k] = old
        BY <1>12 DEF old
      <4> QED BY <1>9, <1>10, <2>1, <3>1, <4>1
    <3>2. CASE i # k
      BY <1>5, <1>10, <1>11, <2>1, <3>2
    <3> QED BY <3>1, <3>2
  <2> QED BY <2>2 DEF Pending, Holds
<1>15. \E V \in SUBSET nodes : Visited(V, next, functions)
  BY <1>7, <1>14, VisitedStays
<1>16. \/ calls' = next
       \/ calls' = first
  BY <1>1
<1> QED BY <1>1, <1>4, <1>7, <1>13, <1>15, <1>16, StateAfter

LEMMA ResolveDeeperKeeps ==
  ASSUME IInv, CallsOK, WalkedOK, InResolve, NEW n \in DOMAIN program.nodes,
         ResolveDeeper(n)
  PROVE  CallsOK' /\ WalkedOK'
<1> DEFINE nodes == DOMAIN program.nodes
           ds    == Append(calls, Resolve(n))
<1>1. /\ status = "generating" /\ Len(calls) # 0 /\ calls' = ds
      /\ UNCHANGED <<program, functions, status>>
  BY IndexesOf DEF InResolve, ResolveDeeper, imports, CallsOK, CallsOf
<1>2. CallsOf(ds, nodes) /\ \A m : Pending(calls, m) => Pending(ds, m)
  BY <1>1, ResolveKeeps DEF CallsOK
<1> HIDE DEF ds
<1>3. \E V \in SUBSET nodes : Visited(V, ds, functions)
  BY <1>1, <1>2, VisitedStays DEF WalkedOK
<1> QED BY <1>1, <1>2, <1>3, StateAfter

LEMMA ResolveTypeKeeps ==
  ASSUME IInv, CallsOK, WalkedOK, resolve_type
  PROVE  CallsOK' /\ WalkedOK'
<1>1. ASSUME InResolve PROVE Top.node \in DOMAIN program.nodes
  <2>1. Len(calls) \in Nat \ {0} /\ \A i \in 1 .. Len(calls) : IsCall(calls[i], DOMAIN program.nodes)
    BY <1>1, IndexesOf DEF InResolve, CallsOK, CallsOf
  <2>2. Len(calls) \in 1 .. Len(calls)
    BY <2>1
  <2> QED BY <1>1, <2>1, <2>2 DEF InResolve, Top, IsCall
<1>2. CASE resolve_alias
  <2>1. InResolve /\ Kind(Top.node) = "alias" /\ ResolveDeeper(Node(Top.node).type)
    BY <1>2 DEF resolve_alias, Resolving
  <2>2. Node(Top.node).type \in DOMAIN program.nodes
    BY <1>1, <2>1, TreeAssumption DEF IInv, Kind, Node
  <2> QED BY <2>1, <2>2, ResolveDeeperKeeps
<1>3. CASE resolve_identifier
  <2> DEFINE m == get_user_type(Top.node)
  <2>1. InResolve /\ Kind(Top.node) \in Names
    BY <1>3 DEF resolve_identifier, Resolving
  <2>2. m \in {Null} \cup DOMAIN program.nodes
    BY <1>1, <2>1, NameLeadsToDeclaration DEF IInv
  <2>3. CASE m = Null
    <3>1. Stop("unknown type")
      BY <1>3, <2>3 DEF resolve_identifier
    <3> QED BY <3>1, StopKeeps
  <2>4. CASE m # Null
    <3>1. ResolveDeeper(m)
      BY <1>3, <2>4 DEF resolve_identifier
    <3> QED BY <2>1, <2>2, <2>4, <3>1, ResolveDeeperKeeps
  <2> QED BY <2>3, <2>4
<1>4. CASE resolve_returns
  BY <1>4, ResolveReturnsKeeps
<1>5. CASE resolve_asserts
  <2>1. Stop("assert")
    BY <1>5 DEF resolve_asserts
  <2> QED BY <2>1, StopKeeps
<1> QED BY <1>2, <1>3, <1>4, <1>5 DEF resolve_type

\* The last call that returns is the walk of the module: nothing is waited for.
LEMMA ReturnKeeps ==
  ASSUME IInv, CallsOK, WalkedOK, Return
  PROVE  CallsOK' /\ WalkedOK'
<1> DEFINE nodes == DOMAIN program.nodes
           k     == Len(calls) - 1
           first == SubSeq(calls, 1, k)
<1>1. /\ status = "generating" /\ calls # <<>> /\ Top.todo = <<>>
      /\ calls' = first /\ UNCHANGED <<program, functions>>
      /\ status' = IF Len(calls) = 1 THEN "done" ELSE status
  BY DEF Return, InWalk, Front, imports
<1>2. Len(calls) \in Nat \ {0} /\ CallsOf(calls, nodes)
  BY <1>1, IndexesOf DEF CallsOK, CallsOf
<1>3. FirstCalls(calls, k, first)
  <2>1. k \in 0 .. Len(calls)
    BY <1>2
  <2>2. \A i \in k + 1 .. Len(calls) : i = Len(calls)
    BY <1>2
  <2>3. \A i \in k + 1 .. Len(calls) : calls[i].todo = <<>>
    BY <1>1, <2>2 DEF Top
  <2> QED BY <2>1, <2>3 DEF FirstCalls
<1> HIDE DEF first, k
<1>4. /\ CallsOf(first, nodes) /\ Len(first) = k
      /\ \A m : Pending(calls, m) => Pending(first, m)
  BY <1>2, <1>3, FirstCallsKeep
<1>5. \E V \in SUBSET nodes : Visited(V, first, functions)
  BY <1>1, <1>4, VisitedStays DEF WalkedOK
<1>6. CASE Len(calls) # 1
  <2>1. status' = status
    BY <1>1, <1>6
  <2> QED BY <1>1, <1>4, <1>5, <2>1, StateAfter
<1>7. CASE Len(calls) = 1
  <2>1. k = 0 /\ first = <<>> /\ IsSequence(first)
    BY <1>4, <1>7, IndexesOf DEF k, CallsOf
  <2>2. CallsOK'
    BY <1>1, <1>4 DEF CallsOK
  <2>3. ImportedNodes' = ImportedNodes
    BY <1>1 DEF ImportedNodes, DllImports, Kind, Node
  <2>4. \E V \in SUBSET DOMAIN program'.nodes : Visited(V, calls, functions)'
    <3>1. PICK V \in SUBSET nodes : Visited(V, first, functions)
      BY <1>5
    <3>2. Visited(V, calls, functions)'
      BY <1>1, <2>3, <3>1 DEF Visited
    <3> QED BY <1>1, <3>2
  <2> QED BY <1>1, <2>1, <2>2, <2>4 DEF WalkedOK
<1> QED BY <1>6, <1>7

LEMMA StepKeepsWalk ==
  ASSUME IInv, CallsOK, WalkedOK, [Next]_vars
  PROVE  CallsOK' /\ WalkedOK'
<1>1. CASE \E n \in DOMAIN program.nodes : parse_ast(n) \/ parse_function_declaration(n)
  BY <1>1, ParseAstKeeps, FunctionDeclarationKeeps
<1>2. CASE resolve_type
  BY <1>2, ResolveTypeKeeps
<1>3. CASE Return
  BY <1>3, ReturnKeeps
<1>4. CASE StackExhausted
  <2>1. Stop("overflow")
    BY <1>4 DEF StackExhausted
  <2> QED BY <2>1, StopKeeps
<1>5. CASE UNCHANGED vars
  <2>1. UNCHANGED <<program, calls, functions, status>>
    BY <1>5 DEF vars
  <2>2. ImportedNodes' = ImportedNodes
    BY <2>1 DEF ImportedNodes, DllImports, Kind, Node
  <2> QED BY <2>1, <2>2 DEF CallsOK, WalkedOK, Visited
<1> QED BY <1>1, <1>2, <1>3, <1>4, <1>5 DEF Next

LEMMA WalkStarts ==
  ASSUME Init
  PROVE  CallsOK /\ WalkedOK
<1> DEFINE call == Walk(Null, <<1>>)
           cs   == <<call>>
<1>1. calls = cs /\ status = "generating" /\ functions = <<>>
  BY DEF Init
<1>2. call.todo = <<1>> /\ IsCall(call, DOMAIN program.nodes) /\ call.proc = "parse_ast"
  BY OneIsSequence DEF Walk, IsCall
<1> HIDE DEF call
<1>3. IsSequence(cs) /\ Len(cs) = 1 /\ cs[1] = call
  BY OneIsSequence
<1>4. \A i \in 1 .. 1 : i = 1
  OBVIOUS
<1> HIDE DEF cs
<1>5. CallsOK
  BY <1>1, <1>2, <1>3, <1>4 DEF CallsOK, CallsOf
<1>6. Pending(cs, 1)
  <2>1. Len(call.todo) = 1 /\ call.todo[1] = 1 /\ 1 \in 1 .. 1
    BY <1>2, OneIsSequence
  <2> QED BY <1>3, <2>1 DEF Pending
<1>7. Visited({}, calls, functions)
  BY <1>1, <1>6 DEF Visited
<1> QED BY <1>1, <1>5, <1>7 DEF WalkedOK

----------------------------------------------------------------------------
(* No function is recorded twice *)

\* A function that was recorded has its name declared in its library, which is
\* why it is not recorded again.
OnceOK ==
  /\ \A i, j \in 1 .. Len(functions) : functions[i] = functions[j] => i = j
  /\ \A i \in 1 .. Len(functions) :
       /\ functions[i] \in ImportedNodes
       /\ Declared(LibraryOf(functions[i]), Node(functions[i]).name)

\* The libraries after an import: those before, with no function less, and the
\* name in its library.
LEMMA ImportDeclares ==
  ASSUME IInv, NEW n \in DOMAIN program.nodes, ImportFunction(n)
  PROVE  /\ \A l \in DOMAIN libraries :
              /\ l \in DOMAIN libraries' /\ libraries'[l].name = libraries[l].name
              /\ libraries[l].functions \subseteq libraries'[l].functions
         /\ \E l \in DOMAIN libraries' :
              /\ libraries'[l].name = LibraryOf(n)
              /\ \E g \in libraries'[l].functions : g.hash = ShortHash[Node(n).name]
<1> DEFINE lib   == LibraryOf(n)
           all   == allocate_imported_library(lib)
           entry == [hash |-> ShortHash[Node(n).name], index |-> Len(functions) + 1]
<1>1. libraries' = [l \in DOMAIN all |->
                      IF all[l].name = lib
                        THEN [all[l] EXCEPT !.functions = @ \cup {entry}]
                        ELSE all[l]]
  BY DEF ImportFunction
<1>2. WellFilled(libraries)
  BY DEF IInv, ImportsOK
<1>3. WellFilled(all) /\ NamedIn(all, lib) # {}
  BY <1>2, LibraryAllocated
<1>4. \A l \in DOMAIN libraries : l \in DOMAIN all /\ all[l] = libraries[l]
  <2>1. IsSequence(libraries)
    BY <1>2 DEF WellFilled
  <2>2. CASE Known(lib) = {}
    <3> DEFINE new == [name |-> lib, functions |-> {}]
    <3>1. all = Append(libraries, new)
      BY <2>2 DEF allocate_imported_library, NewLibrary
    <3> HIDE DEF new, all
    <3>2. /\ Len(libraries) \in Nat /\ DOMAIN libraries = 1 .. Len(libraries)
          /\ DOMAIN all = 1 .. Len(libraries) + 1
          /\ \A i \in 1 .. Len(libraries) : all[i] = libraries[i]
      BY <2>1, <3>1, AppendTo
    <3> QED BY <3>2
  <2>3. CASE Known(lib) # {}
    BY <2>3 DEF allocate_imported_library
  <2> QED BY <2>2, <2>3
<1>5. entry.hash = ShortHash[Node(n).name]
  OBVIOUS
<1> HIDE DEF all, entry, lib
<1>6. DOMAIN libraries' = DOMAIN all
  BY <1>1
<1>7. ASSUME NEW l \in DOMAIN all
      PROVE  /\ libraries'[l].name = all[l].name
             /\ libraries'[l].functions =
                  IF all[l].name = lib THEN all[l].functions \cup {entry}
                                       ELSE all[l].functions
  <2>1. all[l] = [name |-> all[l].name, functions |-> all[l].functions]
    BY <1>3 DEF WellFilled, IsLibrary
  <2>2. CASE all[l].name = lib
    <3>1. libraries'[l] = [all[l] EXCEPT !.functions = @ \cup {entry}]
      BY <1>1, <2>2
    <3>2. libraries'[l] = [name |-> all[l].name,
                           functions |-> all[l].functions \cup {entry}]
      BY <2>1, <3>1
    <3> QED BY <2>2, <3>2
  <2>3. CASE all[l].name # lib
    BY <1>1, <2>3
  <2> QED BY <2>2, <2>3
<1>8. \A l \in DOMAIN libraries :
        /\ l \in DOMAIN libraries' /\ libraries'[l].name = libraries[l].name
        /\ libraries[l].functions \subseteq libraries'[l].functions
  BY <1>4, <1>6, <1>7
<1>9. PICK l \in DOMAIN all : all[l].name = lib
  BY <1>3 DEF NamedIn
<1>10. libraries'[l].name = lib /\ entry \in libraries'[l].functions
  BY <1>7, <1>9
<1> QED BY <1>5, <1>6, <1>8, <1>9, <1>10 DEF lib

LEMMA ImportKeepsOnce ==
  ASSUME IInv, OnceOK, NEW n \in DOMAIN program.nodes, ImportFunction(n)
  PROVE  OnceOK'
<1> DEFINE next == Len(functions) + 1
<1>1. /\ WalksTo(n, {"function"}) /\ Node(n).modified /\ DllImports(n) # {}
      /\ ~Declared(LibraryOf(n), Node(n).name)
      /\ functions' = Append(functions, n) /\ UNCHANGED program
  BY DEF ImportFunction
<1>2. functions \in Seq(DOMAIN program.nodes)
  BY DEF IInv, ImportsOK
<1>3. /\ Len(functions) \in Nat /\ Len(functions') = next
      /\ \A i \in 1 .. Len(functions) : functions'[i] = functions[i]
      /\ functions'[next] = n
  BY <1>1, <1>2
<1>4. n \in ImportedNodes /\ ImportedNodes' = ImportedNodes
  BY <1>1 DEF ImportedNodes, WalksTo, DllImports, Kind, Node
<1>5. \A m : LibraryOf(m)' = LibraryOf(m) /\ Node(m)' = Node(m)
  BY <1>1 DEF LibraryOf, DllImports, Node
<1> DEFINE DeclaredAfter(lib, f) ==
      \E l \in DOMAIN libraries' :
        libraries'[l].name = lib /\ \E g \in libraries'[l].functions : g.hash = ShortHash[f]
<1>6. \A lib, f : Declared(lib, f) => DeclaredAfter(lib, f)
  <2> TAKE lib, f
  <2> HAVE Declared(lib, f)
  <2>1. PICK l \in DOMAIN libraries :
          libraries[l].name = lib /\ \E g \in libraries[l].functions : g.hash = ShortHash[f]
    BY DEF Declared, Known
  <2>2. /\ l \in DOMAIN libraries' /\ libraries'[l].name = libraries[l].name
        /\ libraries[l].functions \subseteq libraries'[l].functions
    BY ImportDeclares
  <2> QED BY <2>1, <2>2 DEF Declared, Known
<1>7. Declared(LibraryOf(n), Node(n).name)'
  BY <1>5, ImportDeclares DEF Declared, Known
<1>8. \A i \in 1 .. next : i = next \/ i \in 1 .. Len(functions)
  BY <1>3
<1>9. \A i \in 1 .. Len(functions) : functions[i] # n
  BY <1>1 DEF OnceOK
<1> HIDE DEF next, DeclaredAfter
<1>10. \A i, j \in 1 .. next : functions'[i] = functions'[j] => i = j
  BY <1>3, <1>8, <1>9 DEF OnceOK
<1>11. ASSUME NEW i \in 1 .. next
       PROVE  functions'[i] \in ImportedNodes' /\ Declared(LibraryOf(functions[i]), Node(functions[i]).name)'
  <2>1. CASE i = next
    <3>1. functions'[i] = n /\ functions'[i] \in ImportedNodes'
      BY <1>3, <1>4, <2>1
    <3>2. LibraryOf(functions[i])' = LibraryOf(n)' /\ (Node(functions[i]).name)' = (Node(n).name)'
      BY <3>1 DEF LibraryOf, DllImports, Node
    <3> QED BY <1>7, <3>1, <3>2 DEF Declared, Known
  <2>2. CASE i # next
    <3>1. i \in 1 .. Len(functions) /\ functions'[i] = functions[i]
      BY <1>3, <1>8, <2>2
    <3> DEFINE m == functions[i]
    <3>2. Declared(LibraryOf(m), Node(m).name) /\ m \in ImportedNodes
      BY <3>1 DEF OnceOK
    <3>3. LibraryOf(functions[i])' = LibraryOf(m) /\ (Node(functions[i]).name)' = Node(m).name
      BY <1>1, <3>1 DEF LibraryOf, DllImports, Node
    <3>4. DeclaredAfter(LibraryOf(m), Node(m).name)
      BY <1>6, <3>2
    <3>5. Declared(LibraryOf(functions[i]), Node(functions[i]).name)'
      <4> HIDE DEF m
      <4> QED BY <3>3, <3>4 DEF Declared, Known, DeclaredAfter
    <3> QED BY <1>4, <3>1, <3>2, <3>5
  <2> QED BY <2>1, <2>2
<1> QED BY <1>3, <1>10, <1>11 DEF OnceOK

LEMMA StepKeepsOnce ==
  ASSUME IInv, OnceOK, [Next]_vars
  PROVE  OnceOK'
<1>1. CASE \E n \in DOMAIN program.nodes : ImportFunction(n)
  BY <1>1, ImportKeepsOnce
<1>2. CASE ~\E n \in DOMAIN program.nodes : ImportFunction(n)
  <2>1. UNCHANGED <<program, libraries, functions>>
    <3>1. CASE \E n \in DOMAIN program.nodes : WalkString(n)
      BY <3>1 DEF WalkString, imports
    <3>2. CASE ~\E n \in DOMAIN program.nodes : WalkString(n)
      BY <1>2, <3>2, OtherStepsRecordNothing DEF Recorded, imports
    <3> QED BY <3>1, <3>2
  <2> QED BY <2>1 DEF OnceOK, ImportedNodes, Declared, Known, LibraryOf, DllImports, Kind, Node
<1> QED BY <1>1, <1>2

----------------------------------------------------------------------------
(* The end of a generation *)

\* The recursive function of StatementsOf, up to k.
WithNext(p, nodes) == nodes \cup UNION {StatementsAfter(p, n) : n \in nodes}
IsMet(p, k, f) ==
  f = [i \in 0 .. k |-> IF i = 0 THEN {1} ELSE WithNext(p, f[i - 1])]

LEMMA MetExists ==
  ASSUME NEW p, NEW n \in Nat
  PROVE  \E f : IsMet(p, n, f)
<1> DEFINE P(m) == \E f : IsMet(p, m, f)
           S == {m \in 0 .. n : ~ P(m)}
           body(i, x) == IF i = 0 THEN {1} ELSE WithNext(p, x)
<1>1. SUFFICES ASSUME S # {} PROVE FALSE
  OBVIOUS
<1>2. PICK m \in S : \A k \in S : m <= k
  <2>1. S \subseteq Nat
    OBVIOUS
  <2> HIDE DEF S
  <2> QED BY <1>1, <2>1, LeastNumber
<1>a. \A k, f : f = [i \in 0 .. k |-> body(i, f[i - 1])] => IsMet(p, k, f)
  BY Zenon DEF IsMet
<1>b. \A k, f : IsMet(p, k, f) => f = [i \in 0 .. k |-> body(i, f[i - 1])]
  BY Zenon DEF IsMet
<1>c. \A x : body(0, x) = {1}
  OBVIOUS
<1> HIDE DEF body
<1>3. m # 0
  <2> DEFINE f == [i \in 0 .. 0 |-> {1}]
  <2>1. \A i \in 0 .. 0 : i = 0
    OBVIOUS
  <2>2. f = [i \in 0 .. 0 |-> body(i, f[i - 1])]
    BY <1>c, <2>1
  <2>3. P(0)
    <3> HIDE DEF f
    <3> QED BY <1>a, <2>2
  <2> QED BY <1>2, <2>3
<1>4. m - 1 \in 0 .. n /\ m \in Nat \ {0} /\ m <= n
  BY <1>2, <1>3
<1>5. P(m - 1)
  BY <1>2, <1>4
<1>6. PICK f : IsMet(p, m - 1, f)
  BY <1>5
<1>7. f = [i \in 0 .. m - 1 |-> body(i, f[i - 1])]
  BY <1>b, <1>6
<1> DEFINE g == [i \in 0 .. m |-> IF i = m THEN body(m, f[m - 1]) ELSE f[i]]
<1>8. \A i \in 0 .. m : g[i] = body(i, g[i - 1])
  <2> TAKE i \in 0 .. m
  <2>1. CASE i = 0
    <3>1. g[0] = f[0] /\ 0 \in 0 .. m - 1
      BY <1>4
    <3>2. f[0] = body(0, f[0 - 1])
      BY <1>7, <3>1
    <3> QED BY <1>c, <2>1, <3>1, <3>2
  <2>2. CASE i # 0
    <3>1. i - 1 \in 0 .. m /\ i - 1 # m /\ g[i - 1] = f[i - 1]
      BY <1>4, <2>2
    <3>2. CASE i = m
      BY <3>1, <3>2
    <3>3. CASE i # m
      <4>1. i \in 0 .. m - 1 /\ g[i] = f[i]
        BY <1>4, <3>3
      <4>2. f[i] = body(i, f[i - 1])
        BY <1>7, <4>1
      <4> QED BY <3>1, <4>1, <4>2
    <3> QED BY <3>2, <3>3
  <2> QED BY <2>1, <2>2
<1>9. g = [i \in 0 .. m |-> body(i, g[i - 1])]
  BY <1>8
<1> HIDE DEF g
<1>10. P(m)
  BY <1>a, <1>9
<1> QED BY <1>2, <1>10

\* A set of nodes with the first one and what comes after its own has every
\* statement.
LEMMA ClosedHasStatements ==
  ASSUME NEW p, Len(p.nodes) \in Nat, NEW V, 1 \in V,
         \A v \in V : StatementsAfter(p, v) \subseteq V
  PROVE  StatementsOf(p) \subseteq V
<1> DEFINE top == Len(p.nodes)
           f   == CHOOSE g : IsMet(p, top, g)
<1>1. IsMet(p, top, f)
  <2> HIDE DEF top
  <2>1. \E g : IsMet(p, top, g)
    BY MetExists DEF top
  <2> QED BY <2>1, Zenon
<1>2. StatementsOf(p) = f[top]
  BY Zenon DEF StatementsOf, IsMet, WithNext
<1> HIDE DEF f
<1> DEFINE S == {i \in 0 .. top : ~ (f[i] \subseteq V)}
<1>3. ASSUME S # {} PROVE FALSE
  <2>1. S \subseteq Nat
    OBVIOUS
  <2>2. PICK i \in S : \A j \in S : i <= j
    <3> HIDE DEF S
    <3> QED BY <1>3, <2>1, LeastNumber
  <2>3. f[i] = IF i = 0 THEN {1} ELSE WithNext(p, f[i - 1])
    <3> HIDE DEF top
    <3> QED BY <1>1, <2>2 DEF IsMet
  <2>4. i # 0
    BY <2>2, <2>3
  <2>5. i - 1 \in 0 .. top /\ ~ (i <= i - 1)
    BY <2>2, <2>4
  <2>6. f[i - 1] \subseteq V
    BY <2>2, <2>5
  <2>7. WithNext(p, f[i - 1]) \subseteq V
    BY <2>6 DEF WithNext
  <2> QED BY <2>2, <2>3, <2>4, <2>7
<1>4. top \in 0 .. top
  OBVIOUS
<1> QED BY <1>2, <1>3, <1>4

JInv == IInv /\ CallsOK /\ WalkedOK /\ OnceOK

LEMMA JInvStarts == Init => JInv
<1> SUFFICES ASSUME Init PROVE JInv
  OBVIOUS
<1>1. OnceOK
  BY DEF Init, OnceOK
<1> QED BY <1>1, InitHolds, WalkStarts DEF JInv

LEMMA JInvKept == JInv /\ [Next]_vars => JInv'
BY NextKeeps, StepKeepsWalk, StepKeepsOnce DEF JInv

\* At every step of a generation, there is a set of nodes from which every
\* statement is reached or waits in a call, with its imports recorded; and a
\* function recorded has its name declared in its library.
THEOREM WalkInvariance == Spec => []JInv
<1> QED BY JInvStarts, JInvKept, PTL DEF Spec

\* Whatever the program, the reserves are never outgrown, an entry of a library
\* leads to a recorded function and a call is of a node of the tree.
THEOREM TypeCorrect == Spec => []TypeOK
<1>1. JInv => TypeOK
  <2> SUFFICES ASSUME JInv PROVE TypeOK
    OBVIOUS
  <2>1. current_RVA \in Nat /\ Reserved
    BY DEF JInv, IInv, ReadOnlyDataOK, ImportsOK
  <2>2. \A l \in DOMAIN libraries : \A g \in libraries[l].functions :
          g.index \in DOMAIN functions
    BY DEF JInv, IInv, ImportsOK, WellFilled
  <2>3. \A i \in DOMAIN calls : calls[i].node \in {Null} \cup DOMAIN program.nodes
    BY IndexesOf DEF JInv, CallsOK, CallsOf, IsCall
  <2> QED BY <2>1, <2>2, <2>3 DEF TypeOK, Reserved
<1> QED BY <1>1, WalkInvariance, PTL

\* Whatever the program, a generation that ends has recorded every imported
\* function once, in the table of its own library, and no library twice.
THEOREM ImportsAlwaysRecorded == Spec => []ImportsRecorded
<1>1. JInv => ImportsRecorded
  <2> SUFFICES ASSUME JInv, status = "done" PROVE ImportsRecorded
    BY DEF ImportsRecorded
  <2> USE DEF JInv
  <2>1. functions \in Seq(DOMAIN program.nodes) /\ DOMAIN functions = 1 .. Len(functions)
    BY DEF IInv, ImportsOK
  <2>2. IsInjective(functions)
    BY <2>1 DEF OnceOK, IsInjective
  <2>3. ToSet(functions) \subseteq ImportedNodes
    BY <2>1 DEF OnceOK, ToSet
  <2>4. PICK V \in SUBSET DOMAIN program.nodes : Visited(V, calls, functions)
    BY DEF WalkedOK
  <2>5. \A m : ~ Pending(calls, m)
    <3>1. calls = <<>> /\ Len(calls) = 0
      BY OneIsSequence DEF WalkedOK
    <3>2. 1 .. 0 = {}
      OBVIOUS
    <3> QED BY <3>1, <3>2 DEF Pending
  <2>6. StatementsOf(program) \subseteq V
    <3>1. 1 \in V /\ \A v \in V : StatementsAfter(program, v) \subseteq V
      BY <2>4, <2>5 DEF Visited
    <3>2. Len(program.nodes) \in Nat
      <4>1. program.nodes \in Seq(ToSet(program.nodes))
        BY TreeAssumption DEF IInv
      <4> QED BY <4>1
    <3> QED BY <3>1, <3>2, ClosedHasStatements
  <2>7. ImportedNodes \subseteq V
    <3>1. {n \in DOMAIN program.nodes : program.nodes[n].kind = "function"}
            \subseteq StatementsOf(program)
      BY TreeAssumption DEF IInv
    <3> QED BY <2>6, <3>1 DEF ImportedNodes, Kind, Node
  <2>8. ImportedNodes \subseteq ToSet(functions)
    BY <2>1, <2>4, <2>7 DEF Visited, ToSet
  <2>9. /\ \A i, j \in DOMAIN libraries :
             libraries[i].name = libraries[j].name => i = j
        /\ \A i \in DOMAIN functions :
             {l \in DOMAIN libraries :
                \E g \in libraries[l].functions : g.index = i}
               = Known(LibraryOf(functions[i]))
    <3>1. WellFilled(libraries)
      BY DEF IInv, ImportsOK
    <3> QED BY <2>1, <3>1 DEF WellFilled, Holding, NamedIn, Known
  <2> QED BY <2>2, <2>3, <2>8, <2>9 DEF ImportsRecorded
<1> QED BY <1>1, WalkInvariance, PTL
=============================================================================
