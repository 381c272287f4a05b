----------------------------- MODULE DriverProofs -----------------------------
(***************************************************************************)
(* What a run of the compiler does to its files, proved for any programs,  *)
(* any files and command lines, any drawing of the graphs and any number   *)
(* of writes.                                                              *)
(*                                                                         *)
(* The properties speak of the end of a run: the invariant IInv says what  *)
(* holds at every step on the way there.  Its parts are the handle that is *)
(* open at each step, the files that are not touched yet, what the buffer  *)
(* of the source holds, and which parts of the executable are there.       *)
(***************************************************************************)
EXTENDS Driver, TLAPS

BeforeRead == {"console", "arguments", "open_source", "read"}
Written == {"close_console", "pause"}
Steps ==
  BeforeRead \cup {"lex", "parse"} \cup {Opening(path) : path \in DotFiles}
  \cup {Writing(path) : path \in DotFiles} \cup {Converting(path) : path \in DotFiles}
  \cup {Waiting(path) : path \in DotFiles}
  \cup {"ir", "open_output", "write_output", "ended"} \cup Written

\* The executable was written, whatever became of its writes.
Compiled == step \in Written \/ exit = Success
HasSource == step \notin {"console", "arguments", "ended"} \/ exit = Success

HandleOf(s) ==
  CASE s \in {"read", "lex"}   -> {Input}
    [] s = "write_AST.dot"     -> {"AST.dot"}
    [] s = "write_scope.dot"   -> {"scope.dot"}
    [] s = "write_output"      -> {Output}
    [] OTHER                   -> {}

\* The values that do not depend on what the phases do.
TypeOK ==
  /\ arguments \in CommandLines
  /\ step \in Steps
  /\ DOMAIN files = Files
  /\ step = "ended" => exit \in {Success, Failure, Crashed}
  /\ step # "ended" => exit = Running
HandlesOK == opened = HandleOf(step)
ArgumentsOK == HasSource => Len(arguments) = 2
KeptOK ==
  /\ step \in BeforeRead => files = Initially
  /\ ~Compiled /\ step # "write_output" =>
       \A path \in Files \ DotFiles : files[path] = Initially[path]
SourceKept ==
  Len(arguments) = 2 /\ Input \notin {Output} \cup DotFiles =>
    files[Input] = Initially[Input]
BufferOK ==
  /\ step \in BeforeRead => "read" \notin faults
  /\ HasSource /\ step \notin BeforeRead =>
       file_buffer = IF "read" \in faults THEN <<>> ELSE Initially[Input]
ExecutableOK ==
  IF Compiled
    THEN \E written \in SUBSET (1 .. NbWrites) :
           /\ files[Output] = PartsOf(file_buffer, written)
           /\ written = 1 .. NbWrites <=> "executable" \notin faults
    ELSE "executable" \notin faults

IInv ==
  TypeOK /\ HandlesOK /\ ArgumentsOK /\ KeptOK /\ SourceKept /\ BufferOK /\ ExecutableOK

\* The parts of an executable tell which were written, and of which source.
LEMMA PartsTell ==
  ASSUME NEW content, NEW other, NEW written \in SUBSET (1 .. NbWrites)
  PROVE  PartsOf(content, written) = Image(other)
           <=> written = 1 .. NbWrites /\ content = other
<1>1. 1 \in 1 .. NbWrites
  BY WritesAssumption
<1>2. ASSUME PartsOf(content, written) = Image(other)
      PROVE  written = 1 .. NbWrites /\ content = other
  <2>1. DOMAIN PartsOf(content, written) = DOMAIN Image(other)
    BY <1>2
  <2>2. written = 1 .. NbWrites
    BY <2>1 DEF PartsOf, Image
  <2>3. PartsOf(content, written)[1].content = content
    BY <2>2, <1>1 DEF PartsOf, Part
  <2>4. Image(other)[1].content = other
    BY <1>1 DEF Image, PartsOf, Part
  <2> QED
    BY <1>2, <2>2, <2>3, <2>4
<1> QED
  BY <1>2 DEF Image

\* A source and an executable are files, whatever the command line is.
LEMMA NamesOK ==
  ASSUME TypeOK, Len(arguments) = 2
  PROVE  Input \in Files /\ Output \in Files
  BY CommandLinesAssumption DEF TypeOK, Input, Output

LEMMA InitInv == Init => IInv
  BY FilesAssumption DEF Init, IInv, TypeOK, HandlesOK, ArgumentsOK, KeptOK, SourceKept,
     BufferOK, ExecutableOK, Compiled, HasSource, HandleOf, Steps, BeforeRead, Written,
     Running, Success, Input

\* The process that ends without a success leaves the files to what they were.
LEMMA EndKeeps ==
  ASSUME IInv, step \notin Written, step \notin {"write_output", "ended"},
         step' = "ended", exit' \in {Failure, Crashed}, opened' = {},
         arguments' = arguments, files' = files, file_buffer' = file_buffer,
         faults' = faults
  PROVE  IInv'
<1>1. ~Compiled
  BY DEF IInv, TypeOK, Compiled, Written, Running, Success, Failure, Crashed
<1>2. ~Compiled' /\ ~HasSource'
  BY DEF Compiled, HasSource, Written, Success, Failure, Crashed
<1>3. TypeOK' /\ HandlesOK' /\ ArgumentsOK'
  BY <1>2 DEF IInv, TypeOK, HandlesOK, HandleOf, ArgumentsOK, Steps
<1>4. KeptOK' /\ SourceKept'
  BY <1>1, <1>2 DEF IInv, KeptOK, SourceKept, BeforeRead, Input, Output
<1>5. BufferOK' /\ ExecutableOK'
  BY <1>1, <1>2 DEF IInv, BufferOK, ExecutableOK, BeforeRead
<1> QED
  BY <1>3, <1>4, <1>5 DEF IInv

LEMMA StepInv == IInv /\ [Next]_vars => IInv'
<1> SUFFICES ASSUME IInv, [Next]_vars PROVE IInv'
  OBVIOUS
<1> USE FilesAssumption
    DEF IInv, HasSource, Compiled, BeforeRead, Written, Running, Success, Failure, Crashed,
        Goes, environment, disk, Input, Output, DotFiles, Opening, Writing, Converting,
        Waiting, Then
<1>1. ASSUME RefuseArguments PROVE IInv'
  BY <1>1, EndKeeps DEF abort_compilation, Crash, RefuseArguments
<1>2. ASSUME OpenSourceFails PROVE IInv'
  BY <1>2, EndKeeps DEF abort_compilation, Crash, OpenSourceFails
<1>3. ASSUME LexError PROVE IInv'
  BY <1>3, EndKeeps DEF abort_compilation, Crash, LexError
<1>4. ASSUME ParseError PROVE IInv'
  BY <1>4, EndKeeps DEF abort_compilation, Crash, ParseError
<1>5. ASSUME IRError PROVE IInv'
  BY <1>5, EndKeeps DEF abort_compilation, Crash, IRError
<1>6. ASSUME IRCrashes PROVE IInv'
  BY <1>6, EndKeeps DEF abort_compilation, Crash, IRCrashes
<1>7. ASSUME OpenOutputFails PROVE IInv'
  BY <1>7, EndKeeps DEF abort_compilation, Crash, OpenOutputFails
<1>8. ASSUME NEW path \in DotFiles, DotCrashes(path) PROVE IInv'
  BY <1>8, EndKeeps DEF abort_compilation, Crash, DotCrashes
<1>9. ASSUME EnableConsole PROVE IInv'
  BY <1>9, NamesOK DEF EnableConsole, TypeOK, HandlesOK, HandleOf, ArgumentsOK, Steps,
     KeptOK, SourceKept, BufferOK, ExecutableOK
<1>10. ASSUME CheckArguments PROVE IInv'
  BY <1>10, NamesOK DEF CheckArguments, TypeOK, HandlesOK, HandleOf, ArgumentsOK, Steps,
     KeptOK, SourceKept, BufferOK, ExecutableOK
<1>11. ASSUME OpenSource PROVE IInv'
  BY <1>11, NamesOK DEF OpenSource, open_file, CanOpen, TypeOK, HandlesOK, HandleOf,
     ArgumentsOK, Steps, KeptOK, SourceKept, BufferOK, ExecutableOK
<1>12. ASSUME get_file_content PROVE IInv'
  BY <1>12, NamesOK DEF get_file_content, TypeOK, HandlesOK, HandleOf, ArgumentsOK,
     Steps, KeptOK, SourceKept, BufferOK, ExecutableOK
<1>13. ASSUME lex PROVE IInv'
  BY <1>13, NamesOK DEF lex, close_file, TypeOK, HandlesOK, HandleOf, ArgumentsOK,
     Steps, KeptOK, SourceKept, BufferOK, ExecutableOK
<1>14. ASSUME parse PROVE IInv'
  BY <1>14, NamesOK DEF parse, AfterParse, TypeOK, HandlesOK, HandleOf, ArgumentsOK,
     Steps, KeptOK, SourceKept, BufferOK, ExecutableOK
<1>15. ASSUME generate_ir PROVE IInv'
  BY <1>15, NamesOK DEF generate_ir, TypeOK, HandlesOK, HandleOf, ArgumentsOK, Steps,
     KeptOK, SourceKept, BufferOK, ExecutableOK
<1>16. ASSUME CloseConsole PROVE IInv'
  BY <1>16, NamesOK DEF CloseConsole, TypeOK, HandlesOK, HandleOf, ArgumentsOK, Steps,
     KeptOK, SourceKept, BufferOK, ExecutableOK
<1>17. ASSUME Exit PROVE IInv'
  BY <1>17, NamesOK DEF Exit, TypeOK, HandlesOK, HandleOf, ArgumentsOK, Steps, KeptOK,
     SourceKept, BufferOK, ExecutableOK
<1>18. ASSUME NEW path \in DotFiles, OpenDotFails(path) PROVE IInv'
  BY <1>18 DEF OpenDotFails, TypeOK, HandlesOK, HandleOf, ArgumentsOK, Steps, KeptOK,
     SourceKept, BufferOK, ExecutableOK
<1>19. ASSUME NEW path \in DotFiles, convert_dot_file_to_png(path) PROVE IInv'
  BY <1>19 DEF convert_dot_file_to_png, TypeOK, HandlesOK, HandleOf, ArgumentsOK, Steps,
     KeptOK, SourceKept, BufferOK, ExecutableOK
<1>20. ASSUME NEW path \in DotFiles, ConvertFails(path) PROVE IInv'
  BY <1>20 DEF ConvertFails, TypeOK, HandlesOK, HandleOf, ArgumentsOK, Steps, KeptOK,
     SourceKept, BufferOK, ExecutableOK
<1>21. ASSUME NEW path \in DotFiles, DotExeEnds(path) PROVE IInv'
  BY <1>21 DEF DotExeEnds, TypeOK, HandlesOK, HandleOf, ArgumentsOK, Steps, KeptOK,
     SourceKept, BufferOK, ExecutableOK
<1>22. ASSUME NEW path \in DotFiles, OpenDot(path) PROVE IInv'
  <2>1. TypeOK' /\ HandlesOK' /\ ArgumentsOK'
    BY <1>22 DEF OpenDot, create_file, open_file, CanOpen, TypeOK, HandlesOK, HandleOf,
       ArgumentsOK, Steps
  <2>2. KeptOK'
    BY <1>22, NamesOK DEF OpenDot, create_file, open_file, CanOpen, KeptOK, TypeOK,
       ArgumentsOK, Steps
  <2>3. SourceKept'
    BY <1>22, NamesOK DEF OpenDot, create_file, open_file, CanOpen, SourceKept, TypeOK,
       ArgumentsOK
  <2>4. BufferOK'
    BY <1>22 DEF OpenDot, create_file, open_file, CanOpen, BufferOK
  <2>5. ExecutableOK'
    BY <1>22 DEF OpenDot, create_file, open_file, CanOpen, ExecutableOK, TypeOK
  <2> QED
    BY <2>1, <2>2, <2>3, <2>4, <2>5
<1>23. ASSUME NEW path \in DotFiles, generate_dot_file(path) PROVE IInv'
  <2>1. TypeOK' /\ HandlesOK' /\ ArgumentsOK'
    BY <1>23 DEF generate_dot_file, close_file, TypeOK, HandlesOK, HandleOf,
       ArgumentsOK, Steps
  <2>2. KeptOK'
    BY <1>23, NamesOK DEF generate_dot_file, close_file, KeptOK, TypeOK, ArgumentsOK,
       Steps
  <2>3. SourceKept'
    BY <1>23, NamesOK DEF generate_dot_file, close_file, SourceKept, TypeOK, ArgumentsOK
  <2>4. BufferOK'
    BY <1>23 DEF generate_dot_file, close_file, BufferOK
  <2>5. ExecutableOK'
    BY <1>23 DEF generate_dot_file, close_file, ExecutableOK, TypeOK
  <2> QED
    BY <2>1, <2>2, <2>3, <2>4, <2>5
<1>24. ASSUME OpenOutput PROVE IInv'
  <2>1. TypeOK' /\ HandlesOK' /\ ArgumentsOK'
    BY <1>24 DEF OpenOutput, create_file, open_file, CanOpen, TypeOK, HandlesOK,
       HandleOf, ArgumentsOK, Steps
  <2>2. KeptOK'
    BY <1>24, NamesOK DEF OpenOutput, create_file, open_file, CanOpen, KeptOK, TypeOK,
       ArgumentsOK, Steps
  <2>3. SourceKept'
    BY <1>24, NamesOK DEF OpenOutput, create_file, open_file, CanOpen, SourceKept,
       TypeOK, ArgumentsOK
  <2>4. BufferOK'
    BY <1>24 DEF OpenOutput, create_file, open_file, CanOpen, BufferOK
  <2>5. ExecutableOK'
    BY <1>24 DEF OpenOutput, create_file, open_file, CanOpen, ExecutableOK, TypeOK
  <2> QED
    BY <2>1, <2>2, <2>3, <2>4, <2>5
<1>25. ASSUME compile PROVE IInv'
  <2>1. TypeOK' /\ HandlesOK' /\ ArgumentsOK'
    BY <1>25 DEF compile, close_file, TypeOK, HandlesOK, HandleOf, ArgumentsOK, Steps
  <2>2. KeptOK'
    BY <1>25, NamesOK DEF compile, close_file, KeptOK, TypeOK, ArgumentsOK, Steps
  <2>3. SourceKept'
    BY <1>25, NamesOK DEF compile, close_file, SourceKept, TypeOK, ArgumentsOK
  <2>4. BufferOK'
    BY <1>25 DEF compile, close_file, BufferOK
  <2>5. ExecutableOK'
    <3>1. PICK written \in SUBSET (1 .. NbWrites) :
            /\ files' = [files EXCEPT ![Output] = PartsOf(file_buffer, written)]
            /\ faults' = IF written = 1 .. NbWrites THEN faults
                         ELSE faults \cup {"executable"}
      BY <1>25 DEF compile
    <3>2. files'[Output'] = PartsOf(file_buffer', written)
      BY <1>25, <3>1, NamesOK DEF compile, TypeOK, ArgumentsOK
    <3>3. "executable" \notin faults
      BY <1>25 DEF compile, ExecutableOK, TypeOK
    <3>4. written = 1 .. NbWrites <=> "executable" \notin faults'
      BY <3>1, <3>3
    <3> QED
      BY <1>25, <3>2, <3>4 DEF compile, ExecutableOK
  <2> QED
    BY <2>1, <2>2, <2>3, <2>4, <2>5
<1>26. CASE UNCHANGED vars
  BY <1>26 DEF vars, TypeOK, HandlesOK, HandleOf, ArgumentsOK, Steps, KeptOK,
     SourceKept, BufferOK, ExecutableOK
<1> QED
  BY <1>1, <1>2, <1>3, <1>4, <1>5, <1>6, <1>7, <1>8, <1>9, <1>10, <1>11, <1>12, <1>13,
     <1>14, <1>15, <1>16, <1>17, <1>18, <1>19, <1>20, <1>21, <1>22, <1>23, <1>24, <1>25,
     <1>26 DEF Next

LEMMA Invariant == Spec => []IInv
  BY InitInv, StepInv, PTL DEF Spec

\* The step, the handles and the command line are what the steps of main.cpp say.
THEOREM TypeCorrect == Spec => []TypeOK
<1>1. IInv => TypeOK
  BY DEF IInv
<1> QED
  BY <1>1, Invariant, PTL

\* At every step the handles are those of its file: no path through the phases,
\* and no call that fails, leaves one behind or closes one twice.
THEOREM HandlesExact == Spec => []HandlesOK
<1>1. IInv => HandlesOK
  BY DEF IInv
<1> QED
  BY <1>1, Invariant, PTL

\* A compilation that fails at any step keeps every file but those of the graphs.
THEOREM FailureKeepsTheFiles == Spec => []FailureKeepsFiles
<1>1. IInv => FailureKeepsFiles
  <2> SUFFICES ASSUME IInv, exit \in {Failure, Crashed}
               PROVE  \A path \in Files \ DotFiles : files[path] = Initially[path]
    BY DEF FailureKeepsFiles
  <2>1. step = "ended"
    BY DEF IInv, TypeOK, Running, Failure, Crashed
  <2> QED
    BY <2>1 DEF IInv, KeptOK, Compiled, Written, Success, Failure, Crashed
<1> QED
  BY <1>1, Invariant, PTL

\* What a success says of the executable and of the source, for every way the
\* calls of the system fail.
THEOREM SuccessIsExact == Spec => []SuccessExactly
<1>1. IInv => SuccessExactly
  <2> SUFFICES ASSUME IInv, exit = Success PROVE SuccessExactly
    BY DEF SuccessExactly
  <2>1. step = "ended" /\ Compiled /\ HasSource
    BY DEF IInv, TypeOK, Running, Success, Compiled, HasSource
  <2>2. opened = {}
    BY <2>1 DEF IInv, HandlesOK, HandleOf
  <2>3. PICK written \in SUBSET (1 .. NbWrites) :
          /\ files[Output] = PartsOf(file_buffer, written)
          /\ written = 1 .. NbWrites <=> "executable" \notin faults
    BY <2>1 DEF IInv, ExecutableOK
  <2>4. file_buffer = IF "read" \in faults THEN <<>> ELSE Initially[Input]
    BY <2>1 DEF IInv, BufferOK, BeforeRead
  <2>5. files[Output] = Image(Initially[Input])
          <=> written = 1 .. NbWrites /\ file_buffer = Initially[Input]
    BY <2>3, PartsTell
  <2>6. Input \notin {Output} \cup DotFiles => files[Input] = Initially[Input]
    BY <2>1 DEF IInv, SourceKept, ArgumentsOK
  <2> QED
    BY <2>2, <2>3, <2>4, <2>5, <2>6 DEF SuccessExactly
<1> QED
  BY <1>1, Invariant, PTL
=============================================================================
