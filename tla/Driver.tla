-------------------------------- MODULE Driver --------------------------------
(***************************************************************************)
(* A run of the compiler (main.cpp), with the files it opens, reads and    *)
(* writes (fstd/system/file.cpp), the process of dot.exe and the PAUSE of  *)
(* the console (fstd/system/process.cpp, fstd/os/windows/console.cpp).     *)
(*                                                                         *)
(* What the phases do is in the modules of their own: here a program says  *)
(* where it is refused and which trees it gives, and DotOutput what a      *)
(* drawing of one is: here it is a parameter.  The content of a file is a  *)
(* sequence, and a file that does not exist has none.  Any call of the     *)
(* system may fail.                                                        *)
(***************************************************************************)
EXTENDS Integers, Sequences

CONSTANTS
  Programs,           \* by name: tokens, lexes, parses, resolves, ast, tables
  CommandLines,       \* sequences of arguments, the executable left out
  Files,              \* the paths
  Initially,          \* what the files hold before
  Builds,             \* the values of ENABLE_DOT_OUTPUT
  Draw(_, _, _),      \* the drawing of a program's AST or symbol tables, by the
                      \* path it is written to, from a number of nodes on
  NbWrites            \* bound: the writes the executable is made of

ASSUME FilesAssumption ==
  {"AST.dot", "scope.dot"} \subseteq Files /\ DOMAIN Initially = Files
ASSUME CommandLinesAssumption == CommandLines \subseteq Seq(Files)
ASSUME WritesAssumption == NbWrites \in Nat \ {0}
ASSUME BuildsAssumption == Builds \subseteq BOOLEAN

Absent == <<[line |-> "absent"]>>
DotFiles == {"AST.dot", "scope.dot"}

Running == -1
Success == 0
Failure == 1      \* exit_process(1), when a debugger goes on after the assertion
Crashed == 2      \* by an assertion or by an access

VARIABLES
  ENABLE_DOT_OUTPUT, arguments, debugger,
  g_allocated_console,
  step,
  files, opened,              \* the files, and those with a handle
  file_buffer,                \* what was read of the source
  ast_root, symbol_table_root,\* 0 is null, "unset" was never assigned
  ast_nodes, table_nodes,     \* nb_nodes of both functions
  faults,                     \* the failures that nobody looked at
  exit

environment == <<ENABLE_DOT_OUTPUT, arguments, debugger, g_allocated_console>>
disk == <<files, opened>>
roots == <<ast_root, symbol_table_root>>
counts == <<ast_nodes, table_nodes>>
vars == <<environment, step, disk, file_buffer, roots, counts, faults, exit>>

Input == arguments[1]
Output == arguments[2]
NoSource == [tokens |-> FALSE, lexes |-> TRUE, parses |-> TRUE, resolves |-> TRUE]
Source ==
  IF file_buffer = <<>> THEN NoSource ELSE Programs[Head(file_buffer).program]

----------------------------------------------------------------------------
(* Steps, and their ends *)

Goes(from, to) == step = from /\ step' = to /\ exit' = Running
\* report_error with an error ends the compilation by an assertion; the
\* process ends there, or goes on to exit_process(1) under a debugger.  The
\* handles are closed with the process, and nothing is deferred.
abort_compilation ==
  /\ step' = "ended"
  /\ exit' \in IF debugger THEN {Crashed, Failure} ELSE {Crashed}
  /\ opened' = {}
Crash == step' = "ended" /\ exit' = Crashed /\ opened' = {}

CanOpen(path) == path \notin opened
open_file(path) == CanOpen(path) /\ opened' = opened \cup {path}
NeverClosed(path) == opened' = opened
close_file(path) == opened' = opened \ {path}
\* CREATE_ALWAYS empties the file.
create_file(path) == open_file(path) /\ files' = [files EXCEPT ![path] = <<>>]

----------------------------------------------------------------------------
(* Starting *)

Init ==
  /\ ENABLE_DOT_OUTPUT \in Builds
  /\ arguments \in CommandLines /\ debugger \in BOOLEAN
  /\ g_allocated_console = FALSE
  /\ step = "console"
  /\ files = Initially /\ opened = {}
  /\ file_buffer = <<>>
  /\ ast_root = "unset" /\ symbol_table_root = "unset"
  /\ ast_nodes = 0 /\ table_nodes = 0
  /\ faults = {}
  /\ exit = Running

\* A console is allocated when there is no window.
EnableConsole ==
  /\ Goes("console", "arguments")
  /\ g_allocated_console' \in BOOLEAN
  /\ UNCHANGED <<ENABLE_DOT_OUTPUT, arguments, debugger, disk, file_buffer, roots, counts, faults>>

CheckArguments ==
  /\ Len(arguments) = 2
  /\ Goes("arguments", "open_source")
  /\ UNCHANGED <<environment, disk, file_buffer, roots, counts, faults>>
RefuseArguments ==
  /\ step = "arguments" /\ Len(arguments) # 2
  /\ abort_compilation
  /\ UNCHANGED <<environment, files, file_buffer, roots, counts, faults>>

----------------------------------------------------------------------------
(* The source *)

OpenSourceCreated ==
  /\ Goes("open_source", "read") /\ files[Input] # Absent
  /\ create_file(Input)
  /\ UNCHANGED <<environment, file_buffer, roots, counts, faults>>
OpenSource ==
  /\ Goes("open_source", "read") /\ files[Input] # Absent
  /\ open_file(Input)
  /\ UNCHANGED <<environment, files, file_buffer, roots, counts, faults>>
OpenSourceFails ==
  /\ step = "open_source"
  /\ abort_compilation
  /\ UNCHANGED <<environment, files, file_buffer, roots, counts, faults>>

get_file_content ==
  /\ Goes("read", "lex")
  /\ \/ file_buffer' = files[Input] /\ UNCHANGED faults
     \/ file_buffer' = <<>> /\ faults' = faults \cup {"read"}
  /\ UNCHANGED <<environment, disk, roots, counts>>

lex ==
  /\ Goes("lex", "parse")
  /\ Source.lexes
  /\ close_file(Input)
  /\ UNCHANGED <<environment, files, file_buffer, roots, counts, faults>>
LexError ==
  /\ step = "lex" /\ ~Source.lexes
  /\ abort_compilation
  /\ UNCHANGED <<environment, files, file_buffer, roots, counts, faults>>

NoTokens == ~Source.tokens
AfterParse == IF ENABLE_DOT_OUTPUT THEN "open_AST.dot" ELSE "ir"
\* Without a token parse returns first, and the result was not initialised:
\* what the roots hold by then is null or any address.
parse ==
  /\ Goes("parse", AfterParse)
  /\ Source.parses
  /\ IF NoTokens
       THEN ast_root' \in {"null", "wild"} /\ symbol_table_root' \in {"null", "wild"}
       ELSE ast_root' = "set" /\ symbol_table_root' = "set"
  /\ UNCHANGED <<environment, disk, file_buffer, counts, faults>>
ParseError ==
  /\ step = "parse" /\ ~Source.parses
  /\ abort_compilation
  /\ UNCHANGED <<environment, files, file_buffer, roots, counts, faults>>

----------------------------------------------------------------------------
(* The graphs *)

RootOf(path) == IF path = "AST.dot" THEN ast_root ELSE symbol_table_root
CountOf(path) == IF path = "AST.dot" THEN ast_nodes ELSE table_nodes
Undrawn(path) == [text |-> <<>>, nb_nodes |-> CountOf(path), asserted |-> FALSE]
Drawing(path) ==
  IF RootOf(path) = "set" THEN Draw(path, Source, CountOf(path)) ELSE Undrawn(path)

\* The steps of a graph.
Opening(path) == IF path = "AST.dot" THEN "open_AST.dot" ELSE "open_scope.dot"
Writing(path) == IF path = "AST.dot" THEN "write_AST.dot" ELSE "write_scope.dot"
Converting(path) ==
  IF path = "AST.dot" THEN "convert_AST.dot" ELSE "convert_scope.dot"
Waiting(path) ==
  IF path = "AST.dot" THEN "wait_for_AST.dot" ELSE "wait_for_scope.dot"
Then(path) == IF path = "AST.dot" THEN "open_scope.dot" ELSE "ir"

OpenDot(path) ==
  /\ Goes(Opening(path), Writing(path))
  /\ create_file(path)
  /\ UNCHANGED <<environment, file_buffer, roots, counts, faults>>
\* It is said, and the conversion is tried all the same.
OpenDotFails(path) ==
  /\ Goes(Opening(path), Converting(path))
  /\ UNCHANGED <<environment, disk, file_buffer, roots, counts, faults>>

generate_dot_file(path) ==
  LET drawing == Drawing(path)
  IN  /\ Goes(Writing(path), Converting(path))
      /\ RootOf(path) # "wild" /\ ~drawing.asserted
      /\ close_file(path)
      /\ IF path = "AST.dot" THEN ast_nodes' = drawing.nb_nodes /\ UNCHANGED table_nodes
                             ELSE table_nodes' = drawing.nb_nodes /\ UNCHANGED ast_nodes
      /\ \/ files' = [files EXCEPT ![path] = drawing.text] /\ UNCHANGED faults
         \/ faults' = faults \cup {path} /\ UNCHANGED files
      /\ UNCHANGED <<environment, file_buffer, roots>>
DotCrashes(path) ==
  /\ step = Writing(path)
  /\ RootOf(path) = "wild" \/ Drawing(path).asserted
  /\ Crash
  /\ UNCHANGED <<environment, files, file_buffer, roots, counts, faults>>

convert_dot_file_to_png(path) ==
  /\ Goes(Converting(path), Waiting(path))
  /\ UNCHANGED <<environment, disk, file_buffer, roots, counts, faults>>
\* A warning, and what dot.exe returned is not looked at.
ConvertFails(path) ==
  /\ Goes(Converting(path), Then(path))
  /\ UNCHANGED <<environment, disk, file_buffer, roots, counts, faults>>
DotExeEnds(path) ==
  /\ Goes(Waiting(path), Then(path))
  /\ UNCHANGED <<environment, disk, file_buffer, roots, counts, faults>>

----------------------------------------------------------------------------
(* The executable *)

generate_ir ==
  /\ Goes("ir", "open_output")
  /\ ast_root # "wild" /\ Source.resolves
  /\ UNCHANGED <<environment, disk, file_buffer, roots, counts, faults>>
IRError ==
  /\ step = "ir" /\ ~Source.resolves
  /\ abort_compilation
  /\ UNCHANGED <<environment, files, file_buffer, roots, counts, faults>>
IRCrashes ==
  /\ step = "ir" /\ ast_root = "wild"
  /\ Crash
  /\ UNCHANGED <<environment, files, file_buffer, roots, counts, faults>>

OpenOutput ==
  /\ Goes("open_output", "write_output")
  /\ create_file(Output)
  /\ UNCHANGED <<environment, file_buffer, roots, counts, faults>>
OpenOutputFails ==
  /\ step = "open_output"
  /\ abort_compilation
  /\ UNCHANGED <<environment, files, file_buffer, roots, counts, faults>>

\* The executable of a content is its parts, by their number; what a write
\* that fails should have written is not there.
Part(content, i) == [part |-> i, content |-> content]
PartsOf(content, written) == [i \in written |-> Part(content, i)]
Image(content) == PartsOf(content, 1 .. NbWrites)
compile ==
  /\ Goes("write_output", "close_console")
  /\ \E written \in SUBSET (1 .. NbWrites) :
       /\ files' = [files EXCEPT ![Output] = PartsOf(file_buffer, written)]
       /\ faults' = IF written = 1 .. NbWrites THEN faults
                    ELSE faults \cup {"executable"}
  /\ close_file(Output)
  /\ UNCHANGED <<environment, file_buffer, roots, counts>>

\* The user ends the PAUSE; without a process the wait returns at once.
CloseConsole ==
  /\ g_allocated_console \/ debugger
  /\ Goes("close_console", "pause")
  /\ UNCHANGED <<environment, disk, file_buffer, roots, counts, faults>>
Exit ==
  /\ step = "pause" \/ (step = "close_console" /\ ~g_allocated_console /\ ~debugger)
  /\ step' = "ended" /\ exit' = Success
  /\ UNCHANGED <<environment, disk, file_buffer, roots, counts, faults>>

Next ==
  \/ EnableConsole \/ CheckArguments \/ RefuseArguments
  \/ OpenSource \/ OpenSourceFails \/ get_file_content \/ lex \/ LexError
  \/ parse \/ ParseError
  \/ \E path \in DotFiles :
       \/ OpenDot(path) \/ OpenDotFails(path) \/ generate_dot_file(path)
       \/ DotCrashes(path) \/ convert_dot_file_to_png(path) \/ ConvertFails(path)
       \/ DotExeEnds(path)
  \/ generate_ir \/ IRError \/ IRCrashes \/ OpenOutput \/ OpenOutputFails \/ compile
  \/ CloseConsole \/ Exit

Spec == Init /\ [][Next]_vars

----------------------------------------------------------------------------
(* Properties *)

\* A compilation that fails, wherever it does, leaves every file as it was but
\* those of the graphs: the executable of before is emptied only after the last
\* check.
FailureKeepsFiles ==
  exit \in {Failure, Crashed} =>
    \A path \in Files \ DotFiles : files[path] = Initially[path]

\* A process that returns 0 closed its files, and the executable is the whole
\* image of the source that was there exactly when no write failed, and no read of
\* a source that is not empty: neither of them is told.  The source is as it was,
\* if it has not the name of the executable, nor of a graph.
SuccessExactly ==
  /\ exit = Success =>
       /\ opened = {}
       /\ files[Output] = Image(Initially[Input])
            <=> /\ "executable" \notin faults
                /\ "read" \in faults => Initially[Input] = <<>>
  /\ exit = Success /\ Input \notin {Output} \cup DotFiles =>
       files[Input] = Initially[Input]
=============================================================================
