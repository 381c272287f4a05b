----------------------------- MODULE IRGenerator -----------------------------
(***************************************************************************)
(* The IR generator (IR_generator.cpp) and the symbol solver               *)
(* (parser/symbol_solver.cpp): the walk over the tree the parser built,    *)
(* what it records of imported functions and of string literals for the    *)
(* backend, and the resolution of type names.                              *)
(*                                                                         *)
(* The call stack is explicit: parse_ast calls itself for what a node      *)
(* holds and then for the node's sibling, and it is the type of a variable *)
(* that sends it to another place of the tree.  The table of libraries is  *)
(* a map from names (SymbolMap); a library's table of functions is not,    *)
(* because every function goes in under the same key, the library's name.  *)
(***************************************************************************)
EXTENDS Integers, Sequences, SequencesExt, FiniteSets, Functions

CONSTANTS
  Programs,       \* the trees code is generated for
  Library,        \* names of dynamic libraries
  Function,       \* names of functions
  ShortHash,      \* the 16 bits kept of SpookyHash, of every function name
  NB_PREALLOCATED_IMPORTED_LIBRARIES,
  NB_PREALLOCATED_IMPORTED_FUNCTIONS_PER_LIBRARY,
  MaxDepth        \* bound: calls the stack has room for

ASSUME ProgramAssumption ==
  \A p \in Programs : \A n \in DOMAIN p.nodes : p.nodes[n].size \in Nat

\* What the parser gives.  The types of names lead to declarations of the tree, a
\* table is younger than the one it is in, and every function is a statement:
\* met from the module through the children of scopes and of functions, and the
\* siblings of statements.
Null == 0
Statement ==
  {"alias", "struct", "union", "function", "variable", "call", "scope"}
StatementsAfter(p, n) ==
  ((IF p.nodes[n].kind \in Statement THEN {p.nodes[n].sibling} ELSE {})
     \cup (IF p.nodes[n].kind \in {"scope", "function"}
             THEN {p.nodes[n].child} ELSE {})) \ {Null}
StatementsOf(p) ==
  LET met[k \in 0 .. Len(p.nodes)] ==
        IF k = 0 THEN {1}
        ELSE LET before == met[k - 1]
             IN  before \cup UNION {StatementsAfter(p, n) : n \in before}
  IN  met[Len(p.nodes)]
Names == {"user_type", "identifier"}
ASSUME TreeAssumption ==
  \A p \in Programs :
    /\ p.nodes \in Seq(ToSet(p.nodes)) /\ p.tables \in Seq(ToSet(p.tables))
    /\ \A n \in DOMAIN p.nodes :
         /\ p.nodes[n].kind = "alias" => p.nodes[n].type \in DOMAIN p.nodes
         /\ DOMAIN p.nodes[n].modifiers \subseteq Nat
         /\ p.nodes[n].kind \in Names =>
              /\ p.nodes[n].table \in DOMAIN p.tables
              /\ \A t \in DOMAIN p.tables :
                   p.tables[t].user_types[p.nodes[n].name]
                     \in {Null} \cup DOMAIN p.nodes
    /\ \A t \in DOMAIN p.tables : p.tables[t].parent \in 0 .. t - 1
    /\ {n \in DOMAIN p.nodes : p.nodes[n].kind = "function"} \subseteq StatementsOf(p)

ASSUME ReserveAssumption ==
  /\ NB_PREALLOCATED_IMPORTED_LIBRARIES \in Nat
  /\ NB_PREALLOCATED_IMPORTED_FUNCTIONS_PER_LIBRARY \in Nat
  /\ MaxDepth \in Nat \ {0}

VARIABLES
  program,        \* parsing_result: nodes and symbol tables
  calls,          \* the calls of parse_ast and resolve_type under way
  libraries,      \* ir.imported_libraries, in the order of their allocation
  functions,      \* globals.ir_data.imported_functions
  literals,       \* ir.read_only_data.literals
  current_RVA,    \* ir.read_only_data.current_RVA
  status          \* how the generation goes, or ended

imports == <<libraries, functions>>
readOnlyData == <<literals, current_RVA>>
vars == <<program, calls, libraries, functions, literals, current_RVA, status>>

Node(n) == program.nodes[n]
Kind(n) == Node(n).kind

\* A call: of parse_ast with the nodes it has still to call itself for, or of
\* resolve_type.
Walk(n, todo) == [proc |-> "parse_ast", node |-> n, todo |-> todo]
Resolve(n) == [proc |-> "resolve_type", node |-> n, todo |-> <<>>]

Top == calls[Len(calls)]
InWalk == status = "generating" /\ calls # <<>> /\ Top.proc = "parse_ast"
InResolve == status = "generating" /\ calls # <<>> /\ Top.proc = "resolve_type"

\* The node parse_ast is called for next, and the calls when it is.
WalksTo(n, kinds) ==
  /\ InWalk /\ Top.todo # <<>> /\ Len(calls) < MaxDepth
  /\ n = Head(Top.todo)
  /\ Kind(n) \in kinds
Called(n, todo) ==
  Append([calls EXCEPT ![Len(calls)].todo = Tail(@)], Walk(n, todo))
Descend(n, todo) ==
  /\ calls' = Called(n, todo)
  /\ UNCHANGED <<program, imports, readOnlyData, status>>

\* report_error and Assert end the process.
Stop(end) ==
  status' = end /\ UNCHANGED <<program, calls, imports, readOnlyData>>

ChildOf(n) == IF Node(n).child = Null THEN <<>> ELSE <<Node(n).child>>
SiblingOf(n) == IF Node(n).sibling = Null THEN <<>> ELSE <<Node(n).sibling>>

\* generate_ir: empty tables, and the walk of the root.
Init ==
  /\ program \in Programs
  /\ calls = <<Walk(Null, <<1>>)>>
  /\ libraries = <<>>
  /\ functions = <<>>
  /\ literals = <<>>
  /\ current_RVA = 0
  /\ status = "generating"

----------------------------------------------------------------------------
(* symbol_solver.cpp *)

\* The declaration of a type's name in the nearest scope that has one.
get_user_type(n) ==
  LET Found[t \in 0 .. Len(program.tables)] ==
        IF t = Null THEN Null
        ELSE IF program.tables[t].user_types[Node(n).name] # Null
          THEN program.tables[t].user_types[Node(n).name]
          ELSE Found[program.tables[t].parent]
  IN  Found[Node(n).table]

Resolving(kinds) ==
  InResolve /\ Len(calls) < MaxDepth /\ Kind(Top.node) \in kinds
ResolveDeeper(n) ==
  /\ calls' = Append(calls, Resolve(n))
  /\ UNCHANGED <<program, imports, readOnlyData, status>>

resolve_alias ==
  /\ Resolving({"alias"})
  /\ ResolveDeeper(Node(Top.node).type)

resolve_identifier ==
  /\ Resolving(Names)
  /\ IF get_user_type(Top.node) = Null
       THEN Stop("unknown type")
       ELSE ResolveDeeper(get_user_type(Top.node))

\* Every call of resolve_type returns what the last one does, and the walk
\* goes to that type, unless it was of an identifier in an expression.
Caller == SelectLastInSeq(calls, LAMBDA c : c.proc = "parse_ast")
resolve_returns ==
  /\ Resolving({"basic_type", "address_of", "struct"})
  /\ calls' =
       IF Kind(calls[Caller].node) = "user_type"
         THEN [SubSeq(calls, 1, Caller) EXCEPT
                 ![Caller].todo = <<Top.node>> \o @]
         ELSE SubSeq(calls, 1, Caller)
  /\ UNCHANGED <<program, imports, readOnlyData, status>>

resolve_asserts ==
  /\ Resolving({"union", "number", "string", "real", "binary_operator",
                "negative", "call"})
  /\ Stop("assert")

----------------------------------------------------------------------------
(* parse_ast, one action for what it does with some kinds of nodes *)

\* Nothing of its own: the sibling is next.
SkipNode(n) ==
  /\ WalksTo(n, {"alias", "basic_type"})
  /\ Descend(n, SiblingOf(n))
\* The operands of an operator and the arguments of a call are not looked at.
SkipExpression(n) ==
  /\ WalksTo(n, {"binary_operator", "negative", "call"})
  /\ Descend(n, SiblingOf(n))

\* What the node holds, then the sibling: a scope, a struct or a union and
\* its first child, an address and what it is the address of.
WalkOnlyInto(n) ==
  /\ WalksTo(n, {"scope", "struct", "union", "address_of"})
  /\ Descend(n, ChildOf(n))
WalkInto(n) ==
  /\ WalksTo(n, {"scope", "struct", "union", "address_of"})
  /\ Descend(n, ChildOf(n) \o SiblingOf(n))

\* A type by its name: what it stands for is looked up, then walked over as
\* if it stood there.
WalkUserType(n) ==
  /\ WalksTo(n, {"user_type"})
  /\ IF get_user_type(n) = Null
       THEN Stop("unknown type")
       ELSE /\ calls' = Append(Called(n, SiblingOf(n)),
                               Resolve(get_user_type(n)))
            /\ UNCHANGED <<program, imports, readOnlyData, status>>

WalkIdentifier(n) ==
  /\ WalksTo(n, {"identifier"})
  /\ calls' = Append(Called(n, SiblingOf(n)), Resolve(n))
  /\ UNCHANGED <<program, imports, readOnlyData, status>>

\* The sibling of a pointer is what it points to.
WalkPointer(n) ==
  /\ WalksTo(n, {"pointer"})
  /\ Descend(n, SiblingOf(n))

\* The size of an array, or what it is an array of when it has no size.
WalkArray(n) ==
  /\ WalksTo(n, {"array"})
  /\ Descend(n, IF Node(n).child # Null THEN ChildOf(n) ELSE SiblingOf(n))

\* The type of a variable; first, what an array with a size is an array of.
SizedElement(n) ==
  IF Kind(n) = "array" /\ Node(n).child # Null THEN SiblingOf(n) ELSE <<>>
WalkVariable(n) ==
  /\ WalksTo(n, {"variable"})
  /\ IF Node(n).child # Null
       THEN Stop("assert")
       ELSE Descend(n, SizedElement(Node(n).type)
                         \o <<Node(n).type>> \o SiblingOf(n))

WalkNumber(n) ==
  /\ WalksTo(n, {"number"})
  /\ Descend(n, <<>>)

\* A string takes place in the image, with a zero after it.
StringWithoutZero(n) ==
  /\ WalksTo(n, {"string"})
  /\ calls' = Called(n, <<>>)
  /\ literals' = Append(literals,
                        [RVA |-> current_RVA, size |-> Node(n).size + 1])
  /\ current_RVA' = current_RVA + Node(n).size
  /\ UNCHANGED <<program, imports, status>>
WalkString(n) ==
  /\ WalksTo(n, {"string"})
  /\ calls' = Called(n, <<>>)
  /\ literals' = Append(literals,
                        [RVA |-> current_RVA, size |-> Node(n).size + 1])
  /\ current_RVA' = current_RVA + Node(n).size + 1
  /\ UNCHANGED <<program, imports, status>>

\* An enum would stop here too, but the parser makes none.
WalkUnhandled(n) ==
  /\ WalksTo(n, {"real"})
  /\ Stop("assert")

Return ==
  /\ InWalk /\ Top.todo = <<>>
  /\ calls' = Front(calls)
  /\ status' = IF Len(calls) = 1 THEN "done" ELSE status
  /\ UNCHANGED <<program, imports, readOnlyData>>

\* No room for the frame of one more call.
StackExhausted ==
  /\ Len(calls) >= MaxDepth
  /\ InResolve \/ (InWalk /\ Top.todo # <<>>)
  /\ Stop("overflow")

----------------------------------------------------------------------------
(* parse_function_declaration *)

\* The first thing wrong with the modifiers, which are read one by one.
ModifierError(n, i) ==
  LET m == Node(n).modifiers
  IN  IF m[i].name \notin {"win32", "dll_import"} THEN "unknown modifier"
      ELSE IF \E j \in 1 .. i - 1 : m[j].name = m[i].name
        THEN "repeated modifier"
      ELSE IF m[i].name = "win32" THEN "none"
      ELSE IF Node(n).child # Null THEN "implemented import"
      ELSE IF Len(m[i].arguments) # 1 THEN "import arguments"
      ELSE "none"
Analysed(n) ==
  LET wrong == {i \in DOMAIN Node(n).modifiers : ModifierError(n, i) # "none"}
  IN  IF wrong = {} THEN "none"
      ELSE ModifierError(n, CHOOSE i \in wrong : \A j \in wrong : i <= j)

DllImports(n) ==
  {m \in ToSet(Node(n).modifiers) : m.name = "dll_import"}
LibraryOf(n) == (CHOOSE m \in DllImports(n) : TRUE).arguments[1]

\* A function with a body: its return type and its body, then the sibling.
FunctionTodo(n) ==
  (IF Node(n).child # Null /\ Node(n).type # Null THEN <<Node(n).type>>
                                                  ELSE <<>>)
  \o ChildOf(n) \o SiblingOf(n)

\* Without modifiers the field is what the memory of the node held before:
\* nothing, or an address.
FunctionWithoutModifiers(n) ==
  /\ WalksTo(n, {"function"}) /\ ~Node(n).modified
  /\ Descend(n, FunctionTodo(n)) \/ Stop("undefined")

FunctionWrong(n) ==
  /\ WalksTo(n, {"function"}) /\ Node(n).modified
  /\ Analysed(n) # "none"
  /\ Stop(Analysed(n))

FunctionNotImported(n) ==
  /\ WalksTo(n, {"function"}) /\ Node(n).modified
  /\ Analysed(n) = "none" /\ DllImports(n) = {}
  /\ Descend(n, FunctionTodo(n))

\* The library of a name, allocated with the first function imported from it.
Known(lib) == {l \in DOMAIN libraries : libraries[l].name = lib}
NewLibrary(lib) == Append(libraries, [name |-> lib, functions |-> {}])
allocate_imported_library(lib) ==
  IF Known(lib) = {} THEN NewLibrary(lib) ELSE libraries
LibrariesFull(lib) ==
  Known(lib) = {} /\ Len(libraries) >= NB_PREALLOCATED_IMPORTED_LIBRARIES
NeverFull == FALSE
FunctionsFull ==
  Len(functions) >= NB_PREALLOCATED_IMPORTED_LIBRARIES
                      * NB_PREALLOCATED_IMPORTED_FUNCTIONS_PER_LIBRARY

\* A library's functions are found by the hash of the name alone, because
\* their key is the library's name.
NeverDeclared(lib, f) == FALSE
Declared(lib, f) ==
  \E l \in Known(lib) : \E g \in libraries[l].functions :
    g.hash = ShortHash[f]

ImportRefused(n) ==
  /\ WalksTo(n, {"function"}) /\ Node(n).modified
  /\ Analysed(n) = "none" /\ DllImports(n) # {}
  /\ ~LibrariesFull(LibraryOf(n))
  /\ Declared(LibraryOf(n), Node(n).name)
  /\ Stop("already declared")

ImportAsserts(n) ==
  /\ WalksTo(n, {"function"}) /\ Node(n).modified
  /\ Analysed(n) = "none" /\ DllImports(n) # {}
  /\ \/ LibrariesFull(LibraryOf(n))
     \/ FunctionsFull /\ ~Declared(LibraryOf(n), Node(n).name)
  /\ Stop("assert")

ImportFunction(n) ==
  LET lib == LibraryOf(n)
      all == allocate_imported_library(lib)
      entry == [hash |-> ShortHash[Node(n).name],
                index |-> Len(functions) + 1]
  IN  /\ WalksTo(n, {"function"}) /\ Node(n).modified
      /\ Analysed(n) = "none" /\ DllImports(n) # {}
      /\ ~LibrariesFull(lib) /\ ~FunctionsFull
      /\ ~Declared(lib, Node(n).name)
      /\ functions' = Append(functions, n)
      /\ libraries' =
           [l \in DOMAIN all |->
              IF all[l].name = lib
                THEN [all[l] EXCEPT !.functions = @ \cup {entry}]
                ELSE all[l]]
      /\ calls' = Called(n, SiblingOf(n))
      /\ UNCHANGED <<program, readOnlyData, status>>

----------------------------------------------------------------------------
parse_ast(n) ==
  \/ SkipNode(n)
  \/ SkipExpression(n)
  \/ WalkInto(n)
  \/ WalkUserType(n)
  \/ WalkIdentifier(n)
  \/ WalkPointer(n)
  \/ WalkArray(n)
  \/ WalkVariable(n)
  \/ WalkNumber(n)
  \/ WalkString(n)
  \/ WalkUnhandled(n)
parse_function_declaration(n) ==
  \/ FunctionWithoutModifiers(n)
  \/ FunctionWrong(n)
  \/ FunctionNotImported(n)
  \/ ImportRefused(n)
  \/ ImportAsserts(n)
  \/ ImportFunction(n)
resolve_type ==
  resolve_alias \/ resolve_identifier \/ resolve_returns \/ resolve_asserts

Next ==
  \/ \E n \in DOMAIN program.nodes : parse_ast(n) \/ parse_function_declaration(n)
  \/ resolve_type
  \/ Return
  \/ StackExhausted

Spec == Init /\ [][Next]_vars

----------------------------------------------------------------------------
(* Properties *)

\* The two reserves are never outgrown, an entry of a library's table leads to
\* a recorded function, and the calls under way are of nodes of the tree.
TypeOK ==
  /\ current_RVA \in Nat
  /\ Len(libraries) <= NB_PREALLOCATED_IMPORTED_LIBRARIES
  /\ Len(functions) <= NB_PREALLOCATED_IMPORTED_LIBRARIES
                         * NB_PREALLOCATED_IMPORTED_FUNCTIONS_PER_LIBRARY
  /\ \A l \in DOMAIN libraries : \A g \in libraries[l].functions :
       g.index \in DOMAIN functions
  /\ \A i \in DOMAIN calls : calls[i].node \in {Null} \cup DOMAIN program.nodes

\* The literals fill the read only data in the order they were met: the first
\* one is at its start, each one where the one before it ends, its final zero
\* included, and the next one goes where the last one ends.
EndOf(literal) == literal.RVA + literal.size
LiteralsFillReadOnlyData ==
  /\ literals # <<>> => literals[1].RVA = 0
  /\ \A i \in 1 .. Len(literals) - 1 :
       literals[i + 1].RVA = EndOf(literals[i])
  /\ current_RVA = IF literals = <<>> THEN 0 ELSE EndOf(Last(literals))

\* A generation that ends has recorded every imported function of the module
\* once, in the table of its own library, and no library twice: the import
\* table of the image is made of nothing else.
ImportedNodes ==
  {n \in DOMAIN program.nodes :
     Kind(n) = "function" /\ Node(n).modified /\ DllImports(n) # {}}
ImportsRecorded ==
  status = "done" =>
    /\ IsInjective(functions)
    /\ ToSet(functions) = ImportedNodes
    /\ \A i, j \in DOMAIN libraries :
         libraries[i].name = libraries[j].name => i = j
    /\ \A i \in DOMAIN functions :
         {l \in DOMAIN libraries :
            \E g \in libraries[l].functions : g.index = i}
           = Known(LibraryOf(functions[i]))

\* The stack is exhausted for a reason of the program, and a program that
\* gives one is never generated: a name that stands for itself, through
\* aliases, or a struct from which its own use is met.  The second is written
\* with the recursion of the walk in mind: what is met from a struct is what is
\* inside it and, as the walk goes on with its sibling, what is declared after
\* it, so that a struct cannot be used after its declaration.
Stands(n) ==
  CASE Kind(n) \in {"user_type", "identifier"} -> {get_user_type(n)} \ {Null}
    [] Kind(n) = "alias" -> {Node(n).type}
    [] OTHER -> {}
Held(n) ==
  {Node(n).sibling, Node(n).child,
   IF Kind(n) = "variable" \/ (Kind(n) = "function" /\ Node(n).child # Null)
     THEN Node(n).type ELSE Null} \ {Null}
Met(nodes, next(_)) ==
  LET met[k \in 0 .. Len(program.nodes)] ==
        IF k = 0 THEN nodes
        ELSE LET before == met[k - 1]
             IN  before \cup UNION {next(n) : n \in before}
  IN  met[Len(program.nodes)]
StructOf(n) ==
  {s \in Met({n}, Stands) : Kind(n) = "user_type" /\ Kind(s) = "struct"}
Walked(n) == Held(n) \cup StructOf(n)
Endless ==
  \E n \in Met({1}, Walked) :
    \/ /\ Kind(n) \in {"user_type", "identifier"}
       /\ \E s \in Met({n}, Stands) : s \in Met(Stands(s), Stands)
    \/ n \in Met(StructOf(n), Walked)
EndlessExactly ==
  /\ status = "overflow" => Endless
  /\ status = "done" => ~Endless

\* "win32 means that function is implemented in C, so overloading isn't
\* supported. Please check you haven't already declared.": an import is refused
\* when another one of the same library has its name.
OnlyRedeclarationsRefused ==
  status = "already declared" =>
    \E m, n \in ImportedNodes :
      m # n /\ LibraryOf(m) = LibraryOf(n) /\ Node(m).name = Node(n).name
=============================================================================
