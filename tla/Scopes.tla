------------------------------- MODULE Scopes -------------------------------
(***************************************************************************)
(* The declaration parser (parser/parser.cpp): parse, parse_scope,         *)
(* parse_struct_scope, parse_union_scope and what they call to read a      *)
(* declaration, with the tree of symbol tables they build.                 *)
(*                                                                         *)
(* The call stack is explicit.  A step reads the tokens one function peeks *)
(* between two decisions; which ones is the choice of whoever wrote the    *)
(* program, so that the actions enabled in a state are what may follow in  *)
(* the source.  An expression is one token and one node, left before its   *)
(* delimiter: Expression models parse_expression.  A symbol table's three  *)
(* hash tables are maps in which the first declaration of a name stays:    *)
(* HashTable models them and SymbolMap what they promise.                  *)
(***************************************************************************)
EXTENDS Integers, Sequences, SequencesExt, FiniteSets

CONSTANTS
  Name,        \* identifiers
  NONE,        \* no identifier
  MaxTokens    \* bound: tokens of a source file

ASSUME NameAssumption == NONE \notin Name
ASSUME TokensAssumption == MaxTokens \in Nat \ {0}

VARIABLES
  nb_tokens,   \* how many tokens the file has: what both buffers are sized from
  tokens,      \* how many of them were peeked
  ast,         \* globals.parser_data.ast_nodes, node by node
  tables,      \* globals.parser_data.symbol_tables, table by table
  current,     \* globals.parser_data.current_symbol_table
  calls,       \* the parse functions under way
  status       \* how the parse goes, or ended

vars == <<nb_tokens, tokens, ast, tables, current, calls, status>>

Null == 0
NoSymbol == [n \in Name |-> Null]

\* The table that was current when the node was allocated, and what the field
\* type (or return_type) of a variable (or function) points to.
Node == [
  kind : {"scope", "variable", "parameter", "function", "alias", "struct",
          "union", "type", "type_modifier", "expression", "call", "modifier"},
  name : Name \cup {NONE}, table : Nat, type : Nat]
NewNode(kind, name) ==
  [kind |-> kind, name |-> name, table |-> current, type |-> Null]

Table == [
  type : {"module", "function", "struct", "union", "scope"},
  name : Nat,    \* the node that holds the name
  parent : Nat, sibling : Nat, first_child : Nat,
  variables : [Name -> Nat], user_types : [Name -> Nat],
  functions : [Name -> Nat]]

\* What a function has still to read: the statements of a scope, the members
\* of a struct or a union; the type of a variable, a parameter or a function,
\* then what follows it; the parameters of a function.  The field table is
\* not in the code: it is the table that was current when the function began.
InType == {"variable", "parameter", "return_type"}
InBody == {"scope", "struct", "union"}
Frame == [
  proc : InBody \cup InType \cup {"typed_variable", "typed_parameter",
           "parameters", "signature", "modifiers"},
  node : Nat, table : Nat]
CallIn(proc, node, table) == [proc |-> proc, node |-> node, table |-> table]
Call(proc, node) == CallIn(proc, node, current)

Top == Last(calls)

\* There is a token to look at.
In(procs) == status = "parsing" /\ tokens < nb_tokens /\ Top.proc \in procs
Become(proc) == [calls EXCEPT ![Len(calls)].proc = proc]

Read(n) ==
  tokens + n <= nb_tokens /\ tokens' = tokens + n /\ nb_tokens' = nb_tokens
Fresh == Len(ast) + 1
Allocate(kind, name) == ast' = Append(ast, NewNode(kind, name))

----------------------------------------------------------------------------
(* Symbol tables *)

NewTable(type, name, parent, sibling) ==
  [type |-> type, name |-> name, parent |-> parent, sibling |-> sibling,
   first_child |-> Null, variables |-> NoSymbol, user_types |-> NoSymbol,
   functions |-> NoSymbol]

\* push_new_symbol_table: the new table becomes its parent's first child, and
\* the previous first child its sibling.
SiblingLost(all, type, name) ==
  Append([all EXCEPT ![current].first_child = Len(all) + 1],
         NewTable(type, name, current, Null))
Pushed(all, type, name) ==
  Append([all EXCEPT ![current].first_child = Len(all) + 1],
         NewTable(type, name, current, all[current].first_child))

\* hash_table_insert does not replace the value of a key.
Replaced(map, name, node) == [map EXCEPT ![name] = node]
Bound(map, name, node) ==
  IF map[name] = Null THEN [map EXCEPT ![name] = node] ELSE map

InsertVariable(all, t, name, node) ==
  [all EXCEPT ![t].variables = Bound(@, name, node)]
InsertUserType(all, t, name, node) ==
  [all EXCEPT ![t].user_types = Bound(@, name, node)]
InsertFunction(all, t, name, node) ==
  [all EXCEPT ![t].functions = Bound(@, name, node)]

----------------------------------------------------------------------------
\* parse: the module's table, then parse_scope on the root.  It does nothing of
\* a file without tokens.
Init ==
  /\ nb_tokens \in 1 .. MaxTokens
  /\ tokens = 0
  /\ ast = <<[kind |-> "scope", name |-> NONE, table |-> 1, type |-> Null]>>
  /\ tables = <<NewTable("module", Null, Null, Null)>>
  /\ current = 1
  /\ calls = <<CallIn("scope", 1, 1)>>
  /\ status = "parsing"

----------------------------------------------------------------------------
(* parse_scope, parse_struct_scope and parse_union_scope *)

\* name ::    type ;     An alias; of a basic type only inside a struct.
parse_alias(name) ==
  /\ In(InBody)
  /\ Read(4)
  /\ ast' = ast \o <<NewNode("alias", name), NewNode("expression", NONE)>>
  /\ tables' = InsertUserType(tables, current, name, Fresh)
  /\ UNCHANGED <<current, calls, status>>

\* name :: struct {     name :: union {
parse_struct(name, proc) ==
  /\ In(InBody)
  /\ Read(4)
  /\ Allocate(proc, name)
  /\ tables' = Pushed(tables, proc, Fresh)
  /\ current' = Len(tables')
  /\ calls' = Append(calls, CallIn(proc, Fresh, current'))
  /\ status' = status

\* name :: (     Not inside a struct.
parse_function(name) ==
  /\ In({"scope"})
  /\ Read(3)
  /\ Allocate("function", name)
  /\ calls' = Append(calls, Call("parameters", Fresh))
  /\ UNCHANGED <<tables, current, status>>

\* name :
parse_variable(name) ==
  /\ In(InBody)
  /\ Read(2)
  /\ Allocate("variable", name)
  /\ calls' = Append(calls, Call("variable", Fresh))
  /\ UNCHANGED <<tables, current, status>>

\* name ( ) ;     name ( expression ) ;     The name is not resolved, and more
\* arguments do no more to the tables.  Any token is taken for the semicolon,
\* and so is the end of the file.
ReadLast(n) == tokens + n = nb_tokens /\ Read(n)
parse_function_call ==
  /\ In({"scope"})
  /\ \/ /\ Read(4) \/ ReadLast(3)
        /\ Allocate("call", NONE)
     \/ /\ Read(5) \/ ReadLast(4)
        /\ ast' = ast \o <<NewNode("call", NONE), NewNode("expression", NONE)>>
  /\ UNCHANGED <<tables, current, calls, status>>

\* {     A scope in a scope.
NestedScopePushedTwice ==
  /\ In({"scope"})
  /\ Read(1)
  /\ tables' = Pushed(Pushed(tables, "scope", Null), "scope", Null)
  /\ current' = Len(tables')
  /\ ast' = Append(ast, [NewNode("scope", NONE) EXCEPT !.table = current'])
  /\ calls' = Append(calls, CallIn("scope", Fresh, current'))
  /\ status' = status
NestedScope ==
  /\ In({"scope"})
  /\ Read(1)
  /\ tables' = Pushed(tables, "scope", Null)
  /\ current' = Len(tables')
  /\ ast' = Append(ast, [NewNode("scope", NONE) EXCEPT !.table = current'])
  /\ calls' = Append(calls, CallIn("scope", Fresh, current'))
  /\ status' = status

\* name     Followed by a token that makes nothing of the above: it is skipped.
StrayIdentifier ==
  /\ In(InBody)
  /\ tokens + 1 < nb_tokens
  /\ Read(1)
  /\ UNCHANGED <<ast, tables, current, calls, status>>

----------------------------------------------------------------------------
(* The ends of scopes *)

ModulePopped ==
  /\ Top.proc = "scope"
  /\ current' = tables[current].parent
  /\ calls' = Front(calls)
  /\ tables' = tables
LeaveScope ==
  /\ Top.proc = "scope"
  /\ current' = IF Len(calls) = 1 THEN current ELSE tables[current].parent
  /\ calls' = Front(calls)
  /\ tables' = tables

\* A named type is declared in the table around its own, once that is popped.
LeaveNamedTypeEarly ==
  /\ Top.proc \in {"struct", "union"}
  /\ ast[Top.node].name # NONE
  /\ current' = tables[current].parent
  /\ tables' = InsertUserType(tables, current, ast[Top.node].name, Top.node)
  /\ calls' = Front(calls)
LeaveNamedType ==
  /\ Top.proc \in {"struct", "union"}
  /\ ast[Top.node].name # NONE
  /\ current' = tables[current].parent
  /\ tables' = InsertUserType(tables, current', ast[Top.node].name, Top.node)
  /\ calls' = Front(calls)

\* An anonymous one is the end of the parse_type that met it.
AfterType(proc) ==
  CASE proc = "variable" -> "typed_variable"
    [] proc = "parameter" -> "typed_parameter"
    [] proc = "return_type" -> "signature"
AnonymousTypeNotPopped ==
  /\ Top.proc \in {"struct", "union"}
  /\ ast[Top.node].name = NONE
  /\ current' = current
  /\ calls' = [Front(calls) EXCEPT ![Len(calls) - 1].proc = AfterType(@)]
  /\ tables' = tables
LeaveAnonymousType ==
  /\ Top.proc \in {"struct", "union"}
  /\ ast[Top.node].name = NONE
  /\ current' = tables[current].parent
  /\ calls' = [Front(calls) EXCEPT ![Len(calls) - 1].proc = AfterType(@)]
  /\ tables' = tables

Leave == LeaveScope \/ LeaveNamedType \/ LeaveAnonymousType

\* }     It does not end the root scope.
CloseBrace ==
  /\ In(InBody)
  /\ Len(calls) > 1
  /\ Read(1)
  /\ Leave
  /\ UNCHANGED <<ast, status>>

\* The loops end with the file too, whether a brace is missing or not.
EndOfFile ==
  /\ tokens = nb_tokens
  /\ status \in {"parsing", "unwinding"}
  /\ Top.proc \in InBody
  /\ Leave
  /\ status' = IF Len(calls) = 1 THEN "done" ELSE "unwinding"
  /\ UNCHANGED <<nb_tokens, tokens, ast>>

----------------------------------------------------------------------------
(* parse_type *)

FirstOfType(n, node) == [ast EXCEPT ![n].type = IF @ = Null THEN node ELSE @]

\* section     [ ]     [ expression ]
TypeModifier ==
  /\ In(InType)
  /\ \/ /\ Read(1) \/ Read(2)
        /\ ast' = Append(FirstOfType(Top.node, Fresh),
                         NewNode("type_modifier", NONE))
     \/ /\ Read(3)
        /\ ast' = FirstOfType(Top.node, Fresh)
                    \o <<NewNode("type_modifier", NONE),
                         NewNode("expression", NONE)>>
  /\ UNCHANGED <<tables, current, calls, status>>

\* A basic type, or the name of a type.
EndOfType ==
  /\ In(InType)
  /\ Read(1)
  /\ \E name \in Name \cup {NONE} :
       ast' = Append(FirstOfType(Top.node, Fresh), NewNode("type", name))
  /\ calls' = Become(AfterType(Top.proc))
  /\ UNCHANGED <<tables, current, status>>

\* struct {     union {     The node takes the place of the first modifier.
AnonymousType(proc) ==
  /\ In(InType)
  /\ Read(2)
  /\ ast' = Append([ast EXCEPT ![Top.node].type = Fresh], NewNode(proc, NONE))
  /\ tables' = Pushed(tables, proc, Null)
  /\ current' = Len(tables')
  /\ calls' = Append(calls, CallIn(proc, Fresh, current'))
  /\ status' = status

----------------------------------------------------------------------------
(* parse_variable, from the end of its type *)

OfAnonymousType(n) == ast[ast[n].type].kind \in {"struct", "union"}

\* ;     Any token is taken for it.  Nothing ends an anonymous type.
EndOfVariable ==
  /\ In({"typed_variable"})
  /\ Read(IF OfAnonymousType(Top.node) THEN 0 ELSE 1)
  /\ tables' = InsertVariable(tables, current, ast[Top.node].name, Top.node)
  /\ calls' = Front(calls)
  /\ UNCHANGED <<ast, current, status>>

\* = expression ;     The semicolon is left to the caller, that has no use for
\* it, after an anonymous type: a scope's loop stops advancing, a struct's
\* reports it.
InitializedVariable ==
  /\ In({"typed_variable"})
  /\ Allocate("expression", NONE)
  /\ tables' = InsertVariable(tables, current, ast[Top.node].name, Top.node)
  /\ calls' = Front(calls)
  /\ IF OfAnonymousType(Top.node)
       THEN /\ tokens + 2 < nb_tokens /\ Read(2)
            /\ status' = IF Last(calls').proc = "scope" THEN "looping"
                         ELSE "error"
       ELSE Read(3) /\ status' = status
  /\ current' = current

\* A parameter is left before , or ) and is not inserted yet.
EndOfParameter ==
  /\ In({"typed_parameter"})
  /\ \/ Read(0) /\ ast' = ast                        \* nothing, or )
     \/ Read(1) /\ ast' = ast                        \* ,
     \/ /\ tokens + 2 < nb_tokens /\ Read(2)          \* = expression
        /\ Allocate("expression", NONE)
     \/ Read(3) /\ Allocate("expression", NONE)      \* = expression ,
  /\ calls' = Front(calls)
  /\ UNCHANGED <<tables, current, status>>

----------------------------------------------------------------------------
(* parse_function, from its parameters *)

\* name :
Parameter(name) ==
  /\ In({"parameters"})
  /\ Read(2)
  /\ Allocate("parameter", name)
  /\ calls' = Append(calls, Call("parameter", Fresh))
  /\ UNCHANGED <<tables, current, status>>

\* )     ) ->
EndOfParameters ==
  /\ In({"parameters"})
  /\ \/ Read(1) /\ calls' = Become("signature")
     \/ Read(2) /\ calls' = Become("return_type")
  /\ UNCHANGED <<ast, tables, current, status>>

\* :     Modifiers follow.
BeginModifiers ==
  /\ In({"signature"})
  /\ Read(1)
  /\ calls' = Become("modifiers")
  /\ UNCHANGED <<ast, tables, current, status>>

\* name     name ,     name ( )     name ( literal )
Modifier ==
  /\ In({"modifiers"})
  /\ \/ /\ Read(1) \/ Read(2) \/ Read(3)
        /\ Allocate("modifier", NONE)
     \/ /\ Read(4)
        /\ ast' = ast \o <<NewNode("modifier", NONE), NewNode("expression", NONE)>>
  /\ UNCHANGED <<tables, current, calls, status>>

\* ;
EndOfDeclaration ==
  /\ In({"signature", "modifiers"})
  /\ Read(1)
  /\ tables' = InsertFunction(tables, current, ast[Top.node].name, Top.node)
  /\ calls' = Front(calls)
  /\ UNCHANGED <<ast, current, status>>

\* The list of arguments: no other function is met before they are all read.
ParametersOf(f) == {n \in DOMAIN ast : n > f /\ ast[n].kind = "parameter"}
FirstNamed(nodes, name) ==
  LET same == {n \in nodes : ast[n].name = name}
  IN  IF same = {} THEN Null ELSE CHOOSE n \in same : \A m \in same : n <= m

\* {     The function is declared around its scope, its parameters in it.
ParametersOutside(f) ==
  LET all == Pushed(InsertFunction(tables, current, ast[f].name, f), "function", f)
  IN  [all EXCEPT ![current].variables =
         [n \in Name |-> FirstNamed(ParametersOf(f), n)]]
WithParameters(f) ==
  LET all == Pushed(InsertFunction(tables, current, ast[f].name, f), "function", f)
  IN  [all EXCEPT ![Len(all)].variables =
         [n \in Name |-> FirstNamed(ParametersOf(f), n)]]
OpenBody ==
  /\ In({"signature", "modifiers"})
  /\ Read(1)
  /\ tables' = WithParameters(Top.node)
  /\ current' = Len(tables')
  /\ ast' = Append(ast, [NewNode("scope", NONE) EXCEPT !.table = current'])
  /\ calls' = Append(Front(calls), CallIn("scope", Fresh, current'))
  /\ status' = status

----------------------------------------------------------------------------
(* What stops the parse *)

\* report_error: an unexpected keyword, a literal, an expression that the file
\* ends in, ...
ReportError ==
  /\ status = "parsing" /\ tokens < nb_tokens
  /\ status' = "error"
  /\ UNCHANGED <<nb_tokens, tokens, ast, tables, current, calls>>

\* import     name :: enum
NotImplemented ==
  /\ In(InBody)
  /\ status' = "asserted"
  /\ UNCHANGED <<nb_tokens, tokens, ast, tables, current, calls>>

\* name :=     name =     ;     ...     A turn of the loop that reads nothing:
\* so is the next one.  A struct's loop reports these.
NoBranch ==
  /\ In({"scope", "signature"})
  /\ status' = "looping"
  /\ UNCHANGED <<nb_tokens, tokens, ast, tables, current, calls>>

\* A token is looked at past the last one, when the file ends in what is read
\* at once, after a name for instance, or between two of those: what follows is
\* not determined.
UnreadInside(proc) ==
  CASE proc \in InBody -> 1 .. 3
    [] proc = "modifiers" -> 0 .. 3
    [] proc = "signature" -> {0}
    [] OTHER -> {0, 1}
EndOfFileInDeclaration ==
  /\ status \in {"parsing", "unwinding"}
  /\ nb_tokens - tokens \in UnreadInside(Top.proc)
  /\ status' = "undefined"
  /\ UNCHANGED <<nb_tokens, tokens, ast, tables, current, calls>>

\* allocate_symbol_table compares the size of the buffer in bytes with what was
\* reserved times the size of a table: it lets one table more than reserved be
\* pushed, and resize_array may move the others to make room for it.  The
\* fields of the parent are then read and written where it was, and what
\* follows is not determined; or it does not, and the push is as another.
TablesMoved ==
  /\ In(InBody \cup InType \cup {"signature", "modifiers"})
  /\ Len(tables) >= nb_tokens
  /\ status' = "undefined"
  /\ UNCHANGED <<nb_tokens, tokens, ast, tables, current, calls>>

----------------------------------------------------------------------------
\* What a struct or a union may hold, and a scope.
Member ==
  \/ \E name \in Name :
       \/ parse_alias(name)
       \/ \E proc \in {"struct", "union"} : parse_struct(name, proc)
       \/ parse_variable(name)
  \/ StrayIdentifier
Statement ==
  \/ Member
  \/ \E name \in Name : parse_function(name)
  \/ parse_function_call
  \/ NestedScope
Type ==
  TypeModifier \/ EndOfType \/ \E proc \in {"struct", "union"} : AnonymousType(proc)
Variable == EndOfVariable \/ InitializedVariable \/ EndOfParameter
Function ==
  \/ \E name \in Name : Parameter(name)
  \/ EndOfParameters
  \/ BeginModifiers
  \/ Modifier
  \/ EndOfDeclaration
  \/ OpenBody
Failure ==
  \/ ReportError \/ NotImplemented \/ NoBranch
  \/ EndOfFileInDeclaration \/ TablesMoved

Next ==
  \/ Statement
  \/ CloseBrace
  \/ EndOfFile
  \/ Type
  \/ Variable
  \/ Function
  \/ Failure

Spec == Init /\ [][Next]_vars

----------------------------------------------------------------------------
(* Properties *)

\* The variables hold values of their C++ types, and pointers point to
\* allocated nodes and tables.
TypeOK ==
  /\ nb_tokens \in 1 .. MaxTokens /\ tokens \in 0 .. nb_tokens
  /\ ast \in Seq(Node)
  /\ tables \in Seq(Table)
  /\ current \in DOMAIN tables
  /\ calls \in Seq(Frame)
  /\ \A i \in DOMAIN calls :
       calls[i].node \in DOMAIN ast /\ calls[i].table \in DOMAIN tables
  /\ status \in {"parsing", "unwinding", "done", "error", "asserted",
                 "looping", "undefined"}

\* Pushes and pops match, on every path out of every declaration: a function
\* goes on in the table it began in, the tables of the scopes around it are
\* the parents of that one, and the whole parse ends in the module's.
ScopesNest ==
  /\ calls = <<>> => current = 1
  /\ calls # <<>> => current = Top.table /\ calls[1].table = 1
  /\ \A i \in 2 .. Len(calls) :
       calls[i - 1].table = IF calls[i].proc \in InBody
                              THEN tables[calls[i].table].parent
                              ELSE calls[i].table

\* The tables are a tree, which is why the search of a name through parents
\* ends, and first_child followed by siblings goes over the children of a
\* table, all of them, from the last one to the first.
LastOf(S) == IF S = {} THEN Null ELSE CHOOSE t \in S : \A u \in S : u <= t
ChildrenBefore(p, t) == {c \in DOMAIN tables : c < t /\ tables[c].parent = p}
TablesAreATree ==
  \A t \in DOMAIN tables :
    /\ tables[t].parent < t
    /\ tables[t].parent = Null <=> t = 1
    /\ tables[t].first_child = LastOf(ChildrenBefore(t, Len(tables) + 1))
    /\ t # 1 => tables[t].sibling = LastOf(ChildrenBefore(tables[t].parent, t))

\* A table has exactly the declarations written in its scope and complete so
\* far, and the first one of each name: a struct is not declared inside itself,
\* a parameter is declared in its function and not around it.
Complete(n) == \A i \in DOMAIN calls : calls[i].node # n
DeclaredIn(t, kinds) ==
  {n \in DOMAIN ast : ast[n].kind \in kinds /\ ast[n].table = t /\ Complete(n)}
LastFunction(n) == LastOf({f \in 1 .. n : ast[f].kind = "function"})
ParametersIn(t) ==
  {n \in DOMAIN ast : /\ ast[n].kind = "parameter"
                      /\ tables[t].type = "function"
                      /\ tables[t].name = LastFunction(n)}
SymbolsExact ==
  \A t \in DOMAIN tables, name \in Name :
    /\ tables[t].user_types[name]
         = FirstNamed(DeclaredIn(t, {"alias", "struct", "union"}), name)
    /\ tables[t].functions[name] = FirstNamed(DeclaredIn(t, {"function"}), name)
    /\ tables[t].variables[name]
         = FirstNamed(DeclaredIn(t, {"variable"}) \cup ParametersIn(t), name)

\* The two buffers are sized once, from the number of tokens, because "it is
\* impossible to have more nodes than tokens", and pointers into them are kept:
\* there is room for every table that is pushed.
ReserveEnough == Len(tables) <= nb_tokens

\* What the code guarantees instead: the buffer of tables is outgrown by a file
\* of nothing but opening braces, at the last of them, by one table.  Nothing is
\* pushed or declared after that, and it takes a brace of its own for each table.
OnlyBracesOutgrow ==
  Len(tables) > nb_tokens =>
    /\ Len(tables) = nb_tokens + 1
    /\ tokens = nb_tokens
    /\ \A t \in 2 .. Len(tables) :
         tables[t].type = "scope" /\ tables[t].parent = t - 1

\* The declaration of a name is never replaced, nor moved.
DeclarationsStay ==
  [][\A t \in DOMAIN tables, name \in Name :
       /\ tables[t].user_types[name] # Null =>
            tables'[t].user_types[name] = tables[t].user_types[name]
       /\ tables[t].functions[name] # Null =>
            tables'[t].functions[name] = tables[t].functions[name]
       /\ tables[t].variables[name] # Null =>
            tables'[t].variables[name] = tables[t].variables[name]]_vars
=============================================================================
