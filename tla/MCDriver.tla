------------------------------- MODULE MCDriver -------------------------------
(* The programs and the command lines Driver is checked on. *)
EXTENDS DriverGraphs

Node(type, name, links) == [ast_type |-> type, name |-> name, links |-> links]
Box(type, links) == Node(type, type, links)

\* alias A = *i32;  f(a, b : i32) : i32 { g("s", 1); x : [2]A = -p.q; }
\* struct { y : i32 }  union (anonymous)
Everything == <<
  Box("STATEMENT_SCOPE", [first_child |-> 2]),
  Node("TYPE_ALIAS", "A", [type |-> 3, sibling |-> 5]),
  Box("STATEMENT_TYPE_POINTER", [sibling |-> 4]),
  Node("STATEMENT_BASIC_TYPE", "I32", <<>>),
  Node("STATEMENT_FUNCTION", "f",
       [arguments |-> 6, return_type |-> 10, scope |-> 11, modifiers |-> 12,
        sibling |-> 24]),
  Node("STATEMENT_VARIABLE", "a", [type |-> 7, sibling |-> 8]),
  Node("STATEMENT_BASIC_TYPE", "I32", <<>>),
  Node("STATEMENT_VARIABLE", "b", [type |-> 9]),
  Node("STATEMENT_BASIC_TYPE", "I32", <<>>),
  Node("STATEMENT_BASIC_TYPE", "I32", <<>>),
  Box("STATEMENT_SCOPE", [first_child |-> 13]),
  Node("FUNCTION_MODIFIER", "dll_import", <<>>),
  Node("FUNCTION_CALL", "g", [parameters |-> 14, sibling |-> 16]),
  Node("STATEMENT_LITERAL", "STRING_LITERAL", [sibling |-> 15]),
  Node("STATEMENT_LITERAL", "NUMERIC_LITERAL_I32", <<>>),
  Node("STATEMENT_VARIABLE", "x", [type |-> 17, expression |-> 20]),
  Box("STATEMENT_TYPE_ARRAY", [array_size |-> 18, sibling |-> 19]),
  Node("STATEMENT_LITERAL", "NUMERIC_LITERAL_I64", <<>>),
  Node("USER_TYPE_IDENTIFIER", "A", <<>>),
  Box("UNARY_OPERATOR_NEGATIVE", [right |-> 21]),
  Box("BINARY_OPERATOR_MEMBER_ACCESS", [left |-> 22, right |-> 23]),
  Node("STATEMENT_IDENTIFIER", "p", <<>>),
  Node("STATEMENT_IDENTIFIER", "q", <<>>),
  Node("STATEMENT_TYPE_STRUCT", "S", [first_child |-> 25, sibling |-> 27]),
  Node("STATEMENT_VARIABLE", "y", [type |-> 26]),
  Node("STATEMENT_BASIC_TYPE", "I32", <<>>),
  Node("STATEMENT_TYPE_UNION", "", <<>>) >>
Small == <<
  Box("STATEMENT_SCOPE", [first_child |-> 2]),
  Box("BINARY_OPERATOR_ADDITION", [left |-> 3, right |-> 4]),
  Node("STATEMENT_LITERAL", "NUMERIC_LITERAL_I32", <<>>),
  Node("STATEMENT_LITERAL", "NUMERIC_LITERAL_I32", <<>>) >>
Float == <<
  Box("STATEMENT_SCOPE", [first_child |-> 2]),
  Node("STATEMENT_LITERAL", "NUMERIC_LITERAL_F32", [sibling |-> 3]),
  Node("STATEMENT_LITERAL", "NUMERIC_LITERAL_I32", <<>>) >>

Table(type, name, variables, user_types, functions, links) ==
  [type |-> type, name |-> name, variables |-> variables,
   user_types |-> user_types, functions |-> functions, links |-> links]
Local(name) == [name |-> name, parameter |-> FALSE]
Parameter(name) == [name |-> name, parameter |-> TRUE]
Nested == <<
  Table("MODULE", "", <<Local("g"), Parameter("h")>>,
        <<[kind |-> "alias", name |-> "A"], [kind |-> "struct", name |-> "S"],
          [kind |-> "union", name |-> "U"]>>,
        <<"f", "h">>, [first_child |-> 2]),
  Table("FUNCTION", "f", <<Parameter("a"), Local("x")>>, <<>>, <<>>,
        [first_child |-> 3, sibling |-> 4]),
  Table("SCOPE", "", <<Parameter("a"), Local("z")>>, <<>>, <<>>, <<>>),
  Table("STRUCT", "S", <<Local("y")>>, <<>>, <<>>, [sibling |-> 5]),
  Table("UNION", "U", <<>>, <<>>, <<>>, <<>>) >>
Alone == <<Table("MODULE", "", <<>>, <<>>, <<>>, <<>>)>>

Program(ast, tables) ==
  [tokens |-> TRUE, lexes |-> TRUE, parses |-> TRUE, resolves |-> TRUE,
   ast |-> ast, tables |-> tables]
Good == Program(Small, Alone)
SomePrograms ==
  [everything |-> Program(Everything, Nested), small |-> Good,
   float |-> Program(Float, Alone),
   comment |-> [Good EXCEPT !.tokens = FALSE],
   unclosed |-> [Good EXCEPT !.lexes = FALSE],
   ill_formed |-> [Good EXCEPT !.parses = FALSE],
   unresolved |-> [Good EXCEPT !.resolves = FALSE]]

Name == [everything |-> "everything.f", small |-> "small.f", float |-> "float.f",
         comment |-> "comment.f", unclosed |-> "unclosed.f",
         ill_formed |-> "ill_formed.f", unresolved |-> "unresolved.f"]
Sources == {Name[p] : p \in DOMAIN SomePrograms}
SomeFiles == Sources \cup {"empty.f", "missing.f", "old.exe", "AST.dot", "scope.dot"}
Before ==
  [path \in SomeFiles |->
     CASE path \in Sources -> <<[program |-> CHOOSE p \in DOMAIN Name : Name[p] = path]>>
       [] path = "empty.f" -> <<>>
       [] path = "old.exe" -> <<[part |-> 0, content |-> <<>>]>>
       [] OTHER -> Absent]
SomeCommandLines ==
  {<<>>, <<"small.f">>, <<"small.f", "old.exe", "small.f">>,
   <<"small.f", "small.f">>, <<"small.f", "AST.dot">>}
  \cup {<<input, "old.exe">> : input \in Sources \cup {"empty.f", "missing.f"}}
=============================================================================
