--------------------------- MODULE MCIRGenerator ---------------------------
(* The programs IRGenerator is checked on. *)
EXTENDS IRGenerator

CONSTANTS
  MaxStatements,  \* statements of a program of types and imports
  MaxAny          \* statements of a program of any statements

\* A fragment is a sequence of nodes, the first one of which is what it
\* stands for; its links are counted from its own start.
Blank == [kind |-> "scope", name |-> "", sibling |-> Null, child |-> Null,
          type |-> Null, size |-> 0, table |-> 1, modified |-> FALSE,
          modifiers |-> <<>>]
Leaf(kind) == <<[Blank EXCEPT !.kind = kind]>>
Named(kind, name) == <<[Blank EXCEPT !.kind = kind, !.name = name]>>
Moved(link, by) == IF link = Null THEN Null ELSE link + by
Shift(fragment, by) ==
  [i \in DOMAIN fragment |->
     [fragment[i] EXCEPT !.sibling = Moved(@, by), !.child = Moved(@, by),
                         !.type = Moved(@, by)]]
InTable(t, fragment) ==
  [i \in DOMAIN fragment |-> [fragment[i] EXCEPT !.table = t]]

\* A node and the fragment it points to.
WithChild(head, fragment) ==
  <<[head[1] EXCEPT !.child = 2]>> \o Shift(fragment, 1)
WithSibling(head, fragment) ==
  <<[head[1] EXCEPT !.sibling = 2]>> \o Shift(fragment, 1)
WithType(head, fragment) ==
  <<[head[1] EXCEPT !.type = 2]>> \o Shift(fragment, 1)
\* The first of two siblings.
Before(first, second) ==
  [first EXCEPT ![1].sibling = Len(first) + 1] \o Shift(second, Len(first))

Text(size) == <<[Blank EXCEPT !.kind = "string", !.size = size]>>
Variable(type) == WithType(Leaf("variable"), type)
Pointer(type) == WithSibling(Leaf("pointer"), type)
Array(size, type) ==
  LET sized == WithChild(Leaf("array"), size)
  IN  [sized EXCEPT ![1].sibling = Len(sized) + 1] \o Shift(type, Len(sized))
Initialized ==
  [Variable(Leaf("basic_type")) EXCEPT ![1].child = 3] \o Leaf("number")

Modifier(name, arguments) == [name |-> name, arguments |-> arguments]
Modified(f, modifiers) ==
  <<[Blank EXCEPT !.kind = "function", !.name = f, !.modified = TRUE,
                  !.modifiers = modifiers]>>
Import(lib, f) ==
  Modified(f, <<Modifier("win32", <<>>), Modifier("dll_import", <<lib>>)>>)
\* A body has the second table; the table of a struct is left out, because no
\* type is declared in one.
Body(statement) == InTable(2, WithChild(Leaf("scope"), statement))
Implemented(f, statement) == WithChild(Named("function", f), Body(statement))

Struct(name, field) == WithChild(Named("struct", name), Variable(field))
Alias(name, type) == WithType(Named("alias", name), type)
User(name) == Named("user_type", name)
Value(name) == Named("identifier", name)

TypesAndImports == {
  Struct("S", Leaf("basic_type")), Struct("S", Pointer(User("S"))),
  Struct("T", User("S")), Alias("S", Value("T")), Alias("T", Value("S")),
  Alias("T", WithChild(Leaf("address_of"), Value("S"))),
  Variable(User("S")), Variable(Pointer(User("T"))),
  Variable(Array(Text(2), User("S"))), Variable(Array(Value("S"), User("T"))),
  Implemented("f", Before(Struct("S", Leaf("basic_type")),
                          Variable(User("S")))),
  Import("K", "f"), Import("K", "g"), Import("K", "h"), Import("U", "f")}

AnyStatement == TypesAndImports \cup {
  Import("G", "h"), Modified("f", <<Modifier("dll_import", <<"K">>)>>),
  Modified("f", <<Modifier("stdcall", <<>>)>>),
  Modified("f", <<Modifier("win32", <<>>), Modifier("win32", <<>>)>>),
  Modified("f", <<Modifier("dll_import", <<"K">>), Modifier("dll_import", <<"U">>)>>),
  Modified("f", <<Modifier("dll_import", <<"K", "U">>)>>),
  WithChild(Modified("f", <<Modifier("dll_import", <<"K">>)>>), Leaf("scope")),
  Modified("f", <<Modifier("win32", <<>>)>>), Named("function", "f"),
  [Implemented("f", Variable(User("T"))) EXCEPT ![1].type = 5]
    \o Leaf("basic_type"),
  Alias("S", Leaf("number")), Alias("S", Leaf("basic_type")),
  WithChild(Named("union", "S"), Variable(User("T"))),
  Variable(Leaf("basic_type")), Variable(WithSibling(Leaf("array"), User("S"))),
  Variable(Array(Leaf("number"), Leaf("basic_type"))),
  Variable(Array(Leaf("real"), Leaf("basic_type"))),
  Variable(Array(Leaf("negative"), Leaf("basic_type"))),
  Variable(Array(Text(0), Leaf("basic_type"))),
  Initialized, Leaf("call")}

\* The module of some statements, with its own table and one for the bodies of
\* its functions: as in the tables of Scopes, the first declaration stays.
Flat(statements) ==
  IF statements = <<>> THEN <<>>
  ELSE FoldRight(LAMBDA s, rest : IF rest = <<>> THEN s ELSE Before(s, rest),
                 statements, <<>>)
DeclaredIn(nodes, t, name) ==
  {n \in DOMAIN nodes : /\ nodes[n].kind \in {"alias", "struct", "union"}
                        /\ nodes[n].table = t /\ nodes[n].name = name}
First(S) == IF S = {} THEN Null ELSE CHOOSE n \in S : \A o \in S : n <= o
Module(statements) ==
  LET nodes == IF statements = <<>> THEN Leaf("scope")
                 ELSE WithChild(Leaf("scope"), Flat(statements))
      Types(t) == [name \in {"S", "T"} |-> First(DeclaredIn(nodes, t, name))]
  IN  [nodes  |-> nodes,
       tables |-> <<[parent |-> Null, user_types |-> Types(1)],
                    [parent |-> 1, user_types |-> Types(2)]>>]

MCPrograms ==
  {Module(s) : s \in UNION {SeqOf(TypesAndImports, MaxStatements),
                            SeqOf(AnyStatement, MaxAny)}}
MCShortHash == [f |-> 1, g |-> 1, h |-> 2]
=============================================================================
