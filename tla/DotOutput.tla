------------------------------ MODULE DotOutput ------------------------------
(***************************************************************************)
(* The graphs of the AST and of the symbol tables, in the dot language     *)
(* (parser/parser.cpp, generate_dot_file).  The text is the sequence of    *)
(* its nodes, edges and rows; a drawing is that text, the number that the  *)
(* next node takes, a static variable of the function, and whether an      *)
(* assertion stopped it.                                                   *)
(*                                                                         *)
(* A tree is a function from its nodes (or tables) to records; links is    *)
(* the pointers of a node that are set, by the name of the field.          *)
(***************************************************************************)
EXTENDS Integers, Sequences, SequencesExt, FiniteSets

null == 0
None == -1   \* the default of parent_index and left_node_index

Link(record, field) ==
  IF field \in DOMAIN record.links THEN record.links[field] ELSE null

Drawn(text, nb_nodes) == [text |-> text, nb_nodes |-> nb_nodes, asserted |-> FALSE]
Add(drawing, line) == [drawing EXCEPT !.text = Append(@, line)]
AddAll(drawing, lines) == [drawing EXCEPT !.text = @ \o lines]

\* The edge from the parent, in another color when it does not lead to the
\* first of the children.
Linked(drawing, parent, left) ==
  IF parent = None THEN drawing
  ELSE Add(drawing, [line |-> "edge", from |-> parent, to |-> drawing.nb_nodes,
                     blue |-> left # None])
NotCounted(drawing) == drawing
Counted(drawing) == [drawing EXCEPT !.nb_nodes = @ + 1]

----------------------------------------------------------------------------
(* The AST *)

Unary == {"UNARY_OPERATOR_NEGATIVE", "UNARY_OPERATOR_ADDRESS_OF"}
Binary == {"BINARY_OPERATOR_ADDITION", "BINARY_OPERATOR_MEMBER_ACCESS"}
Drawable ==
  {"TYPE_ALIAS", "STATEMENT_BASIC_TYPE", "USER_TYPE_IDENTIFIER",
   "STATEMENT_TYPE_POINTER", "STATEMENT_FUNCTION", "STATEMENT_VARIABLE",
   "STATEMENT_TYPE_ARRAY", "STATEMENT_SCOPE", "STATEMENT_LITERAL",
   "STATEMENT_IDENTIFIER", "FUNCTION_CALL", "STATEMENT_TYPE_STRUCT",
   "STATEMENT_TYPE_UNION"} \cup Unary \cup Binary

\* The fields whose nodes are drawn under a node, in their order.
ChildrenOf(type) ==
  CASE type = "TYPE_ALIAS"           -> <<"type">>
    [] type = "STATEMENT_FUNCTION"   -> <<"arguments", "return_type", "scope">>
    [] type = "STATEMENT_VARIABLE"   -> <<"type", "expression">>
    [] type = "STATEMENT_TYPE_ARRAY" -> <<"array_size">>
    [] type = "FUNCTION_CALL"        -> <<"parameters">>
    [] type \in Unary                -> <<"right">>
    [] type \in Binary               -> <<"left", "right">>
    [] type \in {"STATEMENT_SCOPE", "STATEMENT_TYPE_STRUCT",
                 "STATEMENT_TYPE_UNION"} -> <<"first_child">>
    [] OTHER -> <<>>

\* Floats and unsigned integers are not implemented.
Labelled(record) ==
  /\ record.ast_type \in Drawable
  /\ record.ast_type = "STATEMENT_LITERAL" =>
       record.name \in {"STRING_LITERAL", "NUMERIC_LITERAL_I32", "NUMERIC_LITERAL_I64"}
LabelOf(record) ==
  CASE record.ast_type \in Unary \cup Binary
         \cup {"STATEMENT_TYPE_POINTER", "STATEMENT_TYPE_ARRAY", "STATEMENT_SCOPE"} ->
         <<record.ast_type>>
    [] record.name = "" -> <<record.ast_type, "anonymous">>
    [] OTHER -> <<record.ast_type, record.name>>

RECURSIVE write_dot_node(_, _, _, _, _)
write_dot_node(drawing, ast, node, parent, left) ==
  IF node = null \/ drawing.asserted THEN drawing
  ELSE
    LET index   == drawing.nb_nodes
        record  == ast[node]
        linked  == Linked(drawing, parent, left)
        labeled == Counted(Add(linked, [line |-> "node", index |-> index, of |-> node,
                                        label |-> LabelOf(record)]))
        Child(d, field) == write_dot_node(d, ast, Link(record, field), index, None)
        below   == FoldLeft(Child, labeled, ChildrenOf(record.ast_type))
    IN  IF ~Labelled(record) THEN [linked EXCEPT !.asserted = TRUE]
        ELSE write_dot_node(below, ast, Link(record, "sibling"), parent, index)

----------------------------------------------------------------------------
(* The symbol tables *)

\* Parameters are shown in the table of their function only.
RowsOfVariables(table) ==
  LET Shown(v) == \/ v.parameter /\ table.type = "FUNCTION"
                  \/ ~v.parameter
      Row(v) == [line |-> "row", kind |-> IF v.parameter THEN "parameter" ELSE "variable",
                 name |-> v.name]
      shown == SelectSeq(table.variables, Shown)
  IN  [i \in DOMAIN shown |-> Row(shown[i])]
RowsOfUserTypes(table) ==
  [i \in DOMAIN table.user_types |->
     [line |-> "row", kind |-> table.user_types[i].kind,
      name |-> table.user_types[i].name]]
RowsOfFunctions(table) ==
  [i \in DOMAIN table.functions |->
     [line |-> "row", kind |-> "function", name |-> table.functions[i]]]

RECURSIVE write_dot_symbol_table(_, _, _, _, _)
write_dot_symbol_table(drawing, tables, symbol_table, parent, left) ==
  IF symbol_table = null THEN drawing
  ELSE
    LET index    == drawing.nb_nodes
        table    == tables[symbol_table]
        header   == [line |-> "table", index |-> index, of |-> symbol_table,
                     label |-> <<table.type, table.name>>]
        filled   == AddAll(Counted(Add(Linked(drawing, parent, left), header)),
                           RowsOfVariables(table) \o RowsOfUserTypes(table)
                             \o RowsOfFunctions(table))
        children == write_dot_symbol_table(filled, tables, Link(table, "first_child"),
                                           index, None)
    IN  write_dot_symbol_table(children, tables, Link(table, "sibling"),
                               parent, index)

----------------------------------------------------------------------------
(* What a drawing should show *)

\* What can be reached by the pointers that are drawn, and what points there.
Targets(record) == {record.links[f] : f \in DOMAIN record.links \ {"modifiers"}}
RECURSIVE Reached(_, _)
Reached(tree, nodes) ==
  LET more == nodes \cup UNION {Targets(tree[n]) : n \in nodes}
  IN  IF more = nodes THEN nodes ELSE Reached(tree, more)
From(tree, root) == IF root = null THEN {} ELSE Reached(tree, {root})

\* A sibling hangs from the node its elder hangs from.
RECURSIVE OwnerOf(_, _)
OwnerOf(tree, node) ==
  LET at == CHOOSE n \in DOMAIN tree : node \in Targets(tree[n])
  IN  IF \A n \in DOMAIN tree : node \notin Targets(tree[n]) THEN None
      ELSE IF Link(tree[at], "sibling") = node THEN OwnerOf(tree, at)
      ELSE at
IsSibling(tree, node) ==
  \E n \in DOMAIN tree : Link(tree[n], "sibling") = node

Lines(text, lines) == SelectSeq(text, LAMBDA l : l.line \in lines)
\* Every node is drawn once, with an index of its own, and the edges are the
\* links of the tree.
ShowsTree(text, tree, root) ==
  LET boxes   == Lines(text, {"node", "table"})
      edges   == Lines(text, {"edge"})
      nodes   == From(tree, root)
      index   == [n \in nodes |->
                    boxes[CHOOSE i \in DOMAIN boxes : boxes[i].of = n].index]
      below   == {n \in nodes : OwnerOf(tree, n) # None}
  IN  /\ Len(boxes) = Cardinality(nodes)
      /\ {boxes[i].of : i \in DOMAIN boxes} = nodes
      /\ \A m, n \in nodes : m # n => index[m] # index[n]
      /\ Len(edges) = Cardinality(below)
      /\ ToSet(edges) =
           {[line |-> "edge", from |-> index[OwnerOf(tree, n)], to |-> index[n],
             blue |-> IsSibling(tree, n)] : n \in below}
\* The rows that follow a table are its symbols.
RowsAfter(text, i) ==
  LET others == {j \in i + 1 .. Len(text) : text[j].line # "row"}
      last   == IF others = {} THEN Len(text)
                ELSE (CHOOSE j \in others : \A k \in others : j <= k) - 1
  IN  {<<text[j].kind, text[j].name>> : j \in i + 1 .. last}
SymbolsOf(table) ==
  {<<IF v.parameter THEN "parameter" ELSE "variable", v.name>> :
     v \in {v \in ToSet(table.variables) : v.parameter => table.type = "FUNCTION"}}
  \cup {<<t.kind, t.name>> : t \in ToSet(table.user_types)}
  \cup {<<"function", f>> : f \in ToSet(table.functions)}
ShowsSymbols(text, tables) ==
  \A i \in DOMAIN text : text[i].line = "table" =>
    RowsAfter(text, i) = SymbolsOf(tables[text[i].of])
=============================================================================
