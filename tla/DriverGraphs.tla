---------------------------- MODULE DriverGraphs ----------------------------
(* The driver with the graphs it draws (main.cpp, parser/parser.cpp). *)
EXTENDS Driver, DotOutput

\* generate_dot_file, of the AST or of the symbol tables of a program.
DrawGraph(path, program, nb_nodes) ==
  LET start == Drawn(<<>>, nb_nodes)
  IN  IF path = "AST.dot"
        THEN write_dot_node(start, program.ast, 1, None, None)
        ELSE write_dot_symbol_table(start, program.tables, 1, None, None)

\* A graph that was written shows every node and every table once, under the
\* one it hangs from, each table with the symbols it holds and no other.
GraphsExact ==
  ast_root = "set" =>
    \A path \in DotFiles \ {Output} :
      LET tree == IF path = "AST.dot" THEN Source.ast ELSE Source.tables
          text == files[path]
      IN  files[path] \notin {Initially[path], <<>>} =>
            ShowsTree(text, tree, 1) /\ ShowsSymbols(text, tree)
=============================================================================
