-------------------------- MODULE ExpressionOrder --------------------------
(***************************************************************************)
(* In which order fix_operations_order leaves the operators of an          *)
(* expression, against the tree that their priorities ask for.             *)
(***************************************************************************)
EXTENDS Expression

\* Operands and binary operators in turn.
IsChain(first, last) ==
  /\ (last - first) % 2 = 0
  /\ \A k \in first .. last :
       stream[k] \in IF (k - first) % 2 = 0 THEN Operand ELSE BinaryOperator

\* A chain whose last operand is a chain between parentheses.
IsChainToGroup(open) ==
  /\ stream[open] = "(" /\ stream[Size] = ")" /\ open < Size - 1
  /\ IsChain(open + 1, Size - 1)
  /\ open = 1 \/ (stream[open - 1] \in BinaryOperator /\ IsChain(1, open - 2))

\* The tree the priorities ask for: at its root the last of the operators of
\* the lowest priority.
RECURSIVE Reference(_, _)
Reference(first, last) ==
  IF first = last
    THEN IF stream[first] = "(" THEN Reference(first + 1, Size - 1) ELSE first
    ELSE LET ops == {k \in first .. last : (k - first) % 2 = 1}
             low == {k \in ops : \A o \in ops :
                       Priority(stream[k]) <= Priority(stream[o])}
             root == CHOOSE k \in low : \A o \in low : o <= k
         IN  <<root, Reference(first, root - 1), Reference(root + 1, last)>>

\* The tree under node n.
RECURSIVE Tree(_)
Tree(n) ==
  IF IsBinaryOperator(ast, n)
    THEN <<ast[n].token, Tree(ast[n].left), Tree(ast[n].right)>>
    ELSE ast[n].token

\* How many operators are on the left edge of the reference tree.
RECURSIVE LeftDepth(_, _)
LeftDepth(first, last) ==
  IF first = last THEN 0
  ELSE 1 + LeftDepth(first, Reference(first, last)[1] - 1)

----------------------------------------------------------------------------
(* Properties *)

\* fix_operations_order turns once, and looks no further down.  A chain comes
\* out as the priorities ask if and only if none of its ends, read alone, has
\* more than two operators on the left edge of its tree: always with two
\* operators, never for a - b - c - d, although "if the priority of operators
\* are the same then the associativity will resolve the ambiguity", from left
\* to right for all of them.
OneRotationIsEnough ==
  Parsed /\ IsChain(1, Size) =>
    (Tree(Root) = Reference(1, Size)
       <=> \A k \in 1 .. Size : k % 2 = 1 => LeftDepth(k, Size) <= 2)

\* A group that ends an expression stays together, and its operators and the
\* ones before it are ordered apart.
GroupAtTheEnd ==
  \A open \in 1 .. Size :
    Parsed /\ IsChainToGroup(open) /\ open <= 5 /\ Size - open <= 6
      => Tree(Root) = Reference(1, open)
=============================================================================
