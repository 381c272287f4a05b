----------------------------- MODULE Expression -----------------------------
(***************************************************************************)
(* The expression parser (parser/parser.cpp): parse_expression and the     *)
(* functions it is mutually recursive with, parse_binary_operator,         *)
(* parse_unary_operator and parse_function_call, with the tree rotation    *)
(* of fix_operations_order.                                                *)
(*                                                                         *)
(* The call stack is explicit: a frame is a running parse_expression and   *)
(* what its caller does when it returns.  A step is one turn of its loop.  *)
(* Nodes are cells of a heap, because the parser works by storing through  *)
(* pointers to their fields: what it overwrites is lost.                   *)
(***************************************************************************)
EXTENDS Integers, Sequences, SequencesExt, FiniteSets

CONSTANTS
  Streams,     \* the token sequences given to the parser
  Delimiters   \* the delimiter sets parse_expression is called with

\* Tokens, by what parse_expression tells apart; "other" has no branch in it.
BinaryOperator == {"+", "-", "*", "/", "%", "."}
Token ==
  BinaryOperator \cup {"(", ")", ",", ";", "]", "section", "literal",
                       "identifier", "basic_type", "other", "eof"}

ASSUME StreamsAssumption == Streams \subseteq Seq(Token)
ASSUME DelimitersAssumption ==
  Delimiters \subseteq {{";"}, {"]"}, {",", ")"}}

VARIABLES
  stream,    \* the tokens
  pos,       \* the index of the current token
  ast,       \* the nodes allocated so far; the first one owns the expression
  stack,     \* the calls of parse_expression under way
  status     \* how the parse goes, or ended

vars == <<stream, pos, ast, stack, status>>

Null == 0
Uninitialized == -1
Owner == 1

\* parameters of a call are linked by its field right, then by sibling.
Pointer == Nat \cup {Uninitialized}
Node == [
  type : Token \cup {"owner", "call", "negative", "address_of"},
  token : Nat, left : Pointer, right : Pointer, sibling : Pointer,
  nb_arguments : Nat]
NewNode(type, token) ==
  [type |-> type, token |-> token, left |-> Null, right |-> Null,
   sibling |-> Null, nb_arguments |-> 0]

Field(node, field) == [node |-> node, field |-> field]   \* AST_Node**
At(heap, ref) == heap[ref.node][ref.field]
Store(heap, ref, n) == [heap EXCEPT ![ref.node][ref.field] = n]

Frame == [
  emplace : [node : Nat, field : {"left", "right", "sibling"}],
  delims : Delimiters \cup {{","}, {",", ")"}},
  previous : Nat,      \* previous_child
  scoped : BOOLEAN,    \* scoped_by_parenthesis
  by : {"owner", "parenthesis", "unary", "binary", "argument"},
  node : Nat]          \* the caller's node

Call(emplace, delims, by, node) ==
  [emplace |-> emplace, delims |-> delims, previous |-> Null,
   scoped |-> FALSE, by |-> by, node |-> node]

Init ==
  /\ stream \in Streams
  /\ pos = 1
  /\ ast = <<NewNode("owner", 0)>>
  /\ \E d \in Delimiters :
       stack = <<Call(Field(Owner, "right"), d, "owner", Owner)>>
  /\ status = "parsing"

Current == IF pos <= Len(stream) THEN stream[pos] ELSE "eof"
Following == IF pos < Len(stream) THEN stream[pos + 1] ELSE "eof"
Top == Last(stack)
Fresh == Len(ast) + 1
Reading(tokens) ==
  status = "parsing" /\ Current \in tokens /\ Current \notin Top.delims

----------------------------------------------------------------------------
(* Operators and their order *)

IsBinaryOperator(heap, n) == n # Null /\ heap[n].type \in BinaryOperator

Priority(op) == CASE op \in {"+", "-"} -> 12
                  [] op \in {"*", "/", "%"} -> 13
                  [] op = "." -> 16

\* Every operator associates from left to right.
StrictlyPrecedes(left, right) == Priority(left) > Priority(right)
DoesLeftOperatorPrecedeRight(left, right) == Priority(left) >= Priority(right)

\* (a op (b op2 c)) becomes ((a op b) op2 c): the nodes swap their operators,
\* so that the root stays the node that its parent already points to.
TypesOnlySwapped(heap, n, r) ==
  [heap EXCEPT ![n].type = heap[r].type, ![n].left = r,
               ![n].right = heap[r].right,
               ![r].type = heap[n].type, ![r].left = heap[n].left,
               ![r].right = heap[r].left]
OperandsLeftInPlace(heap, n, r) ==
  [heap EXCEPT ![n].type = heap[r].type, ![n].token = heap[r].token,
               ![n].left = r, ![n].right = heap[r].left,
               ![r].type = heap[n].type, ![r].token = heap[n].token,
               ![r].left = heap[n].left]
Rotated(heap, n, r) ==
  [heap EXCEPT ![n].type = heap[r].type, ![n].token = heap[r].token,
               ![n].left = r, ![n].right = heap[r].right,
               ![r].type = heap[n].type, ![r].token = heap[n].token,
               ![r].left = heap[n].left, ![r].right = heap[r].left]

FixOperationsOrder(heap, n) ==
  LET r == heap[n].right
  IN  IF IsBinaryOperator(heap, r)
         /\ DoesLeftOperatorPrecedeRight(heap[n].type, heap[r].type)
      THEN Rotated(heap, n, r) ELSE heap

----------------------------------------------------------------------------
(* The ends of parse_expression *)

\* What the callers do next.  The owner peeks the delimiter itself.
ReturnToOwner == status' = "done" /\ stack' = <<>> /\ ast' = ast
ReturnToParenthesis ==
  /\ stack' = [Front(stack) EXCEPT ![Len(stack) - 1].scoped = TRUE]
  /\ UNCHANGED <<ast, status>>
ReturnToUnary == stack' = Front(stack) /\ UNCHANGED <<ast, status>>
FixedInScopeToo ==
  /\ stack' = Front(stack)
  /\ ast' = FixOperationsOrder(ast, Top.node)
  /\ status' = status
ReturnToBinary ==
  /\ stack' = Front(stack)
  /\ ast' = IF Top.scoped THEN ast ELSE FixOperationsOrder(ast, Top.node)
  /\ status' = status

Return ==
  \/ Top.by = "owner" /\ ReturnToOwner
  \/ Top.by = "parenthesis" /\ ReturnToParenthesis
  \/ Top.by = "unary" /\ ReturnToUnary
  \/ Top.by = "binary" /\ ReturnToBinary

ReadDelimiter ==
  /\ status = "parsing"
  /\ Current \in Top.delims
  /\ Return
  /\ UNCHANGED <<stream, pos>>

PeekedTwice ==
  /\ Reading({")"})
  /\ Return
  /\ pos' = pos + 2
  /\ stream' = stream
ReadCloseParenthesis ==
  /\ Reading({")"})
  /\ Return
  /\ pos' = pos + 1
  /\ stream' = stream

\* parse_function_call, after an argument: another one, or the end of the
\* call, that only then is stored where the expression goes.  Nothing was
\* stored for an empty argument: parameters is not initialised, and the
\* address of the next argument is computed from it.
LastUncounted == IF Current = ")" THEN ast
                 ELSE [ast EXCEPT ![Top.node].nb_arguments = @ + 1]
Counted == [ast EXCEPT ![Top.node].nb_arguments = @ + 1]
Argument == At(ast, Top.emplace)

LastArgument ==
  /\ Current = ")"
  /\ stack' = Front(stack)
  /\ ast' = Store(Counted, Last(stack').emplace, Top.node)
  /\ status' = status
NextArgument ==
  /\ Current = ","
  /\ ast' = Counted
  /\ IF Argument \in {Null, Uninitialized}
       THEN status' = "undefined" /\ stack' = stack
       ELSE /\ status' = status
            /\ stack' = Append(Front(stack), Call(Field(Argument, "sibling"),
                                        Top.delims, "argument", Top.node))

ReadEndOfArgument ==
  /\ status = "parsing"
  /\ Current \in Top.delims
  /\ Top.by = "argument"
  /\ LastArgument \/ NextArgument
  /\ pos' = pos + 1
  /\ stream' = stream

\* report_error ends the process.
ReachEndOfFile ==
  /\ Reading({"eof"})
  /\ status' = "error"
  /\ UNCHANGED <<stream, pos, ast, stack>>

\* A turn of the loop that peeks nothing and changes nothing: so is the next.
ReadUnexpected ==
  /\ Reading({";", ",", "]", "other"})
  /\ status' = "looping"
  /\ UNCHANGED <<stream, pos, ast, stack>>

----------------------------------------------------------------------------
(* What an expression is made of *)

\* The node is stored, and becomes previous_child.
Emplace(type, ref) ==
  /\ ast' = Store(Append(ast, NewNode(type, pos)), ref, Fresh)
  /\ stack' = [stack EXCEPT ![Len(stack)].previous = Fresh]
  /\ pos' = pos + 1
  /\ UNCHANGED <<stream, status>>

ReadOperand ==
  /\ Reading({"literal", "basic_type"})
  /\ Emplace(Current, Top.emplace)

ReadIdentifier ==
  /\ Reading({"identifier"})
  /\ Following # "("
  /\ Emplace("identifier",
             IF IsBinaryOperator(ast, Top.previous)
               THEN Field(Top.previous, "right") ELSE Top.emplace)

\* The call leaves previous_child as it is.
ReadFunctionCall ==
  /\ Reading({"identifier"})
  /\ Following = "("
  /\ ast' = Append(ast, [NewNode("call", pos) EXCEPT !.right = Uninitialized])
  /\ stack' = Append(stack,
                Call(Field(Fresh, "right"), {",", ")"}, "argument", Fresh))
  /\ pos' = pos + 2
  /\ UNCHANGED <<stream, status>>

\* So do parentheses.  The delimiters passed on are delimiter_1, delimiter_1.
ReadOpenParenthesis ==
  /\ Reading({"("})
  /\ stack' = Append(stack, Call(Top.emplace, Top.delims \ {")"},
                                 "parenthesis", Top.node))
  /\ pos' = pos + 1
  /\ UNCHANGED <<stream, ast, status>>

\* Store an operator and parse what is on its right.
Operation(node, by) ==
  /\ ast' = Store(Append(ast, node), Top.emplace, Fresh)
  /\ stack' = Append([stack EXCEPT ![Len(stack)].previous = Fresh],
                     Call(Field(Fresh, "right"), Top.delims, by, Fresh))
  /\ pos' = pos + 1
  /\ UNCHANGED <<stream, status>>

AlwaysBinary ==
  Reading(BinaryOperator)
Binary ==
  Reading(IF Top.previous = Null THEN BinaryOperator \ {"-"}
                                 ELSE BinaryOperator)
Unary ==
  Reading(IF Top.previous = Null THEN {"-", "section"} ELSE {"section"})

ReadBinaryOperator ==
  /\ Binary /\ Top.previous # Null
  /\ Operation([NewNode(Current, pos) EXCEPT !.left = Top.previous], "binary")

ReadUnaryOperator ==
  /\ Unary /\ Top.previous = Null
  /\ Operation(NewNode(IF Current = "-" THEN "negative" ELSE "address_of", pos),
               "unary")

\* The asserts on previous_child, at the start of both.
OperatorAsserts ==
  /\ (Binary /\ Top.previous = Null) \/ (Unary /\ Top.previous # Null)
  /\ status' = "asserted"
  /\ UNCHANGED <<stream, pos, ast, stack>>

Next ==
  \/ ReadDelimiter
  \/ ReadCloseParenthesis
  \/ ReadEndOfArgument
  \/ ReachEndOfFile
  \/ ReadUnexpected
  \/ ReadOperand
  \/ ReadIdentifier
  \/ ReadFunctionCall
  \/ ReadOpenParenthesis
  \/ ReadBinaryOperator
  \/ ReadUnaryOperator
  \/ OperatorAsserts

\* parse_expression runs until it returns.
Spec == Init /\ [][Next]_vars /\ WF_vars(Next)

----------------------------------------------------------------------------
(* What the parser is measured against *)

Operand == {"literal", "identifier", "basic_type"}
Size == Len(stream) - 1    \* the tokens before the delimiter
Root == ast[Owner].right
Parsed == status = "done"

\* Operands with a binary operator between each two, and prefix operators.
AfterOperand(k) == k > 1 /\ stream[k - 1] \in Operand
IsOperation ==
  /\ Size > 0 /\ stream[Size] \in Operand
  /\ \A k \in 1 .. Size :
       stream[k] \in IF AfterOperand(k) THEN BinaryOperator
                                        ELSE Operand \cup {"-", "section"}

----------------------------------------------------------------------------
(* Properties *)

\* The variables hold values of their C++ types.
TypeOK ==
  /\ stream \in Seq(Token)
  /\ pos \in 1 .. Len(stream) + 1
  /\ ast \in Seq(Node)
  /\ stack \in Seq(Frame)
  /\ status \in {"parsing", "done", "error", "asserted", "looping", "undefined"}

\* Whatever the tokens, and while pointers to its cells are held by every
\* frame: the tree has no cycle and no node is linked twice, and an operator
\* is still the one of its token after the rotations moved both.
Link == {"left", "right", "sibling"}
Children(n) == {c \in {ast[n][f] : f \in Link} : c > 0}
Below[k \in 0 .. Len(ast)] ==
  IF k = 0 THEN {Owner} ELSE UNION {Children(n) : n \in Below[k - 1]}
AstIsATree ==
  /\ Below[Len(ast)] = {}
  /\ LET reached == UNION {Below[k] : k \in 0 .. Len(ast) - 1}
     IN  \A n \in reached :
           /\ \A m \in reached : \A f, g \in Link :
                ast[n][f] = ast[m][g] /\ ast[n][f] > 0 => n = m /\ f = g
           /\ ast[n].type \in BinaryOperator =>
                stream[ast[n].token] = ast[n].type

\* No operand or operator of an expression without parentheses is lost,
\* duplicated or moved: the tree reads from left to right as the source does.
\* Yield is what is under a node, down to a depth; no tree is deeper than its
\* nodes are many.
Yield[depth \in 0 .. Len(ast)] ==
  [n \in 0 .. Len(ast) |->
     IF n = Null \/ depth = 0 THEN <<>>
     ELSE Yield[depth - 1][ast[n].left] \o <<ast[n].token>>
            \o Yield[depth - 1][ast[n].right]]
YieldPreserved ==
  Parsed /\ IsOperation => Yield[Len(ast)][Root] = [k \in 1 .. Size |-> k]

\* A finished call has linked as many arguments as it counts, in the order of
\* their tokens, whatever the expressions and calls they are made of.  The
\* count is one too high for f() and f(a,): an empty argument counts.
EmptyArgument ==
  \E k \in 1 .. Size : stream[k] \in {"(", ","} /\ stream[k + 1] \in {",", ")"}
ArgumentsLinked(n, arguments) ==
  LET next(i) == IF i = 0 THEN ast[n].right ELSE ast[arguments[i]].sibling
  IN  /\ \A i \in DOMAIN arguments : arguments[i] = next(i - 1)
      /\ next(ast[n].nb_arguments) = Null
      /\ \A i, j \in DOMAIN arguments :
           i < j => ast[arguments[i]].token < ast[arguments[j]].token
ArgumentsCounted ==
  ~EmptyArgument =>
    \A n \in DOMAIN ast :
      ast[n].type = "call" /\ (\A k \in DOMAIN stack : stack[k].node # n) =>
        \E arguments \in [1 .. ast[n].nb_arguments -> DOMAIN ast] :
          ArgumentsLinked(n, arguments)

\* An expression without parentheses is parsed to its delimiter: none of the
\* asserts stops it and no token keeps the loop from advancing.
OperationsAreParsed ==
  IsOperation /\ (Parsed \/ Last(stream) \in Head(stack).delims) ~> Parsed
=============================================================================
