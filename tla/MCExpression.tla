---------------------------- MODULE MCExpression ----------------------------
(* The streams Expression is checked on. *)
EXTENDS ExpressionOrder

CONSTANTS
  MaxOperators,   \* operators of a chain
  MaxTokens,      \* tokens of a stream of any tokens, before the delimiter
  MaxCallTokens,  \* tokens of a stream of calls, before the delimiter
  MaxGroup        \* operators before a group, and in it

\* The prefix operators and one operator of each priority are enough for the
\* chains; "-" is the only one that can be both prefix and binary.
ChainOperator == {"+", "-", "*", "."}
Chains(n) ==
  {[k \in 1 .. 2 * n + 1 |->
      IF k % 2 = 1 THEN "literal" ELSE ops[k \div 2]] :
     ops \in [1 .. n -> ChainOperator]}
AllChains(max) == UNION {Chains(n) : n \in 0 .. max}

Groups == UNION {
  {<<"(">> \o g \o <<")">> : g \in AllChains(MaxGroup)},
  {c \o <<op, "(">> \o g \o <<")">> :
     c \in AllChains(MaxGroup - 1), op \in ChainOperator,
     g \in AllChains(MaxGroup)}}

AnyTokens == {"+", "*", "-", "section", "literal", "identifier", "(", ")", ","}
CallTokens == {"+", "identifier", "(", ")", ","}

MCDelimiters == {{";"}, {",", ")"}}
MCStreams == UNION {
  {Append(s, ";") : s \in UNION {AllChains(MaxOperators), Groups,
     SeqOf(AnyTokens, MaxTokens), SeqOf(CallTokens, MaxCallTokens)}},
  {Append(s, ")") : s \in UNION {AllChains(MaxOperators), Groups}},
  SeqOf({"+", "literal", "identifier", "(", "other"}, 3) \ {<<>>}}
=============================================================================
