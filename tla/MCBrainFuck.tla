----------------------------- MODULE MCBrainFuck -----------------------------
EXTENDS BrainFuck

\* Every source of four characters, and the longer ones over the characters
\* that a table, a loop and the limits of both are made of.
MCSources ==
  UNION {[1 .. n -> {"+", "-", ">", "<", "[", "]", ".", ",", "c"}] : n \in 0 .. 4}
  \cup [1 .. 7 -> {"+", ">", "."}]
  \cup [1 .. 6 -> {"+", "[", "]", "."}]
  \cup {<<"+", "+", ">", "+", "<">> \o s \o <<"]", ">", ".">> :
          s \in [1 .. 4 -> {"[", "-", ">", "<"}]}
MCInput == <<2>>
=============================================================================
