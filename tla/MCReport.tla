------------------------------- MODULE MCReport -------------------------------
(***************************************************************************)
(* Calls of report_error and log: every conversion of a format, texts of    *)
(* one to five characters that end before, at and after a multiple of four *)
(* code units, characters of one to four units and of several planes.      *)
(***************************************************************************)
EXTENDS Report

\* e acute, euro, G clef, an emoji, a CJK ideograph, a fullwidth mark.
Characters == {65, 233, 8364, 119070, 128512, 131072, 65281}
As(n) == [i \in 1 .. n |-> 65]
Texts == {<<>>} \cup {As(n) \o <<c>> : n \in 0 .. 3, c \in Characters}
         \cup {<<119070, 65>>, <<131072, 65, 65>>, <<233, 128512, 65>>}

Errors ==
  [function : {"report_error"}, level : {1},
   pieces : {<<[value |-> text]>> : text \in Texts}]
  \cup [function : {"report_error"}, level : {1, 2, 3, 4},
        pieces : {<<[value |-> <<66>>]>>}]
  \cup [function : {"report_error at"}, level : {2, 3},
        pieces : {<<[value |-> <<47, 65>>], [value |-> <<120>>], [value |-> <<column>>],
                    [value |-> message]>> : column \in {0, 99}, message \in {<<>>, <<33>>}}]

Numbers == {0, 7, 10, 99, 100, 1000, 12345, 32767, -1, -100, -32767, -32768}
Piece(type, value) == <<[type |-> type, value |-> value]>>
Conversion ==
  {Piece(type, <<n>>) : type \in {"d", "ld"}, n \in Numbers}
  \cup {Piece("u", <<n>>) : n \in {0, 32767}}
  \cup {Piece("x", <<10>>), Piece("f", <<1>>), Piece("percent", <<>>)}
  \cup {Piece(type, text) : type \in {"s", "v", "Cv", "Cs"}, text \in {<<>>, <<65, 233>>}}
  \cup {Piece("Cw", text) : text \in {<<>>, <<8364, 65>>, <<119070>>, <<65281>>,
                                       <<65281, 65>>}}
Logs ==
  [function : {"log"}, level : {0, 1},
   pieces : Conversion
            \cup {<<Text(<<66, 32>>)>> \o piece \o <<Text(<<10>>)>> : piece \in Conversion}
            \cup {<<Text(<<32>>)>> \o Piece("d", <<7>>) \o Piece("percent", <<>>) \o Piece("v", <<65>>)}]

SomeCalls == Errors \cup Logs
=============================================================================
