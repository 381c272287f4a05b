------------------------------- MODULE MCLexer -------------------------------
(* Every text of a few bytes over small alphabets, one for each part of the *)
(* lexer, with integers of eight bits for the 64 of the code.               *)
EXTENDS Lexer

CONSTANTS
  CommentLength, StringLength, WordLength, NumeralLength, IntegerLength

TextsOver(bytes, size) == UNION {[1 .. n -> bytes] : n \in 0 .. size}

CommentTexts == TextsOver({"/", "*", "\n", "a"}, CommentLength)
StringTexts ==
  TextsOver({"\"", "\\", "n", "\n", "BACKQUOTE", "'"}, StringLength)
WordTexts ==
  TextsOver({"a", "1", " ", ".", ":", "=", "C2", "A7", "/"}, WordLength)

\* A numeral that a semicolon ends, and one that the file does.
NumeralBytes == {"1", "_", ".", "e", "-", "u", "L", "d", "f", ";"}
NumeralTexts ==
  {<<"1">> \o t \o <<";">> : t \in TextsOver(NumeralBytes, NumeralLength)}
    \cup {<<"1">> \o t : t \in TextsOver(NumeralBytes, 2)}
IntegerTexts ==
  {t \o <<";">> : t \in TextsOver({"0", "1", "9", "u", "L"}, IntegerLength)}
PrefixedTexts ==
  {<<"0", p>> \o t \o <<" ">> :
     p \in {"x", "b"}, t \in TextsOver({"0", "1", "F", "_", "p"}, 2)}
MarkedTexts ==
  {Bom \o t : t \in TextsOver({"a", "\n", "\""}, 3)} \cup
    {SubSeq(Bom, 1, n) : n \in 1 .. 3} \cup {<<"EF", "a", "a">>}

MCTexts ==
  UNION {CommentTexts, StringTexts, WordTexts, NumeralTexts, IntegerTexts,
         PrefixedTexts, MarkedTexts}
MCByte ==
  UNION {{"/", "*", "\n", "\r", "\t", "VT", "\"", "\\", "n", "BACKQUOTE", "'",
          "a", "b", "x", "p", " ", ":", "=", "C2", "A7", "0", "9", "F"},
         NumeralBytes, {Bom[i] : i \in DOMAIN Bom}}
MCKeywords == {<<"a">>}
MCGarbage == {0, 9, UI64_MAX}
=============================================================================
