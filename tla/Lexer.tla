-------------------------------- MODULE Lexer --------------------------------
(***************************************************************************)
(* The lexer (lexer/lexer.cpp): lex, that cuts the bytes of a source file  *)
(* into tokens, with polish_string_literal and is_keyword.                 *)
(*                                                                         *)
(* lex is a loop over the bytes with one loop inside for each kind of      *)
(* token.  mode is the loop that runs, and a step is one of its turns.  A  *)
(* byte is named by its ASCII character, or by its number above them.  The *)
(* back quote and the vertical tab, that a string of TLA+ cannot hold, are *)
(* BACKQUOTE and VT.                                                       *)
(*                                                                         *)
(* The buffer of the file is exactly as long as the file: Assert stops the *)
(* process, in every build, when a byte is read from the stream after it.  *)
(***************************************************************************)
EXTENDS Integers, Sequences, SequencesExt, FiniteSets

CONSTANTS
  Byte,       \* the values of a byte
  Texts,      \* the contents of source files
  Keywords,   \* the texts of the keywords
  I32_MAX,    \* 2'147'483'647
  UI32_MAX,   \* 4'294'967'295
  UI64_MAX,   \* 2^64 - 1
  Garbage,    \* what an uninitialised value may hold
  NB_TOKENS   \* 512, the tokens that are predicted for an empty file

ASSUME TextsAssumption == Texts \subseteq Seq(Byte)
ASSUME WidthsAssumption ==
  /\ I32_MAX \in Nat /\ UI32_MAX \in Nat /\ UI64_MAX \in Nat
  /\ I32_MAX < UI32_MAX /\ UI32_MAX < UI64_MAX
  /\ 15 < UI64_MAX        \* the value of any digit
  /\ Garbage # {} /\ Garbage \subseteq 0 .. UI64_MAX
ASSUME TokensAssumption == NB_TOKENS \in Nat

VARIABLES
  text,       \* file_buffer
  position,   \* of the stream, from 1
  line,       \* current_line
  column,     \* current_column
  mode,       \* the loop that runs
  start,      \* where the token or the comment under way starts
  literal,    \* the numeric literal under way
  tokens,     \* the tokens so far
  status      \* how the lexing goes, or ended

vars == <<text, position, line, column, mode, start, literal, tokens, status>>

----------------------------------------------------------------------------
(* Bytes *)

White == {" ", "\t", "VT", "\f", "\r"}
NewLine == "\n"
Sign == {"~", "!", "@", "#", "$", "%", "^", "&", "*", "(", ")", "-", "+", "=",
         "{", "}", "[", "]", ":", ";", "|", "/", "\\", "<", ">", ",", ".", "?"}
Quote == {"\"", "'", "BACKQUOTE"}
punctuation_table_1 == UNION {White, {NewLine}, Sign, Quote}

\* The last three are the pound, the currency and the section signs.
Operator2 ==
  {<<"*", "/">>, <<"-", ">">>, <<"&", "&">>, <<"|", "|">>, <<":", ":">>,
   <<".", ".">>, <<":", "=">>, <<"=", "=">>, <<"!", "=">>, <<"\\", "\"">>,
   <<"C2", "A3">>, <<"C2", "A4">>, <<"C2", "A7">>}
LineComment == <<"/", "/">>
OpenBlockComment == <<"/", "*">>
CloseBlockComment == <<"*", "/">>
punctuation_table_2 == Operator2 \cup {LineComment, OpenBlockComment}

Digits == <<"0", "1", "2", "3", "4", "5", "6", "7", "8", "9">>
LowerHex == Digits \o <<"a", "b", "c", "d", "e", "f">>
UpperHex == Digits \o <<"A", "B", "C", "D", "E", "F">>
DigitsOf(base) == {LowerHex[i] : i \in 1 .. base} \cup {UpperHex[i] : i \in 1 .. base}
is_digit(c) == c \in DigitsOf(10)
ValueOf(c) == CHOOSE v \in 0 .. 15 : c \in {LowerHex[v + 1], UpperHex[v + 1]}

Bom == <<"EF", "BB", "BF">>

\* A byte of a buffer as the allocator gave it.
Uninitialized == "??"

----------------------------------------------------------------------------
(* Tokens *)

NumericType == {"I32", "UI32", "I64", "UI64", "F32", "F64", "REAL"}
Token == [
  type : {"UNKNOWN", "IDENTIFIER", "KEYWORD", "SYNTAXE_OPERATOR",
          "STRING_LITERAL_RAW", "STRING_LITERAL"} \cup NumericType,
  first : Nat, size : Nat,    \* the string view on the text
  line : Nat, column : Nat,
  value : Nat,                \* value.unsigned_integer
  string : Seq(Byte \cup {Uninitialized})]    \* value.string

Literal == [
  value : 0 .. UI64_MAX,
  flags : SUBSET {"IS_FLOATING_POINT", "HAS_EXPONENT", "UNSIGNED_SUFFIX",
                  "LONG_SUFFIX"},
  fraction : BOOLEAN]         \* a digit follows the last point
NoLiteral == [value |-> 0, flags |-> {}, fraction |-> FALSE]

Here == [first |-> position, line |-> line, column |-> column]
TokenAt(from, type, first, size) ==
  [type |-> type, first |-> first, size |-> size, line |-> from.line,
   column |-> from.column, value |-> 0, string |-> <<>>]

TextOf(first, size) == SubSeq(text, first, first + size - 1)

Init ==
  /\ text \in Texts
  /\ position = 1 /\ line = 1 /\ column = 1
  /\ mode = "file"
  /\ start = Here
  /\ literal = NoLiteral
  /\ tokens = <<>>
  /\ status = "lexing"

----------------------------------------------------------------------------
(* The stream *)

IsEof == position > Len(text)
Current == text[position]
Pair == IF position < Len(text) THEN SubSeq(text, position, position + 1) ELSE <<>>

In(m) == status = "lexing" /\ mode = m
InMain == In("main") /\ ~IsEof
InNumber == status = "lexing" /\ mode \in {"hexadecimal", "binary", "decimal",
                                           "fraction", "exponent"}

Peek(n) == position' = position + n /\ column' = column + n /\ line' = line
Stay == UNCHANGED <<position, line, column>>

\* A line break sets the column to 0 before it is peeked.
PeekNewLine == position' = position + 1 /\ line' = line + 1 /\ column' = 1

Stop(end) ==
  /\ status' = end
  /\ UNCHANGED <<text, position, line, column, mode, start, literal, tokens>>

----------------------------------------------------------------------------
(* The file *)

\* A BOM is skipped, and is in no column.  Its bytes are compared in turn.
BeginFile ==
  /\ In("file")
  /\ ~IsEof
  /\ ~IsStrictPrefix(text, Bom)
  /\ position' = IF IsPrefix(Bom, text) THEN 4 ELSE 1
  /\ mode' = "main"
  /\ UNCHANGED <<text, line, column, start, literal, tokens, status>>

EmptyFile == In("file") /\ IsEof /\ Stop("done")
CutBom ==
  In("file") /\ ~IsEof /\ IsStrictPrefix(text, Bom) /\ Stop("asserted")

\* More tokens than predicted are an internal error.
EndOfFile ==
  /\ In("main")
  /\ IsEof
  /\ Stop(IF Len(tokens) > Len(text) \div 5 + NB_TOKENS THEN "error" ELSE "done")

----------------------------------------------------------------------------
(* Blanks and comments *)

ReadBlank ==
  /\ InMain
  /\ Current \in White \cup {NewLine}
  /\ IF Current = NewLine THEN PeekNewLine ELSE Peek(1)
  /\ UNCHANGED <<text, mode, start, literal, tokens, status>>

BeginComment ==
  /\ InMain
  /\ Pair \in {LineComment, OpenBlockComment}
  /\ mode' = IF Pair = LineComment THEN "line_comment" ELSE "block_comment"
  /\ start' = Here
  /\ Stay
  /\ UNCHANGED <<text, literal, tokens, status>>

\* The line break is left to the main loop.
ReadLineComment ==
  /\ In("line_comment")
  /\ IF IsEof \/ Current = NewLine
       THEN mode' = "main" /\ Stay
       ELSE mode' = mode /\ Peek(1)
  /\ UNCHANGED <<text, start, literal, tokens, status>>

\* punctuation_2 keeps its value on the last byte: it is not a closing mark.
ReadBlockCommentUncounted ==
  /\ In("block_comment")
  /\ ~IsEof
  /\ IF Pair = CloseBlockComment THEN mode' = "main" /\ Peek(2)
                                 ELSE mode' = mode /\ Peek(1)
  /\ UNCHANGED <<text, start, literal, tokens, status>>
ReadBlockComment ==
  /\ In("block_comment")
  /\ ~IsEof
  /\ CASE Pair = CloseBlockComment -> mode' = "main" /\ Peek(2)
       [] Current = NewLine -> mode' = mode /\ PeekNewLine
       [] OTHER -> mode' = mode /\ Peek(1)
  /\ UNCHANGED <<text, start, literal, tokens, status>>

OpenBlockCommentAtEof == In("block_comment") /\ IsEof /\ Stop("error")

----------------------------------------------------------------------------
(* Strings *)

\* A double quote opens a string and a back quote a raw one.  The address of
\* its first byte is asked for: the quote is not the last byte of the file.
BeginString ==
  /\ InMain
  /\ Current \in {"\"", "BACKQUOTE"}
  /\ position < Len(text)
  /\ mode' = IF Current = "\"" THEN "string" ELSE "raw_string"
  /\ start' = Here
  /\ Peek(1)
  /\ UNCHANGED <<text, literal, tokens, status>>

QuoteAtEof ==
  /\ InMain
  /\ Current \in {"\"", "BACKQUOTE"}
  /\ position = Len(text)
  /\ Stop("asserted")

\* A character has no token yet.
ReadSingleQuote ==
  /\ InMain
  /\ Current = "'"
  /\ Peek(1)
  /\ UNCHANGED <<text, mode, start, literal, tokens, status>>

\* polish_string_literal.  An escape it does not know leaves the byte of the
\* buffer as the allocator gave it; the one that ends the text is followed by
\* the closing quote.
Escape == [n |-> "\n", r |-> "\r", t |-> "\t", v |-> "VT"]
ASSUME EscapesAssumption ==
  "\\" \in Byte /\ \A e \in DOMAIN Escape : Escape[e] \in Byte
Unescaped(c) == CASE c \in DOMAIN Escape -> Escape[c]
                  [] c = "\\" -> "\\"
                  [] OTHER -> Uninitialized
EscapeReadTwice(t) ==
  LET polished[i \in 1 .. Len(t) + 1] ==
        IF i > Len(t) THEN <<>>
        ELSE IF t[i] = "\\" /\ i < Len(t)
          THEN <<Unescaped(t[i + 1])>> \o polished[i + 1]
        ELSE <<t[i]>> \o polished[i + 1]
  IN  polished[1]
polish_string_literal(t) ==
  LET polished[i \in 1 .. Len(t) + 1] ==
        IF i > Len(t) THEN <<>>
        ELSE IF t[i] # "\\" THEN <<t[i]>> \o polished[i + 1]
        ELSE IF i = Len(t) THEN <<Uninitialized>>
        ELSE <<Unescaped(t[i + 1])>> \o polished[i + 2]
  IN  polished[1]

\* A raw string ends with a single quote.
CloseOf == [string |-> "\"", raw_string |-> "'"]
InString == status = "lexing" /\ mode \in DOMAIN CloseOf

CloseString ==
  LET first == start.first + 1
      size == position - first
      raw == TokenAt(start, "STRING_LITERAL_RAW", first, size)
  IN  /\ InString
      /\ ~IsEof
      /\ Current = CloseOf[mode]
      /\ tokens' = Append(tokens,
           IF mode = "raw_string" THEN raw
           ELSE [raw EXCEPT !.type = "STRING_LITERAL",
                   !.string = polish_string_literal(TextOf(first, size))])
      /\ mode' = "main"
      /\ Peek(1)
      /\ UNCHANGED <<text, start, literal, status>>

\* A line break is a byte like another.
ReadString ==
  /\ InString
  /\ ~IsEof
  /\ Current # CloseOf[mode]
  /\ Peek(1)
  /\ UNCHANGED <<text, mode, start, literal, tokens, status>>

OpenStringAtEof == InString /\ IsEof /\ Stop("error")

----------------------------------------------------------------------------
(* Operators and identifiers *)

ReadOperatorAsPair ==
  /\ InMain
  /\ Pair \in Operator2
       \/ (Current \in Sign /\ Pair \notin punctuation_table_2)
  /\ tokens' = Append(tokens, TokenAt(Here, "SYNTAXE_OPERATOR", position, 2))
  /\ Peek(2)
  /\ UNCHANGED <<text, mode, start, literal, status>>
ReadOperator ==
  LET size == IF Pair \in Operator2 THEN 2 ELSE 1
  IN  /\ InMain
      /\ Pair \in Operator2
           \/ (Current \in Sign /\ Pair \notin punctuation_table_2)
      /\ tokens' = Append(tokens,
                     TokenAt(Here, "SYNTAXE_OPERATOR", position, size))
      /\ Peek(size)
      /\ UNCHANGED <<text, mode, start, literal, status>>

BeginIdentifier ==
  /\ InMain
  /\ Current \notin punctuation_table_1
  /\ Pair \notin punctuation_table_2
  /\ ~is_digit(Current)
  /\ mode' = "identifier"
  /\ start' = Here
  /\ Stay
  /\ UNCHANGED <<text, literal, tokens, status>>

\* Signs of two bytes are not looked for.
InIdentifier == In("identifier") /\ ~IsEof /\ Current \notin punctuation_table_1
ReadIdentifier ==
  /\ InIdentifier
  /\ Peek(1)
  /\ UNCHANGED <<text, mode, start, literal, tokens, status>>

is_keyword(t) == t \in Keywords
EndOfIdentifier ==
  LET size == position - start.first
      type == IF is_keyword(TextOf(start.first, size))
                THEN "KEYWORD" ELSE "IDENTIFIER"
  IN  /\ In("identifier")
      /\ ~InIdentifier
      /\ tokens' = Append(tokens, TokenAt(start, type, start.first, size))
      /\ mode' = "main"
      /\ Stay
      /\ UNCHANGED <<text, start, literal, status>>

----------------------------------------------------------------------------
(* Numeric literals.  What a floating point literal is worth is left out.  *)

BaseOf == [hexadecimal |-> 16, binary |-> 2, decimal |-> 10]

\* The accumulator is not initialised after a prefix.
BeginPrefixed ==
  /\ InMain
  /\ Pair \in {<<"0", "x">>, <<"0", "b">>}
  /\ mode' = IF Pair[2] = "x" THEN "hexadecimal" ELSE "binary"
  /\ \E v \in Garbage : literal' = [NoLiteral EXCEPT !.value = v]
  /\ start' = Here
  /\ Peek(2)
  /\ UNCHANGED <<text, tokens, status>>

BeginDecimal ==
  /\ InMain
  /\ is_digit(Current)
  /\ Pair \notin {<<"0", "x">>, <<"0", "b">>}
  /\ mode' = "decimal"
  /\ literal' = [NoLiteral EXCEPT !.value = ValueOf(Current)]
  /\ start' = Here
  /\ Peek(1)
  /\ UNCHANGED <<text, tokens, status>>

NumberAtEof == InNumber /\ IsEof /\ Stop("asserted")
Reading(m) == In(m) /\ ~IsEof

\* The step keeps to the literal: it neither ends it nor fails.
Reads(n, m, l) ==
  /\ Peek(n)
  /\ mode' = m
  /\ literal' = l
  /\ UNCHANGED <<text, start, tokens, status>>

ReadDigitSigned ==
  /\ InNumber /\ ~IsEof
  /\ mode \in DOMAIN BaseOf
  /\ Current \in DigitsOf(BaseOf[mode])
  /\ Reads(1, mode, [literal EXCEPT
       !.value = (@ * BaseOf[mode] + ValueOf(Current)) % (I32_MAX + 1)])
ReadDigit ==
  /\ InNumber /\ ~IsEof
  /\ mode \in DOMAIN BaseOf
  /\ Current \in DigitsOf(BaseOf[mode])
  /\ Reads(1, mode, [literal EXCEPT
       !.value = (@ * BaseOf[mode] + ValueOf(Current)) % (UI64_MAX + 1)])

ReadUnderscoreLeft ==
  InNumber /\ ~IsEof /\ Current = "_" /\ Reads(0, mode, literal)
ReadUnderscore ==
  InNumber /\ ~IsEof /\ Current = "_" /\ Reads(1, mode, literal)

HexadecimalFloat ==
  Reading("hexadecimal") /\ Current \in {".", "p"} /\ Stop("asserted")

\* A second point starts the fraction again.
ReadPoint ==
  /\ Reading("decimal")
  /\ Current = "."
  /\ IF "HAS_EXPONENT" \in literal.flags
       THEN Stop("error")
       ELSE Reads(1, "fraction", [literal EXCEPT
              !.flags = @ \cup {"IS_FLOATING_POINT"}, !.fraction = FALSE])

ReadFraction ==
  /\ Reading("fraction")
  /\ is_digit(Current)
  /\ Reads(1, mode, [literal EXCEPT !.fraction = TRUE])

EndOfFraction ==
  /\ Reading("fraction")
  /\ ~is_digit(Current) /\ Current # "_"
  /\ IF literal.fraction THEN Reads(0, "decimal", literal) ELSE Stop("error")

BeginExponent ==
  /\ Reading("decimal")
  /\ Current = "e"
  /\ Reads(1, "exponent", [literal EXCEPT
       !.flags = @ \cup {"IS_FLOATING_POINT", "HAS_EXPONENT"}])

ReadExponent ==
  /\ Reading("exponent")
  /\ is_digit(Current) \/ Current \in {"+", "-"}
  /\ Reads(1, mode, literal)

EndOfExponent ==
  /\ Reading("exponent")
  /\ ~is_digit(Current) /\ Current \notin {"+", "-", "_"}
  /\ Reads(0, "decimal", literal)

IsFloating == "IS_FLOATING_POINT" \in literal.flags
CanBeUnsigned == Current = "u" /\ "UNSIGNED_SUFFIX" \notin literal.flags
CanBeLong == Current = "L" /\ "LONG_SUFFIX" \notin literal.flags

ReadUnsignedSuffix ==
  /\ Reading("decimal")
  /\ CanBeUnsigned
  /\ IF IsFloating
       THEN Stop("error")
       ELSE Reads(1, mode, [literal EXCEPT !.flags = @ \cup {"UNSIGNED_SUFFIX"}])

ReadLongSuffix ==
  /\ Reading("decimal")
  /\ CanBeLong
  /\ ~IsFloating
  /\ Reads(1, mode, [literal EXCEPT !.flags = @ \cup {"LONG_SUFFIX"}])

PushNumber(type, value, end) ==
  /\ tokens' = Append(tokens,
       [TokenAt(start, type, start.first, end - start.first)
          EXCEPT !.value = value])
  /\ mode' = "main"
  /\ UNCHANGED <<text, start, literal, status>>

\* The suffix of a floating point literal ends it.  Its size is then computed
\* from the address of the byte that follows.
FloatingSuffix == [L |-> "REAL", d |-> "F64", f |-> "F32"]
EndBeforeSuffix ==
  /\ Reading("decimal")
  /\ Current \in {"d", "f"} \/ (CanBeLong /\ IsFloating)
  /\ IF position = Len(text)
       THEN Stop("asserted")
       ELSE PushNumber(FloatingSuffix[Current], 0, position) /\ Peek(1)
EndWithSuffix ==
  /\ Reading("decimal")
  /\ Current \in {"d", "f"} \/ (CanBeLong /\ IsFloating)
  /\ IF position = Len(text)
       THEN Stop("asserted")
       ELSE PushNumber(FloatingSuffix[Current], 0, position + 1) /\ Peek(1)

\* 1L.5 is a floating point literal, and the suffix left its type to be set.
TypeOfLiteral(l) ==
  LET has(flag) == flag \in l.flags
  IN  IF has("IS_FLOATING_POINT")
        THEN IF has("LONG_SUFFIX") THEN "UNKNOWN" ELSE "F64"
      ELSE IF has("UNSIGNED_SUFFIX")
        THEN IF has("LONG_SUFFIX") \/ l.value > UI32_MAX THEN "UI64" ELSE "UI32"
      ELSE IF has("LONG_SUFFIX") \/ l.value > I32_MAX THEN "I64" ELSE "I32"

IsPartOfDecimal ==
  \/ is_digit(Current)
  \/ Current \in {".", "e", "d", "f", "_"}
  \/ CanBeUnsigned
  \/ CanBeLong
IsPartOfNumber ==
  CASE mode = "hexadecimal" -> Current \in DigitsOf(16) \cup {".", "p", "_"}
    [] mode = "binary" -> Current \in {"0", "1", "_"}
    [] OTHER -> IsPartOfDecimal

EndOfNumber ==
  /\ InNumber /\ ~IsEof
  /\ mode \in DOMAIN BaseOf
  /\ ~IsPartOfNumber
  /\ PushNumber(TypeOfLiteral(literal), IF IsFloating THEN 0 ELSE literal.value,
                position)
  /\ Stay

----------------------------------------------------------------------------
(* The whole *)

ReadFile == BeginFile \/ EmptyFile \/ CutBom \/ EndOfFile
ReadGap ==
  \/ ReadBlank \/ ReadSingleQuote
  \/ BeginComment \/ ReadLineComment \/ ReadBlockComment
  \/ OpenBlockCommentAtEof
ReadStringLiteral ==
  \/ BeginString \/ QuoteAtEof \/ ReadString \/ CloseString \/ OpenStringAtEof
ReadWord ==
  ReadOperator \/ BeginIdentifier \/ ReadIdentifier \/ EndOfIdentifier
ReadNumber ==
  \/ BeginPrefixed \/ BeginDecimal \/ NumberAtEof
  \/ ReadDigit \/ ReadUnderscore \/ HexadecimalFloat
  \/ ReadPoint \/ ReadFraction \/ EndOfFraction
  \/ BeginExponent \/ ReadExponent \/ EndOfExponent
  \/ ReadUnsignedSuffix \/ ReadLongSuffix \/ EndWithSuffix \/ EndOfNumber
lex == ReadFile \/ ReadGap \/ ReadStringLiteral \/ ReadWord \/ ReadNumber

Lexed == status # "lexing" /\ UNCHANGED vars
Next == lex \/ Lexed
Spec == Init /\ [][Next]_vars
FairSpec == Spec /\ WF_vars(lex)

----------------------------------------------------------------------------
(* Properties *)

\* Every variable stays in its type: of the values that the loops leave to one
\* another, none is out of the type of the code that reads it.
TypeOK ==
  /\ position \in 1 .. Len(text) + 1
  /\ line \in 1 .. Len(text) + 1 /\ column \in 1 .. Len(text) + 1
  /\ mode \in {"file", "main", "line_comment", "block_comment", "identifier",
               "string", "raw_string", "fraction", "exponent"} \cup DOMAIN BaseOf
  /\ start.first \in 1 .. position /\ start.line \in Nat /\ start.column \in Nat
  /\ literal \in Literal
  /\ \A i \in DOMAIN tokens : tokens[i] \in Token
  /\ status \in {"lexing", "done", "error", "asserted"}

IsString(t) == t.type \in {"STRING_LITERAL", "STRING_LITERAL_RAW"}
\* The bytes of a token, with the quotes of a string.
FirstByte(t) == IF IsString(t) THEN t.first - 1 ELSE t.first
LastByte(t) == t.first + t.size - (IF IsString(t) THEN 0 ELSE 1)
Body == IF IsPrefix(Bom, text) THEN 4 ELSE 1

At(i, pair) == i < Len(text) /\ SubSeq(text, i, i + 1) = pair
Earliest(S) == CHOOSE i \in S : \A j \in S : i <= j

\* Bytes that hold nothing but blanks, single quotes and whole comments, by
\* the grammar of the language: the end of a line comment is the line break
\* or the end of the text, the end of a block comment the first mark after
\* the star that opens it or that very star.
IsGap(first, last) ==
  LET from[i \in first .. Len(text) + 2] ==
        \/ i = last + 1
        \/ /\ i <= last
           /\ \/ text[i] \in White \cup {NewLine, "'"} /\ from[i + 1]
              \/ /\ At(i, LineComment)
                 /\ from[Earliest({Len(text) + 1} \cup
                           {j \in i .. Len(text) : text[j] = NewLine})]
              \/ LET ends == {j \in i + 1 .. Len(text) : At(j, CloseBlockComment)}
                 IN  /\ At(i, OpenBlockComment)
                     /\ ends # {}
                     /\ from[Earliest(ends) + 2]
  IN  from[first]

\* The tokens of a text that is lexed cut it exactly: in the order of the text,
\* none overlaps another, what lies before, between and after them is blank,
\* a comment or a single quote, and an identifier is not cut in two.
TokensPartitionText ==
  status = "done" =>
    LET n == Len(tokens)
        begins(i) == IF i = n + 1 THEN Len(text) + 1 ELSE FirstByte(tokens[i])
        ends(i) == IF i = 0 THEN Body - 1 ELSE LastByte(tokens[i])
    IN  \A i \in 0 .. n :
          /\ ends(i) < begins(i + 1)
          /\ IsGap(ends(i) + 1, begins(i + 1) - 1)
          /\ (i \in 1 .. n - 1 /\ tokens[i].type \in {"IDENTIFIER", "KEYWORD"}
                /\ tokens[i + 1].type \in {"IDENTIFIER", "KEYWORD"} \cup NumericType)
               => ends(i) + 1 < begins(i + 1)

\* The position of a token, that the errors of the later phases print, is the
\* one of its first byte: its line counts the line breaks before it that no
\* string holds, its column the bytes since the last of these, the BOM apart.
PositionsExact ==
  LET held(i) == \E j \in DOMAIN tokens :
                   IsString(tokens[j]) /\ i \in FirstByte(tokens[j]) .. LastByte(tokens[j])
      breaks(t) == {i \in Body .. FirstByte(t) - 1 : text[i] = NewLine /\ ~held(i)}
      lineStart(t) == Earliest({i \in Body .. FirstByte(t) :
                                 \A j \in breaks(t) : j < i})
  IN  \A i \in DOMAIN tokens :
        /\ tokens[i].line = 1 + Cardinality(breaks(tokens[i]))
        /\ tokens[i].column = FirstByte(tokens[i]) - lineStart(tokens[i]) + 1

\* A decoded string with its escapes written again.
Escaped(c) ==
  CASE \E e \in DOMAIN Escape : Escape[e] = c ->
         <<"\\", CHOOSE e \in DOMAIN Escape : Escape[e] = c>>
    [] c = "\\" -> <<"\\", "\\">>
    [] OTHER -> <<c>>
WithEscapes(s) ==
  LET written[i \in 1 .. Len(s) + 1] ==
        IF i > Len(s) THEN <<>> ELSE Escaped(s[i]) \o written[i + 1]
  IN  written[1]

\* A string literal that ends with no lone escape mark and only has escapes
\* that the language knows is decoded: to write the escapes again gives the
\* text of the source back.
StringsDecoded ==
  \A i \in DOMAIN tokens :
    LET t == tokens[i]
        raw == TextOf(t.first, t.size)
        plain == \A j \in 1 .. t.size : raw[j] \notin {Escape[e] : e \in DOMAIN Escape}
    IN  (t.type = "STRING_LITERAL" /\ plain
           /\ \A j \in DOMAIN t.string : t.string[j] # Uninitialized)
        => WithEscapes(t.string) = raw

\* What the digits of a text say in base ten; its other bytes say nothing.
WorthOf(s) ==
  LET worth[k \in 0 .. Len(s)] ==
        IF k = 0 THEN 0
        ELSE IF is_digit(s[k]) THEN worth[k - 1] * 10 + ValueOf(s[k])
        ELSE worth[k - 1]
  IN  worth[Len(s)]

IntegerType == {"I32", "UI32", "I64", "UI64"}
IsNumeral(t) == t.type \in NumericType \cup {"UNKNOWN"}
Floats(raw) == Contains(raw, ".") \/ Contains(raw, "e") \/ Last(raw) \in {"d", "f"}
NeedsLong(raw, value) ==
  Contains(raw, "L") \/ value > (IF Contains(raw, "u") THEN UI32_MAX ELSE I32_MAX)
TypedAsWritten(t, raw) ==
  /\ t.type \in IntegerType <=> ~Floats(raw)
  /\ ~Floats(raw) =>
       /\ t.type \in {"UI32", "UI64"} <=> Contains(raw, "u")
       /\ t.type \in {"I64", "UI64"} <=> NeedsLong(raw, t.value)
  /\ Floats(raw) =>
       /\ t.type = "F32" <=> Last(raw) = "f"
       /\ t.type = "REAL" <=> Last(raw) = "L"
       /\ t.type = "UNKNOWN" <=>
            Contains(raw, "L") /\ Last(raw) \notin {"L", "d", "f"}

\* A numeral in base ten is of the type its bytes ask for, wherever they are in
\* it: an integer without a point, an exponent or the suffix of a float, then
\* unsigned with a u, and of 64 bits with an L or over the largest of 32 bits;
\* a float of the type of the suffix that ends it or, without one, left without a
\* type when an L lies inside it, as in 1L.5.  An integer is worth what its
\* digits say when 64 bits hold them.
NumeralsExact ==
  \A i \in DOMAIN tokens :
    LET t == tokens[i]
        raw == TextOf(t.first, t.size)
    IN  (IsNumeral(t) /\ ~\E c \in {"x", "b"} : Contains(raw, c))
        => /\ TypedAsWritten(t, raw)
           /\ t.type \in IntegerType /\ WorthOf(raw) <= UI64_MAX =>
                t.value = WorthOf(raw)

\* Every file is lexed to its end or to an error: no byte keeps a loop turning.
LexingEnds == <>(status # "lexing")
=============================================================================
