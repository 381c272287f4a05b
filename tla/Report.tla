-------------------------------- MODULE Report --------------------------------
(***************************************************************************)
(* What the compiler says (globals.cpp and fstd/core/logger.cpp): a format *)
(* and its arguments are printed piece by piece to a String_Builder        *)
(* (fstd/core/string_builder.cpp), the pieces are put together in one      *)
(* string, which is converted for the console (fstd/system/stdio.cpp).     *)
(* The strings are arrays of UTF-8 code units, in a heap.                  *)
(*                                                                         *)
(* A call is given by the pieces its format is made of: text, and          *)
(* conversions with the text or the number (a sequence of one) given for   *)
(* them.  The indentation of the logger is left out, as no scope is ever   *)
(* pushed.                                                                 *)
(***************************************************************************)
EXTENDS Integers, Sequences, SequencesExt, FiniteSets, Arrays, Unicode

CONSTANTS
  Calls,      \* the calls: function, level, pieces
  LogLevel,   \* logger.level
  INT_MAX,    \* 2^31 - 1 and 2^63 - 1
  MaxCalls    \* bound

ASSUME LevelAssumption == LogLevel \in 0 .. 3
ASSUME IntAssumption == INT_MAX \in Nat /\ (INT_MAX + 1) % 256 = 0

INT_MIN == -INT_MAX - 1
error == 3   \* and internal_error is above it

VARIABLES
  call,           \* the call that runs
  heap,
  format_string, error_message_string, formatted_string,
  strings,        \* string_builder.strings
  position, start_print_position, next_print_length,
  args,           \* the arguments that va_arg did not give yet
  console,        \* what was written, with the call that wrote it
  step            \* what the call does next

locals == <<format_string, error_message_string, formatted_string, strings>>
cursor == <<position, start_print_position, next_print_length, args>>
vars == <<call, heap, locals, cursor, console, step>>

----------------------------------------------------------------------------
(* Characters, and the texts they are the code points of *)

Percent == 37
Zero == 48
Minus == 45
Letter == [d |-> 100, u |-> 117, x |-> 120, s |-> 115, v |-> 118, l |-> 108,
           C |-> 67, w |-> 119, f |-> 102]
Conversions ==
  [percent |-> <<Percent>>, d |-> <<Letter.d>>, u |-> <<Letter.u>>,
   ld |-> <<Letter.l, Letter.d>>, x |-> <<Letter.x>>, s |-> <<Letter.s>>,
   v |-> <<Letter.v>>, Cv |-> <<Letter.C, Letter.v>>,
   Cs |-> <<Letter.C, Letter.s>>, Cw |-> <<Letter.C, Letter.w>>,
   f |-> <<Letter.f>>]

\* UTF-8 and UTF-16 as they are defined.
Utf8(c) ==
  CASE c < 128   -> <<c>>
    [] c \in 128 .. 2047 -> <<192 + (c \div 64), 128 + (c % 64)>>
    [] c \in 2048 .. 65535 ->
         <<224 + (c \div 4096), 128 + ((c \div 64) % 64), 128 + (c % 64)>>
    [] OTHER -> <<240 + (c \div 262144), 128 + ((c \div 4096) % 64),
                  128 + ((c \div 64) % 64), 128 + (c % 64)>>
Utf16(c) ==
  IF c < 65536 THEN <<c>>
  ELSE <<55296 + ((c - 65536) \div 1024), 56320 + ((c - 65536) % 1024)>>
Utf8Text(text) == FlattenSeq([i \in DOMAIN text |-> Utf8(text[i])])
Utf16Text(text) == FlattenSeq([i \in DOMAIN text |-> Utf16(text[i])])

\* A call's format, and what va_arg gives for it.
Text(value) == [type |-> "text", value |-> value]
Header(level) == <<64 + level>>
PiecesOf(c) ==
  CASE c.function = "report_error" ->
         <<[type |-> "v", value |-> Header(c.level)], Text(<<32>>),
           [type |-> "s", value |-> c.pieces[1].value]>>
    [] c.function = "report_error at" ->
         <<[type |-> "v", value |-> Header(c.level)], Text(<<32>>),
           [type |-> "v", value |-> c.pieces[1].value], Text(<<40>>),
           [type |-> "d", value |-> c.pieces[2].value], Text(<<44, 32>>),
           [type |-> "d", value |-> c.pieces[3].value], Text(<<41, 58, 32>>),
           [type |-> "s", value |-> c.pieces[4].value]>>
    [] c.function = "log" -> c.pieces
MessageOf(c) == IF c.function = "log" THEN <<>> ELSE Last(c.pieces).value
FormatOf(pieces) ==
  FlattenSeq([i \in DOMAIN pieces |->
    IF pieces[i].type = "text" THEN Utf8Text(pieces[i].value)
    ELSE <<Percent>> \o Conversions[pieces[i].type]])
ArgumentOf(piece) ==
  CASE piece.type \in {"s", "v", "Cv", "Cs"} -> Utf8Text(piece.value)
    [] piece.type = "Cw" -> Utf16Text(piece.value)
    [] OTHER -> Head(piece.value)
ArgumentsOf(pieces) ==
  LET given == SelectSeq(pieces, LAMBDA p : p.type \notin {"text", "percent"})
  IN  [i \in DOMAIN given |-> ArgumentOf(given[i])]

----------------------------------------------------------------------------
(* to_string of an integer *)

\* Two digits at a time, the last ones first.  The opposite of the least
\* integer is itself, and only its low byte is kept.
Opposite(n) == IF n = INT_MIN THEN n ELSE -n
RECURSIVE Backwards(_)
Backwards(quotien) ==
  LET Pair2(n) == <<Zero + (n % 10), Zero + (n \div 10)>>
  IN  CASE quotien >= 100 -> Pair2(quotien % 100) \o Backwards(quotien \div 100)
        [] quotien < 10   -> <<Zero + (quotien % 256)>>
        [] OTHER          -> Pair2(quotien)
to_string(number) ==
  IF number < 0 THEN <<Minus>> \o Reverse(Backwards(Opposite(number)))
                ELSE Reverse(Backwards(number))

----------------------------------------------------------------------------
(* Calling *)

Init ==
  /\ call = [function |-> "none"]
  /\ heap = EmptyHeap
  /\ format_string = init /\ error_message_string = init
  /\ formatted_string = init /\ strings = init
  /\ position = 0 /\ start_print_position = 0 /\ next_print_length = 0
  /\ args = <<>>
  /\ console = <<>>
  /\ step = "idle"

Begin(c) ==
  /\ step = "idle" /\ Len(console) < MaxCalls
  /\ call' = c
  /\ args' = ArgumentsOf(PiecesOf(c))
  /\ UNCHANGED <<heap, locals, position, start_print_position,
                 next_print_length, console>>
CallReport ==
  \E c \in Calls : /\ c.function # "log"
                   /\ Begin(c) /\ step' = "message"
\* The header is printed to the builder before the format.
CallLog ==
  \E c \in Calls : /\ c.function = "log" /\ c.level >= LogLevel
                   /\ Begin(c) /\ step' = "header"
LogFilteredOut ==
  /\ step = "idle"
  /\ \E c \in Calls : c.function = "log" /\ c.level < LogLevel
  /\ UNCHANGED vars

AssignMessage ==
  LET assigned == assign(heap, init, Utf8Text(MessageOf(call)))
  IN  /\ step = "message" /\ step' = "format"
      /\ heap' = assigned.heap
      /\ error_message_string' = assigned.array
      /\ UNCHANGED <<call, format_string, formatted_string, strings, cursor,
                     console>>

AssignFormat ==
  LET assigned == assign(heap, init, FormatOf(PiecesOf(call)))
  IN  /\ step = "format" /\ step' = "print"
      /\ heap' = assigned.heap
      /\ format_string' = assigned.array
      /\ UNCHANGED <<call, error_message_string, formatted_string, strings,
                     cursor, console>>

----------------------------------------------------------------------------
(* Printing to the builder *)

\* A new string at the end of the array, then its content.
Push(state, units) ==
  LET string == copy(state.heap, init, 0, units)
      pushed == array_push_back(string.heap, state.array, string.array)
  IN  pushed
Builder == [heap |-> heap, array |-> strings]
PushText(state, units) == IF units = <<>> THEN state ELSE Push(state, units)
PushInteger(state, value) == Push(state, to_string(value))
Builds(state) == heap' = state.heap /\ strings' = state.array

PrintHeader ==
  /\ step = "header" /\ step' = "format"
  /\ Builds(Push(Builder, Utf8Text(Header(call.level))))
  /\ UNCHANGED <<call, format_string, error_message_string, formatted_string,
                 cursor, console>>

Format == Elements(heap, format_string)
At(i) == Format[i + 1]
FromTheStart == SubSeq(Format, 1, next_print_length)
Pending == SubSeq(Format, start_print_position + 1,
                  start_print_position + next_print_length)
Flushed == PushText(Builder, Pending)

FormatText ==
  /\ step = "print" /\ position < Len(Format) /\ At(position) # Percent
  /\ position' = position + 1
  /\ next_print_length' = next_print_length + 1
  /\ UNCHANGED <<call, heap, locals, start_print_position, args, console, step>>

\* A conversion of one or two characters, after the text before it.
Converts(type) ==
  LET letters == Conversions[type]
  IN  /\ step = "print" /\ position < Len(Format) /\ At(position) = Percent
      /\ IsPrefix(letters, SubSeq(Format, position + 2, Len(Format)))
      /\ position' = position + 1 + Len(letters)
      /\ start_print_position' = position'
      /\ next_print_length' = 0
      /\ UNCHANGED <<call, format_string, error_message_string, formatted_string,
                     console>>
Takes == args' = Tail(args)

FormatPercent ==
  /\ Converts("percent")
  /\ Builds(Push(Flushed, <<Percent>>))
  /\ UNCHANGED <<args, step>>
FormatInteger ==
  /\ \E type \in {"d", "u", "ld"} : Converts(type)
  /\ Builds(PushInteger(Flushed, Head(args)))
  /\ Takes /\ UNCHANGED step
\* Only the prefix: the digits are not implemented.
FormatHexadecimal ==
  /\ Converts("x")
  /\ Builds(Push(Push(Flushed, <<Zero, Letter.x>>), <<>>))
  /\ Takes /\ UNCHANGED step
FormatString ==
  /\ \E type \in {"s", "v"} : Converts(type)
  /\ Builds(Push(Flushed, Head(args)))
  /\ Takes /\ UNCHANGED step
FormatCString ==
  /\ \E type \in {"Cv", "Cs"} : Converts(type)
  /\ Builds(PushText(Flushed, Head(args)))
  /\ Takes /\ UNCHANGED step
FormatWideString ==
  LET converted == from_utf16LE_to_utf8(Head(args))
  IN  /\ Converts("Cw")
      /\ Takes
      /\ IF \E i \in DOMAIN converted : converted[i] = Unpaired
           THEN step' = "asserted" /\ UNCHANGED <<heap, strings>>
           ELSE Builds(PushText(Flushed, converted)) /\ UNCHANGED step
FormatFloat ==
  /\ Converts("f")
  /\ step' = "asserted"
  /\ Takes /\ UNCHANGED <<heap, strings>>

FormatEnds ==
  /\ step = "print" /\ position >= Len(Format)
  /\ Builds(Flushed)
  /\ next_print_length' = 0
  /\ step' = "to_string"
  /\ UNCHANGED <<call, format_string, error_message_string, formatted_string,
                 position, start_print_position, args, console>>

----------------------------------------------------------------------------
(* Writing the message *)

Pieces == Elements(heap, strings)
BuilderToString ==
  LET total    == FoldLeft(LAMBDA sum, s : sum + s.size, 0, Pieces)
      reserved == reserve_array(heap, init, total + 1)
      Copy(state, string) ==
        array_copy(state.heap, state.array, state.array.size,
                   Elements(state.heap, string))
      copied   == FoldLeft(Copy, reserved, Pieces)
  IN  /\ step = "to_string" /\ step' = "write"
      /\ heap' = Written(copied, total, <<0>>).heap
      /\ formatted_string' = copied.array
      /\ UNCHANGED <<call, format_string, error_message_string, strings, cursor,
                     console>>

\* The converted string is never released.
WriteConsole ==
  LET text  == Elements(heap, formatted_string)
      units == from_utf8_to_utf16LE(text)
  IN  /\ step = "write"
      /\ heap' = array_copy(reserve_array(heap, init, Len(text) + 1).heap,
                            reserve_array(heap, init, Len(text) + 1).array,
                            0, units).heap
      /\ console' = Append(console, [call |-> call, units |-> units])
      /\ step' = IF call.function # "log" /\ call.level >= error
                   THEN "aborted" ELSE "return"
      /\ UNCHANGED <<call, locals, cursor>>

\* What is deferred: the format and the message are not in it.
FreeArrayOnly == release(heap, strings).heap
free_buffers ==
  FoldLeft(LAMBDA h, string : release(h, string).heap,
           release(heap, strings).heap, Pieces)
Return ==
  /\ step = "return" /\ step' = "idle"
  /\ heap' = release(free_buffers, formatted_string).heap
  /\ strings' = init /\ formatted_string' = init
  /\ format_string' = init /\ error_message_string' = init
  /\ position' = 0 /\ start_print_position' = 0
  /\ UNCHANGED <<call, next_print_length, args, console>>

----------------------------------------------------------------------------
Next ==
  \/ CallReport \/ CallLog \/ LogFilteredOut \/ AssignMessage \/ AssignFormat
  \/ PrintHeader \/ FormatText \/ FormatPercent \/ FormatInteger
  \/ FormatHexadecimal \/ FormatString \/ FormatCString \/ FormatWideString
  \/ FormatFloat \/ FormatEnds \/ BuilderToString \/ WriteConsole \/ Return

Spec == Init /\ [][Next]_vars

----------------------------------------------------------------------------
(* Properties *)

\* What a call says, in code points.
RECURSIVE Decimal(_)
Decimal(n) ==
  CASE n < 0  -> <<Minus>> \o Decimal(-n)
    [] n > 9  -> Decimal(n \div 10) \o <<Zero + (n % 10)>>
    [] OTHER  -> <<Zero + n>>
Meant(c) ==
  (IF c.function = "log" THEN Header(c.level) ELSE <<>>)
  \o FlattenSeq([i \in DOMAIN PiecesOf(c) |->
       LET piece == PiecesOf(c)[i]
       IN  CASE piece.type = "percent" -> <<Percent>>
             [] piece.type \in {"d", "u", "ld"} -> Decimal(Head(piece.value))
             [] piece.type = "x" -> <<Zero, Letter.x>>
             [] OTHER -> piece.value])

\* What is converted as it should be.  Bit 13 of the second unit of a pair is
\* left in it, and 0x10000 is flipped in the units that are read four by four.
Bit(number, bit) == Shift(number, bit) % 2 = 1
KeptByUtf16(text) ==
  LET before(i) == Len(Utf8Text(SubSeq(text, 1, i - 1)))
  IN  \A i \in DOMAIN text : text[i] >= 65536 =>
        /\ ~Bit(text[i] - 65536, 13)
        /\ before(i) < AlignedSize(Utf8Text(text)) => Bit(text[i], 16)
\* A unit from 0xF800 on is taken for the first one of a pair.
KeptByUtf8(piece) ==
  piece.type = "Cw" => \A i \in DOMAIN piece.value :
    piece.value[i] \notin 63488 .. 65535
Convertible(c) ==
  /\ KeptByUtf16(Meant(c))
  /\ \A i \in DOMAIN PiecesOf(c) :
       LET piece == PiecesOf(c)[i]
       IN  /\ KeptByUtf8(piece)
           /\ piece.type \in {"d", "u", "ld"} => Head(piece.value) # INT_MIN

\* The console shows the header, the text of the format and every argument in
\* its place, in UTF-16, for exactly the calls whose characters the
\* conversions keep and without the least integer.
ConsoleShowsMessage ==
  \A i \in DOMAIN console :
    console[i].units = Utf16Text(Meant(console[i].call))
      <=> Convertible(console[i].call)

\* A block is the buffer of one array at most, long enough for its elements.
\* What remains of the calls that returned is one format, one converted string
\* and the message of the error if it is not empty, for each, and nothing else.
Owned == {format_string, error_message_string, formatted_string, strings}
         \cup ToSet(Pieces)
LeakedBy(c) == IF MessageOf(c) = <<>> THEN 2 ELSE 3
BlocksAccounted ==
  /\ \A array \in Owned : array.ptr # nullptr =>
       array.ptr \in Allocated(heap) /\ array.size <= Reserved(heap, array)
  /\ \A i, j \in DOMAIN Pieces :
       i # j /\ Pieces[i].ptr # nullptr => Pieces[i].ptr # Pieces[j].ptr
  /\ step = "idle" =>
       Cardinality(Allocated(heap)) =
         FoldLeft(LAMBDA sum, entry : sum + LeakedBy(entry.call), 0, console)
=============================================================================
