------------------------------- MODULE Unicode -------------------------------
(***************************************************************************)
(* The conversions between UTF-8, UTF-16 and code points                   *)
(* (fstd/core/unicode.hpp).  Text is a sequence of code units.             *)
(***************************************************************************)
EXTENDS Integers, Sequences, Bitwise

\* Bits of a number, as the casts and the masks of the code take them.
Low(number, bits) == number % 2^bits
Shift(number, bits) == number \div 2^bits

----------------------------------------------------------------------------
(* One character *)

\* The first code unit tells how many follow, and each gives six bits.
LengthFromLead(unit) ==
  CASE (unit & 240) = 240 -> 4
    [] (unit & 240) # 240 /\ (unit & 224) = 224 -> 3
    [] (unit & 224) # 224 /\ (unit & 192) = 192 -> 2
    [] OTHER -> 1
LeadMark(length) == <<0, 192, 224, 240>>[length]

\* Units that are not there are given as 0.
UnitAt(text, i) == IF i <= Len(text) THEN text[i] ELSE 0
CodePointOf(text, i) ==
  LET length == LengthFromLead(text[i])
      value[k \in 1 .. length] ==
        IF k = 1 THEN text[i] ^^ LeadMark(length)
        ELSE (64 * value[k - 1]) | (UnitAt(text, i + k - 1) ^^ 128)
  IN  value[length]
from_utf8(text, i) ==
  [code_point |-> CodePointOf(text, i), peek |-> LengthFromLead(text[i])]

to_utf8(code_point) ==
  LET Unit(shift, mark) == (Shift(code_point, shift) & 63) | mark
  IN  CASE code_point < 128   -> <<code_point>>
        [] code_point \in 128 .. 2047 -> <<Unit(6, 192), Unit(0, 128)>>
        [] code_point \in 2048 .. 65535 ->
             <<Unit(12, 224), Unit(6, 128), Unit(0, 128)>>
        [] OTHER -> <<Unit(18, 240), Unit(12, 128), Unit(6, 128), Unit(0, 128)>>

IsPair(unit) == (unit & 55296) = 55296
from_utf16LE(unit_1, unit_2) ==
  IF IsPair(unit_1)
    THEN ((1024 * (unit_1 ^^ 55296)) | (unit_2 ^^ 56320)) + 65536
    ELSE unit_1

\* The units of a code point above the first plane, once something was taken
\* from it: the second one keeps more than ten bits.
Pair(code_point) ==
  <<Low(Shift(code_point, 10) | 55296, 16), Low(code_point, 16) | 56320>>
to_utf16LE(code_point) ==
  IF code_point >= 65536 THEN Pair(code_point - 65536) ELSE <<code_point>>

----------------------------------------------------------------------------
(* Strings *)

\* As long as four units can be read at once, the units are made without
\* building the code point: 0x10000 is flipped instead of subtracted.
Direct(code_point) ==
  IF code_point >= 65536 THEN Pair(code_point ^^ 65536) ELSE <<code_point>>
AlignedSize(text) == Len(text) - (Len(text) % 4)
RECURSIVE Utf16From(_, _)
Utf16From(text, i) ==
  IF i > Len(text) THEN <<>>
  ELSE LET read == from_utf8(text, i)
       IN  (IF i <= AlignedSize(text) THEN Direct(read.code_point)
                                      ELSE to_utf16LE(read.code_point))
           \o Utf16From(text, i + read.peek)
from_utf8_to_utf16LE(text) == Utf16From(text, 1)

\* The first unit of a pair asserts that there is another one.
Unpaired == -1
RECURSIVE Utf8From(_, _)
Utf8From(text, i) ==
  CASE i > Len(text) -> <<>>
    [] i = Len(text) /\ IsPair(text[i]) -> <<Unpaired>>
    [] i < Len(text) /\ IsPair(text[i]) ->
         to_utf8(from_utf16LE(text[i], text[i + 1])) \o Utf8From(text, i + 2)
    [] OTHER -> to_utf8(text[i]) \o Utf8From(text, i + 1)
from_utf16LE_to_utf8(text) == Utf8From(text, 1)
=============================================================================
