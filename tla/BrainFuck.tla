------------------------------ MODULE BrainFuck ------------------------------
(***************************************************************************)
(* The BrainFuck compiler of the research directory                        *)
(* (BrainFuck-compiler/qaxobesaqa.cpp): compile_bf turns a source into x64 *)
(* instructions in one pass, gathering the additions made around the       *)
(* current cell in a table it flushes before anything that can read a      *)
(* cell; mainCRTStartup writes the executable.  Then the processor runs    *)
(* the instructions: what one does is what the comment next to its bytes   *)
(* says, and it is what the source's meaning is compared with.             *)
(*                                                                         *)
(* An instruction has the address and the size of its encoding, because    *)
(* jumps are distances in bytes, some of them patched later.               *)
(***************************************************************************)
EXTENDS Integers, Sequences, SequencesExt, FiniteSets

CONSTANTS
  Sources,     \* the sources, as sequences of characters
  Input,       \* what the program is given to read, as a sequence of cells
  INT8_MAX,    \* 127: the last offset from the cell a flush began at
  CELL,        \* 256: values of a cell
  STACK_MAX,   \* 512: loops that can be open
  TapeEdge,    \* 29999: the last cell
  MaxSteps     \* bound: instructions run

ASSUME INT8Assumption == INT8_MAX \in Nat \ {0}
ASSUME CellAssumption == CELL \in Nat /\ CELL > 2
ASSUME InputAssumption == Input \in Seq(0 .. CELL - 1)
ASSUME StackAssumption == STACK_MAX \in Nat

INT8_MIN == -(INT8_MAX + 1)
INT8 == INT8_MIN .. INT8_MAX
Tape == 0 .. TapeEdge

VARIABLES
  source, at,  \* the source, and the next character of it
  code,        \* result.data, instruction by instruction
  table,       \* offset_table: what is to be added around the current cell
  stack,       \* the branches of the open loops
  machine,     \* the running program: its tape and what it wrote and read
  status       \* how the compilation goes, then the program

vars == <<source, at, code, table, stack, machine, status>>

----------------------------------------------------------------------------
(* Reading the source: the next operation, runs of + - and of > < as one *)

Value == [c \in {"+", "-"} |-> IF c = "+" THEN 1 ELSE -1]
Pointer == [c \in {">", "<"} |-> IF c = ">" THEN 1 ELSE -1]
Operation == DOMAIN Value \cup DOMAIN Pointer \cup {"[", "]", ".", ","}

FirstFrom(p, chars) ==
  LET found == {i \in p .. Len(source) : source[i] \in chars}
  IN  IF found = {} THEN Len(source) + 1
      ELSE CHOOSE i \in found : \A j \in found : i <= j
RunFrom(p, effect) ==
  LET after == FirstFrom(p, Operation \ DOMAIN effect)
  IN  [value |-> FoldLeft(LAMBDA v, c : IF c \in DOMAIN effect
                                          THEN v + effect[c] ELSE v,
                          0, SubSeq(source, p, after - 1)),
       next |-> after]
next_ir(from) ==
  LET p == FirstFrom(from, Operation)
      c == source[p]
      One(type) == [type |-> type, value |-> 0, next |-> p + 1]
      Run(type, effect) ==
        [type |-> type, value |-> RunFrom(p, effect).value,
         next |-> RunFrom(p, effect).next]
  IN  IF p > Len(source) THEN [type |-> "NOP", value |-> 0, next |-> p]
      ELSE
        CASE c \in DOMAIN Value   -> Run("ADD_VAL", Value)
        [] c \in DOMAIN Pointer -> Run("ADD_PTR", Pointer)
        [] c = "[" -> One("WHILE_START")
        [] c = "]" -> One("WHILE_END")
        [] c = "." -> One("PRINT")
        [] c = "," -> One("INPUT")

----------------------------------------------------------------------------
(* Emitting *)

\* The routines that print and read a character, then the prologue of the
\* program.
print_char_location == 0
input_char_location == 44
entry_offset == 88
PrologueEnd == entry_offset + 26

SizeOf(instructions) ==
  IF instructions = <<>> THEN PrologueEnd
  ELSE Last(instructions).at + Last(instructions).size
Instruction(op, size, offset, value) ==
  [op |-> op, at |-> 0, size |-> size, offset |-> offset, value |-> value]
Emit(instructions, new) ==
  LET emitted[i \in 0 .. Len(new)] ==
        IF i = 0 THEN instructions
        ELSE Append(emitted[i - 1], [new[i] EXCEPT !.at = SizeOf(emitted[i - 1])])
  IN  emitted[Len(new)]

\* One byte less for 1 and -1, which are inc and dec, and for the current cell.
Signed(value) == IF value >= CELL \div 2 THEN value - CELL ELSE value
Add(offset, value) ==
  Instruction("add", (IF Signed(value) \in {1, -1} THEN 2 ELSE 3)
                       + (IF offset = 0 THEN 0 ELSE 1), offset, value)
Move(offset) ==
  Instruction("move", IF offset \in INT8 THEN 4 ELSE 7, offset, 0)

\* The entry of the offset the pointer moves to is added after the move, with
\* the shorter encoding.  The loop ends before its last offset, whose entry
\* stays.
Flushable == INT8 \ {INT8_MAX}
InUse(t, offset) == offset \in t.in_use /\ t.value[offset] # 0
Matches(t) == t.offset # 0 /\ t.offset \in Flushable /\ InUse(t, t.offset)
Additions(t) ==
  LET upTo[o \in INT8_MIN - 1 .. INT8_MAX - 1] ==
        IF o < INT8_MIN THEN <<>>
        ELSE IF InUse(t, o) /\ (o # t.offset \/ o = 0)
          THEN Append(upTo[o - 1], Add(o, t.value[o]))
        ELSE upTo[o - 1]
  IN  upTo[INT8_MAX - 1]
Emitted(t) ==
  Additions(t)
    \o (IF t.offset # 0 THEN <<Move(t.offset)>> ELSE <<>>)
    \o (IF Matches(t) THEN <<Add(0, t.value[t.offset])>> ELSE <<>>)
FlushedKeepingValues(t) ==
  [in_use |-> t.in_use \ Flushable, value |-> t.value, offset |-> 0]
Flushed(t) ==
  [in_use |-> t.in_use \ Flushable,
   value  |-> [o \in INT8 |-> IF o \in t.in_use \cap Flushable
                                THEN 0 ELSE t.value[o]],
   offset |-> 0]

EmptyTable == [in_use |-> {}, value |-> [o \in INT8 |-> 0], offset |-> 0]
Start == [pc |-> PrologueEnd, pointer |-> 0, tape |-> [c \in Tape |-> 0],
          output |-> <<>>, consumed |-> 0, steps |-> 0]

Init ==
  /\ source \in Sources
  /\ at = 1
  /\ code = <<>>
  /\ table = EmptyTable
  /\ stack = <<>>
  /\ machine = Start
  /\ status = "opening"

\* The characters of the name are written without end when it is not found.
CannotOpen ==
  /\ status = "opening"
  /\ status' = "crashed"
  /\ UNCHANGED <<source, at, code, table, stack, machine>>
ReadSource ==
  /\ status = "opening"
  /\ status' = "compiling"
  /\ UNCHANGED <<source, at, code, table, stack, machine>>

Reads(type) ==
  /\ status = "compiling" /\ at <= Len(source)
  /\ next_ir(at).type = type
  /\ at' = next_ir(at).next
FlushAnd(instructions) ==
  /\ code' = Emit(Emit(code, Emitted(table)), instructions)
  /\ table' = Flushed(table)

AddVal ==
  /\ Reads("ADD_VAL")
  /\ table' = [table EXCEPT
                 !.in_use = @ \cup {table.offset},
                 !.value[table.offset] = (@ + next_ir(at).value) % CELL]
  /\ UNCHANGED <<source, code, stack, machine, status>>

\* The table only reaches offsets of a byte.
AddPtr ==
  LET moved == [table EXCEPT !.offset = @ + next_ir(at).value]
  IN  /\ Reads("ADD_PTR")
      /\ IF moved.offset \in INT8
           THEN table' = moved /\ UNCHANGED code
           ELSE table' = Flushed(moved) /\ code' = Emit(code, Emitted(moved))
      /\ UNCHANGED <<source, stack, machine, status>>

\* A loop that only adds or subtracts one sets the cell to zero.
IsClear ==
  LET body == next_ir(next_ir(at).next)
  IN  /\ body.type = "ADD_VAL" /\ body.value \in {1, -1}
      /\ next_ir(body.next).type = "WHILE_END"
ClearLoop ==
  /\ status = "compiling" /\ at <= Len(source)
  /\ next_ir(at).type = "WHILE_START" /\ IsClear
  /\ at' = next_ir(next_ir(next_ir(at).next).next).next
  /\ FlushAnd(<<Instruction("zero", 3, 0, 0)>>)
  /\ UNCHANGED <<source, stack, machine, status>>

\* A comparison and a jump whose distance is not known yet; the stack keeps
\* where the distance goes.
WhileStart ==
  /\ Reads("WHILE_START") /\ ~IsClear
  /\ Len(stack) < STACK_MAX
  /\ FlushAnd(<<Instruction("branch", 9, 0, 0)>>)
  /\ stack' = Append(stack, SizeOf(Emit(code, Emitted(table))) + 5)
  /\ UNCHANGED <<source, machine, status>>

\* An error returns the code as it is, without the epilogue, and the executable
\* is written all the same.
StackFull ==
  /\ Reads("WHILE_START") /\ ~IsClear
  /\ Len(stack) >= STACK_MAX
  /\ FlushAnd(<<>>)
  /\ status' = "compiled"
  /\ UNCHANGED <<source, stack, machine>>

\* The jump goes back to the comparison, which now jumps after it.
DistanceFromBranch(size, top) == size - top
Distance(size, top) == size - (top + 4)
WhileEnd ==
  LET flushed == Emit(code, Emitted(table))
      top     == Last(stack)
      back    == -((SizeOf(flushed) + 5) - (top - 5))
      looped  == Emit(flushed, <<Instruction("jump", 5, back, 0)>>)
  IN  /\ Reads("WHILE_END") /\ stack # <<>>
      /\ code' = [i \in DOMAIN looped |->
                    IF looped[i].at + 5 = top
                      THEN [looped[i] EXCEPT
                              !.offset = Distance(SizeOf(looped), top)]
                      ELSE looped[i]]
      /\ table' = Flushed(table)
      /\ stack' = Front(stack)
      /\ UNCHANGED <<source, machine, status>>

UnexpectedEnd ==
  /\ Reads("WHILE_END") /\ stack = <<>>
  /\ status' = "compiled"
  /\ UNCHANGED <<source, code, table, stack, machine>>

Call(location) ==
  Instruction("call", 5, location - (SizeOf(Emit(code, Emitted(table))) + 5), 0)
EmitPrint ==
  /\ Reads("PRINT")
  /\ FlushAnd(<<Call(print_char_location)>>)
  /\ UNCHANGED <<source, stack, machine, status>>
EmitInput ==
  /\ Reads("INPUT")
  /\ FlushAnd(<<Call(input_char_location)>>)
  /\ UNCHANGED <<source, stack, machine, status>>

SkipComment ==
  /\ Reads("NOP")
  /\ UNCHANGED <<source, code, table, stack, machine, status>>

\* What is left in the table when the source ends is never read.
EndOfSource ==
  /\ status = "compiling" /\ at > Len(source)
  /\ code' = Emit(code, <<Instruction("return", 9, 0, 0)>>)
  /\ status' = "compiled"
  /\ UNCHANGED <<source, at, table, stack, machine>>

WriteExecutable ==
  /\ status = "compiled"
  /\ status' = "running"
  /\ UNCHANGED <<source, at, code, table, stack, machine>>

----------------------------------------------------------------------------
(* The processor *)

Here == {i \in DOMAIN code : code[i].at = machine.pc}
Executes(op) ==
  /\ status = "running" /\ machine.steps < MaxSteps
  /\ \E i \in Here : code[i].op = op
Now == code[CHOOSE i \in Here : TRUE]
After_pc == Now.at + Now.size
Goes(changed, pc) ==
  /\ machine' = [changed EXCEPT !.pc = pc, !.steps = @ + 1]
  /\ UNCHANGED <<source, at, code, table, stack, status>>
OnTape == machine.pointer + Now.offset \in Tape

ExecuteAdd ==
  /\ Executes("add") /\ OnTape
  /\ Goes([machine EXCEPT
             !.tape[machine.pointer + Now.offset] = (@ + Now.value) % CELL],
          After_pc)
ExecuteMove ==
  /\ Executes("move")
  /\ Goes([machine EXCEPT !.pointer = @ + Now.offset], After_pc)
ExecuteZero ==
  /\ Executes("zero") /\ OnTape
  /\ Goes([machine EXCEPT !.tape[machine.pointer] = 0], After_pc)
ExecuteBranch ==
  /\ Executes("branch") /\ machine.pointer \in Tape
  /\ Goes(machine, IF machine.tape[machine.pointer] = 0
                     THEN After_pc + Now.offset ELSE After_pc)
ExecuteJump ==
  /\ Executes("jump")
  /\ Goes(machine, After_pc + Now.offset)

\* WriteFile and ReadFile: nothing is read at the end of the input.
ExecuteCall ==
  /\ Executes("call") /\ machine.pointer \in Tape
  /\ \/ /\ After_pc + Now.offset = print_char_location
        /\ Goes([machine EXCEPT
                   !.output = Append(@, machine.tape[machine.pointer])], After_pc)
     \/ /\ After_pc + Now.offset = input_char_location
        /\ IF machine.consumed < Len(Input)
             THEN Goes([machine EXCEPT
                          !.tape[machine.pointer] = Input[machine.consumed + 1],
                          !.consumed = @ + 1], After_pc)
             ELSE Goes(machine, After_pc)
ExecuteReturn ==
  /\ Executes("return")
  /\ status' = "returned"
  /\ UNCHANGED <<source, at, code, table, stack, machine>>

\* Bytes that no instruction was written at, and memory outside of the tape.
Crash ==
  /\ status = "running"
  /\ \/ Here = {}
     \/ /\ Here # {} /\ Now.op \in {"add", "zero", "branch", "call"}
        /\ machine.pointer + (IF Now.op = "add" THEN Now.offset ELSE 0) \notin Tape
  /\ status' = "crashed"
  /\ UNCHANGED <<source, at, code, table, stack, machine>>

Compiles ==
  \/ CannotOpen \/ ReadSource \/ AddVal \/ AddPtr \/ ClearLoop \/ WhileStart
  \/ StackFull \/ WhileEnd \/ UnexpectedEnd \/ EmitPrint \/ EmitInput \/ SkipComment
  \/ EndOfSource \/ WriteExecutable
Runs ==
  \/ ExecuteAdd \/ ExecuteMove \/ ExecuteZero \/ ExecuteBranch \/ ExecuteJump
  \/ ExecuteCall \/ ExecuteReturn \/ Crash
Next == Compiles \/ Runs
Spec == Init /\ [][Next]_vars

----------------------------------------------------------------------------
(* What the source means, one character at a time *)

\* The bracket that goes with the one at p, if there is one.
Depth(text, first, last) ==
  Cardinality({i \in first .. last : text[i] = "["})
    - Cardinality({i \in first .. last : text[i] = "]"})
Closing(text, p) ==
  {q \in p .. Len(text) :
     Depth(text, p, q) = 0 /\ \A r \in p .. q - 1 : Depth(text, p, r) > 0}
Opening(text, q) == {p \in 1 .. q : q \in Closing(text, p)}

\* One character of the source, from a state where it is inside the tape.
After(s) ==
  LET c     == source[s.pc]
      cell  == s.tape[s.pointer]
      moved == [s EXCEPT !.pc = @ + 1, !.steps = @ + 1]
  IN  CASE c \in DOMAIN Value ->
             [moved EXCEPT !.tape[s.pointer] = (@ + Value[c]) % CELL]
        [] c \in DOMAIN Pointer -> [moved EXCEPT !.pointer = @ + Pointer[c]]
        [] c = "." -> [moved EXCEPT !.output = Append(@, cell)]
        [] c = "," /\ s.consumed < Len(Input) ->
             [moved EXCEPT !.tape[s.pointer] = Input[s.consumed + 1],
                           !.consumed = @ + 1]
        [] c = "[" /\ cell = 0 /\ Closing(source, s.pc) # {} ->
             [moved EXCEPT
                !.pc = 1 + CHOOSE q \in Closing(source, s.pc) : TRUE]
        [] c = "]" -> [moved EXCEPT
                         !.pc = CHOOSE p \in Opening(source, s.pc) : TRUE]
        [] OTHER -> moved
Stuck(s) == s.pc > Len(source) \/ s.pointer \notin Tape
Advanced(s) == IF Stuck(s) THEN s ELSE After(s)
Meaning ==
  LET run[n \in 0 .. MaxSteps] ==
        IF n = 0 THEN [Start EXCEPT !.pc = 1]
        ELSE LET before == run[n - 1]
             IN  Advanced(Advanced(before))
  IN  run[MaxSteps]

----------------------------------------------------------------------------
(* Properties *)

\* The program writes and reads what the source says, although additions are
\* put off, reordered and dropped, and loops made into one instruction.  Not
\* the sources that count on the last offset of the table: its entry is never
\* written.
RunsLikeSource ==
  status = "returned" /\ INT8_MAX \notin table.in_use =>
    LET meant == Meaning
    IN  meant.pc > Len(source) =>
          /\ machine.output = meant.output
          /\ machine.consumed = meant.consumed

\* Every jump, branch and call goes to an instruction or a routine, and a loop
\* that is closed is left after its jump and repeated from its comparison: the
\* addresses survive the flushes between a loop and the distances patched into
\* it, and a loop left open is not a loop.
JumpsLand ==
  /\ \A i \in DOMAIN code :
       LET target == code[i].at + code[i].size + code[i].offset
       IN  CASE code[i].op = "call" ->
                  target \in {print_char_location, input_char_location}
             [] code[i].op = "jump" ->
                  \E b \in 1 .. i - 1 :
                    /\ code[b].op = "branch" /\ code[b].at = target
                    /\ code[b].at + code[b].size + code[b].offset
                         = code[i].at + code[i].size
             [] code[i].op = "branch" ->
                  \/ code[i].offset = 0
                  \/ \E j \in i + 1 .. Len(code) :
                       code[j].op = "jump" /\ code[j].at + code[j].size = target
             [] OTHER -> TRUE
  /\ Len(stack) = Cardinality({i \in DOMAIN code : code[i].op = "branch"})
                  - Cardinality({i \in DOMAIN code : code[i].op = "jump"})
  /\ \A k \in DOMAIN stack :
       \E i \in DOMAIN code :
         code[i].op = "branch" /\ code[i].at + 5 = stack[k]

============================================================================
