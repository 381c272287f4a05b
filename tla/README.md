# A verification project for the f-lang compiler

f-lang's compiler (`src/compiler-cpp/sources`) is a single-threaded C++ program:
`main.cpp` initialises the allocator and the globals, then calls the lexer, the
parser, the IR generator and the x64 PE backend one after the other.  Its state
is data structures that each phase builds through raw pointers and the next
phase reads: what can go wrong is in the order of stores, in buffers that must
not move, in loops that must advance, in recursion whose callers hold pointers
to what the callee changes, in addresses written before they are known, and in
calls of the system that fail and that nobody looks at.  Tests exercise the
library (`tests/main.cpp`) and, of the parser, a file that parses.  The
repository also has a small compiler of its own kind, for BrainFuck
(`src/research`), which is modelled with the processor that runs its output.

## Components

| component | state | operations | hard behaviour | correct when | module |
|---|---|---|---|---|---|
| hash table (`fstd/memory/hash_table.hpp`) | buckets allocated on demand, flags, values, counters | insert, get, begin, next, end | collisions across buckets and around the end, values that callers keep pointers to, unbounded loops | it implements a map; nothing moves | `HashTable` over `SymbolMap` |
| lexer (`lexer/`) | text position, line, column, tokens | reading modes | comments and strings over lines, stale lookahead, numeric automaton | tokens partition the text, positions and types are right | `Lexer` |
| expression parser (`parser/parser.cpp` 516-547, 634-855) | token stream, tree, a call stack with pointers to fields | parse_expression, operators, groups, calls | rotation of nodes during recursion, delimiters shared by nested calls | the tree holds the tokens in order, as the priorities ask | `Expression` |
| declaration parser (`parser/parser.cpp`) | token stream, two pre-allocated buffers, tree of symbol tables, current table | statements, types, functions, scopes | hand-paired pushes and pops, loops that do not advance, reads past the end | scopes nest, each name is declared once in the right table | `Scopes` |
| symbol solver (`parser/symbol_solver.cpp`) and IR generator (`IR_generator.cpp`) | call stack, imported libraries and functions, read only data | the walk of a tree, resolution of types, imports, literals | names that lead to other places of the tree, tables with keys and hashes that differ, reserved arrays | it ends unless the program is endless; each import once; literals disjoint | `IRGenerator` |
| PE backends (`PE_x64_backend.cpp`, `PE_x86_backend-deprecated.cpp`) | file position, section sizes, headers | writing, padding, import tables, patches | addresses written before sizes are known, two ways of aligning | the headers lead a loader to what was written | `PEImage`, `PEBackends` |
| reports (`globals.cpp`, `logger.cpp`, `string_builder.cpp`, `stdio.cpp`) | strings on a heap, cursor in a format | report_error, log, printing, conversion | ownership by hand, a cursor with three indexes, bit masks of encodings | the console shows the message; every block has one owner | `Report` over `Arrays` and `Unicode` |
| driver (`main.cpp`, `file.cpp`, `process.cpp`, `console.cpp`) | files, handles, roots, exit code | phases, graphs, dot.exe, the executable | failures at every call, results that are ignored | a failure destroys nothing; success means a whole executable, or is told apart exactly | `Driver` |
| dot files (`parser/parser.cpp` 1240-1684) | static counters | drawing of the AST and of the symbol tables | indexes handed down a recursion over siblings and children | the graph is the tree | `DotOutput` |
| BrainFuck compiler (`qaxobesaqa.cpp`) | code, table of offsets, stack of loops | seven operations, flushes, patches | additions put off around a cell that moves, distances in bytes patched later | the instructions do what the source says | `BrainFuck` |

They interact by calls only.  The lexer and the solver look names up in hash
tables, the parser fills three hash tables per scope, the IR generator has two levels
of them.  The parser keeps pointers to tokens, nodes and symbol tables, and the
later phases follow them.  Nothing is concurrent and nothing but the files the
driver writes outlives a run; what fails is a call of the system, in any of
them, and the driver ends in the middle.  There is no message to lose and no
retry.  `PROJECT.json` lists every component, with the reason for those left out,
and the hazards line by line.

## Plan

Done: `HashTable` over `SymbolMap`, `Expression`, `Scopes`, `Lexer`, the proofs
about the first and the third, then `IRGenerator` with the solver, `PEImage` with
the three backends, `Report` over the arrays and the encodings, `Driver` with
the graphs, `BrainFuck`; then the theorems: the symbols of `Scopes`, the tokens,
positions and values of `Lexer`, the layout and the imports of `PEBackends`, the
files of `Driver`, the branches of `BrainFuck`, the imports of `IRGenerator` and
the tree of `Expression`, whose recursive references moved to `ExpressionOrder`,
and the arguments of its calls.

Left: what `BrainFuck` executes, one instruction at a time, against the source.

## How the modules compose

* `HashTable` implements `SymbolMap`, which is what `Scopes`, `Lexer` and the
  table of libraries of `IRGenerator` rest on; the tables of functions of
  `IRGenerator` are not used as maps, and the module says how.
* `ExpressionOrder` extends `Expression` with the trees that the priorities ask
  for, and the properties that compare with them.
* `Scopes` gives the trees of tables that `get_user_type` climbs.
* `PEBackends` extends `PEImage`: the variable `function` says which of the three
  writers is called, and the sizes that differ follow from it.
* `Report` has its strings in the heap of `Arrays` and is converted by
  `Unicode`.
* `Driver` gives the phases the outcomes that the modules above find (an error, a
  crash, trees, uninitialised roots) and takes the drawing of a graph as the
  constant `Draw`, with the two counters that are static in the code.
  `DriverGraphs` is `Driver` with the drawing of `DotOutput`, and has the
  property about the graphs.

## Modules

### SymbolMap, HashTable, HashTableProofs

`SymbolMap` is what users of the table count on: a partial map in which the first
declaration of a key wins, nothing is removed, a lookup answers for the key it was
asked and a loop meets every key once.  `request` is what was asked: the
operation with its key and value, or the keys a loop has not met yet, so that an
answer found under another key is not one of its steps.  `visible` is the set of
keys that must be found again.

`HashTable` is the code.  `nb_values`, `init_flags`, `table` and `size` are the
fields of the buckets and of the table, slot by slot; `call` is the operation
under way with its local `hash`, and a step examines one slot, as one turn of the
loops of lines 142 and 221 does.  `BeginInsert`, `InsertAtFreeSlot`,
`InsertFindsKey` and `InsertCollides` are the loop of `hash_table_insert`;
`BeginGet`, `GetMisses`, `GetFindsKey` and `GetCollides` that of
`hash_table_get`.  A `for` loop over the table is `hash_table_begin`, then
`hash_table_next`, that reads a value and goes one slot on, and `IterationEnds`.
The iterator `it` is the two indexes of the code, and a step is one turn of one of
the two nested loops of begin and next: `ScanStops` at a value, `ScanSkipsSlot`,
`BeginLeavesBucket` and `NextLeavesBucket`, that reset `slot_index` in different
places and to the same effect, and `ScanEnds`.  `IterationExact` compares the slots
visited with the flags, and the place where the indexes stop with
`hash_table_end`.  The hash function is any function from keys to `Homes`,
chosen once.  The table is a parameter: `NB_BUCKETS`, `BUCKET_SIZE` and
`PROMOTED`, which says whether `hash + 1` is computed in a wider type than
`Hash_Type`, true of the 16 bit hashes of the symbol tables.

The code wraps at different slots in insert and get, so that a key may be in the
table and not be found.  `Visible` says exactly which: the refinement holds with
the keys a lookup steps over removed from `visible`, and the finding
`hash_collision` shows one.

### Expression, ExpressionOrder, ExpressionProofs, MCExpression

`ast` is a heap of nodes, `stack` the calls of `parse_expression` under way: the
address where the call stores its tree (`emplace`), its delimiters, its
`previous_child`, its `scoped_by_parenthesis`, and what its caller does when it
returns (`by`).  A step is a turn of the loop of line 733, with the calls it
makes.  Every token the loop tells apart is in `Token`; the unread `other` stands
for those without a branch.  `status` says how the parse ended: `done`, `error`
(report_error), `asserted` (an assert of the operators), `looping` (a turn that
advanced nothing), `undefined` (the address of a field of no node).
`AstIsATree` goes down from the owner level by level (`Below`), at every step of
the parse; `YieldPreserved` reads a finished tree from left to right (`Yield`).
`ExpressionOrder` has `Reference`, `Tree` and `LeftDepth`, recursive operators
that say in which order the operators should have come out.
`MCExpression` builds the streams.

### Scopes, ScopesProofs

`tables` is the buffer of symbol tables, `current` the current one, `ast` the
buffer of nodes with the fields the properties need, `calls` the stack of parse
functions and `tokens` how many tokens were read.  The tokens are not given
beforehand: a step chooses what the source says next, so that the behaviours are
those of every program.  A step is what one function reads between two
decisions; the comment over each action shows the tokens.  `StrayIdentifier`,
`InitializedVariable`, `EndOfVariable` and `NoBranch` keep what the code does
with sources that are wrong: names that are skipped, semicolons of any kind,
loops that stop advancing.  `EndOfFile` unwinds the loops of the scopes that are
not closed; in the middle of a declaration the code reads past the tokens, and
the status is `undefined`.  So is it, in `TablesMoved`, when one more table is
pushed than was reserved: the buffer may move, and the fields of the parent are
then used where it was.  The buffer may also grow in place, and then the push is as
any other, so that both outcomes are in the model.  Such a push is the
finding `scopes_reserve`; `OnlyBracesOutgrow` says of which files it is.  The buffer
of nodes is not outgrown with it: the node of a scope is smaller than the
`AST_Statement_Variable` a token has room for.  The hash tables are maps here, with the promise that
`HashTable` is checked for.

### Lexer, LexerProofs, MCLexer

`text` is the buffer of the file, a sequence of bytes; `position`, `line` and
`column` are the stream and the two counters of `lex`, `tokens` what it emits.
`lex` is a loop with one loop inside for each kind of token: `mode` is the loop
that runs and a step is one of its turns, `start` and `literal` are the locals a
loop keeps from turn to turn.  `Byte` is the bytes a file may have.  `Pair` is the
lookahead of two bytes.  `CutBom`,
`QuoteAtEof`, `NumberAtEof` and `HexadecimalFloat` stop in the status `asserted`:
the buffer is as long as the file, and the stream asserts when a byte is read
after it, so that a file may not end with a number.  The values of escapes the
language does not know are `Uninitialized`, and the accumulator of a hexadecimal
or binary literal starts from any value of `Garbage`.  Of floating point literals
the form and the type are modelled, not the value.  `Keywords` is the set of the
texts of the table, and the table gives the keyword back that was inserted under
a text, as `HashTable` is checked for.

The reference `IsGap` says by the grammar, without modes, what may lie between
tokens.  A string may span lines and does not count them, which
`PositionsExact` says exactly; `1L.5` is one token, left without a type.
`NumeralsExact` reads a numeral of base ten from its bytes, without the automaton:
a point, an exponent, or a `d` or an `f` at its end make it a float, a `u` anywhere
makes an integer unsigned, an `L` or a value over the limit of 32 bits makes it long,
and a float without a suffix at its end is left without a type exactly when an `L`
lies inside it.

What the lexer does that a reader may not expect, and that the model keeps: a
section sign after an identifier is a part of it, and a double quote after a
backslash ends the string.

### IRGenerator, IRGeneratorProofs, MCIRGenerator

`program` is what the parser gives: nodes with the fields the walk reads
(`sibling`, `child`, `type`, `table`, the modifiers of a function, the size of a
literal) and the tables.  `calls` is the call stack: a call of `parse_ast` has in
`todo` the nodes it will still call itself for, a call of `resolve_type` has the
node it resolves.  One action is one branch of `parse_ast`, and
`resolve_returns` is the return through every `resolve_type` above the walk.
`MaxDepth` is the room of the stack, far above what a program of these sizes
needs, so that `StackExhausted` means a recursion without end.

The walk goes on with the sibling of any node it was called for, a type too: after
a struct met through a variable, what is declared after the struct is walked
again.  `EndlessExactly` says for which programs this never ends, from the
program alone, and the walk is compared with it both ways.  An import met a
second time that way is refused as declared twice.  `modified` is whether
the parser assigned the field `modifiers`, which `FunctionWithoutModifiers` reads
when it did not.

### PEImage, PEBackends, PEBackendsProofs, MCPEBackends

`written` is the file: pieces, each with its position, its size and what a loader
reads in it; `header` is the fields that are patched at the end, by name; `step`
is where `compile` is.  The sizes and addresses are the operators of the code,
with its two ways of aligning and its hard coded import directory.  The padding
is a `DWORD` and wraps in `Zeros`.  `PEBackends` gives the constants of the
64 and 32 bit writers; `generate_hello_world` has its data in its code, and
returns false where the others stop.

`RawDataWhereHeadersSay` and `LoaderFindsImports` are exact: they say when the
image is right (the names fit in a section of 512 bytes, the literals take one
page) and that it is not otherwise.

### Report, Arrays, Unicode, MCReport

`heap` is the blocks of the allocator, and the strings of a call are arrays that
point to them.  A call goes through the steps of the code: the message and the
format are assigned, the format is read character by character
(`position`, `start_print_position`, `next_print_length`), each conversion
pushes strings to the builder, which are put together, converted, written and
released.  `Arrays` has the operations of the allocator and of an array, each
returning the heap and the array; `Unicode` has the conversions, bit by bit, with
the two ways `from_utf8_to_utf16LE` takes.  A call is given by its `pieces`, from
which its format and its arguments are made.

`ConsoleShowsMessage` is exact as well: a message comes out right if and only if
no character is in the planes that the masks spoil, and no number is the smallest
integer.  `INT_MAX` is 32767 in the runs: the digits are made by pairs, and five
digits are two pairs and one.

### Driver, DotOutput, DriverGraphs, DriverProofs, MCDriver

`step` follows `main`; `files` is the content of each path, `opened` the handles,
`faults` the failures that nobody looked at, `exit` how the process ended.  Every
call of the system has an action for its failure.  An assertion ends the process,
or, under a debugger, goes on to `exit_process(1)`.  The phases are the outcomes
a program gives them.  Without a token the parser returns before it initialises its
result: the roots are `"null"` or `"wild"`, and the graphs and the IR generator
crash on the second.

`DotOutput` draws a tree as the sequence of its nodes, edges and rows, with the
recursion of the code over children and siblings; `ShowsTree` and `ShowsSymbols`
are written over the links of the tree, without the drawing.

### BrainFuck, BrainFuckProofs, MCBrainFuck

`code` is the instructions, each with its address and the size of its encoding;
`table` is `offset_table` with the offset the pointer will have moved by, `stack`
the open branches.  An action of the first half is an operation of the source, with
the flush it makes; the second half is the processor, which runs the code on the
machine's tape.  `Meaning` runs the source itself, a character at a time.


## Runs

| run | shows | bounds |
|---|---|---|
| `hash_table` | types, unbroken paths, stable values, loops exact over unallocated buckets, every operation returns, the map is implemented for the key asked | three keys, two values, three buckets of two slots; hashes at both ends and in the middle |
| `hash_collision` | a key that collided up to the top slot is lost | the same |
| `expression` | the tree is a tree, keeps its tokens in order, comes out as the priorities ask exactly when one rotation is enough; groups at the end; arguments; no operation makes the parser stop | see below |
| `scopes` | nesting, tree of tables, exact symbols, which files outgrow the reserve of tables, declarations that stay | two names, eleven tokens |
| `scopes_reserve` | a file of one brace needs one table more than was reserved | three tokens |
| `lexer` | tokens and gaps cut the text exactly, positions, strings and the types and values of numerals are those of the source, lexing ends | 34186 texts of up to 6 bytes, integers of 8 bits |
| `ir_generator` | the reserves are not outgrown, literals fill their section, each import is recorded once and under its library, the generation ends exactly for the programs that are not endless | three statements of types and imports, two of any |
| `ir_generator_refusal` | two functions of one library with one short hash are refused as one declared twice | two statements |
| `pe_image` | pieces follow each other, headers lead to their data, sections are mapped one after another, a loader finds the imports | up to three literals and two libraries |
| `brainfuck` | the code does what the source says, every jump lands | sources of up to twelve characters |
| `report` | the console shows the message, every block has an owner and what remains is known | two calls in a row |
| `driver` | a failure keeps the files, a success is told apart, graphs are the trees | 14 command lines, executables of three writes |

Bounds and why they are enough.

* `hash_table`: three keys are a chain of two collisions, the longest that
  meets one slot of each kind: free, its own, another's.  Six slots in three
  buckets let chains start in a bucket, cross to an unallocated one, and go over
  the top; `Homes` has both slots around the top, since insert and get differ
  there.  `SizeAssumption` asks for more than two slots, below which get never
  advances.  Three keys never fill the table: the program's tables have 65536
  slots at least, and a full one makes both loops endless.
* `MCExpression`: `MaxOperators` = 4 operators in a chain (the first chain that
  one rotation leaves wrong has 3), `MaxGroup` = 2 operators before and in a
  group, `MaxTokens` = 4 tokens of any kind, `MaxCallTokens` = 6 for nested
  calls.  `ChainOperator` has two operators of one priority and one of each
  other; `-` is both prefix and binary.
* `Scopes`: `MaxTokens` = 11 is a function with a parameter of an anonymous type
  and a body, or a struct in a struct with members; two names are a name that is
  declared twice and another.  Two bounds are in the actions: a call in a scope
  has one argument at most and a modifier one literal at most, since more of them
  do the same to the nodes and nothing to the tables.
* `MCLexer`: each part of the lexer has an alphabet with the bytes its branches
  tell apart and one they do not.  `CommentLength` = 6 is two comments and what
  is between, `StringLength` = 5 two escapes in a string, `WordLength` = 4 two
  signs or words of two bytes, `NumeralLength` = 4 bytes between the first digit
  and the end: a point, an exponent or two suffixes and what follows.
  `IntegerLength` = 4 reaches both limits and the overflow of the 64 bits, that
  are 8 here: `I32_MAX`, `UI32_MAX` and `UI64_MAX` keep the form 2^w - 1.
  `NB_TOKENS` = 4 instead of 512 lets a few bytes hold more tokens than
  predicted.
* `MCIRGenerator`: three statements are two declarations that name each other and
  a use, in any order, or three imports; two libraries are reserved, with one
  function each, so that the third of either is one too many.  `f` and `g`
  have one short hash.  The refusal has room for every import.
  `MaxDepth` = 60 is twice the calls of any walk that ends.
* `MCPEBackends`: literals of 1, 511, 3072 and 4096 bytes are on both sides of a
  unit of the file and of a page; names of 366 and 367 bytes (398 and 399 on 32
  bits) on both sides of what is left for them in the section.
  `DWORD_SIZE` = 2^20 only has to be larger than an image.
* `MCReport`: texts that end before, at and after a multiple of four bytes, which
  is where the fast conversion stops, and characters of one to four bytes of
  the planes the masks tell apart.  Two calls show what the first leaves behind.
* `MCDriver`: a program for each phase that refuses, one with every kind of node,
  an empty file, a missing one, one command line too short and one too long, and outputs
  that are the input or a graph.
* `MCBrainFuck`: offsets from -4 to 3 and two open loops, instead of
  -128 to 127 and 512, so that sources of seven characters go past both; cells
  of eight values; `MaxSteps` = 30 instructions.

## Fairness

`HashTable`'s `FairSpec` is weakly fair in the steps of an operation under way:
they are turns of a `while (true)` of a program of one thread, which runs until
it returns.  Beginning an operation is not fair: the program may never call.
`Expression`'s `Spec` is weakly fair in `Next` for the same reason: a turn that
changes nothing is a step to the status `looping`, so that fairness does not hide
an endless loop.  `Lexer`'s `FairSpec` is weakly fair in `lex` likewise, and a
turn that changes nothing is no step, so that it violates `LexingEnds`.
The other modules have no liveness property and no fairness: that a generation
ends is `EndlessExactly`, an invariant, since it does not for some programs.  The
violation runs check invariants.  `CHECK_DEADLOCK FALSE` is where a parse, a
generation, a compilation or a process ends, or where the bound on calls or
steps is reached.

## Proofs

`HashTableProofs` proves for every number of buckets, every bucket size and every
hash function (`SizeAssumption`, `HashAssumption`, `DataAssumption`, with `Key`,
`Value` and `Homes` any sets):

* the type invariant, `NoDuplicateKey`, `ProbeChain`, `CountersAgree` (the two that
  `ProbeChain` and the refinement rest on and that no run checks by themselves),
  `IterationExact`, the action property `ReturnedPointersStayValid` and the
  refinement `MapSpec`.

The properties are not inductive alone.  That a key is inserted once rests on
what the insertion under way has examined: the invariant `IInv` adds that every
slot from the hash of the call's key to the one it is at is occupied by another
key.  With `ProbeChain` this gives uniqueness when a free slot is reached.  That
a bucket is initialised once rests on `nb_values` being a cardinality.  For
lookups it adds the same along the path of get, and the slot get steps over is
what `Visible` leaves out.  For loops, `LoopCursor` keeps the two indexes in the
buckets or at their end, and `LoopInv` adds to `IterationExact` that begin has
visited nothing and enters a bucket without value at slot 0, and that `slot_index` is
0 past the buckets: leaving a bucket, or a slot whose flag is not set, moves over no
value, and the indexes at the end are those of `hash_table_end`.  `TableImplementsMap` maps each step to the one of `SymbolMap` for the
key of the call, and a turn that answers nothing to no step at all.

`ScopesProofs` proves for every set of names and every length of file: `TypeOK`,
`ScopesNest`, `TablesAreATree`, `OnlyBracesOutgrow` and `DeclarationsStay`.  The
inductive invariant relates frames and tables: the table of a frame is that of
the one below, or its child when the frame is a body; the frame under an
anonymous type is reading a type; only the first frame is the module; a node of
a frame is older than those of the frames above.  That children and siblings
list all tables is proved from `Pushed`, which relates a new table to the last
child of its parent.

`OnlyBracesOutgrow` rests on a bound, that there is one table at most for each
token and one for the module, and on what it takes to keep that bound without
slack: the invariant `BracesInv` says that, as long as each token read made a
table, each call under way is a scope, each table but the first is a scope whose
parent is the table before it, and the last one is current.  Any other
declaration reads two tokens at least for one table, and the slack never goes away.

It also proves `SymbolsExact`: each table holds
exactly the first declaration of each name of its scope.  A declaration is inserted
when its parse ends, while its node is allocated when it begins, so that the
property alone does not survive a step.  The invariant `XInv` says what is under
way: `FramesOK` which tables and nodes the frames of the stack stand for and
since when, `FunctionTablesOK` that a function's table is that of a function whose
head was read, with its parameters before what its body declares, and `ExactAt`
that a table holds the first of its nodes that are no longer under way.  The argument is that, while a declaration is under way in a
table, no other begins in the same table, and that no function begins while the
parameters of one are read.

`ExpressionProofs` proves for any streams of tokens (`StreamsAssumption`) and the
delimiters the code passes (`DelimitersAssumption`): `TypeOK`, `AstIsATree`,
`YieldPreserved` and `ArgumentsCounted`.  Each frame of the stack holds a pointer to a field of a node
and stores through it later, after calls that stored and swapped nodes; nothing
in the heap tells which fields those are.  The invariant `IInv` has, for each frame,
how many nodes there were when it was pushed (`Shape`): the nodes since are
reached from the older ones through the field the frame stores to, and through no
other (`LinksOK`), so that a store there cannot give a node two parents.  An
identifier after an operator whose right side was read overwrites a
subtree: `dead` is a set of such nodes, that nothing alive links to (`AliveOK`).
A rotation keeps this since the node it turns is the one the frame below will
take for its left operand (`CallerOK`).  That nodes with one parent each are a tree
of finite depth is proved from the levels, which are disjoint and not more than the
nodes (`LevelsAreDisjoint`, `FS_PigeonHole`).

For `YieldPreserved` each node has an interval of tokens, with its own token
between what is on its left and on its right (`Spans`); the intervals are not
in the program, and the invariant says that some exist.  While the operation is
read, every frame waits on the right of a node that ends at the last token
read (`OnSpine`), so that the next one extends all of them (`SpansExtended`); after
it, the calls return one by one and a rotation cuts one interval in two others
(`SpansTurned`).  A tree of intervals reads as the tokens of its interval
(`SpansAreYielded`).  A last token that is no delimiter may lose what was read,
and then no parse ends `done` (`BeyondRead`).

`ArgumentsCounted` speaks of calls that returned, and does not survive a step alone:
an argument is counted when it ends, after any number of calls of
`parse_expression` that stored at its place, nested calls and rotations included.  `ArgumentsInv`
says of each call node that a frame reads its arguments (`UnderWay`) or that it
is closed (`CallClosed`): it has all its arguments, the last without a sibling,
and no frame stores to the nodes allocated while it was read, so that
later stores, rotations included, leave them alone (`ClosedKept`).  Of each frame
that reads an argument it says that the call is open (`CallOpen`): the
arguments before are linked and counted, the current one is what the frame stored, or
nothing yet, and the frames above store at this place or in nodes that are newer.
A comma allocates nothing: the next argument is stored in the sibling of the last, which
has to be there.  `AwaitedOK` gives that: when nothing is stored at the place of the innermost
argument, the last token read is the `(` or the `,` it begins after, so that a comma or
a `)` read there would make an empty argument, which `EmptyArgument` sets apart.
Arguments are in the order of their tokens since a new node has a later
token than every older one (`TokensOK`) and no rotation goes past an
argument's place.

`LexerProofs` proves for every text over any set of bytes (`TextsAssumption`), every set of
keywords, every width of integers and every garbage: `TypeOK`, `TokensPartitionText`,
`PositionsExact`, `NumeralsExact` and `StringsDecoded`.  Each action of `lex` is shown to be one of
five kinds: it
stops, skips a part of a gap, enters a loop, goes on in it, or pushes a token.
`IInv` says for each loop what lies between the end of the last token and the
position (`Pieces`, `UnderWay`), and that line and column count the line
breaks before it (`Places`).  The grammar of gaps, `IsGap`, cuts a gap at its
first piece, and the lexer adds a piece at the end: `Gap`, a set of places that can
be reached piece by piece, is in between, and `GapIsGap` shows that a path
through such places is a gap of the grammar.

The invariant `Values` says what the accumulator holds in the middle of a literal:
it is worth what was read, for as long as the literal is decimal and not
floating, and a literal in another base carries its `x` or its `b`, by which
`NumeralsExact` sets it apart.  `Marked` says what its flags stand for: each is set
exactly when the bytes read so far have its mark, a point, an exponent or a suffix, so
that the type chosen from the flags at the end is the one the bytes ask for.  A string is decoded when its token is made, from its first byte, while the
reference writes escapes back from its end: that the two undo each other is proved
of what is left from a place of the text, by the greatest place where it would
fail.

`PEBackendsProofs` proves for the three writers, with any number and any sizes of
literals and of library names (`InputsAssumption`) and any `DWORD` in which an
alignment fits (`SizesAssumption`): `TypeOK`, `RawDataWhereHeadersSay`,
`SectionsMapped` and `LoaderFindsImports`.  Files are taken below 4 GiB: apart from the padding, sizes do
not wrap.  The invariant follows the file as it is
written: `FileOK` that the pieces follow each other, `StageOK` and `CountsOK` how
far each section is, `SectionsOK` and `ImageOK` what the sections' sizes and
addresses will be patched to, and `HeaderOK` that a field, once patched, has the
value the written pieces give.  Sums over the pieces are a recursive function; that
it grows by what is written is proved by the least index where it would not.

`LoaderFindsImports` is about addresses, which the descriptor and the tables of
imports hold before what they lead to is written.  The invariant `Linked`
(`ImportsStayLinked`) has a record for each piece a loader follows (`Links`): where
it must be in the file and the addresses it must hold.  The pieces of a step that is past
are those records, and the first name of a library is where the descriptor says.
At the end the header is patched, pieces do not overlap, so that an address has
one piece (`OnePiecePerPlace`), and each address of the chain is read as its
record.  The theorem is an equivalence:
`ImportPage` shows that the imports are on a later page than the header says when
the literals take more than one.

`DriverProofs` proves for any programs, files, command lines, drawing and number
of writes (`FilesAssumption`, `CommandLinesAssumption`, `WritesAssumption`,
`BuildsAssumption`): `TypeOK`, `HandlesExact`, `FailureKeepsFiles` and
`SuccessExactly`.  The invariant has a part for each thing a step hands to the next:
which handle is open (`HandlesOK`), that the source and what is not yet written
are as they were (`KeptOK`, `SourceKept`), what the buffer of a graph holds
(`BufferOK`), and that the executable is the parts that some of the writes left, all
of them exactly when no failure was passed over (`ExecutableOK`).

`BrainFuckProofs` proves `JumpsLand` for every source, every range of offsets, depth of
loops and tape: a call goes to a routine, a jump to the branch that opened its
loop, and a branch that has a distance leads past the jump that closed it.
Addresses are unbounded, where the code has 32 bits.  The distance of a branch is not
known until its loop is closed, and nothing in a branch tells whether it was
closed; the invariant `Good` says that the branches without a distance are
exactly those on the stack, in its order (`OpenLoops`, `Counted`), that each
instruction begins where the one before it ends (`Laid`), and that those closed lead where
they should (`Lands`).  A flush puts instructions between the two ends of a loop
and moves none.

`IRGeneratorProofs` proves for every program and every reserve: `TypeOK`,
`LiteralsFillReadOnlyData`, `ImportTablesSound` (the part of `ImportsRecorded`
that is true at every step), `Reserved` (the part of `TypeOK` that keeps the
arrays from moving) and `ImportsRecorded` itself.
That a library is found again under its name is not enough to record a function in one
table only: the invariant `WellFilled` adds that the library of every recorded
function is there, so that allocating another one cannot be for its name, and that
the indexes in the tables are those of recorded functions, so that the next
index is in none.  That no function is recorded twice, though the walk may meet one again,
is `OnceOK`: the name of what was recorded is declared in its library.  That none is
missed is `WalkedOK`: at each step there exists a set of nodes that were met, in
which every import is recorded, and from which whatever statement comes next
is in it or waits in one of the calls; when no call is left the set is closed.
`TreeAssumption` says what the parser gives: statements are linked by `sibling`,
and bodies by `child`, as `parse_scope` does, so that every function is reached
from the module through them; a table is younger than its parent, as
`ScopesProofs` shows; and what a table gives for a name is a node.  Where a
resolution leads is proved from it by the least table whose answer is no node.

A recursive function over natural numbers is no obstacle in these proofs: that it
exists, and what it returns, is shown by the least number where it would fail
(`LeastNumber`, from the well-foundedness of the order), with the body of the function
as an operator of its own.

## Only model-checked

* `OperationsReturn`, `OperationsAreParsed` and `LexingEnds`, which are liveness.
* `OneRotationIsEnough` and `GroupAtTheEnd` of `ExpressionOrder`, and everything of
  `Report` and `DotOutput` (`GraphsExact` of `DriverGraphs` included), whose
  references are recursive operators, and `Unicode`.
* `RunsLikeSource` of `BrainFuck`: it compares two executions, of the instructions
  and of the source, each of which may never end and is cut by a number of steps;
  a proof needs a simulation of the second by the first, in which an optimised
  instruction answers to several commands.
* `EndlessExactly` of `IRGenerator`: that a generation which ends is not endless
  needs the depth of the recursion for each program, a measure the model does not
  have, and that an overflow means an endless program holds only when `MaxDepth`
  is large enough for the program.

## Not modelled

* Relocation sections of the backends (`DLL_MODE` is 0) and the 32 byte pool of the
  allocator: compiled out.
* The assembler, an empty function; the loader of the instruction database and the
  buckets, which nothing uses; the tests; vendored code and the plugin headers of
  the debugger under `src/tools`.
* In `Report`: `%X`, `%p`, `%lu` and `%lf`, which no call has, a format that ends
  with `%`, which is read past its end, and the reads of up to three bytes
  after a string of the fast conversion; the indentation of the logger, whose
  scopes nothing pushes; `to_string` by base.
* Paths are names.  The values of floating point literals, the wording of messages
  and of graphs, tracing.
* In the lexer, the keywords whose text ends with a comma (`"public,"` and others,
  lexer.cpp:124) are never met, since a comma ends a word: the table of `Keywords`
  may hold them, and no text is one.

Two more disagreements with comments are kept in the models without a run of their own.
"If the priority of operators are the same then the associativity will resolve the
ambiguity" (`parser.hpp`, line 395), and every operator associates from left to right,
but `a - b - c - d` comes out as `(a - (b - c)) - d`: `OneRotationIsEnough` says exactly
which chains are right, and no chain of three operators of one priority is.  A closing
parenthesis that ends an expression is read by the innermost call, not by
the one that opened it.  Where a sign of two bytes cuts an identifier, which
depends on the loop that meets it, is modelled and no property is about it: either cut
is a partition of the text.

Debug assertions are kept: where one fails the model stops in the status
`asserted`.
