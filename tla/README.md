# ACompiler in TLA+

ACompiler translates programs of the "A language" to x86-64 assembly. This
directory models the compiler in TLA+: its tokenizer, its parser, its code
generator and the driver that runs them. TLC checks the models on small sets of
texts, token lists, programs and command lines, and runs the generated code on a
model of the processor. TLAPS proves parts of them for every input. Paths below
are relative to the repository's root.

The program is sequential: one process that reads a file, makes tokens, makes a
tree, walks the tree and prints assembly, and at the end a child process that
runs gcc. What is hard in it is not concurrency. It is that hand-kept counters
(the tokenizer's cursor, file position and line; the generator's stack depth,
frame offset, scope stack and label number) must agree with each other, and with
what the *emitted* code does when it runs, for texts and trees of every shape,
and that every loop and every error path ends where it should.

## Inventory

| Component | Source | State | Operations | Correct when |
|---|---|---|---|---|
| Driver | `src/main.c` | paths, mode, the phase reached, files written | parse arguments, run the four phases, free, fork and exec gcc | an executable is reported only for the assembly just written; an error leaves no exit status 0 |
| Tokenizer | `src/tokenizer/` | file position, current character, token start, line | `advance`, `match`, `peek`, `scanToken`, `create*` | every character belongs to one token; it ends on every input; a lexeme fits its buffer |
| Parser | `src/parser/parser.c` | token index, C call stack, nodes built | one `parse_*` function per construct, `p_advance`, `p_peek` | it accepts the grammar, never reads past T_EOF, ends in a tree or one error |
| Return check | `stmt_has_ret`, `block_has_ret` | none (a function of the tree) | | a function is accepted only if each path returns that enters every `if` without an `else` |
| Code generator | `src/assembler/assembler.c` | scope stack, `cur_offset`, `push_depth`, `label_count`, `epilogue_label`, output | one `gen_*` function per node type, `define_*`, `find_symbol`, `push_scope`, `pop_scope` | the emitted program means what the source means; calls are aligned; names, slots and labels resolve |
| Emitter | `src/assembler/emitter.c` | file, indentation | `mk_*` operands, `emit_*` lines | a line has the operands and the size it was asked for |
| Containers | `src/utils/` | buckets, nodes, arrays | add, get, remove, push, pop | each is the map, stack or sequence its users take it for |
| Errors | `src/errors/errors.c` | none | print and `exit(1)` | the run stops |
| AST printing and freeing | `parser.c` | none | `print_*`, `free_node` | printing, which comes before the generator, stops no program the generator would take |

The driver calls tokenizer, parser, printer and generator once each, in order.
The tokenizer keeps its tokens in an array list. The generator uses the hash table for the symbols of a scope and the stack for the
scopes, and calls the emitter or prints a line itself. There are no callbacks,
threads or messages; components share memory only in that the tree points into
the tokens and the symbol tables into the tree. Any error in any phase is an
`exit(1)` on the spot. `PROJECT.json` lists the hazards by line, those that no
property covers yet included.

## Modules

* **Characters** - the character classes and the tables of symbols and keywords.
  A character is a model of one byte; letters are the ones that occur.
* **Lexer** - the abstract specification of the tokenizer: take the longest
  lexeme off the front of the text, one after the other. It has no file, no
  positions and no buffers.
* **ArrayList** - `arraylist.c` as operators on a record (block, length,
  capacity); `add_list` doubles a full block.
* **Tokenizer** - `tokenizer.c`. `at` is the cursor: `cur_idx`, `cur`, and the
  position of the FILE, which runs one ahead of it and which `getCurWord` moves
  back and forth. `phase` is the function at work; an action is one turn of the
  loop of `tokenize` or of the function it called. A write past a lexeme's
  `MAX_LEXEME` characters ends the run in phase `"overrun"` (undefined behaviour:
  that it happens is modelled, not what comes of it). `createNumber`'s loop over
  a fraction is phase `"fraction"`. Line and column are kept as the code keeps
  them, exchanged for comments.
* **TokenizerProperties** - the properties of Tokenizer, and the refinement of
  Lexer: what is read are the list's tokens, what is left is the text from the
  cursor, or from the start of the token in the making.
* **Ast** - the `mk_*` constructors of `parser.c` as records, tagged by `ast_t`,
  and `Below`, what each node points to.
* **Trees** - the shape of trees (`WellFormed`): what Codegen assumes of its
  programs and Parser is proved to build.
* **Parser** - the recursive descent of `parser.c` as a machine with the C call
  stack. A frame is a `parse_*` function and `vals`, the nodes and operators it
  has so far, whose number is where in the function it is; an action is what one
  function does from one recursive call to the next. Phase `"error"` is
  `compile_error`, phase `"abort"` a failed `assert`. The check for returns
  (`stmt_has_ret`) is part of it. The call stack is unbounded. At its end,
  `FeedsTheGenerator` says with Trees what the generator may expect: it is
  stated level by level from the program down (`Level`, `Within`), so that it
  can be proved. The check for returns recurses over depths as well (`Nested`,
  `Returning`), as deep as there are tokens, which is deep enough
  (`NestingBounded`). `Passes` and `FallsThrough` say what the check is for: how
  an execution gets past the end of a block.
* **Printer** - whether `print_ast` comes to an end. Its errors and asserts are
  decisions: it stops the compiler before the generator sees the tree. How the
  printing of a node ends is a function of the nodes, defined from how it ends
  for those directly below.
* **ParserProperties** - what the tokens of an accepted source must be, read back
  from its tree (`NodeWords`, `ProgramWords`), and the properties of Parser that
  look at the whole tree. Functions over the finite set of nodes take the place
  of recursive operators, so that they can be proved.
* **ParserSources** - the canonical source of a tree, with no parenthesis too
  many, and `RoundTrip`. Uses RECURSIVE operators; no theorem reaches it.
* **Driver** - `main.c`: the command line, the contents of the files it names,
  the stages and how each can end, fork, gcc and the exit status. A path is the
  sequence of its pieces, so that `swap_extension` looks for a dot as the code
  does. `lost` says that writes to the assembly file were lost; nothing checks
  them. gcc is external: it may not start, fail, be killed, leave a part of its
  output, and never writes its own input.
* **DriverProperties** - what may be concluded from the exit status and the
  files.
* **Emitter** - operands and emitted lines as records (opcode, size, source,
  destination). Text, indentation and the spelling of registers are left out.
* **Codegen** - `assembler.c` as a state machine. `frames` is the C call stack
  of `gen_*` functions. A frame holds the node, how many recursive calls the
  function has made (`at`), the `push_depth` it was entered with (the C local
  `pad` is its parity) and the one C local kept over calls (`loc`: the slot in
  `gen_var_decl`, the labels in `gen_if`, the loop counter in `gen_call` and
  `gen_func_decl`). An action is what one `gen_*` function does from one
  recursive call to the next; it changes counters, emits lines and descends or
  returns together, as the C code does. The other variables are the fields of
  `asm_ctx`, the output, and `gen_program`'s loop. `rsp` and `call_rsp` are
  history variables: what the emitted lines, run in order, do to `%rsp`.
  Errors (`std_compile_error`) stop the walk in phase `"error"` with the output
  cut off where it was. `gen_unsupported` is the `default:` of `gen_expr`.
  A hash table of symbols is the function it implements (HashTable, below).
  From a function's seventh parameter on the C code reads `arg_regs` past its
  end; the model lets the register be any, or none, when `reg_to_str` exits.
* **CodegenProperties** - the properties of Codegen, and its type invariant.
* **X86** - the instructions and data directives the generator emits. This is
  the processor, assembler and linker, not code of the repository. A word is 8
  bytes but a byte has `ByteBits` bits. `Links` is what as and ld demand of the
  code: each name defined once, everything called defined, a global `main`, and no
  frame too large for an instruction. `Boot` starts at a label, `Step` executes one
  line; a division by zero or an overflowing one traps, and an access outside the
  stack of `StackWords` words is a fault.
* **Compiled** - Codegen, then X86 on its output if it links: the composition of
  compiler and machine, with the properties of what runs that speak of the stack.
  `active` is a history variable of what each pending return should find.
* **CompiledProperties** - what the machine computes, compared with ASemantics.
* **ASemantics** - a big-step evaluator over the tree: what a program means.
  It is the abstract specification of the generator, stated without registers,
  stack, labels or slots. Uses RECURSIVE operators; no theorem reaches it.
* **HashTable** - `hashtable.c`: an array of chains, `add_ht`, `get_ht` and
  `remove_ht` as actions, each with what it returned in `answer`. A chain is the
  sequence of its nodes; `prev` and `next` become positions. `hash()` is a
  constant operator, any function into the slots, so nothing depends on how
  well it spreads. `size` is kept as the code keeps it: `remove_ht` does not
  lower it, and nothing reads it.
* **Dictionary** - what the users of the table rely on: a map, and what a call
  returns. HashTable implements it under the map from a key to what `get_ht`
  finds (`DictionarySpec`).
* **Documented** - statements of the README and of error messages that the
  generator does not keep.
* **MCAst** - shared helpers to build programs, the set of all their nodes, and
  `count_locals` by recursion. **MCExpr**, **MCStmt**, **MCCompiled**,
  **MCDocumented** - the programs of the runs. **MCHashTable** - keys and slots.
  **MCTokenizer**, **MCParser**, **MCDriver** - texts, token lists and command
  lines.
* **CodegenProofs**, **WalkProofs**, **CompiledProofs** (each extends the one
  before), **HashProofs**, **ParserProofs**, **DriverProofs**,
  **TokenizerProofs** - the proofs. **BoundedInduction** - what they need of numbers: the least and the
  greatest element of a set of them exist, and so does a function defined by
  recursion on them.

The models are composed at their seams. Tokenizer's token types are those Parser
reads, and its lists end as Parser's `InputsAssumption` asks (`EofEnds`, proved).
Parser's trees have the shape Codegen assumes (`FeedsTheGenerator`).
Codegen's output is what X86 runs (Compiled). Driver takes from the others the
ways in which each stage can end: the tokenizer's endless loop, the parser's and
the printer's errors and asserts, the generator's errors in the middle of its
output.

Codegen takes the recursive sum in `count_locals` as a constant operator
`LocalsSum` with the loop's recurrence as an assumption
(`LocalsSumAssumption`), so that no module with a theorem reaches a RECURSIVE
declaration. TLC is given the recursion itself (`SumTo` in MCAst) and evaluates
the assumption on it.

## Runs

| Run | Checks | Inputs, states |
|---|---|---|
| `codegen_expr` | TypeOK, CallAligned, DepthMatchesStack, JumpsKeepStack | 1209 programs, about 39 000 states |
| `codegen_stmt` | LabelsResolve, LexicalScoping, LocalsInFrame, Balanced, Termination | 2196 programs, about 104 000 states |
| `compiled` | ResultCorrect, AlignedAtRuntime, FramesRestored | 4370 programs, about 468 000 states |
| `hash_table` | TypeOK, OneNodePerKey, DictionarySpec | 4 keys, 2 values, about 8 000 states |
| `tokenizer` | CursorsAgree, LinesTrue, LexemesFit, OverrunsExplained, EofEnds, LexerSpec, Ends | about 306 000 states |
| `parser` | TypeOK, NeverPastEof, RoundTrip, NothingLost, FeedsTheGenerator, AcceptedReturns, PrinterTakesNothing, Termination | about 10 700 token lists, 391 000 states |
| `driver` | SuccessMeansBuilt, NoPartLinked, SourceSurvives, AssemblyBeside | about 646 000 states |
| `decimal_numbers` | NumbersRead is violated | |
| `narrow_globals` | GlobalHoldsItsWidth is violated | |
| `global_initialisers` | GlobalStartsInitialised is violated | |
| `byte_locals` | ByteHoldsAByte is violated | |
| `seven_params` | ParamsHaveRegisters is violated | |

**codegen_expr** nests operators, calls, casts and assignments four deep. Depth
matters only by its parity and by what surrounds a call (an operand's push, an
argument's push, a pad), and four levels contain each pair of surroundings,
padded and not. It shows that `push_depth` tells the truth about the emitted
code (`DepthMatchesStack`), never goes below 0 (`TypeOK`: it is unsigned in C),
that calls are aligned (`CallAligned`), and that this bookkeeping in emission
order is also true along jumps (`JumpsKeepStack`).

**codegen_stmt** has two families. In the first a function's body combines
declarations, assignments, blocks and one- and two-armed ifs, three levels deep
at most, over two names that are also a global or a parameter (twice the same
parameter, even), between other functions. Shadowing needs two declarations of a
name, slot reuse two sibling blocks; three levels and two names give each in
each position. The second family has one program for each error the generator
reports, raised in mid-function, and a function with seven parameters.
`Termination` says no more here than that no node leaves the walk without a next
step: the walk is a recursion over a finite tree.

**compiled** compares what compiled programs do with `ASemantics`: expressions
with operators of both classes on both sides of calls with side effects,
six-argument calls, overflow, both undefined divisions, shadowing, early returns
and recursion (`fib`). `ByteBits = 1` makes a word 8 bits wide, which leaves
all carries, signs and overflows but fewer values. `StackWords = 60` is more
than the deepest recursion uses (`ResultCorrect` includes that the machine never
faults). Four more programs are refused, by the generator or by as and ld, and
not started.
`Garbage` is what registers and stack hold at first: an unset slot that is read
gives it away. All globals of this run are QWORDs initialised by literals or
not at all; the two runs after it say why. `AlignedAtRuntime` and
`FramesRestored` follow the path executed rather than the order of emission.

**hash_table** puts three keys in one slot and a fourth in another: the first,
middle and last node of a chain are each replaced, looked up and unlinked, in
every order. No node is created once `size` is `MaxSize = 6`; that allows two
removals and re-insertions after all four keys are in, and the theorem below
has no such limit on what it covers.

**tokenizer** reads every text of up to four of fourteen characters: those that
take part in longer lexemes, blanks, a newline, a NUL, a character no lexeme
starts with, and 0xFF, at which `getFileCharCount` takes the file to end. Longer
texts over fewer characters give comments and strings around the size of a
lexeme; all keywords, their neighbours and all pairs of symbols are in too. Four
characters hold any lexeme of this language and what follows it, but for those
whose length alone matters. `MAX_LEXEME = 5` (64 in the code) makes a short text
overrun a buffer, and `Capacity = 1` (100 in the code) makes the list grow after
1, 2 and 4 tokens. `IdxBound = 20` keeps `cur_idx` finite in the endless loop at
a fraction: it is counted modulo 20 there, more than any text has characters.
The run shows that the tokens are the longest lexemes of the text (`LexerSpec`),
that look-ahead and seeking never leave cursor and file apart (`CursorsAgree`),
what a token's line is, with newlines in strings uncounted (`LinesTrue`), that
only a lexeme too long is written past its buffer (`OverrunsExplained`), that
the list stays inside its block however often that grows (`LexemesFit`), that
T_EOF ends a list that is returned and is nowhere else (`EofEnds`), and that the
tokenizer ends unless it meets a fraction (`Ends`).

**parser** has the canonical sources of trees with each operator on each side of
each other one, below casts, calls, indexes and assignments, and with all kinds
of statements, types and parameters. It also has eight programs that hold every
construct, cut off after each token, and with each token missing, exchanged for,
or followed by, each of nineteen others; and all initialisers of up to three of
eleven tokens. Precedence concerns two operators at a time, so two levels are
enough for `RoundTrip`. The damaged programs reach each error and assertion of
the parser from each place. `NothingLost` and `FeedsTheGenerator` hold whatever
is accepted, canonical or not. `AcceptedReturns` takes every `if` without `else`
as entered: `stmt_has_ret` does, so that `fn f(x) { if (x) { return 1; } }` is
accepted and can fall off its end. This is stated, not a finding: no document
says more.

**driver** has all command lines of up to three words out of six paths and three
options, and those with both options and two paths. Three words give each option
in each place, twice, and without its value. Which of the files named exist
before the run is arbitrary. Each stage may fail, and gcc may end in each of its
ways. A file can be input, assembly and executable at once, or left over from an
earlier run. Exit status 0 means that the files asked for are those of this run
(`SuccessMeansBuilt`), no executable comes from half an assembly file
(`NoPartLinked`), and the source survives unless the output has its name
(`SourceSurvives`). `AssemblyBeside` holds for an input with an extension or with
no dot at all. `../prog` gives the assembly file `..s`, in another directory than
its source: no property holds the code to more there, since no document says
where the file goes.

**The five violation runs** each show one place where the code does not do what
the repository says. `ByteBits = 2` in the four about generated code (16-bit
words, 2-bit bytes) so that a value can be wider than a byte.

1. Narrow globals are reserved with 1, 2 or 4 bytes but loaded with `movq`: read
   before another BYTE global that is not 0, a BYTE global gives both at once.
2. A global initialised by anything but a literal silently starts as 0.
3. Locals, casts and returns of type BYTE are 64 bits wide.
4. A function of seven parameters compiles; the seventh is read from behind
   `arg_regs`. Calls with seven arguments are refused.
5. `createNumber` tests, in the loop over a fraction, a character it read before
   the loop: at `1.1` the tokenizer goes on for ever. It is checked under the
   fairness below, and the counterexample is that loop.

Deadlock is checked in every run; a halted tokenizer, parser, generator, driver
or machine stutters explicitly (`Terminated`, `Stopped`).

**Fairness.** Both `Termination` properties, `Ends` and `NumbersRead` are checked
under weak fairness of the component's step (`Generate`, `Parse`, `tokenize`).
Each is one thread that waits for nothing: if a step is possible it is taken.
The other properties are safety properties and assume no fairness. Nothing is
claimed of the driver's end: it waits for gcc, which is not its own.

**Mutants.** `PROJECT.json` names, for each property, a plausible bug (a missing
pad, an unrounded frame, a search from the wrong end, a missing `cqto`...) that
the property's run catches. They are defined next to the definition they change.

## Proofs

**Code generator.** The theorems hold for every set of programs that satisfies
`ProgramsAssumption` (trees are well formed: expressions have expressions below
them, the condition of an if is an expression and its branches are blocks, names
are names) and for every `LocalsSum` that satisfies `LocalsSumAssumption`.
Programs are of any size and nesting.

* `CallsAreAligned` - `Spec => []CallAligned`
* `DepthIsTrue` - `Spec => []DepthMatchesStack`
* `TypeCorrect` - `Spec => []TypeOK`
* `FunctionsLeaveNothing` - `Spec => []Balanced`
* `LocalsStayInFrame` - `Spec => []LocalsInFrame`
* `JumpsHaveLabels` - `Spec => []LabelsResolve`
* `ScopesAreLexical` - `Spec => []LexicalScoping`
* `JumpsMeetLabels` - `Spec => []JumpsKeepStack`
* `Invariance` - `Spec => []Inv`, on which they rest

Neither `CallAligned` nor `DepthMatchesStack` is inductive. At the end of a
`gen_call` or `gen_binary` the counter is lowered by what this call of the
function has raised it, and nothing in those properties says how much that was
for the frames below. `IInv` (CodegenProofs) adds it: each frame's `base` is the
depth its parent had when it made the call (`ChainInv`, by node type and
progress of the parent), the current `push_depth` is the youngest frame's base
plus what it has pushed itself, and `rsp` is the frame plus `push_depth` words.
A call's pad comes from the parity of its own `base`, so the depth at the call
is even whatever surrounds it, and `FrameSize` is a multiple of 16.

`IInv` does not know that the scope stack is deep enough for `pop_scope` to be
defined. `ScopeInv` (CodegenProofs) says that the scopes are the global one plus
one for each block and function entered; `Inv == IInv /\ ScopeInv` is inductive.
It is proved by one lemma per action for each half, and `Inductive` collects
them by cases on `Next`. `IdleInv` adds that with no function in progress the
emitted code has pushed nothing and has no epilogue label: only the end of
`gen_func_decl` empties the call stack, and its epilogue ends the frame.
The type invariant adds that every emitted line is well formed, which needs that
`find_symbol` returns a symbol of a scope: `Max` of a nonempty set of positions
exists, proved from the well-foundedness of `<` on Nat (`Least`, `Greatest` in
BoundedInduction), since the induction theorems that take an operator are not
usable.

`LocalsInFrame` relates two walks, that of `count_locals` before and that of
`gen_*` after it. `Rem` is what a frame of the call stack has still to declare:
what `count_locals` adds up for its node, less the sum up to the sub-node it has
come to. It is never negative since the sums only grow (`SumsGrow`, by the last
place at which one would exceed the whole: `Greatest` again). `Room` gives every
frame a limit: a caller's leaves it what it has still to declare after the call
returns, and what the youngest has still to declare fits below `cur_offset`. A
call takes its share from its caller (`RoomDescend`), a definition trades 8 bytes
of `Rem` for 8 of `cur_offset` (`RoomUpdate`), and leaving a scope only gives
bytes back, since the offsets saved in the scope stack are `Nested`
(`RoomReturn`).

`LabelsResolve` speaks of the finished program. While it is being written, some
jumps have no label yet and some labels are promised: `Owed` are those that an
if on the call stack has made and not defined (both until `else_lbl` is emitted,
then `end_lbl`), and `Due` is what all frames owe and the epilogue label of the
function. `LabelInv` says that no two frames owe the same label, that there is
an epilogue label exactly inside a body, and that the lines so far are
`Resolved`: a label that is defined is below `label_count`, not due, and defined
once; a jump either has its label further on in its function, or the label is
due and no function has begun since the jump. It is inductive because a function
begins only when nothing is due (`PrologueLines`, `EpilogueLines`), a label is
defined only by the frame that owes it, and two calls of `make_local_label`
never give the same one. Most lines are `Mute` (neither jump, label nor
`.globl`) and settled together (`ResolvedMute`). `ResolvedAll` gives
`LabelsResolve` from `Resolved` with nothing due.

`LexicalScoping` compares two things that never meet in the code: the scope stack
as pushes, definitions and pops have left it, and the declarations on the way
from the function to the node being generated, read from the tree (`Live`). The
link is `Match`: there is a sequence of names `live[k]` for the first k frames,
each what the one before declares and then `Decs(frames)[k]`; the scopes above
the globals belong to the frames that have opened one, in order (`Opens`); each
scope holds for every name the last place at which its frames declare it, as the
slot -8 times that place (`Describes`); and `cur_offset` is -8 times the length
of the whole. From `Match` alone, `Lookup` shows that the search from the
youngest scope outwards finds the last declaration of a name, or the global, or
nothing. `ScopesInv` is `Match` with `Path` (a frame's node is the sub-node its
caller is at, and a block or a function has a scope before it runs a statement),
and each action keeps it: a definition appends one name to the frame that opened
the youngest scope (`MatchLocal`), a `let` counts as declared at the moment of
its definition and not while its initialiser is generated (`Undefined`), entering
and leaving a block adds and removes one scope. That `Live` exists and is what
`Match` speaks of is where recursion comes in (`Recursion`, `LiveOnce`).

**Generated code.** For every such set of programs, every `ByteBits` and
`Garbage`, and a stack of any size from one word on (`StackAssumption`: `Boot`
puts the first return address there), as far as the output links:

* `CallsRunAligned` - `CompiledSpec => []AlignedAtRuntime`
* `ReturnsRestore` - `CompiledSpec => FramesRestored`
* `NeverLost` - the machine that runs is always at a line of the output

The generator's steps are part of `CompiledSpec` and the machine's leave its
variables alone (lemma `CompilesAsSpecified`), so the theorems above hold of the
code that runs.

`CallAligned` and `JumpsKeepStack` are about lines in the order of emission; these
are about the path the machine takes. The argument has two halves. The first
(`ZoneInv`) is a second invariant of the generator: each emitted line lies in a
zone (the `.globl` line, entry, body and leaving of a function, the data, or
between these), a line of a body is one that cannot write to %rsp but by a known
amount, nor to %rbp, nor to memory but below %rbp, and the height of the stack at
each line is known and equal at a jump and its label. One lemma for what each
`gen_*` function emits (`expr_lines`, `stmt_lines`, `PrologueZones`...) shows that
the output stays so. The second half is `RunInv`: the zone and the height at the
pc say what %rsp and %rbp are (`Placed`), and the stack holds for each pending
return (`Chain`) its address and, right below it, the caller's %rbp, each at least two
words below the one before. `StraightRuns`, `JumpRuns`, `CallRuns`, `RetRuns` and
others are one step of the machine by the kind of its line; a store to a local
spares the chain because the local's slot is at or below %rbp - 8
(`SlotsInv`, `PlaceDest`), a push because it is below %rsp. `Links` is needed, and only for
calls: that a call lands at the entry of a function and not elsewhere.
`MachineInv` is both halves together with the generator's invariants.

**Hash table.** It is proved for any keys, values, capacity, bound and hash function
(`HashAssumption`):

* `TypeCorrect` - `Spec => []TypeOK`
* `KeysAreUnique` - `Spec => [](TypeOK /\ OneNodePerKey)`
* `ImplementsDictionary` - `Spec => DictionarySpec`

The refinement needs `OneNodePerKey`: only if a key is in one node at most does
unlinking that node make the key absent. The chain lemmas say what replacing,
appending and unlinking a node leave to be found for every key (`Holds`), and
`OneChain` lifts them from the chain of one slot to the table and its map.

**Parser.** For every set of token lists that end in their one T_EOF
and whose numbers have no sign (`InputsAssumption`, what `tokenize` returns):

* `EofNotConsumed` - `Spec => []NeverPastEof`
* `TypeCorrect` - `Spec => []TypeOK`
* `GeneratorIsFed` - `Spec => []FeedsTheGenerator`
* `NodesOwnTokens` - `Spec => []NestingBounded`
* `ReturnsDemanded` - `Spec => []AcceptedReturns`
* `TreeSaysSource` - `Spec => []NothingLost`
* `PrinterIsHarmless` - `Spec => []PrinterTakesNothing`

`NeverPastEof` is not inductive. `parse_var_decl`, `parse_if_stmt` and four
others step over their first token without looking at it. What makes that safe
is in their callers, one action earlier: they are only called at a token of
their own, which is not T_EOF. `Expects` says so of a frame that has not begun.
`IsStack` says that `parse_program` is at the bottom of the stack and nowhere
else, so that a return has a caller to return to. The lemmas `KeepInv`,
`CallInv`, `BecomeInv` and `ReturnInv` settle the four ways a function can go
on; each `parse_*` function is proved from them, by its ways.

`FeedsTheGenerator` speaks of finished trees; while one is being built, its
pieces lie in the frames of many functions. `TreeInv` says there is a set of
well-formed nodes, closed under what is below a node (`Universe`), such that each
frame holds things of the kinds its function has put together so far (`Wants`),
and what the function called next returns (`Gives`) is of the kind that its
caller wants next (`Stacked`). The set is no variable: a step that makes a node
adds it (`NewNode`), and every other step keeps the set. `KeepTree`, `CallTree`,
`BecomeTree` and `ReturnTree` are again the ways to go on, and for each `mk_*`
constructor a lemma (`SoundBinary`, `SoundIf`...) says what makes its node sound.
At the end every node within some depth of the program is in the set
(`LevelIn`), and being well-formed in the set is being well-formed among the
nodes two steps further down (`Localised`). So what `ProgramsAssumption` asks of
a program's nodes is true of what the parser returns.

`NestingBounded` makes these all of its nodes, and makes the recursion of the
generator, the printer and the check for returns end. A depth cannot be computed
by recursion in a proof, so `DepthInv` says that there are sets `H[d]` of nodes
that nest at most d deep (`Heights`: what is below a node of `H[d + 1]` is in `H[d]`),
and for each frame k the token `st[k]` at which it began; what a frame has in
hand is in the set for the tokens read since, less the one that is its own
(`Own`, `Hand`). A function that makes a node always has a token to pay for
it, its own or an operator; those that make none (the levels of precedence)
hand on what they were given.

`AcceptedReturns` compares `block_has_ret` with executions. Over the depths of
`H` the set of statements reached is closed (`ReachedClosed`), so an execution
that got past a block would be stopped by the first depth at which its block
returns (`NoWayThrough`, `Least` again); and the statements that are not found to
return are, together, such an execution (`WayThrough`). The invariants
`AllReturn` and `Refused` carry the outcome of the check to the end of the run.

`NothingLost` compares the list of tokens with the finished tree; in between, the
tokens already read lie in no tree but in the frames of the call stack.
`WordsInv` says that they are all there: there are nodes made so far, each with
its words (`Spelt`), and a token at which each frame began, such that what a
frame has in hand, with the tokens the function steps over itself (`Start`,
`Lead`), says exactly the tokens from there up to where the next frame began, and
the youngest frame's those up to the index (`Told`). A function that waits for a
result may have stepped over a token for it already (`Waits`, against `Runs`): an
`=`, a `[`, an operator. A word is what `Meaning` leaves of a token, so a step
over a parenthesis says nothing, and that `a \o (b \o c)` is `(a \o b) \o c` and
`FlattenSeq` of a longer sequence is what one expects are lemmas (`Assoc`,
`FlatAppend`). A call begins a frame with no words (`ToldPush`), a return hands the
words of its frame to the one below (`ReturnWords`), and a node is made where the
words in hand are those of the node (`ReturnMade`, `KeepMade`). At the end one
frame is left, with the program in hand, from token 0 on (`ProgramSays`).

That says that *some* assignment of words to the nodes fits. `NodeWords` defines
one by recursion over the tree. `FromBelow` stands in for induction over it:
what holds of a node when it holds of those directly below holds of all of them,
since a level of the tree is empty (`NodesOwnTokens`), so that a node for which
it fails and that is as deep as any would have only others below it. So the two
agree (`OneReading`). `PrinterTakesNothing` is proved with it as well: without an
index, a `++` or a `--`, every node that is printed over nodes whose printing
ends normally does so too (`PrintExpr`, `PrintStmt`). It needs two facts that
`WordsInv` carries along (`Proper`): what is assigned to is an identifier or an
index, so that the assertion on the target holds, and a function's parameters
are a list.

**Tokenizer.** For any texts, lexeme size and first capacity
(`BoundsAssumption`; capacity 0 is excluded there, `add_list` would never grow
it):

* `CursorsStayInStep` - `Spec => []CursorsAgree`
* `LexemesStayInside` - `Spec => []LexemesFit`
* `ImplementsLexer` - `Spec => LexerSpec`
* `OverrunsAreLong` - `Spec => []OverrunsExplained`
* `LinesAreTrue` - `Spec => []LinesTrue`
* `ListIsEnded` - `Spec => []EofEnds`

`IsAt` describes a cursor in step at a position, for the cursor itself and for
those of look-ahead and of the tokens in the making. The lemmas about `add_list`
say that the items stay where they are when the list grows. That a lexeme fits
needs where each token starts: one before the second loop of a comment, which
counts characters of its own, and at the start of a word that `Fits` has looked
at.

The lexer takes a lexeme at once that the tokenizer reads character by character,
so the refinement needs to know, at the moment the token is created, that what
was read is the longest run. `TextInv` says the first half: a token in the making
starts with the character that led to it, and all that has been read of it since
belongs to it (`Only`). The other half is the condition on which the loop ends
(`Stops`); together they give the lexer's length (`FromRun`). The text of a
comment is not read back by `getCurWord` but copied on the way, past the end of
the file if need be, so `TextInv` says of it that it is the text as far as the
text goes. `Taken` turns a token added after k characters into the lexer's
`Take`; while a token is read nothing happens to the lexer (`Stutters`). What
does not fit is read by the same loops, so an overrun is explained by the same
runs: a comment that the file leaves open has a run up to the end of the text.

`LinesTrue` needs the line reached as well as the lines of the tokens. `LineInv`
says that the line reached is one more than the newlines counted in what is
consumed (`Seen`), and that no token hides a character after that. A token
without newlines leaves the count as it is (`TokenLines`), which `TextInv` shows
of words, numbers and comments, and so does a string, since it hides the
newlines it holds; `SkipLines` counts the others one by one.

**Driver.** For every set of command lines, files there before, and failures:

* `SuccessIsTrue` - `Spec => []SuccessMeansBuilt`
* `PartsStayUnlinked` - `Spec => []NoPartLinked`
* `SourceIsKept` - `Spec => []SourceSurvives`
* `AssemblyIsBeside` - `Spec => []AssemblyBeside`

`AtStage` says what the files hold at each stage: nothing is written before the
assembly file is opened, a part until the generator has ended, the whole from
fork on, also while the child runs. `PathsOK` says that only the two output
paths are ever written, and where they come from. `Named` says that main has no
assembly path, or the one -o gives, or the input's with its extension swapped;
`Swapped` says of `swap_extension` that it cuts at the last dot, if there is one,
whatever dots come before it.

**Only model-checked.** `Termination`, `Ends` (liveness is out of the
prover's reach); `ResultCorrect`, whose abstract side is a recursive evaluator,
and `RoundTrip`, whose canonical sources are made by recursion over the tree:
what a RECURSIVE operator computes cannot be proved here. Nor does `NothingLost`
say that the tree is the right one (its words are the same however operators
bind): that part of `RoundTrip` is checked on the samples alone.

## Not modelled

* `stack.c`: a linked list that the generator uses only as the stack of scopes,
  and Codegen takes for a sequence.
* The text of lines and operands: `reg_to_str`, `operand_to_str` and
  `emit_print` turn a record into text, decide nothing, and are exercised by the
  repository's tests. `emit_inc`, `emit_dec`, `emit_jump`, `emit_ret`: only tests
  call them.
* What print_ast prints.
* `free_node`, `destroy_list`, `destroy_ht`, `delete_stack`, `asm_free`,
  `drain_scopes`: release memory only. `emitter_init` allocates
  `sizeof(emitter)`, which is there the size of the pointer being declared; that
  a small block is larger than asked for hides it. `hash()`'s arithmetic: only
  that it gives a slot.
* What a write past a lexeme does, and the last write of the EOF token's lexeme,
  one past its end (`tokenizer.c:273`): the next line overwrites its effect.
* The value `strtoll` reads from a number: an underscore ends it, a number too
  large is clamped. It is the token's `num`, given with the token.
* Dereference `x[i]` is parsed, and refused by the generator; so are `++x` and
  `--x`. The refusal is modelled, not a meaning. (`x[0] = 1;` and `++x` are
  stopped even earlier, by `print_ast`.)
* Addresses: `&x` is emitted and its stack effect checked, but no program can
  use an address, so `compiled` does not look at its value.
* What as and ld say of calls of undefined functions and duplicate global names,
  which the generator accepts: Compiled does not start such a program (`Links`).

`syntax.md` describes another language than `parser.c` reads, in small things,
and is not used as a reference: after a block inside a block the code wants a
`;`, there is no unary `*`, a parameter that is an array needs its type written
out, `call f() + 1;` is no statement, and `(&x)` is read as a cast. Identifiers
have no underscores: the tokenizer refuses the character.

## Plan

Done, in the order of what the rest depends on: the code generator, its output
on a machine, its stack invariant, and the hash table of its symbols; then what
feeds it, parser and tokenizer with array list and return check; then the
driver. What is left:

1. **Stack**, refined to a sequence; **Emitter** text, as an injection from
   operands to what is printed.
