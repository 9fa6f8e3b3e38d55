# TLA+ models of the algo compiler

`algo` is a small language with integers, booleans, blocks, loops and recursive
functions. One front end (lexer, parser, resolver) feeds two engines: a
tree-walking interpreter, and a compiler to bytecode with a VM. The repository's
central claim is that the two engines cannot be told apart. These modules model
the program from the command line and the characters of the file to the exit code,
check that claim and what it rests on with TLC, and prove with TLAPS that the lexer
is right on every file, that parser and resolver hand over well-formed trees whose
names are resolved, that the compiler fills every jump, leaves alone what it has
emitted and emits well-typed code, and that the VM is memory-safe on every well-typed
chunk, and so on every program that compiles, and its calls share nothing.

Paths are those of the repository, seen from its parent: `src/src/vm.cpp` is its
`src/vm.cpp`.

## 1. Inventory of the system

The program is one thread in one process. It reads one file and runs its stages
one after the other; each stage consumes the whole result of the one before, and
a stage that throws ends the process. There is no concurrency, no persistence and
no timeout. What is hard is elsewhere: state kept across nested calls (of the
program that runs, and of the C++ that walks it), numbers assigned in one stage
and trusted without a check in a later one, code that is emitted before its
operands are known, limits, integer edges, and two engines that must agree on
every one of these.

| Component | State | Operations | Correct when |
|---|---|---|---|
| lexer (`lexer.cpp`) | position, line, column, tokens | `lex`, one arm per kind of character | every character is in one token or blank; tokens are longest; a span quotes its token; one end token, last |
| tokens, nodes (`token.h`, `ast.h`) | spans, node fields | `mergeSpans` | a node's span covers the text it was made from |
| parser (`parser.cpp`) | `tokens`, `pos`, the C++ stack | `parse`, one function per production | accepts its grammar; the tree holds each token once, bound by level; always ends |
| resolver (`resolver.cpp`) | frames of scopes, `retired`, `functionArity` | two passes, one visit per node | accepts exactly the well-scoped programs; slots follow the rules; every read is of a written slot |
| chunk (`chunk.h`) | code, constants, functions, spans | emit, patch, add, read, look up | operands read back as written; nothing wraps |
| compiler (`compiler.cpp`) | the chunk, `functionIndex`, offsets in C++ locals | three passes, one visit per node | every jump patched once; code well typed; refused exactly if it does not fit |
| VM (`vm.cpp`) | operand stack, frames, `ip` | one arm per opcode | pops only its own operands; calls do not disturb callers; limits hold |
| interpreter (`interpreter.cpp`) | environments, `returnValue`, the C++ stack | `evaluate`, `callFunction`, `executeStatement` | same output and verdict as the VM |
| value (`value.h`) | tag and payload | construction, equality | operators exact, or a fault |
| diagnostics (`diagnostic.*`) | span, message | throw, render | raised with the span of the construct at fault; the marks stand under it, whatever tabs and line ends the line has |
| driver (`main.cpp`) | options, path | argument loop, read the file, stages in order, handlers, exit | the exit code says what went wrong; one error reported; only what was asked for runs |
| disassembler (`disassembler.cpp`) | offset of the walk | print a chunk | the listing is the code, whole and in order, for any bytes at all |

How they interact. The parser returns a tree; the resolver *writes into* it (a
slot on every variable, assignment and parameter, a width on every function) and
returns the program's own width. Both engines index their frames with those
numbers and check nothing, so the resolver's rules are the engines' memory
safety. The compiler turns the tree into a chunk whose operands, jump targets and
stack discipline the VM likewise takes on trust. A fault's span comes from the
node in one engine and from the chunk's span table in the other.

`PROJECT.json` lists under `hazards` each thing in this code that is hard to
test, at its line, with the properties that would catch it.

## 2. Modules

| Module | Models | How |
|---|---|---|
| `Values` | `value.h`, the checked arithmetic | `[type, v]`, the payload of a boolean being 0 or 1; `Quotient` truncates towards zero as C++ does |
| `Diagnostic` | `diagnostic.h`, `Span` | a verdict is an error class with its span and message; the message is the sequence of its parts |
| `Syntax` | `token.h`, `ast.h` | a node is a record, its children indices into one sequence `nodes`, so that the resolver can write into it |
| `Lexer` | `lexer.cpp` | one action per arm of the scan; a file is a sequence of characters |
| `Parser` | `parser.cpp` | one action per parse function, or per part of one between calls |
| `Resolver` | `resolver.cpp` | one action per visit, for each thing a visit can meet |
| `Chunk` | `chunk.h` | bytes in two-digit operands, base `ByteBase` |
| `Compiler` | `compiler.cpp` | one action per construct, or per part of one between emissions |
| `Vm` | `vm.cpp` | one action per arm of the dispatch loop |
| `Interpreter` | `interpreter.cpp` | one action per visit; `flow` is the C++ return of `Flow::Return` |
| `Disassembler` | `disassembler.cpp` | the tables, then one action per turn of the walk; a line of output is a row |
| `Rendering` | `diagnostic.cpp` | the quoted line, the padding and the marks, as sequences of characters |
| `Pipeline` | the stages of `main.cpp` | parser to engines, in order, both engines on one source |
| `Driver` | `main.cpp` | one process: arguments, file, stages, one engine or the listing, handlers, exit |
| `Lexemes` | properties of the lexer | line and column of a place, what a token is, said of the file without a scan |
| `Grammar` | reference | the language, as the set of positions each production can end at |
| `Scoping` | reference | what is in scope and which slot it has, said of the finished tree without a walk |
| `Meaning` | reference | what a program does, evaluated by names, with no slots, jumps or stack |
| `ChunkTyping` | reference | which chunks the VM is safe on |
| `CodeShape` | properties of the compiler | while it emits, and of the result |
| `Calls` | abstract specification | a machine in which every call has storage of its own |
| `VmSafety` | properties of the VM | and the refinement mapping to `Calls` |
| `Listing` | properties of the disassembler | the rows assembled again are the code |
| `Promises` | properties of the process | exit code, output and diagnostics against the command line and the file |
| `RunSafety` | properties of a compiled program's run | what the compiler's promise and the VM's come to together |
| `SubSequences` | a loop over a vector that keeps some of its elements | as a function of the position reached, which a proof can unfold |
| `LexerProofs`, `VmProofs`, `ParserProofs`, `TreeProofs`, `ResolverProofs`, `CodeProofs`, `CompilerProofs`, `TypingProofs` | proofs | see section 5; lemmas on sequences that several of them share are at the front of `ParserProofs` |
| `MCSource`, `MCCorpus`, `MCAssembly` | inputs | source programs as lists of words, laid out into tokens with spans; the corpus; hand-built chunks |
| other `MC*` | instances | the inputs of one or more runs |

**The C++ call stack.** The parser, resolver, compiler and interpreter are
recursive functions. Each model keeps that recursion as `work`, a sequence whose
head runs next; an item stands for a call, or for the rest of a function's body
after a call returns, and carries the C++ locals that are still needed (the offset
of a jump to patch, the header of a loop). What calls have returned and nobody has
used yet is `built` in the parser and `values` in the interpreter. Actions are
therefore the steps between two calls, which is where the intermediate states that
the properties speak about are.

**Composition.** `Driver` instantiates `Lexer`, `Pipeline` and `Disassembler` over
one state and is the process as a user starts it. Its actions are the arms of the
argument loop, the reading of the file, the hand-over from stage to stage (with the
headings `--trace` writes) and the exits; in between the instances step. It starts
one engine, or under `--dump` the disassembler, and gives the other engine the
verdict "idle".

`Pipeline` shares `nodes` and `work` between the stages: the
tree is one object, and only one stage walks at a time. It runs the front end and
then both engines, where a process of the program runs one (`--engine`); the front
end is deterministic, so the two processes run the same one. The engines share no
variable, so the schedule cannot influence them; the one chosen stops each at the
other's prints, which makes "at every print both hold the same variables" an
invariant.

**What is abstracted.** Wording of messages (their parts and order are kept); of
`--trace`, everything but the headings; the columns of the listing; the text of a
token beyond what `Spell` joins from its characters; failing writes to standard
output; the handler for exceptions of other types, which nothing throws; the sizes
of the limits (below); the objects' lifetimes; and what a faulting VM leaves on its
stack: the code has popped operands, or pushed part of a callee's frame, by the time
it throws, and nothing reads the stack after that, so the model leaves it as it was.
Reading a file is one step, because no other process is part of the model; a path
that can be opened and not read (a directory) is an input of its own, `Unreadable`.

## 3. Checked properties

Each run is deterministic once its source is chosen; a run quantifies over a
corpus of sources in its `Init`. `CHECK_DEADLOCK FALSE` is set everywhere: the
program is meant to stop. Each property has a mutant (`PROJECT.json`): a plausible
bug in one definition, defined next to it and marked `mutant`, under which TLC
finds the property violated.

**programs** (`MCPipeline`). 42 programs: recursion, mutual recursion and forward
calls, shadowing, returns out of nested blocks and loops, every kind of fault,
limits at their value and one past it, and what the parser and resolver refuse. And
every recursive function whose body is up to four of eight pieces (assignments, a call
of itself, a print, a return, `{`, a loop that ends, `}`).
- `OutputsAgree`: at every moment what the VM has printed is a prefix of what the
  tree-walker has.
- `ProgramsMeanWhatTheySay`: what was printed, and the final verdict with its span
  and message, is what `Meaning` evaluates from the tree by names. The engines
  share parser, resolver and slots, so their agreement would survive a slot given
  to two variables; this would not. That the verdicts of the two engines are equal
  follows, and is stated by itself where limits differ, in **limits**.
- `SlotsAgreeAtPrints`: when both have printed the same, they hold the same
  calls, and every slot of every live call has the same value in both.
- `Terminates`: each of these programs is refused or ends under both engines.

**operators** (`MCPipeline`). `OperatorsAreExact`: every operator on every pair of
nine operands (the ends of the range, their neighbours, 0, both booleans) gives
the exact result or the right fault, in both engines. The expected quotient is
pinned by its remainder, not computed by the model's own `Quotient`.

**blocks** (`MCBlocks`). Every balanced sequence of at most four pieces (`x = 1`,
`y = x`, `z = y`, `{`, `if … {`, `while … {`, `} else {`, `}`) at the top level and
after an assignment, of at most three as a function body, and declarations and
calls with every kind of error.
- `AcceptsExactlyTheWellScoped`, `SlotsFollowTheRules`, `RefusedNamesSayWhy`: the
  resolver against `Scoping` (which programs, which slots and widths, which
  message).
- `ReadsAreOfWrittenSlots`: the tree-walker never reads a slot nothing was written
  to. Both engines rely on it and neither tests it.
- `HolesArePending`, `EmittedCodeIsFinal`: at every step of the compiler the
  jumps with a placeholder are those the pending walk remembers, and no other
  byte ever changes.
- `CompiledCodeIsWellTyped`: what the compiler emits satisfies `WellTyped`, the
  premise of the proofs about the VM.
- `ConstantsAreReadOnce`: each constant has one `CONST`, in order.

**limits** (`MCLimits`). Programs whose code, frames, function table, depth and
stack lie on either side of each limit: `RefusedExactlyIfTooLarge` computes from
the tree alone whether the chunk fits; `VerdictsAgree`: both engines end with the same
verdict, span and message included, unless the VM ran into a limit the tree-walker
does not have (the stack cap, which only **stack_claim** and, on hand-made chunks,
**vm** come to); `CompiledProgramsKeepTheirFrames`: whatever compiles runs on the VM
with its frames in order, no operand taken from below them and neither limit passed.

**vm** (`MCVm`). Chunks by hand, as `src/tests/vm_test.cpp` has them.
- `TypeOK`, and the four parts of the frame discipline: `FramesAreContiguous`
  (frames tile the stack), `FramesRunTheirOwnCode`, `OperandsAreTemporaries` (an
  instruction takes only its own frame's temporaries), `StackWithinCap`,
  `DepthWithinLimit`.
- `CallersAreUntouched`: no step changes the stack below the running frame.
- `CallsAreSeparate`: the VM implements `Calls`, where nothing is shared.

**parser** (`MCParser`). All sequences of up to four tokens over three
vocabularies (five for parameter lists) with the heads that lead somewhere, and
chains of three operators over four levels, and six programs broken into three lines
in every way: `AcceptsItsGrammar`, `TreeReadsBack` (each token once, in order),
`OperatorsBindByLevel`, `SpansQuoteTheirSource` (a span quotes its construct, or, of
one that goes over a line end, a beginning on the first line), `ParserDecides` (it
always ends).

**lexer** (`MCLexer`). Every file of up to three characters over eleven kinds, of up
to four or five over smaller alphabets (line ends and blanks around tokens, words,
operators), eight longer texts with tabs, carriage returns and strays, and every
program of the corpus.
- `TokensTileTheSource`: every character passed is in exactly one token, or blank and
  in none; tokens are in order and quote their text.
- `TokensAreLongest`: each is a lexeme, and with the next character is not.
- `EndsWhereItMust`: refused exactly at the first character that begins no token,
  otherwise ended by one end-of-file token just past the last character.
- `LayoutsAreLexed`: the token vectors the other runs start from (`TokensOf`) are
  what the lexer makes of the same programs.
- `LexerDecides`: every file is lexed or refused.

**disassembler** (`MCDisassembler`). Hand-built chunks, the same with any byte
overwritten or the end cut off, and every code of up to four bytes with spans at
every second one.
- `ListingReassembles`: assembled again, the rows are the code up to where the walk
  stands, each at its offset and with a line only where the span table has that very
  offset; the walk ends at the end, or on a truncated instruction.
- `ListingReadsAsCompiled`: for code as the compiler leaves it, lines, backward jumps
  and function labels are where they belong.

**driver** (`MCDriver`). Whole processes on characters: sixteen files of every
outcome, each under either engine, under `--dump` and with repeated options, and
every command line of up to three of ten arguments.
- `ExitCodeSaysWhatWentWrong`: 64, 66, 65, 70 and 0 exactly when the command line, the
  disk, the language (`Lexemes`, `Grammar`, `Scoping`) and the chunk's limits say so.
- `OnlyWhatWasAskedFor`: output only from the engine meant or the listing, and the
  same output and code for a file whatever else is on the command line, as a table
  of expected results has it.
- `ErrorsAreUnderlined`: one error is reported, with the line as it is in the file
  and the marks under a construct of it, on a screen with tab stops of any width.
- `ProcessEnds`: every one of them exits. None of the files has an endless loop.

### Bounds, and why they are enough

| Constant | Code | Runs | Why |
|---|---|---|---|
| `MaxInt` | 2^63 − 1 | 7; 3 in blocks | the overflow tests depend on the ends of the range, not on its width; `-MaxInt - 1` keeps the asymmetry |
| `ByteBase` | 256 | 20 | operands still take two bytes, and both are used |
| `MaxOperand` | 65535 | 255; 50 in limits; 60 in driver; 99 in vm and disassembler | small enough in `limits` for the corpus to reach each limit exactly, one below and one above |
| `MaxCallDepth` | 1000 | 4; 9 in vm; 12 in stack_claim | the test is one comparison; programs stop at it and one past it |
| `MaxStackSlots` | 2^20 | 256; 51 in limits; 64 in driver; 100 in vm | more than `MaxOperand`, as in the code (`VmAssumption`), and reachable |

Nesting to depth four with at most four pieces has every pair of constructs
inside each other and in sequence; a frame or scope rule that fails needs a name
opened, closed and used, which three pieces express. Operator chains of length
three meet every pair of levels in both orders. The lexer looks one
character ahead and keeps nothing but its position between tokens, so that three or
four characters have every token beside every other, at both ends of a line and of
the file. A command line of three arguments has an option before, between and after
paths, and every pair of options in both orders.

### Fairness

The program is single-threaded and never waits, so an enabled step happens:
`WF_vars(Next)` in `FairSpec`, and nothing stronger. `LexerDecides` and
`ParserDecides` hold of every input. `Terminates` and `ProcessEnds` are statements
about the corpus (the language has endless loops) and say that no construct of a
program that ends makes an engine run on or stop short, and that no failure leaves
a process without an exit.

## 4. Where the repository says otherwise

- **stack_claim** (`NoProgramExhaustsTheStack`). `src/tests/vm_test.cpp:130-132`
  calls pushing without popping "the only way to exhaust the operand stack in a
  chunk this format admits. No `.algo` program can express it", and
  `src/CMakeLists.txt:97` repeats it. A recursion through a frame of more than
  about 1050 variables does express it: the VM faults with "operand stack
  exhausted" where the tree-walker faults with "call depth exceeded".
  `src/src/vm.h:54-57` knows.
- **grammar_claim** (`AcceptsTheDocumentedGrammar`). `src/docs/GRAMMAR.md:40` and
  `:63` derive `return x = 1` as a bare return and an assignment; the parser takes
  `x` as the returned value and refuses the `=`. `AcceptsItsGrammar` is the same
  comparison with the choice the code makes (`startsExpression`), and passes.

- **input_claim** (`UnreadableInputIsNoInput`). `src/src/diagnostic.h:73`,
  `src/docs/GRAMMAR.md:357-358` and `src/tests/diagnostic_test.cpp:540` say that an
  input that cannot be read exits 66. `main` (`src/src/main.cpp:142-151`) asks only
  whether it could be opened; a directory can, reads as an empty file, and the
  process exits 0. The test uses a path that does not exist.

## 5. What is proved

### The VM

`VmProofs` proves, for every value of the constants and every set of chunks,
`Spec => []P` for each part of the frame discipline (theorems
`TypeIsCorrect`, `FramesTileTheStack`, `FramesKeepToTheirCode`,
`OperandsAreThere`, `StackStaysWithinCap`, `DepthStaysWithinLimit`), and the
action property `CallersStayUntouched`.

Assumptions: `MaxIntAssumption` (a natural number), `ChunkAssumption` (the byte
base and the largest operand), `VmAssumption` (positive depth; a stack cap above
the widest frame, which `VM::run` relies on in its comment on the first
`assign`), and `ChunksAreWellTyped`: every chunk the VM is given has a typing.
The last is what the code does not test at run time. For compiled code it is not
taken on faith: it is proved (see "Compiled code is well typed" below), and *Compiled
programs keep their frames* puts the two together. For chunks from elsewhere, as the
tests build them, it is the contract.

The argument. That an instruction's operands are there is not inductive: an `ADD`
at the top of a frame needs two temporaries, and nothing about the step before
says so. The typing does: it gives each instruction the number of temporaries when
it runs (`height`) and the function it belongs to (`owner`). The inductive
invariant `Safe` says that the stack really is cut that way in every live frame,
the innermost at `ip`, each caller at the address it will return to, with one
temporary less than that instruction finds, the one the return value will be. With
it, each arm of the loop has one lemma (`ConstIsSafe` … `UnknownIsSafe`); those
that stay inside a frame go through `FallsThrough` and `TakesAndPuts`, and CALL
and RETURN re-establish the tiling with one frame more and one less
(`CallFromDepth`, `ReturnFromDepth`).

Proved and checked differ in one more point: TLC checks `TypeOK` and the others on
the chunks of `MCVm`, whose typing it computes (`Heights`, `Owners`).

### The lexer

`LexerProofs` proves, for every file, `Spec => []P` for the three safety properties
of `Lexemes`: `TokensAlwaysTile`, `TokensAreAlwaysLongest`, `AlwaysEndsWhereItMust`.
The one assumption is `SourcesAssumption`: files are sequences of strings.

The argument. The code never computes a line or column from the file; it counts them
along. The properties speak of the file alone: the line of a place is the number of
newlines before it, its column the distance from the last of them. The first part of
the module shows that these behave as counting does: along a line the column grows by
one a character (`AlongALine`), a newline begins a line (`AfterANewline`), a line and
column name one place (`PlaceIsUnique`), and a span covers the characters it should
(`SpanCovers`). It rests on `LeastNatural`, drawn from the well-foundedness of the
library. The second part shows that each arm takes a longest lexeme
(`NumbersAreLongest`, `WordsAreLongest`, `LongOperatorsAreLongest`,
`ShortOperatorsAreLongest`; `RunsAreWhole` for the two inner loops). The invariant
`LexerInvariant` then says that the counted position is the real one (`Positioned`),
that the tokens are placed, ordered and cover everything up to there (`Filled`), and
why the scan stopped if it did (`Concluded`). None of the three properties is
inductive by itself: they say nothing of `line` and `col`, from which the next token
gets its span.

### The VM implements calls that share nothing

The second half of `VmProofs` proves `CallsHaveStorageOfTheirOwn`,
`Spec => CallsAreSeparate`, from the same assumptions: under the mapping of `VmSafety`, which cuts the
one stack into the frames' variables and temporaries, every step of the VM is a step
of `Calls`, where each call has a stack of its own, or a stutter.

The argument. `Safe` gives the cuts; `Pieces` says that they are slices of the stack
one after the other, `CallerStays` and `OnlyTheRunningCall` that a step which
touches only the top changes only the innermost slice. What is left is one lemma for
each thing `Calls` can do (`PushComputes`, `StoreAssigns`, `PrintOutputs`,
`CallEnters`, `ReturnLeaves`), which the arms of the loop are sorted under
(`OperatorsCompute`, `MovesCompute`).

### The front end builds trees

`ParserProofs` and `TreeProofs` prove `FrontIsSound`: for every token vector that ends
with its end token, `FrontInvariant` holds of every state of `Pipeline`.
`TreesStaySound` and `ProgramsAreSound` are what the later stages read off it: every
node has the children its type calls for, each of the right kind (an expression, a
statement, a declaration) and built before it, so that the interpreter's and the
compiler's unchecked `kids[i]` are there and their recursion descends; the roots are
in source order and no root is part of another's tree.

The argument. The parser's pending work is a program for the stack `built`: an item
takes some kinds off its top and puts one there. `Typed(work, before, after)` says
that the whole of the pending work runs from the kinds built now to the end, and it
is the typing that is inductive: without it nothing says that the two things under
a pending `BinOp` are expressions. `Runs` and `TypedConcat` compose typings, so each parse function needs one
lemma about the items it puts in its own place. For the resolver, `SameShape` says
that it writes slots and widths and nothing else; its frames are followed by
`FramesFollowWork` (one frame at the top level, a second one exactly while a
function's end is pending) and `IsFrame` (a slot bound in a scope is below the next
one given out).

### Names are resolved

`ResolverProofs` proves `NamesAreResolved`: for every token vector, once the resolver
has accepted it, `TreeIsResolved`: every variable and parameter has a
slot below the width of the frame its code runs in, and every call names a declared
function, once, with as many arguments as it has parameters. These are the facts on
which both engines index their frames without a test.

The argument. A node does not say which function it belongs to, so the first thing is
to read it off the order in which the parser builds: the roots of the program cut the
nodes into runs, one root's tree after the other's (`LiesIn`), and every node a walk
meets lies in the run of the root it started from. The invariant says of the nodes
that are resolved already that they fit in the frame of their run (`FitsIn`, with
`Limit` for a frame whose size is not known before it is left), of the pending walk
that it goes through one run and then the runs after it (`Resolving`), and of the
names collected in the first pass that they are the declared functions, with their
arity. That a slot fits is not inductive without `FramesFollowWork` of `TreeProofs`,
which says whose frame is on top.

### What the compiler has emitted

`CompilerProofs` proves, for every token vector and every capacity of a chunk, three
properties of `CodeShape`: `EmittedCodeStays` (the action property
`EmittedCodeIsFinal`), `HolesAreFilled` (`HolesArePending`: no jump of compiled code
leaves the code) and `ConstantsHaveOneReader` (`ConstantsAreReadOnce`).

The argument. The chunk's operations come first, in `CodeProofs`: what an operand is made of is read
back from its two bytes (`OperandFitsTwoBytes`), emitting adds one instruction and
keeps the others (`EmitFacts`), patching changes the two bytes of one operand
(`PatchFacts`), both keep the instructions tiled and the `CONST`s in the order of the
pool (`Tiled`, `ReadsInOrder`, `ReadsKept`, `ReadsGrow`). The invariant
`CompilerInvariant` then ties the code to the pending walk: an item that waits for a
jump's target remembers the offset of an instruction that is a jump with the
placeholder, no two remember the same, and every other jump has a target within the
code, or at its end while an item that will emit a `HALT` or a `RETURN` is pending.
The last part is why it says so much about the walk: a jump past the last statement
of a body points at the end of the code, and only what is still to be emitted makes
that an instruction. `HolesArePending` speaks of the holes only, and is not inductive.
Each of the 23 handlers has one lemma in `CompilerProofs` (`CompileLiteralKeeps` ... `FinishCompilerKeeps`);
those that emit go through `EmitKeeps`, those that patch through `PatchKeeps`, those
that do both through `EmitPatchKeeps`. `FrontInvariant` is what lets the walk assume
that the nodes it meets are of the kinds its handlers are for. `PipelineInvariant`
carries this from stage to stage, and on to the engines, which only read the chunk
(`VmReadsTheChunk`).

### Compiled code is well typed

`TypingProofs` proves `CodeIsWellTyped`, `Spec => []CompiledCodeIsWellTyped`: for every
token vector that compiles there is a height for every instruction and a function it
belongs to, with which the chunk is one the proofs about the VM are about.

The argument. The compiler keeps no such heights: it relies on each construct leaving
the stack as the next expects it. The invariant therefore has the heights and owners
of the code emitted so far as ghosts (`ChunkIsTyped`, under an existential quantifier),
and reads the *pending walk* as code too: `Moves` says what an item does to the number
of temporaries once it is compiled, `Carries` that the whole of the walk, from the
height the code has reached, gets to its end. That is what makes the step lemmas
compose: a handler that puts five items in the place of one need only show that the
five carry what the one did (`CarriesHead`, `CarriesJoin`). `WalkOwned` says which
function's body each item will emit into, `AwaitedIn` that the jumps without a target
stand at the height their target will be reached with, and `Declared` ties the function
table to the resolved tree, which is where `TreeIsResolved` is needed: slots below the
frame's width, as many arguments as parameters. The second half of `CodeProofs` says
what one more instruction, a patched jump, a constant and the start of a body do to
code typed so far; `CompilerProofs` has the lemmas on the walk and on every single
emission, `TypingProofs` one lemma for each handler (`VisitCompiles`,
`ThenCompiles` ... `FunctionBodyCompiles`), the declaration of the tables, and the end of
compilation, where nothing is pending and the ghosts are the typing asked for.

### Compiled programs keep their frames

The last part of `TypingProofs` proves `ProgramsKeepTheirFrames`, from source to run: of
every token vector that compiles, the VM's frames tile the stack, run their own code,
are never reached below their temporaries, and stay within both limits. `VmProofs` is
instantiated on the pipeline's own VM (`Proved`), with no assumption about the chunk:
its lemmas are stated for a chunk that has a typing, and `CodeIsWellTyped` gives the
typing at the moment `main` hands the chunk over (`AtStart`). From there on the chunk
stays, and a step of the pipeline is a step of the VM or leaves it alone (`VmKeeps`).
The one thing this needs of the constants is `LimitsAssumption`, that both limits are
positive and the stack is wider than the widest frame (`src/src/vm.h`).

Assumptions of these sections: `PipelineAssumption`, that the byte base is
greater than the largest opcode and an operand fits in two bytes, and that a token
vector ends with its end-of-file token, which `EndsWhereItMust` says of the lexer.
`MCBlocks`, `MCPipeline` and the others that extend `Pipeline` have TLC evaluate it.

### Model-checked only

- What the two engines compute: `OutputsAgree`, `VerdictsAgree`, `SlotsAgreeAtPrints`,
  `ProgramsMeanWhatTheySay`, `OperatorsAreExact`.
- `RefusedExactlyIfTooLarge`, which counts bytes over a whole tree.
- What the resolver accepts, that variables alive together have different slots
  (`SlotsFollowTheRules`; that slots fit in their frame is proved), and
  `ReadsAreOfWrittenSlots`.
- What the parser accepts and how it binds (`Grammar` is recursive, see below);
  the disassembler, the renderer and the driver.
- `LayoutsAreLexed`, which is about what `Spell` and `NumberOf` compute, by a fold.
- Liveness, out of the prover's reach.
- Anything about the reference language of `Grammar` and the reference semantics of
  `Meaning`, which use `RECURSIVE` operators and are kept out of every module with a
  theorem. Recursive *functions* can be proved about: `NatSetInduction` is induction for
  sets of naturals, which is how `ParserProofs` finds what a `SubSequence` holds.

## 6. Not modelled

Tests, scripts, benchmarks and documents, which are no part of the program. The
lifetime of C++ objects (`SpanEntry::op` points into the tree, which is why `main` keeps
both in one scope) and the depth of the native stack, on which the parser, the resolver,
the compiler and the tree-walker recurse with the nesting of the source: the models hold
text by value and their call stack is a sequence of any length. The second is listed as a
hazard without a property.

## 7. Plan

1. *(done)* The core: parser, resolver, compiler, VM, interpreter, their
   composition, and the safety proof of the VM.
2. *(done)* `Lexer` with `Lexemes` and its proof, `Rendering`, `Disassembler` with
   `Listing`, `Driver` with `Promises`: the program from the command line on.
3. *(done)* `Meaning`: a semantics by names that both engines are held to.
4. *(done)* Proofs: the refinement of `Calls` by `Vm`; the trees of the parser and the
   resolver; lemmas on `Chunk` (an emitted operand reads back; patching touches nothing
   else) and with them `EmittedCodeIsFinal`, `HolesArePending`, `ConstantsAreReadOnce`.
5. *(done)* Proofs: `NamesAreResolved`; with it `CodeIsWellTyped`, which discharges the
   premise of the proofs about the VM for compiled code; with both `ProgramsKeepTheirFrames`.
6. Open: that variables alive together have different slots, for every program
   (`SlotsFollowTheRules` checks it), and the walk of the disassembler
   (`ListingReassembles`) as far as it needs no fold.

## 8. Running

    tlc -workers 2 -config MCPrograms.cfg MCPipeline
    tlc -workers 2 -config MCOperators.cfg MCPipeline
    tlc -workers 2 -config MCBlocks.cfg MCBlocks
    tlc -workers 2 -config MCLimits.cfg MCLimits
    tlc -workers 2 -config MCVm.cfg MCVm
    tlc -workers 2 -config MCParser.cfg MCParser
    tlc -workers 2 -config MCLexer.cfg MCLexer
    tlc -workers 2 -config MCDisassembler.cfg MCDisassembler
    tlc -workers 2 -config MCDriver.cfg MCDriver
    tlc -workers 2 -config StackClaim.cfg MCLimits
    tlc -workers 2 -config GrammarClaim.cfg MCParser
    tlc -workers 2 -config InputClaim.cfg MCDriver
    tlapm LexerProofs.tla
    tlapm VmProofs.tla
    tlapm ParserProofs.tla
    tlapm TreeProofs.tla
    tlapm ResolverProofs.tla
    tlapm CodeProofs.tla
    tlapm CompilerProofs.tla
    tlapm TypingProofs.tla

The last three runs of TLC find the violations of section 4. Each run takes about a
minute at most; of the proofs, the first takes two minutes, the second six, and the
others between ten and twenty each.
