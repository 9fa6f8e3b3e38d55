------------------------------- MODULE Driver --------------------------------
(***************************************************************************)
(* main (src/src/main.cpp), the whole process: the command line, the file, *)
(* the stages in order with one engine or the disassembler behind them,    *)
(* the handlers, and the exit code.  Pipeline has the stages themselves.   *)
(*                                                                         *)
(* What the process writes to standard error is `stderr`; what it writes   *)
(* to standard output is what an engine printed or the listing.            *)
(***************************************************************************)
EXTENDS Syntax, Rendering

CONSTANTS
    CommandLines,   \* the sequences of arguments, without the program's name
    Disk,           \* the paths that can be opened, and the characters of each file
    Unreadable,     \* those of them that cannot be read once opened: a directory
    ByteBase, MaxOperand, MaxCallDepth, MaxStackSlots

VARIABLES
    arguments, argument, trace, dump, engine, path, phase, stderr, exit,
    source, i, line, col, lexed,                                        \* Lexer
    stage, tokens, pos, nodes, built, parsed, program, scopes, functionArity,
    programFrameSize, resolved, chunk, functionIndex, compiled, work,
    frames, written, returnValue, flow, values, treeOut, treeVerdict,
    stack, vmFrames, ip, vmOut, vmVerdict,                              \* Pipeline
    offset, listing, listed                                             \* Disassembler

L == INSTANCE Lexer WITH SourceTexts <- { <<>> }
S == INSTANCE Pipeline WITH Sources <- { <<>> }
D == INSTANCE Disassembler WITH Chunks <- {}

options == <<trace, dump, engine, path>>
lexerState == <<source, i, line, col, lexed>>
parserState == <<tokens, pos, built, parsed>>
resolverState == <<program, scopes, functionArity, programFrameSize, resolved>>
compilerState == <<chunk, functionIndex, compiled>>
treeState == <<frames, written, returnValue, flow, values, treeOut, treeVerdict>>
vmState == <<stack, vmFrames, ip, vmOut, vmVerdict>>
pipelineState == <<stage, nodes, work, parserState, resolverState, compilerState, treeState,
                   vmState>>
listingState == <<offset, listing, listed>>
stagesState == <<pipelineState, lexerState, listingState>>
vars == <<arguments, argument, options, phase, stderr, exit, stagesState>>

-----------------------------------------------------------------------------

Program == "algo"   \* programName: argv[0] without its directory

NotYet == -1
Ok == 0
Usage == 64
CompileTime == 65
NoInput == 66
Runtime == 70

Narration(heading) == Rendered(<<>>, <<heading>>, <<>>)

(* Under --trace the stages announce themselves on standard error. *)
Narrated(heading) == IF trace THEN Append(stderr, Narration(heading)) ELSE stderr

Exit(code, report) ==
    /\ exit' = code
    /\ stderr' = Append(stderr, report)
    /\ UNCHANGED <<arguments, argument, options, phase, stagesState>>

-----------------------------------------------------------------------------

Reading == exit = NotYet /\ phase = "arguments" /\ argument <= Len(arguments)

Argument == arguments[argument]

StartsWith(prefix, text) ==
    Len(prefix) <= Len(text) /\ SubSeq(text, 1, Len(prefix)) = prefix

Engine == "--engine="
ChosenEngine == SubSeq(Argument, Len(Engine) + 1, Len(Argument))

ReadOn ==
    /\ argument' = argument + 1
    /\ UNCHANGED <<arguments, phase, stderr, exit, stagesState>>

SetTrace ==
    /\ Reading
    /\ Argument = "--trace"
    /\ trace' = TRUE
    /\ ReadOn
    /\ UNCHANGED <<dump, engine, path>>

SetDump ==
    /\ Reading
    /\ Argument = "--dump"
    /\ dump' = TRUE
    /\ ReadOn
    /\ UNCHANGED <<trace, engine, path>>

(* mutant: the VM, once chosen, stays *)
StickyEngine ==
    /\ Reading
    /\ StartsWith(Engine, Argument)
    /\ ChosenEngine \in {"tree", "vm"}
    /\ engine' = IF engine = "vm" THEN "vm" ELSE ChosenEngine
    /\ ReadOn
    /\ UNCHANGED <<trace, dump, path>>

SetEngine ==
    /\ Reading
    /\ StartsWith(Engine, Argument)
    /\ ChosenEngine \in {"tree", "vm"}
    /\ engine' = ChosenEngine
    /\ ReadOn
    /\ UNCHANGED <<trace, dump, path>>

UnknownEngine ==
    /\ Reading
    /\ StartsWith(Engine, Argument)
    /\ ChosenEngine \notin {"tree", "vm"}
    /\ Exit(Usage, RenderToolError(Program, <<"unknown engine", ChosenEngine>>))

(* mutant: so is a lone dash *)
IsDashed(text) == StartsWith("-", text)

(* A lone dash is no option, and an empty argument is no path but may be one
   argument too many. *)
IsOption(text) == StartsWith("-", text) /\ Len(text) > 1

UnknownOption ==
    /\ Reading
    /\ IsOption(Argument)
    /\ Argument \notin {"--trace", "--dump"}
    /\ ~StartsWith(Engine, Argument)
    /\ Exit(Usage, RenderToolError(Program, <<"unknown option", Argument>>))

SetPath ==
    /\ Reading
    /\ ~IsOption(Argument)
    /\ path = ""
    /\ path' = Argument
    /\ ReadOn
    /\ UNCHANGED <<trace, dump, engine>>

TooManyArguments ==
    /\ Reading
    /\ ~IsOption(Argument)
    /\ path # ""
    /\ Exit(Usage, RenderToolError(Program, <<"too many arguments: at most one input file">>))

-----------------------------------------------------------------------------

Opening == exit = NotYet /\ phase = "arguments" /\ argument > Len(arguments)

NoInputFile ==
    /\ Opening
    /\ path = ""
    /\ Exit(Usage, RenderToolError(Program, <<"no input file">>))

CannotOpen ==
    /\ Opening
    /\ path # ""
    /\ path \notin DOMAIN Disk
    /\ Exit(NoInput, RenderToolError(Program, <<"could not open file", path>>))

(* Whether the read succeeded is not asked: what could not be read is empty. *)
ReadFile ==
    /\ Opening
    /\ path \in DOMAIN Disk
    /\ source' = IF path \in Unreadable THEN <<>> ELSE Disk[path]
    /\ phase' = "lex"
    /\ stderr' = Narrated("Stage 1: Lexing")
    /\ UNCHANGED <<arguments, argument, options, exit, i, line, col, lexed,
                   pipelineState, listingState>>

Lex ==
    /\ exit = NotYet
    /\ phase = "lex"
    /\ L!Next
    /\ UNCHANGED <<arguments, argument, options, phase, stderr, exit, listingState,
                   pos, nodes, built, parsed, work, stage, resolverState,
                   compilerState, treeState, vmState>>

StartParse ==
    /\ exit = NotYet
    /\ phase = "lex"
    /\ lexed = Finished
    /\ phase' = "stages"
    /\ stderr' = Narrated("Stage 2: Parsing")
    /\ UNCHANGED <<arguments, argument, options, exit, stagesState>>

InStages == exit = NotYet /\ phase = "stages"

(* A stage at work, or the next one taking over. *)
RunFrontEnd ==
    /\ InStages
    /\ S!Parse \/ S!Resolve
    /\ UNCHANGED <<arguments, argument, options, phase, stderr, exit, lexerState, listingState>>

StartResolve ==
    /\ InStages
    /\ S!StartResolve
    /\ stderr' = Narrated("Stage 3: Resolution")
    /\ UNCHANGED <<arguments, argument, options, phase, exit, lexerState, listingState>>

(* The engine that is not asked for. *)
Idle == Verdict("idle", NoSpan, <<>>)

StartTree ==
    /\ InStages
    /\ stage = "resolve"
    /\ resolved = Finished
    /\ ~dump /\ engine = "tree"
    /\ stage' = "run"
    /\ work' = S!I!InitialWork(program)
    /\ frames' = <<S!I!NewEnvironment(programFrameSize)>>
    /\ vmVerdict' = Idle
    /\ stderr' = Narrated("Stage 4: Output")
    /\ UNCHANGED <<arguments, argument, options, phase, exit, lexerState, listingState,
                   nodes, parserState, resolverState, compilerState, written,
                   returnValue, flow, values, treeOut, treeVerdict, stack, vmFrames, ip, vmOut>>

StartCompile ==
    /\ InStages
    /\ dump \/ engine = "vm"
    /\ S!StartCompile
    /\ stderr' = Narrated("Stage 4: Output")
    /\ UNCHANGED <<arguments, argument, options, phase, exit, lexerState, listingState>>

Compile ==
    /\ InStages
    /\ S!Compile
    /\ UNCHANGED <<arguments, argument, options, phase, stderr, exit, lexerState, listingState>>

StartVm ==
    /\ InStages
    /\ stage = "compile"
    /\ compiled = Finished
    /\ ~dump
    /\ stage' = "run"
    /\ stack' = S!V!Zeros(programFrameSize)
    /\ treeVerdict' = Idle
    /\ UNCHANGED <<arguments, argument, options, phase, stderr, exit, lexerState, listingState,
                   nodes, work, parserState, resolverState, compilerState, frames,
                   written, returnValue, flow, values, treeOut, vmFrames, ip, vmOut, vmVerdict>>

RunEngine ==
    /\ InStages
    /\ S!TreeStep \/ S!VmStep
    /\ UNCHANGED <<arguments, argument, options, phase, stderr, exit, lexerState, listingState>>

StartListing ==
    /\ InStages
    /\ stage = "compile"
    /\ compiled = Finished
    /\ dump
    /\ phase' = "list"
    /\ UNCHANGED <<arguments, argument, options, stderr, exit, stagesState>>

List ==
    /\ exit = NotYet
    /\ phase = "list"
    /\ D!Next
    /\ UNCHANGED <<arguments, argument, options, phase, stderr, exit, lexerState, pipelineState>>

-----------------------------------------------------------------------------

(* mutant: the lexer is run outside the handlers *)
ThrownByStages ==
    {verdict \in {parsed, resolved, compiled, treeVerdict, vmVerdict} : Failed(verdict)}

Thrown ==
    {verdict \in {lexed, parsed, resolved, compiled, treeVerdict, vmVerdict} : Failed(verdict)}

(* The handlers: the class of what was thrown decides the code. *)
Catch ==
    /\ exit = NotYet
    /\ \E error \in Thrown :
           Exit(IF error.class = "compile" THEN CompileTime ELSE Runtime,
                RenderDiagnostic(error, path, source))

Done == listed = Finished \/ treeVerdict = Finished \/ vmVerdict = Finished

ReturnOk ==
    /\ exit = NotYet
    /\ Done
    /\ exit' = Ok
    /\ UNCHANGED <<arguments, argument, options, phase, stderr, stagesState>>

-----------------------------------------------------------------------------

Init ==
    /\ arguments \in CommandLines
    /\ argument = 1
    /\ trace = FALSE
    /\ dump = FALSE
    /\ engine = "tree"
    /\ path = ""
    /\ phase = "arguments"
    /\ stderr = <<>>
    /\ exit = NotYet
    /\ L!Init
    /\ S!Init
    /\ offset = 0
    /\ listing = <<>>
    /\ listed = Running

Next ==
    \/ SetTrace \/ SetDump \/ SetEngine \/ UnknownEngine \/ UnknownOption \/ SetPath
    \/ TooManyArguments \/ NoInputFile \/ CannotOpen \/ ReadFile
    \/ Lex \/ StartParse \/ RunFrontEnd \/ StartResolve
    \/ StartTree \/ StartCompile \/ Compile \/ StartVm \/ RunEngine \/ StartListing \/ List
    \/ Catch \/ ReturnOk

Spec == Init /\ [][Next]_vars

(* The program runs on one thread that is never blocked. *)
FairSpec == Spec /\ WF_vars(Next)
=============================================================================
