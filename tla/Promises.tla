------------------------------ MODULE Promises -------------------------------
(***************************************************************************)
(* What a caller of the program may rely on: what the exit code says, what *)
(* is on standard output, and what a diagnostic points at.  Each is said   *)
(* of the command line and the characters of the file, with the reference  *)
(* modules for what the language is.                                       *)
(***************************************************************************)
EXTENDS Driver

Lx == INSTANCE Lexemes WITH SourceTexts <- {}
G == INSTANCE Grammar WITH Sources <- {}
Sc == INSTANCE Scoping WITH Sources <- {}
Cs == INSTANCE CodeShape WITH Sources <- {}

-----------------------------------------------------------------------------

(* The command line, read as a whole instead of argument by argument. *)
Flags == {"--trace", "--dump", "--engine=tree", "--engine=vm"}

Named == {k \in DOMAIN arguments : arguments[k] \notin Flags \cup {""}}

IsGoodCommandLine ==
    /\ Named # {}
    /\ arguments[Min(Named)] = "-" \/ ~StartsWith("-", arguments[Min(Named)])
    /\ \A k \in DOMAIN arguments : k > Min(Named) => arguments[k] \in Flags

InputPath == arguments[Min(Named)]

Dumps == "--dump" \in Range(arguments)

(* The last engine named is the one meant. *)
EngineMeant ==
    LET choices == SelectSeq(arguments, LAMBDA a : a \in {"--engine=tree", "--engine=vm"})
    IN  IF choices # <<>> /\ Last(choices) = "--engine=vm" THEN "vm" ELSE "tree"

(* The file is a program: every character begins a token or is in one, the
   tokens derive from the grammar, every name is in scope. *)
IsTheLanguage ==
    /\ Lx!Strays = {}
    /\ G!IsProgram({j \in G!Positions : G!TypeAt(j) \notin G!StartsExpression})
    /\ G!LiteralsFit
    /\ Sc!WellScoped(Sc!Enclosing)

FitsAChunk == Cs!TablesFit /\ Cs!CodeBytes <= MaxOperand

(* The exit code says how far the process came (src/src/diagnostic.h, ExitCode):
   64 exactly for a bad command line, 66 for a file that cannot be opened, 65
   exactly for a file that is not a program of the language or, where a chunk is
   needed, does not fit into one, and 70 only for a fault of the one engine. *)
ExitCodeSaysWhatWentWrong ==
    exit # NotYet =>
        IF ~IsGoodCommandLine THEN exit = Usage
        ELSE IF InputPath \notin DOMAIN Disk THEN exit = NoInput
        ELSE IF ~IsTheLanguage THEN exit = CompileTime
        ELSE IF (Dumps \/ EngineMeant = "vm") /\ ~FitsAChunk THEN exit = CompileTime
        ELSE /\ exit \in IF Dumps THEN {Ok} ELSE {Ok, Runtime}
             /\ exit = Runtime =>
                    "runtime" = (IF EngineMeant = "vm" THEN vmVerdict ELSE treeVerdict).class

-----------------------------------------------------------------------------

(* The column of the screen where the character after these ones stands. *)
Screen(chars, width) ==
    FoldLeft(LAMBDA at, c : IF c = Tab THEN (at \div width + 1) * width ELSE at + 1, 0, chars)

IsMark(c) == c \in {"^", "~"}

(* The marks begin under the first character of a token, or of the stray one,
   and end under the last one of a token. *)
MarksAConstruct(place, marks) ==
    \/ lexed # Finished /\ place = Min(Lx!Strays) /\ Len(marks) = 1
    \/ \E first, last \in DOMAIN tokens :
           /\ place = Lx!PlaceOf(source, tokens[first].span)
           /\ place + Len(marks) = Max({place + 1, Lx!End(source, tokens[last].span)})

(* A failed process reports exactly one error, after any narration.  If it is
   about the source, it quotes the line it names, as it is in the file less its
   line end, and the marks stand under a construct of that line - on a screen
   with any tab stops, however wide (src/src/diagnostic.cpp, the comments on the
   padding and on the run). *)
ErrorsAreUnderlined ==
    exit # NotYet =>
        /\ Len(SelectSeq(stderr, LAMBDA r : r.place # <<>>)) = IF exit = Ok THEN 0 ELSE 1
        /\ exit \in {CompileTime, Runtime} =>
               LET report == Last(stderr)
                   span == MakeSpan(report.place[2], report.place[3], 0)
                   place == Lx!PlaceOf(source, span)
                   start == place - span.col + 1
                   text == report.quote[1]
                   marks == SelectSeq(report.quote[2], IsMark)
                   padding == SelectSeq(report.quote[2], LAMBDA c : ~IsMark(c))
                   after == start + Len(text)
               IN  /\ Lx!Stands(source, place, span)
                   /\ text = SubSeq(source, start, after - 1)
                   /\ Newline \notin Range(text)
                   /\ \/ after = Len(source) + 1
                      \/ source[after] = Newline
                      \/ source[after] = Return /\ after + 1 \notin DOMAIN source
                      \/ source[after] = Return /\ source[after + 1] = Newline
                   /\ \A width \in {1, 3, 8} :
                          Screen(padding, width) = Screen(SubSeq(source, start, place - 1), width)
                   /\ report.quote[2] = padding \o marks
                   /\ MarksAConstruct(place, marks)

-----------------------------------------------------------------------------

(* A process whose program has no endless loop, as none of the files has, comes to
   its exit code: no stage, handler or option of src/src/main.cpp leaves it stuck. *)
ProcessEnds == <>(exit # NotYet)
=============================================================================
