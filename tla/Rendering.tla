------------------------------ MODULE Rendering ------------------------------
(***************************************************************************)
(* A diagnostic as the user sees it (src/src/diagnostic.cpp): the place,   *)
(* the message, the line of source it is about and the caret under it.     *)
(* Lines are sequences of characters, a character being a string.          *)
(***************************************************************************)
EXTENDS Diagnostic, SequencesExt

Newline == "\n"
Return == "\r"
Tab == "\t"

(* Where the lines of a file start; after its last newline there is a line too. *)
LineStarts(file) == {1} \cup {k + 1 : k \in {k \in DOMAIN file : file[k] = Newline}}

HasLine(file, line) == line \in 1 .. Cardinality(LineStarts(file))

WithoutReturn(text) == IF text # <<>> /\ Last(text) = Return THEN Front(text) ELSE text

SourceLine(file, line) ==
    LET start == CHOOSE s \in LineStarts(file) :
                     Cardinality({t \in LineStarts(file) : t < s}) = line - 1
        end == Min({s \in LineStarts(file) : s > start} \cup {Len(file) + 2})
    IN  WithoutReturn(SubSeq(file, start, end - 2))

(* mutant: a tab is padded with one space *)
SpacePadding(text, col) == [k \in 1 .. col - 1 |-> " "]

(* What stands left of the caret: as wide as the text above it on any terminal. *)
CaretPadding(text, col) ==
    [k \in 1 .. col - 1 |-> IF k \in DOMAIN text /\ text[k] = Tab THEN Tab ELSE " "]

(* A caret and then tildes, up to the end of the line, and a caret in any case. *)
CaretRun(text, col, len) ==
    LET available == Len(text) - col + 1
    IN  [k \in 1 .. Max({1, Min({len, available})}) |-> IF k = 1 THEN "^" ELSE "~"]

Rendered(place, message, quote) == [place |-> place, message |-> message, quote |-> quote]

RenderToolError(program, message) == Rendered(<<program>>, message, <<>>)

(* No position, no place; no such line, no quote. *)
RenderDiagnostic(diagnostic, path, file) ==
    LET span == diagnostic.span
        text == SourceLine(file, span.line)
    IN  IF span.line < 1
        THEN RenderToolError(path, diagnostic.message)
        ELSE Rendered(<<path, span.line, span.col>>, diagnostic.message,
                      IF HasLine(file, span.line)
                      THEN <<text, CaretPadding(text, span.col)
                                       \o CaretRun(text, span.col, span.len)>>
                      ELSE <<>>)
=============================================================================
