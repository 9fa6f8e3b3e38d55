----------------------------- MODULE Diagnostic -----------------------------
(***************************************************************************)
(* Spans, and the diagnostics every stage reports with                     *)
(* (src/src/token.h, src/src/diagnostic.h).  A stage's verdict is          *)
(* "running" until it ends, then "ok" or the diagnostic it threw: a        *)
(* CompileError or a RuntimeFault.  A message is the tuple of the words    *)
(* that distinguish it; its punctuation is left out.                       *)
(***************************************************************************)
EXTENDS Integers, Sequences

Span == [line : Nat, col : Nat, len : Int]

MakeSpan(line, col, len) == [line |-> line, col |-> col, len |-> len]

NoSpan == MakeSpan(0, 0, 0)

(* mutant: over line ends too *)
MergeAcrossLines(first, last) ==
    MakeSpan(first.line, first.col, last.col + last.len - first.col)

(* From the start of the first to the end of the last; on two lines, the first. *)
MergeSpans(first, last) ==
    IF first.line # last.line
    THEN first
    ELSE MakeSpan(first.line, first.col, last.col + last.len - first.col)

Verdict(class, span, message) == [class |-> class, span |-> span, message |-> message]

Running == Verdict("running", NoSpan, <<>>)
Finished == Verdict("ok", NoSpan, <<>>)
CompileError(span, message) == Verdict("compile", span, message)
RuntimeFault(span, message) == Verdict("runtime", span, message)

Failed(verdict) == verdict.class \in {"compile", "runtime"}
=============================================================================
