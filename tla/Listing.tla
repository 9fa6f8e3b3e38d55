------------------------------- MODULE Listing -------------------------------
(***************************************************************************)
(* What a disassembly has to be for its reader, of whatever chunk: the     *)
(* code, whole, in order, and with nothing made up.                        *)
(***************************************************************************)
EXTENDS Disassembler

CodeRows == SelectSeq(listing, LAMBDA r : r.what \in {"instruction", "unknown", "truncated"})

(* The bytes a reader would assemble a row back into. *)
BytesOf(row) ==
    CASE row.what = "unknown" -> <<row.operand>>
      [] row.what = "instruction" ->
             LET op == OpCode[row.name]
             IN  IF HasOperand(op)
                 THEN <<op, LowByte(row.operand), HighByte(row.operand)>>
                 ELSE <<op>>
      [] row.what = "truncated" -> <<>>

Reassembled(rows) == FlattenSeq([k \in DOMAIN rows |-> BytesOf(rows[k])])

(* One span entry for each instruction and the instructions end to end, as the
   compiler leaves them. *)
Aligned ==
    /\ IF chunk.spans = <<>> THEN chunk.code = <<>> ELSE chunk.spans[1].offset = 0
    /\ \A k \in DOMAIN chunk.spans :
           LET at == chunk.spans[k].offset
           IN  /\ at < Len(chunk.code)
               /\ at + InstructionLength(Byte(chunk, at)) =
                      IF k = Len(chunk.spans) THEN Len(chunk.code) ELSE chunk.spans[k + 1].offset

-----------------------------------------------------------------------------

(* The walk never skips (src/src/disassembler.h): assembled again, the rows are
   the code up to where the walk stands, each at the offset it shows; a line is
   shown only where the span table has that very offset, however the table is
   laid out; and the walk ends at the end of the code, or one or two bytes before
   it on an instruction whose operand is not all there. *)
ListingReassembles ==
    /\ IsPrefix(Reassembled(CodeRows), chunk.code)
    /\ Len(Reassembled(CodeRows)) = offset
    /\ \A k \in DOMAIN CodeRows : CodeRows[k].at = Len(Reassembled(SubSeq(CodeRows, 1, k - 1)))
    /\ \A k \in DOMAIN CodeRows :
           CodeRows[k].line # NoLine =>
               \E s \in DOMAIN chunk.spans :
                   /\ chunk.spans[s].offset = CodeRows[k].at
                   /\ chunk.spans[s].span.line = CodeRows[k].line
    /\ listed = Finished =>
           \/ offset = Len(chunk.code)
           \/ /\ Last(CodeRows).what = "truncated"
              /\ Last(CodeRows).operand = Len(chunk.code) - offset
              /\ Last(CodeRows).operand \in 1 .. 2

(* The listing of code the compiler wrote reads as that code: a row for each span
   entry, with that entry's line; a jump marked backward exactly if the row it
   goes to is not below it; and each function's name once, directly above its
   first instruction. *)
ListingReadsAsCompiled ==
    listed = Finished /\ Aligned =>
        /\ [k \in DOMAIN CodeRows |-> <<CodeRows[k].at, CodeRows[k].line>>]
           = [k \in DOMAIN chunk.spans |-> <<chunk.spans[k].offset, chunk.spans[k].span.line>>]
        /\ \A k, target \in DOMAIN CodeRows :
               /\ CodeRows[k].name \in {"JUMP", "JUMP_IF_FALSE"}
               /\ CodeRows[k].operand = CodeRows[target].at
               => (CodeRows[k].note[1] = "backward") = (target <= k)
        /\ \A f \in DOMAIN chunk.functions :
               chunk.functions[f].entry \in Starts(chunk) =>
                   LET labels == {k \in DOMAIN listing : /\ listing[k].what = "label"
                                                        /\ listing[k].name = chunk.functions[f].name}
                   IN  /\ Cardinality(labels) = 1
                       /\ \A k \in labels : listing[k + 1].at = chunk.functions[f].entry
=============================================================================
