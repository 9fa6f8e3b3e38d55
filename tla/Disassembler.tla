---------------------------- MODULE Disassembler -----------------------------
(***************************************************************************)
(* The disassembler (src/src/disassembler.cpp): the tables of a chunk and  *)
(* then its code, one line per turn of the loop.  It is meant for chunks   *)
(* nothing is known about, and must not trust a byte of them.              *)
(*                                                                         *)
(* A line of the listing is a row: what it is, the offset it shows, the    *)
(* source line, the name and the operand, and what the annotation says.    *)
(***************************************************************************)
EXTENDS Chunk, SequencesExt

CONSTANT Chunks     \* the chunks to be listed

VARIABLES chunk, offset, listing, listed

vars == <<chunk, offset, listing, listed>>

Row(what, at, line, name, operand, note) ==
    [what |-> what, at |-> at, line |-> line, name |-> name, operand |-> operand, note |-> note]

(* opCodeName *)
NameOf(op) == CHOOSE name \in DOMAIN OpCode : OpCode[name] = op

NoLine == 0     \* printed as a dash

(* The line of a byte that has a span entry of its own. *)
LineAt(at) ==
    IF /\ \E k \in DOMAIN chunk.spans : chunk.spans[k].offset <= at
       /\ SpanAt(chunk, at).offset = at
    THEN SpanAt(chunk, at).span.line
    ELSE NoLine

ThisByte == Byte(chunk, offset)
BytesLeft == Len(chunk.code) - offset

(* What an operand means.  An index past its table is reported, not followed. *)
Annotation(op, operand) ==
    CASE op = OpCode.CONST ->
             IF operand < Len(chunk.constants)
             THEN <<"constant", chunk.constants[operand + 1]>>
             ELSE <<"not in the pool", operand>>
      [] op \in {OpCode.JUMP, OpCode.JUMP_IF_FALSE} ->
             <<IF operand <= offset THEN "backward" ELSE "forward", operand>>
      [] op = OpCode.CALL ->
             IF operand < Len(chunk.functions)
             THEN <<"function", chunk.functions[operand + 1].name,
                    chunk.functions[operand + 1].arity>>
             ELSE <<"not in the table", operand>>
      [] OTHER -> <<>>

(* mutant: the names of those already entered *)
LabelsSoFar ==
    LET entered == SelectSeq(chunk.functions, LAMBDA f : f.entry <= offset)
    IN  [k \in DOMAIN entered |-> Row("label", offset, NoLine, entered[k].name, 0, <<>>)]

(* The names of the functions entered at this offset stand above it. *)
Labels ==
    LET entered == SelectSeq(chunk.functions, LAMBDA f : f.entry = offset)
    IN  [k \in DOMAIN entered |-> Row("label", offset, NoLine, entered[k].name, 0, <<>>)]

-----------------------------------------------------------------------------

Write(rows) == listing' = listing \o rows

ConstantRows ==
    [k \in DOMAIN chunk.constants |->
        Row("constant", k - 1, NoLine, "", 0, <<chunk.constants[k]>>)]

FunctionRows ==
    [k \in DOMAIN chunk.functions |->
        LET f == chunk.functions[k]
        IN  Row("function", k - 1, NoLine, f.name, f.entry, <<f.arity, f.frameSize>>)]

ListTables ==
    /\ listed = Running
    /\ listing = <<>>
    /\ Write(<<Row("chunk", Len(chunk.code), NoLine, "", chunk.programFrameSize, <<>>)>>
             \o ConstantRows \o FunctionRows)
    /\ UNCHANGED <<chunk, offset, listed>>

Walking == listed = Running /\ listing # <<>> /\ offset < Len(chunk.code)

(* mutant: an unknown byte is skipped as if it had an operand *)
SkipUnknown ==
    /\ Walking
    /\ ThisByte > OpCode.HALT
    /\ Write(Append(Labels, Row("unknown", offset, LineAt(offset), "", ThisByte, <<>>)))
    /\ offset' = offset + 3
    /\ UNCHANGED <<chunk, listed>>

ListUnknown ==
    /\ Walking
    /\ ThisByte > OpCode.HALT
    /\ Write(Append(Labels, Row("unknown", offset, LineAt(offset), "", ThisByte, <<>>)))
    /\ offset' = offset + 1
    /\ UNCHANGED <<chunk, listed>>

ListTruncated ==
    /\ Walking
    /\ ThisByte <= OpCode.HALT
    /\ InstructionLength(ThisByte) > BytesLeft
    /\ Write(Append(Labels, Row("truncated", offset, LineAt(offset), NameOf(ThisByte), BytesLeft, <<>>)))
    /\ listed' = Finished
    /\ UNCHANGED <<chunk, offset>>

ListInstruction ==
    /\ Walking
    /\ ThisByte <= OpCode.HALT
    /\ InstructionLength(ThisByte) <= BytesLeft
    /\ LET operand == IF HasOperand(ThisByte) THEN ReadOperand(chunk, offset) ELSE 0
       IN  Write(Append(Labels, Row("instruction", offset, LineAt(offset), NameOf(ThisByte),
                                    operand, Annotation(ThisByte, operand))))
    /\ offset' = offset + InstructionLength(ThisByte)
    /\ UNCHANGED <<chunk, listed>>

EndListing ==
    /\ listed = Running
    /\ listing # <<>>
    /\ offset >= Len(chunk.code)
    /\ listed' = Finished
    /\ UNCHANGED <<chunk, offset, listing>>

-----------------------------------------------------------------------------

Init ==
    /\ chunk \in Chunks
    /\ offset = 0
    /\ listing = <<>>
    /\ listed = Running

Next == ListTables \/ ListUnknown \/ ListTruncated \/ ListInstruction \/ EndListing

Spec == Init /\ [][Next]_vars
FairSpec == Spec /\ WF_vars(Next)
=============================================================================
