--------------------------- MODULE MCDisassembler ----------------------------
(***************************************************************************)
(* The disassembler on chunks that make sense and on chunks that do not:   *)
(* those of MCAssembly, each of them with one byte overwritten or its end  *)
(* cut off, and every short byte sequence with a span table of its own.    *)
(***************************************************************************)
EXTENDS Listing, MCAssembly

Assembled ==
    {PopsTheTop, CallsUnderATemporary, Counts, UnknownOpcode, Recurses(2, 1),
     Negates(Truth), Applies(OpCode.DIV, Numbers)}

Overwritten ==
    UNION {{[c EXCEPT !.code[at] = byte] :
                at \in DOMAIN c.code,
                byte \in {OpCode.CONST, OpCode.ADD, OpCode.JUMP, OpCode.CALL, OpCode.HALT + 1}} :
           c \in Assembled}

Cut == UNION {{[c EXCEPT !.code = SubSeq(@, 1, n)] : n \in 0 .. Len(c.code)} : c \in Assembled}

(* Spans at every second byte; a function entered at the first and one past the end. *)
Raw(code) ==
    [EmptyChunk EXCEPT
        !.code = code,
        !.constants = <<IntValue(3)>>,
        !.functions = << Function("f", 0, 1, 1), Function("g", 9, 0, 0) >>,
        !.spans = [k \in 1 .. Len(code) \div 2 |-> SpanEntry(2 * k - 1, Line(k), NoText)]]

Short ==
    {Raw(code) : code \in UNION {[1 .. n -> {OpCode.CONST, OpCode.ADD, OpCode.JUMP_IF_FALSE,
                                            OpCode.CALL, OpCode.HALT, OpCode.HALT + 1}] : n \in 0 .. 4}}

MCListed == Assembled \cup Overwritten \cup Cut \cup Short
=============================================================================
