---------------------------- MODULE ChunkTyping -----------------------------
(***************************************************************************)
(* What the VM takes for granted of a chunk, written down: it runs without *)
(* a bounds check on the stack, the code or the pools (src/src/vm.cpp), so *)
(* everything it does not check has to be true of the code it is given.    *)
(*                                                                         *)
(* A typing gives each instruction the number of temporaries on the stack  *)
(* when it runs and the function that owns it, 0 for the program's own     *)
(* statements.  WellTyped says that the two are consistent everywhere.     *)
(***************************************************************************)
EXTENDS Chunk

Unary == {OpCode.NEG, OpCode.NOT}
Binary == {OpCode.ADD, OpCode.SUB, OpCode.MUL, OpCode.DIV, OpCode.EQ, OpCode.LT, OpCode.GT}
Ends == {OpCode.JUMP, OpCode.RETURN, OpCode.HALT}

Callee(chunk, offset) == chunk.functions[ReadOperand(chunk, offset) + 1]

(* The temporaries an instruction takes off the stack, and those it puts there. *)
Takes(chunk, offset) ==
    LET op == Byte(chunk, offset)
    IN  IF op \in Binary THEN 2
        ELSE IF op \in Unary \cup {OpCode.STORE_LOCAL, OpCode.POP, OpCode.JUMP_IF_FALSE,
                                   OpCode.RETURN, OpCode.PRINT} THEN 1
        ELSE IF op = OpCode.CALL THEN Callee(chunk, offset).arity
        ELSE 0

Puts(chunk, offset) ==
    IF Byte(chunk, offset) \in Unary \cup Binary
                               \cup {OpCode.CONST, OpCode.LOAD_LOCAL, OpCode.CALL}
    THEN 1 ELSE 0

Fallthrough(chunk, offset) == offset + InstructionLength(Byte(chunk, offset))

(* What FunctionInfo declares: an offset and two 16-bit unsigned numbers. *)
FunctionEntry ==
    [name : STRING, entry : Nat, arity : 0 .. MaxOperand, frameSize : 0 .. MaxOperand]

(* The slots of the frame that runs the code a function, or the program, owns. *)
Width(chunk, owner) ==
    IF owner = 0 THEN chunk.programFrameSize ELSE chunk.functions[owner].frameSize

(* Control may go from an instruction of `owner` that leaves h temporaries to
   the one at `target`. *)
Flows(chunk, height, owned, owner, h, target) ==
    /\ target \in Starts(chunk)
    /\ height[target] = h
    /\ owned[target] = owner

(* The operand names something that exists. *)
OperandInRange(chunk, owner, op, operand) ==
    /\ op = OpCode.CONST => operand < Len(chunk.constants)
    /\ op \in {OpCode.LOAD_LOCAL, OpCode.STORE_LOCAL} => operand < Width(chunk, owner)
    /\ op = OpCode.CALL => operand < Len(chunk.functions)

WellTypedAt(chunk, height, owned, offset) ==
    LET op == Byte(chunk, offset)
        owner == owned[offset]
        after == height[offset] - Takes(chunk, offset) + Puts(chunk, offset)
    IN  /\ op \in Nat
        /\ HasOperand(op) => ReadOperand(chunk, offset) \in Nat
        /\ OperandInRange(chunk, owner, op, ReadOperand(chunk, offset))
        /\ Takes(chunk, offset) <= height[offset]
        /\ op \notin Ends => Flows(chunk, height, owned, owner, after, Fallthrough(chunk, offset))
        /\ op \in {OpCode.JUMP, OpCode.JUMP_IF_FALSE} =>
               Flows(chunk, height, owned, owner, after, ReadOperand(chunk, offset))
        /\ op = OpCode.RETURN => owner # 0

WellTyped(chunk, height, owned) ==
    /\ height \in [Starts(chunk) -> Nat]
    /\ owned \in [Starts(chunk) -> 0 .. Len(chunk.functions)]
    /\ chunk.constants \in Seq(Value)
    /\ chunk.functions \in Seq(FunctionEntry)
    /\ chunk.programFrameSize \in 0 .. MaxOperand
    /\ 0 \in Starts(chunk)
    /\ Starts(chunk) \subseteq Nat
    /\ height[0] = 0 /\ owned[0] = 0
    /\ \A f \in DOMAIN chunk.functions :
           LET function == chunk.functions[f]
           IN  /\ function.arity <= function.frameSize
               /\ function.entry \in Starts(chunk)
               /\ height[function.entry] = 0 /\ owned[function.entry] = f
    /\ \A offset \in Starts(chunk) : WellTypedAt(chunk, height, owned, offset)

-----------------------------------------------------------------------------

(* The typing of compiled code, read off it from the front: what follows an
   unconditional transfer is the start of a statement, where nothing is on the
   stack, and a function owns the code from its entry to the next one's. *)
Heights(chunk) ==
    LET offset(i) == chunk.spans[i].offset
        at[i \in DOMAIN chunk.spans] ==
            IF i = 1 \/ Byte(chunk, offset(i - 1)) \in Ends THEN 0
            ELSE at[i - 1] - Takes(chunk, offset(i - 1)) + Puts(chunk, offset(i - 1))
    IN  [o \in Starts(chunk) |-> at[CHOOSE i \in DOMAIN chunk.spans : offset(i) = o]]

Owners(chunk) ==
    [o \in Starts(chunk) |->
        Cardinality({f \in DOMAIN chunk.functions : chunk.functions[f].entry <= o})]
=============================================================================
