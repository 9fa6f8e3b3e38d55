------------------------------- MODULE Chunk --------------------------------
(***************************************************************************)
(* The bytecode format (src/src/chunk.h): code bytes, a constant pool, one *)
(* span entry per instruction and a function table, with the operations    *)
(* that write and read them.  Offsets count from 0 as in the code.         *)
(*                                                                         *)
(* ByteBase and MaxOperand scale the 8-bit byte (256) and the 16-bit       *)
(* operand (65535).                                                        *)
(***************************************************************************)
EXTENDS Syntax, FiniteSetsExt

CONSTANTS ByteBase, MaxOperand

ASSUME ChunkAssumption ==
    /\ ByteBase \in Nat /\ ByteBase > 18
    /\ MaxOperand \in Nat /\ MaxOperand > 0 /\ MaxOperand < ByteBase * ByteBase

OpCode ==
    [CONST |-> 0, LOAD_LOCAL |-> 1, STORE_LOCAL |-> 2, POP |-> 3, ADD |-> 4,
     SUB |-> 5, MUL |-> 6, DIV |-> 7, NEG |-> 8, EQ |-> 9, LT |-> 10, GT |-> 11,
     NOT |-> 12, JUMP |-> 13, JUMP_IF_FALSE |-> 14, CALL |-> 15, RETURN |-> 16,
     PRINT |-> 17, HALT |-> 18]

HasOperand(op) ==
    op \in {OpCode.CONST, OpCode.LOAD_LOCAL, OpCode.STORE_LOCAL,
            OpCode.JUMP, OpCode.JUMP_IF_FALSE, OpCode.CALL}

InstructionLength(op) == IF HasOperand(op) THEN 3 ELSE 1

(* The operator spelling of an instruction whose faults quote none: nullptr. *)
NoText == ""

EmptyChunk ==
    [code |-> <<>>, constants |-> <<>>, spans |-> <<>>, functions |-> <<>>,
     programFrameSize |-> 0]

(* mutant: the last byte is never used *)
HasRoomTight(chunk, op) == Len(chunk.code) + InstructionLength(op) < MaxOperand

(* writeByte, over an instruction: the code never grows past maxOperand bytes. *)
HasRoom(chunk, op) == Len(chunk.code) + InstructionLength(op) <= MaxOperand

LowByte(operand) == operand % ByteBase
HighByte(operand) == (operand \div ByteBase) % ByteBase

SpanEntry(offset, span, text) == [offset |-> offset, span |-> span, op |-> text]

(* emit and emitOperand: the opcode, its operand low byte first, its span entry. *)
Emit(chunk, op, operand, span, text) ==
    [chunk EXCEPT
        !.code = @ \o (IF HasOperand(op)
                       THEN <<op, LowByte(operand), HighByte(operand)>>
                       ELSE <<op>>),
        !.spans = Append(@, SpanEntry(Len(chunk.code), span, text))]

Byte(chunk, offset) == chunk.code[offset + 1]

ReadOperand(chunk, offset) ==
    Byte(chunk, offset + 1) + Byte(chunk, offset + 2) * ByteBase

(* mutant: written over the opcode *)
PatchOpcode(chunk, offset, operand) ==
    [chunk EXCEPT !.code[offset + 1] = LowByte(operand),
                  !.code[offset + 2] = HighByte(operand)]

PatchOperand(chunk, offset, operand) ==
    [chunk EXCEPT !.code[offset + 2] = LowByte(operand),
                  !.code[offset + 3] = HighByte(operand)]

(* addConstant: one entry per occurrence; its index is the operand. *)
PoolFull(chunk) == Len(chunk.constants) > MaxOperand

(* mutant: equal constants share an entry, and the caller is not told which *)
AddOnce(chunk, value) ==
    IF \E i \in DOMAIN chunk.constants : chunk.constants[i] = value
    THEN chunk
    ELSE [chunk EXCEPT !.constants = Append(@, value)]

AddConstant(chunk, value) == [chunk EXCEPT !.constants = Append(@, value)]

FunctionInfo(name, arity, frameSize) ==
    [name |-> name, entry |-> 0, arity |-> arity, frameSize |-> frameSize]

(* spanAt: the last entry at or before the offset, found by binary search. *)
SpanAt(chunk, offset) ==
    chunk.spans[Max({i \in DOMAIN chunk.spans : chunk.spans[i].offset <= offset})]

(* The offsets at which an instruction starts. *)
Starts(chunk) == {chunk.spans[i].offset : i \in DOMAIN chunk.spans}
=============================================================================
