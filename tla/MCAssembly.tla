----------------------------- MODULE MCAssembly ------------------------------
(***************************************************************************)
(* Chunks written by hand, as src/tests/vm_test.cpp writes them: they have *)
(* what no compiled program has, a POP, deep temporaries, frames wider     *)
(* than the operand stack, an opcode that is none.                         *)
(***************************************************************************)
EXTENDS Chunk, SequencesExt

Line(n) == MakeSpan(n, 1, 1)

(* Instructions as <<opcode, operand>>, one source line each. *)
Assemble(instructions, constants, functions, programFrameSize) ==
    [FoldLeft(LAMBDA c, i : Emit(c, i[1], i[2], Line(Len(c.spans) + 1), NoText),
              EmptyChunk, instructions)
        EXCEPT !.constants = constants, !.functions = functions,
               !.programFrameSize = programFrameSize]

Function(name, entry, arity, frameSize) ==
    [FunctionInfo(name, arity, frameSize) EXCEPT !.entry = entry]

Numbers == [i \in 1 .. 3 |-> IntValue(i)]
Truth == <<BoolValue(TRUE), BoolValue(FALSE)>>

PopsTheTop ==
    Assemble(<< <<OpCode.CONST, 0>>, <<OpCode.CONST, 1>>, <<OpCode.CONST, 2>>,
                <<OpCode.POP, 0>>, <<OpCode.PRINT, 0>>, <<OpCode.PRINT, 0>>,
                <<OpCode.HALT, 0>> >>, Numbers, <<>>, 0)

(* Two arguments in order, a local of the callee, and a caller's temporary
   that waits under the call. *)
CallsUnderATemporary ==
    Assemble(<< <<OpCode.CONST, 0>>, <<OpCode.STORE_LOCAL, 0>>,     \* 0, 3
                <<OpCode.CONST, 2>>,                                \* 6
                <<OpCode.LOAD_LOCAL, 0>>, <<OpCode.CONST, 1>>,      \* 9, 12
                <<OpCode.CALL, 0>>, <<OpCode.ADD, 0>>,              \* 15, 18
                <<OpCode.PRINT, 0>>, <<OpCode.HALT, 0>>,            \* 19, 20
                <<OpCode.LOAD_LOCAL, 0>>, <<OpCode.LOAD_LOCAL, 1>>, \* 21, 24
                <<OpCode.MUL, 0>>, <<OpCode.STORE_LOCAL, 2>>,       \* 27, 28
                <<OpCode.CONST, 1>>,                                \* 31
                <<OpCode.STORE_LOCAL, 0>>,                          \* 34
                <<OpCode.LOAD_LOCAL, 2>>, <<OpCode.RETURN, 0>> >>,  \* 37, 40
             Numbers, << Function("f", 21, 2, 3) >>, 1)

(* Calls itself for ever, with w slots a call and t temporaries waiting under it. *)
Recurses(w, t) ==
    Assemble(<< <<OpCode.CALL, 0>>, <<OpCode.HALT, 0>> >>
                 \o [i \in 1 .. t |-> <<OpCode.CONST, 0>>]
                 \o << <<OpCode.CALL, 0>> >>
                 \o [i \in 1 .. t |-> <<OpCode.ADD, 0>>]
                 \o << <<OpCode.RETURN, 0>> >>,
             Numbers, << Function("r", 4, 0, w) >>, 2)

Counts ==
    Assemble(<< <<OpCode.LOAD_LOCAL, 0>>, <<OpCode.CONST, 2>>,      \* 0, 3
                <<OpCode.LT, 0>>, <<OpCode.JUMP_IF_FALSE, 23>>,     \* 6, 7
                <<OpCode.LOAD_LOCAL, 0>>, <<OpCode.CONST, 0>>,      \* 10, 13
                <<OpCode.ADD, 0>>, <<OpCode.STORE_LOCAL, 0>>,       \* 16, 17
                <<OpCode.JUMP, 0>>,                                 \* 20
                <<OpCode.HALT, 0>> >>, Numbers, <<>>, 1)

Applies(op, constants) ==
    Assemble(<< <<OpCode.CONST, 0>>, <<OpCode.CONST, 1>>, <<op, 0>>,
                <<OpCode.NOT, 0>>, <<OpCode.PRINT, 0>>, <<OpCode.HALT, 0>> >>,
             constants, <<>>, 0)

Negates(constants) ==
    Assemble(<< <<OpCode.CONST, 0>>, <<OpCode.NEG, 0>>, <<OpCode.NEG, 0>>,
                <<OpCode.PRINT, 0>>, <<OpCode.HALT, 0>> >>, constants, <<>>, 0)

UnknownOpcode ==
    Assemble(<< <<OpCode.CONST, 0>>, <<OpCode.HALT + 1, 0>>, <<OpCode.HALT, 0>> >>,
             Numbers, <<>>, 0)
=============================================================================
