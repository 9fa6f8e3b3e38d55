--------------------------------- MODULE Vm ---------------------------------
(***************************************************************************)
(* The bytecode VM (src/src/vm.cpp): an operand stack that also holds the  *)
(* locals, a stack of frames, and one action per arm of the dispatch loop. *)
(*                                                                         *)
(* MaxCallDepth and MaxStackSlots scale the code's 1000 and 2^20.          *)
(***************************************************************************)
EXTENDS Chunk

CONSTANTS MaxCallDepth, MaxStackSlots, Chunks   \* Chunks: the programs run is given

ASSUME VmAssumption ==
    /\ MaxCallDepth \in Nat /\ MaxCallDepth > 0
    /\ MaxStackSlots \in Nat /\ MaxStackSlots > MaxOperand

VARIABLES chunk, stack, frames, ip, out, verdict

vars == <<chunk, stack, frames, ip, out, verdict>>

-----------------------------------------------------------------------------

Garbage(n) == [i \in 1 .. n |-> IntValue(1)]     \* mutant: slots left as they were

(* The value-initialised slots of a new frame. *)
Zeros(n) == [i \in 1 .. n |-> Zero]

Top == stack[Len(stack)]
Second == stack[Len(stack) - 1]
Popped(n) == SubSeq(stack, 1, Len(stack) - n)

Frame == frames[Len(frames)]
Frames(returnIP, slotBase) == Append(frames, [returnIP |-> returnIP, slotBase |-> slotBase])

Operand == ReadOperand(chunk, ip)

Op == Byte(chunk, ip)
Executing(op) == verdict = Running /\ Op = op

FollowingByte == ip + 1     \* mutant: an operand is taken for an instruction

Following == ip + InstructionLength(Op)

(* A fault carries the span of the instruction it happened in.  It leaves `run`,
   and what the stack still holds then - the code has popped its operands, or
   pushed some of a callee's slots - is never looked at again: it stays as it was. *)
Fault(message) ==
    /\ verdict' = RuntimeFault(SpanAt(chunk, ip).span, message)
    /\ UNCHANGED <<chunk, stack, frames, ip, out>>

OperatorText == SpanAt(chunk, ip).op

BinaryTypeFault ==
    Fault(<<"operator cannot be applied", OperatorText, Second.type, Top.type>>)
UnaryTypeFault == Fault(<<"operator cannot be applied", OperatorText, Top.type>>)
BinaryOverflowFault == Fault(<<"integer overflow", OperatorText>>)

BothIntegers == IsInt(Second) /\ IsInt(Top)

(* The instruction leaves `after` on the stack and falls through to the next. *)
Yield(after) ==
    /\ stack' = after
    /\ ip' = Following
    /\ UNCHANGED <<chunk, frames, out, verdict>>

FullLate == Len(stack) > MaxStackSlots      \* mutant: one slot too many

Full == Len(stack) >= MaxStackSlots

(* `push`, which arithmetic does not go through: it cannot grow the stack. *)
Push(value) ==
    IF Full
    THEN Fault(<<"operand stack exhausted">>)
    ELSE Yield(Append(stack, value))

Replace(n, value) == Yield(Append(Popped(n), value))

-----------------------------------------------------------------------------

Const == Executing(OpCode.CONST) /\ Push(chunk.constants[Operand + 1])

LoadLocal == Executing(OpCode.LOAD_LOCAL) /\ Push(stack[Frame.slotBase + Operand + 1])

(* mutant: the slot is not counted from the frame *)
StoreAbsolute ==
    /\ Executing(OpCode.STORE_LOCAL)
    /\ Yield([Popped(1) EXCEPT ![Operand + 1] = Top])

StoreLocal ==
    /\ Executing(OpCode.STORE_LOCAL)
    /\ Yield([Popped(1) EXCEPT ![Frame.slotBase + Operand + 1] = Top])

Pop == Executing(OpCode.POP) /\ Yield(Popped(1))

Exact(op, left, right) ==
    CASE op = OpCode.ADD -> left + right
      [] op = OpCode.SUB -> left - right
      [] op = OpCode.MUL -> left * right

Arithmetic ==
    /\ \E op \in {OpCode.ADD, OpCode.SUB, OpCode.MUL} : Executing(op)
    /\ IF ~BothIntegers THEN BinaryTypeFault
       ELSE IF ~Fits(Exact(Op, Second.v, Top.v)) THEN BinaryOverflowFault
       ELSE Replace(2, IntValue(Exact(Op, Second.v, Top.v)))

(* Zero before the one quotient that does not fit: both trap the machine. *)
Divide ==
    /\ Executing(OpCode.DIV)
    /\ IF ~BothIntegers THEN BinaryTypeFault
       ELSE IF Top.v = 0 THEN Fault(<<"division by zero">>)
       ELSE IF Second.v = MinInt /\ Top.v = -1 THEN BinaryOverflowFault
       ELSE Replace(2, IntValue(Quotient(Second.v, Top.v)))

Negate ==
    /\ Executing(OpCode.NEG)
    /\ IF ~IsInt(Top) THEN UnaryTypeFault
       ELSE IF ~Fits(0 - Top.v) THEN Fault(<<"integer overflow in unary", OperatorText>>)
       ELSE Replace(1, IntValue(0 - Top.v))

Equal ==
    /\ Executing(OpCode.EQ)
    /\ IF Second.type # Top.type THEN BinaryTypeFault
       ELSE Replace(2, BoolValue(ValuesEqual(Second, Top)))

Order ==
    /\ \E op \in {OpCode.LT, OpCode.GT} : Executing(op)
    /\ IF ~BothIntegers THEN BinaryTypeFault
       ELSE Replace(2, BoolValue(IF Op = OpCode.LT THEN Second.v < Top.v
                                                   ELSE Second.v > Top.v))

Not ==
    /\ Executing(OpCode.NOT)
    /\ IF ~IsBool(Top) THEN UnaryTypeFault ELSE Replace(1, BoolValue(~IsTrue(Top)))

Jump ==
    /\ Executing(OpCode.JUMP)
    /\ ip' = Operand
    /\ UNCHANGED <<chunk, stack, frames, out, verdict>>

JumpIfFalse ==
    /\ Executing(OpCode.JUMP_IF_FALSE)
    /\ IF ~IsBool(Top) THEN Fault(<<"a condition must be a boolean", Top.type>>)
       ELSE /\ stack' = Popped(1)
            /\ ip' = IF IsTrue(Top) THEN Following ELSE Operand
            /\ UNCHANGED <<chunk, frames, out, verdict>>

TooDeepEarly == Len(frames) >= MaxCallDepth      \* mutants: one call less, and
TooDeepLate == Len(frames) > MaxCallDepth + 1    \* one call more

(* The program's own frame is not a call. *)
TooDeep == Len(frames) > MaxCallDepth

BaseAbove(function) == Len(stack)       \* mutant: the arguments stay the caller's

CalleeBase(function) == Len(stack) - function.arity

(* The arguments are already the callee's first slots; the rest start at 0.
   The depth is checked before the first of them is pushed. *)
Call ==
    /\ Executing(OpCode.CALL)
    /\ LET function == chunk.functions[Operand + 1]
           locals == function.frameSize - function.arity
       IN  IF TooDeep THEN Fault(<<"call depth exceeded">>)
           ELSE IF locals > 0 /\ Len(stack) + locals > MaxStackSlots
           THEN Fault(<<"operand stack exhausted">>)
           ELSE /\ stack' = stack \o Zeros(locals)
                /\ frames' = Frames(Following, CalleeBase(function))
                /\ ip' = function.entry
                /\ UNCHANGED <<chunk, out, verdict>>

(* mutants: no result is pushed; the frame is left; one slot too many is cut *)
ReturnNothing ==
    /\ Executing(OpCode.RETURN)
    /\ stack' = SubSeq(stack, 1, Frame.slotBase)
    /\ frames' = SubSeq(frames, 1, Len(frames) - 1)
    /\ ip' = Frame.returnIP
    /\ UNCHANGED <<chunk, out, verdict>>

ReturnInFrame ==
    /\ Executing(OpCode.RETURN)
    /\ stack' = Append(SubSeq(stack, 1, Frame.slotBase), Top)
    /\ ip' = Frame.returnIP
    /\ UNCHANGED <<chunk, frames, out, verdict>>

ReturnOneBelow ==
    /\ Executing(OpCode.RETURN)
    /\ stack' = Append(SubSeq(stack, 1, Frame.slotBase - 1), Top)
    /\ frames' = SubSeq(frames, 1, Len(frames) - 1)
    /\ ip' = Frame.returnIP
    /\ UNCHANGED <<chunk, out, verdict>>

(* The whole frame goes, whatever it still holds, and the result replaces it. *)
Return ==
    /\ Executing(OpCode.RETURN)
    /\ stack' = Append(SubSeq(stack, 1, Frame.slotBase), Top)
    /\ frames' = SubSeq(frames, 1, Len(frames) - 1)
    /\ ip' = Frame.returnIP
    /\ UNCHANGED <<chunk, out, verdict>>

PrintTop ==
    /\ Executing(OpCode.PRINT)
    /\ out' = Append(out, Top)
    /\ stack' = Popped(1)
    /\ ip' = Following
    /\ UNCHANGED <<chunk, frames, verdict>>

Halt ==
    /\ Executing(OpCode.HALT)
    /\ verdict' = Finished
    /\ UNCHANGED <<chunk, stack, frames, ip, out>>

Unknown ==
    /\ verdict = Running
    /\ Op > OpCode.HALT
    /\ Fault(<<"unknown opcode">>)

-----------------------------------------------------------------------------

Start(program) ==
    /\ stack = Zeros(program.programFrameSize)
    /\ frames = <<[returnIP |-> 0, slotBase |-> 0]>>
    /\ ip = 0
    /\ out = <<>>
    /\ verdict = Running

Init == chunk \in Chunks /\ Start(chunk)

Next ==
    \/ Const \/ LoadLocal \/ StoreLocal \/ Pop
    \/ Arithmetic \/ Divide \/ Negate \/ Equal \/ Order \/ Not
    \/ Jump \/ JumpIfFalse \/ Call \/ Return \/ PrintTop \/ Halt \/ Unknown

Spec == Init /\ [][Next]_vars

FairSpec == Spec /\ WF_vars(Next)
=============================================================================
