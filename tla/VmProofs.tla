------------------------------ MODULE VmProofs -------------------------------
(***************************************************************************)
(* Proofs that the VM keeps, over every well-typed chunk and for every     *)
(* value of its limits, what VmSafety says of it, and that with one        *)
(* operand stack for all calls it implements Calls, in which each call     *)
(* has storage of its own.                                                 *)
(*                                                                         *)
(* The stack of one step says nothing about the frames below: what makes   *)
(* the invariant inductive is that the temporaries at an instruction are   *)
(* exactly as many as the typing gives it (FramesAreContiguous), so that   *)
(* each arm of the dispatch loop takes only what its own frame holds, and  *)
(* a RETURN finds its caller as the CALL left it.                          *)
(*                                                                         *)
(* For the refinement the invariant says how long each piece of the stack  *)
(* is.  What is added is that the pieces of the callers lie below the      *)
(* running frame, whose steps leave everything below it alone.             *)
(***************************************************************************)
EXTENDS VmSafety, SequenceTheorems, WellFoundedInduction, TLAPS

(* TypeOK, whatever set of chunks the running one was taken from. *)
StateOK ==
    /\ WellTyped(chunk, Heights(chunk), Owners(chunk))
    /\ stack \in Seq(Value)
    /\ frames \in Seq(FrameEntry)
    /\ ip \in Starts(chunk)
    /\ out \in Seq(Value)
    /\ verdict.class \in {"running", "ok", "runtime"}

Safe ==
    /\ StateOK
    /\ FramesAreContiguous
    /\ FramesRunTheirOwnCode
    /\ StackWithinCap
    /\ DepthWithinLimit

-----------------------------------------------------------------------------

(* The opcode numbers of src/src/chunk.h. *)
LEMMA OpCodeNumbers ==
    /\ OpCode.CONST = 0 /\ OpCode.LOAD_LOCAL = 1 /\ OpCode.STORE_LOCAL = 2
    /\ OpCode.POP = 3 /\ OpCode.ADD = 4 /\ OpCode.SUB = 5 /\ OpCode.MUL = 6
    /\ OpCode.DIV = 7 /\ OpCode.NEG = 8 /\ OpCode.EQ = 9 /\ OpCode.LT = 10
    /\ OpCode.GT = 11 /\ OpCode.NOT = 12 /\ OpCode.JUMP = 13
    /\ OpCode.JUMP_IF_FALSE = 14 /\ OpCode.CALL = 15 /\ OpCode.RETURN = 16
    /\ OpCode.PRINT = 17 /\ OpCode.HALT = 18
BY DEF OpCode

(* An integer result that does not overflow, and a truth value, are values. *)
LEMMA ValueFacts ==
    /\ Zero \in Value
    /\ \A n \in MinInt .. MaxInt : IntValue(n) \in Value
    /\ \A b \in BOOLEAN : BoolValue(b) \in Value
    /\ \A value \in Value : IsInt(value) => value.v \in MinInt .. MaxInt
    /\ \A n \in Int : Fits(n) => IntValue(n) \in Value
<1>1. MaxInt \in Nat /\ MinInt \in Int /\ MinInt <= 0 /\ 0 <= MaxInt
  BY MaxIntAssumption DEF MinInt
<1>2. \A n \in MinInt .. MaxInt : IntValue(n) \in Value
  BY DEF IntValue, Value
<1>3. \A b \in BOOLEAN : BoolValue(b) \in Value
  BY DEF BoolValue, Value
<1>4. \A value \in Value : IsInt(value) => value.v \in MinInt .. MaxInt
  BY DEF IsInt, Value
<1>5. Zero \in Value
  BY <1>1, <1>2 DEF Zero
<1>6. QED
  BY <1>2, <1>3, <1>4, <1>5 DEF Fits

(* The quotient of C++ stays in the range except for the one pair of operands
   that Divide singles out. *)
LEMMA QuotientFits ==
    ASSUME NEW n \in MinInt .. MaxInt, NEW d \in MinInt .. MaxInt,
           d # 0, ~(n = MinInt /\ d = -1)
    PROVE  Quotient(n, d) \in MinInt .. MaxInt
<1>1. MaxInt \in Nat /\ MinInt = -MaxInt - 1
  BY MaxIntAssumption DEF MinInt
<1>2. /\ Magnitude(n) \in Nat /\ Magnitude(n) <= MaxInt + 1
      /\ Magnitude(d) \in Nat \ {0}
  BY <1>1 DEF Magnitude
<1>3. \A a \in Nat, b \in Nat \ {0} :
          /\ a \div b \in Nat
          /\ a \div b <= a
          /\ b > 1 /\ a > 0 => a \div b < a
  <2>1. SUFFICES ASSUME NEW a \in Nat, NEW b \in Nat \ {0}
                 PROVE  /\ a \div b \in Nat
                        /\ a \div b <= a
                        /\ b > 1 /\ a > 0 => a \div b < a
    OBVIOUS
  <2>2. QED
    BY SMT
<1>4. QED
  BY <1>1, <1>2, <1>3 DEF Quotient, Magnitude

(* The slots of a new frame. *)
LEMMA ZerosFacts ==
    ASSUME NEW n \in Nat
    PROVE  Zeros(n) \in Seq(Value) /\ Len(Zeros(n)) = n
<1>1. Zeros(n) \in [1 .. n -> Value]
  BY ValueFacts DEF Zeros
<1>2. QED
  BY <1>1 DEF Zeros

-----------------------------------------------------------------------------

LEMMA ChunkIsWellTyped ==
    ASSUME StateOK
    PROVE  /\ WellTyped(chunk, height, owner)
           /\ chunk.constants \in Seq(Value)
           /\ chunk.functions \in Seq(FunctionEntry)
           /\ chunk.programFrameSize \in 0 .. MaxOperand
           /\ Starts(chunk) \subseteq Nat
           /\ height \in [Starts(chunk) -> Nat]
           /\ owner \in [Starts(chunk) -> 0 .. Len(chunk.functions)]
<1>1. WellTyped(chunk, height, owner)
  BY DEF StateOK, height, owner
<1>2. QED
  BY <1>1 DEF WellTyped

LEMMA WidthIsNat ==
    ASSUME StateOK, NEW f \in 0 .. Len(chunk.functions)
    PROVE  Width(chunk, f) \in Nat
<1>1. chunk.functions \in Seq(FunctionEntry) /\ chunk.programFrameSize \in Nat
  BY ChunkIsWellTyped, ChunkAssumption
<1>2. CASE f = 0
  BY <1>1, <1>2 DEF Width
<1>3. CASE f # 0
  <2>1. f \in 1 .. Len(chunk.functions)
    BY <1>1, <1>3
  <2>2. chunk.functions[f] \in FunctionEntry
    BY <1>1, <2>1
  <2>3. QED
    BY <1>3, <2>2 DEF Width, FunctionEntry
<1>4. QED
  BY <1>2, <1>3

(* Every live frame goes on at an instruction of its own. *)
LEMMA ResumesTyped ==
    ASSUME StateOK, NEW d \in 1 .. Len(frames)
    PROVE  /\ Resumes(d) \in Starts(chunk)
           /\ height[Resumes(d)] \in Nat
           /\ owner[Resumes(d)] \in 0 .. Len(chunk.functions)
           /\ Width(chunk, owner[Resumes(d)]) \in Nat
           /\ frames[d].slotBase \in Nat
<1>0. frames \in Seq(FrameEntry)
  BY DEF StateOK
<1>1. frames[d] \in FrameEntry
  BY <1>0
<1>2. Resumes(d) \in Starts(chunk)
  <2>1. CASE d = Len(frames)
    BY <2>1 DEF Resumes, StateOK
  <2>2. CASE d # Len(frames)
    <3>1. d + 1 \in 1 .. Len(frames)
      BY <1>0, <2>2
    <3>2. frames[d + 1] \in FrameEntry
      BY <1>0, <3>1
    <3>3. QED
      BY <2>2, <3>2 DEF Resumes, FrameEntry
  <2>3. QED
    BY <2>1, <2>2
<1>3. height[Resumes(d)] \in Nat /\ owner[Resumes(d)] \in 0 .. Len(chunk.functions)
  BY <1>2, ChunkIsWellTyped
<1>4. QED
  BY <1>1, <1>2, <1>3, WidthIsNat DEF FrameEntry

(* The stack at an instruction: the running frame's slots, then as many
   temporaries as the typing says. *)
LEMMA StackHere ==
    ASSUME Safe
    PROVE  /\ ip \in Starts(chunk) /\ ip \in Nat
           /\ Len(frames) \in Nat /\ Len(frames) > 0
           /\ Len(stack) \in Nat
           /\ height[ip] \in Nat
           /\ owner[ip] \in 0 .. Len(chunk.functions)
           /\ Width(chunk, owner[ip]) \in Nat
           /\ Frame.slotBase \in Nat
           /\ Len(stack) = Frame.slotBase + Width(chunk, owner[ip]) + height[ip]
<1>1. StateOK /\ FramesAreContiguous
  BY DEF Safe
<1>2. Len(frames) \in Nat /\ Len(frames) > 0 /\ Len(stack) \in Nat
  BY <1>1 DEF StateOK, FramesAreContiguous
<1>3. Len(frames) \in 1 .. Len(frames) /\ Resumes(Len(frames)) = ip
  BY <1>2 DEF Resumes
<1>4. /\ ip \in Starts(chunk) /\ height[ip] \in Nat
      /\ owner[ip] \in 0 .. Len(chunk.functions)
      /\ Width(chunk, owner[ip]) \in Nat /\ Frame.slotBase \in Nat
  BY <1>1, <1>3, ResumesTyped DEF Frame
<1>5. Len(stack) = Frame.slotBase + Width(chunk, owner[ip]) + height[ip]
  BY <1>1, <1>3 DEF FramesAreContiguous, FrameEnd, TempsFrom, Pending, Frame
<1>6. QED
  BY <1>1, <1>2, <1>4, <1>5, ChunkIsWellTyped

(* The typing rule of the instruction at ip, in one place. *)
LEMMA RuleHere ==
    ASSUME Safe
    PROVE  /\ Op \in Nat
           /\ HasOperand(Op) => Operand \in Nat
           /\ Op = OpCode.CONST => Operand < Len(chunk.constants)
           /\ Op \in {OpCode.LOAD_LOCAL, OpCode.STORE_LOCAL} =>
                  Operand < Width(chunk, owner[ip])
           /\ Op = OpCode.CALL => Operand < Len(chunk.functions)
           /\ Takes(chunk, ip) <= height[ip]
           /\ Op \notin Ends => Flows(chunk, height, owner, owner[ip],
                  height[ip] - Takes(chunk, ip) + Puts(chunk, ip), Following)
           /\ Op \in {OpCode.JUMP, OpCode.JUMP_IF_FALSE} =>
                  Flows(chunk, height, owner, owner[ip],
                        height[ip] - Takes(chunk, ip) + Puts(chunk, ip), Operand)
           /\ Op = OpCode.RETURN => owner[ip] # 0
<1>1. ip \in Starts(chunk)
  BY StackHere
<1>2. WellTypedAt(chunk, height, owner, ip)
  BY <1>1, ChunkIsWellTyped DEF Safe, WellTyped
<1>3. QED
  BY <1>2 DEF WellTypedAt, OperandInRange, Op, Operand, Following, Fallthrough

(* How many temporaries each instruction takes and leaves. *)
LEMMA Effects ==
    ASSUME Safe
    PROVE  /\ Op \in {OpCode.CONST, OpCode.LOAD_LOCAL} =>
                  Takes(chunk, ip) = 0 /\ Puts(chunk, ip) = 1 /\ Op \notin Ends
           /\ Op \in {OpCode.STORE_LOCAL, OpCode.POP, OpCode.PRINT, OpCode.JUMP_IF_FALSE} =>
                  Takes(chunk, ip) = 1 /\ Puts(chunk, ip) = 0 /\ Op \notin Ends
           /\ Op \in Unary =>
                  Takes(chunk, ip) = 1 /\ Puts(chunk, ip) = 1 /\ Op \notin Ends
           /\ Op \in Binary =>
                  Takes(chunk, ip) = 2 /\ Puts(chunk, ip) = 1 /\ Op \notin Ends
           /\ Op = OpCode.JUMP =>
                  Takes(chunk, ip) = 0 /\ Puts(chunk, ip) = 0
           /\ Op = OpCode.CALL =>
                  /\ Takes(chunk, ip) = chunk.functions[Operand + 1].arity
                  /\ Puts(chunk, ip) = 1 /\ Op \notin Ends
           /\ Op = OpCode.RETURN => Takes(chunk, ip) = 1
BY OpCodeNumbers DEF Takes, Puts, Unary, Binary, Ends, Op, Callee, Operand

-----------------------------------------------------------------------------

LEMMA TakesAndPuts ==
    ASSUME Safe
    PROVE  Takes(chunk, ip) \in Nat /\ Puts(chunk, ip) \in Nat
<1>1. Op = OpCode.CALL => chunk.functions[Operand + 1].arity \in Nat
  <2>1. chunk.functions \in Seq(FunctionEntry)
    BY ChunkIsWellTyped DEF Safe
  <2>2. SUFFICES ASSUME Op = OpCode.CALL
                 PROVE  chunk.functions[Operand + 1].arity \in Nat
    OBVIOUS
  <2>3. Operand \in Nat /\ Operand < Len(chunk.functions)
    BY <2>2, RuleHere DEF HasOperand
  <2>4. chunk.functions[Operand + 1] \in FunctionEntry
    BY <2>1, <2>3, ElementOfSeq
  <2>5. QED
    BY <2>4 DEF FunctionEntry
<1>2. QED
  BY <1>1, OpCodeNumbers DEF Takes, Puts, Callee, Op, Operand

-----------------------------------------------------------------------------

(* What CallersAreUntouched says of one step. *)
Untouched ==
    /\ Frame.slotBase <= Len(stack')
    /\ \A i \in 1 .. Frame.slotBase : stack'[i] = stack[i]

(* The temporaries of the running frame come off without reaching its slots. *)
LEMMA PoppedFacts ==
    ASSUME Safe, NEW n \in Nat, n <= height[ip]
    PROVE  /\ Popped(n) \in Seq(Value)
           /\ Len(Popped(n)) = Len(stack) - n
           /\ \A i \in 1 .. Len(stack) - n : Popped(n)[i] = stack[i]
           /\ Frame.slotBase + Width(chunk, owner[ip]) <= Len(stack) - n
<1>1. stack \in Seq(Value)
  BY DEF Safe, StateOK
<1>2. /\ Len(stack) \in Nat /\ Len(stack) - n \in Nat /\ Len(stack) - n <= Len(stack)
      /\ Frame.slotBase + Width(chunk, owner[ip]) <= Len(stack) - n
  <2>1. /\ Len(stack) \in Nat /\ height[ip] \in Nat
        /\ Width(chunk, owner[ip]) \in Nat /\ Frame.slotBase \in Nat
        /\ Len(stack) = Frame.slotBase + Width(chunk, owner[ip]) + height[ip]
    BY StackHere
  <2>2. QED
    BY <2>1
<1>3. \A i \in 1 .. Len(stack) - n : stack[i] \in Value
  BY <1>1, <1>2, ElementOfSeq
<1>4. /\ SubSeq(stack, 1, Len(stack) - n) \in Seq(Value)
      /\ Len(SubSeq(stack, 1, Len(stack) - n)) = Len(stack) - n
      /\ \A i \in 1 .. Len(stack) - n : SubSeq(stack, 1, Len(stack) - n)[i] = stack[i]
  BY <1>2, <1>3, SubSeqProperties
<1>5. QED
  BY <1>2, <1>4 DEF Popped

LEMMA PoppedThenPushed ==
    ASSUME Safe, NEW n \in Nat, n <= height[ip], NEW value \in Value
    PROVE  /\ Append(Popped(n), value) \in Seq(Value)
           /\ Len(Append(Popped(n), value)) = Len(stack) - n + 1
           /\ \A i \in 1 .. Frame.slotBase : Append(Popped(n), value)[i] = stack[i]
<1>1. /\ Popped(n) \in Seq(Value)
      /\ Len(Popped(n)) = Len(stack) - n
      /\ \A i \in 1 .. Len(stack) - n : Popped(n)[i] = stack[i]
      /\ Frame.slotBase + Width(chunk, owner[ip]) <= Len(stack) - n
  BY PoppedFacts
<1>2. Frame.slotBase \in Nat /\ Width(chunk, owner[ip]) \in Nat /\ Len(stack) \in Nat
  BY StackHere
<1>3. \A i \in 1 .. Frame.slotBase : i \in 1 .. Len(stack) - n
  BY <1>1, <1>2
<1>4. /\ Append(Popped(n), value) \in Seq(Value)
      /\ Len(Append(Popped(n), value)) = Len(Popped(n)) + 1
      /\ \A i \in 1 .. Len(Popped(n)) : Append(Popped(n), value)[i] = Popped(n)[i]
  <2>1. Popped(n) \in Seq(Value)
    BY <1>1
  <2>2. QED
    BY <2>1, AppendProperties
<1>5. \A i \in 1 .. Frame.slotBase : Append(Popped(n), value)[i] = stack[i]
  BY <1>1, <1>3, <1>4
<1>6. QED
  BY <1>1, <1>4, <1>5

LEMMA TemporariesAreValues ==
    ASSUME Safe
    PROVE  /\ height[ip] >= 1 => Top \in Value
           /\ height[ip] >= 2 => Second \in Value
<1>1. stack \in Seq(Value)
  BY DEF Safe, StateOK
<1>2. /\ height[ip] >= 1 => Len(stack) \in 1 .. Len(stack)
      /\ height[ip] >= 2 => Len(stack) - 1 \in 1 .. Len(stack)
  BY StackHere
<1>3. QED
  BY <1>1, <1>2, ElementOfSeq DEF Top, Second

(* A step that stays in its frame keeps the invariant if it leaves as many
   temporaries as the next instruction of the same function expects. *)
LEMMA WithinFrame ==
    ASSUME Safe,
           chunk' = chunk, frames' = frames,
           stack' \in Seq(Value), out' \in Seq(Value),
           verdict'.class \in {"running", "ok", "runtime"},
           ip' \in Starts(chunk), owner[ip'] = owner[ip],
           Len(stack') = Len(stack) - height[ip] + height[ip'],
           Len(stack') <= MaxStackSlots
    PROVE  Safe'
<1>1. height' = height /\ owner' = owner
  BY DEF height, owner
<1>2. StateOK'
  BY DEF Safe, StateOK, FrameEntry
<1>3. \A d \in 1 .. Len(frames) : d # Len(frames) => Resumes(d)' = Resumes(d)
  BY DEF Resumes
<1>4. Resumes(Len(frames))' = ip' /\ Resumes(Len(frames)) = ip
  BY DEF Resumes
<1>5. \A d \in 1 .. Len(frames) : owner[Resumes(d)'] = owner[Resumes(d)]
  BY <1>3, <1>4
<1>6. FramesRunTheirOwnCode'
  BY <1>1, <1>5 DEF Safe, FramesRunTheirOwnCode
<1>7. FramesAreContiguous'
  <2>1. Len(frames) \in Nat /\ Len(frames) > 0 /\ frames[1].slotBase = 0
    BY StackHere DEF Safe, FramesAreContiguous
  <2>2. ASSUME NEW d \in 1 .. Len(frames) - 1
        PROVE  /\ height[Resumes(d)'] > 0
               /\ frames[d + 1].slotBase = FrameEnd(d)'
    <3>1. d \in 1 .. Len(frames) /\ d # Len(frames)
      BY <2>1
    <3>2. FrameEnd(d)' = FrameEnd(d)
      BY <1>1, <1>3, <3>1 DEF FrameEnd, TempsFrom, Pending, Width
    <3>3. QED
      BY <1>3, <3>1, <3>2 DEF Safe, FramesAreContiguous
  <2>3. Len(stack') = FrameEnd(Len(frames))'
    <3>1. FrameEnd(Len(frames))' = Frame.slotBase + Width(chunk, owner[ip]) + height[ip']
      BY <1>1, <1>4 DEF FrameEnd, TempsFrom, Pending, Frame, Width
    <3>2. height[ip'] \in Nat
      BY ChunkIsWellTyped DEF Safe
    <3>3. QED
      BY <3>1, <3>2, StackHere
  <2>4. QED
    BY <1>1, <2>1, <2>2, <2>3 DEF FramesAreContiguous
<1>8. StackWithinCap' /\ DepthWithinLimit'
  BY DEF Safe, StackWithinCap, DepthWithinLimit
<1>9. QED
  BY <1>2, <1>6, <1>7, <1>8 DEF Safe

LEMMA FallsThrough ==
    ASSUME Safe, Op \notin Ends,
           chunk' = chunk, frames' = frames, ip' = Following,
           stack' \in Seq(Value), out' \in Seq(Value),
           verdict'.class \in {"running", "ok", "runtime"},
           Len(stack') = Len(stack) - Takes(chunk, ip) + Puts(chunk, ip),
           Len(stack') <= MaxStackSlots
    PROVE  Safe'
<1>1. Flows(chunk, height, owner, owner[ip],
            height[ip] - Takes(chunk, ip) + Puts(chunk, ip), Following)
  BY RuleHere
<1>2. /\ ip' \in Starts(chunk) /\ owner[ip'] = owner[ip]
      /\ height[ip'] = height[ip] - Takes(chunk, ip) + Puts(chunk, ip)
  BY <1>1 DEF Flows
<1>3. Takes(chunk, ip) \in Nat /\ Puts(chunk, ip) \in Nat
  BY TakesAndPuts
<1>4. Len(stack') = Len(stack) - height[ip] + height[ip']
  <2>1. Len(stack) \in Nat /\ height[ip] \in Nat
    BY StackHere
  <2>2. QED
    BY <1>2, <1>3, <2>1
<1>5. QED
  BY <1>2, <1>4, WithinFrame

(* Yield keeps the invariant if what it leaves has the length of the typing and
   agrees with the stack below the frame. *)
LEMMA YieldIsSafe ==
    ASSUME Safe, Op \notin Ends, NEW after \in Seq(Value), Yield(after),
           verdict = Running,
           Len(after) = Len(stack) - Takes(chunk, ip) + Puts(chunk, ip),
           Len(after) <= MaxStackSlots,
           Frame.slotBase <= Len(after),
           \A i \in 1 .. Frame.slotBase : after[i] = stack[i]
    PROVE  Safe' /\ Untouched
<1>1. /\ chunk' = chunk /\ frames' = frames /\ out' = out /\ verdict' = verdict
      /\ stack' = after /\ ip' = Following
  BY DEF Yield
<1>2. out' \in Seq(Value) /\ verdict'.class \in {"running", "ok", "runtime"}
  BY <1>1 DEF Safe, StateOK
<1>3. Safe'
  BY <1>1, <1>2, FallsThrough
<1>4. Untouched
  BY <1>1 DEF Untouched
<1>5. QED
  BY <1>3, <1>4

(* A fault changes the verdict alone. *)
LEMMA SameStackIsSafe ==
    ASSUME Safe, UNCHANGED <<chunk, stack, frames, ip, out>>,
           verdict'.class \in {"running", "ok", "runtime"}
    PROVE  Safe' /\ Untouched
<1>1. Safe'
  <2>1. Len(stack') = Len(stack) - height[ip] + height[ip']
    BY StackHere
  <2>2. out' \in Seq(Value) /\ stack' \in Seq(Value) /\ Len(stack') <= MaxStackSlots
    BY DEF Safe, StateOK, StackWithinCap
  <2>3. ip' \in Starts(chunk) /\ owner[ip'] = owner[ip]
    BY StackHere
  <2>4. QED
    BY <2>1, <2>2, <2>3, WithinFrame
<1>2. Untouched
  BY StackHere DEF Untouched
<1>3. QED
  BY <1>1, <1>2

LEMMA FaultIsSafe ==
    ASSUME Safe, NEW message, Fault(message)
    PROVE  Safe' /\ Untouched
<1>1. verdict'.class = "runtime"
  BY DEF Fault, RuntimeFault, Verdict
<1>2. QED
  BY <1>1, SameStackIsSafe DEF Fault

LEMMA PushIsSafe ==
    ASSUME Safe, verdict = Running, Op \notin Ends, NEW value \in Value, Push(value),
           Takes(chunk, ip) = 0, Puts(chunk, ip) = 1
    PROVE  Safe' /\ Untouched
<1>1. CASE Full
  BY <1>1, FaultIsSafe DEF Push
<1>2. CASE ~Full
  <2>1. Yield(Append(stack, value))
    BY <1>2 DEF Push
  <2>2. stack \in Seq(Value)
    BY DEF Safe, StateOK
  <2>3. /\ Append(stack, value) \in Seq(Value)
        /\ Len(Append(stack, value)) = Len(stack) + 1
        /\ \A i \in 1 .. Len(stack) : Append(stack, value)[i] = stack[i]
    BY <2>2, AppendProperties
  <2>4. Len(stack) + 1 <= MaxStackSlots /\ Frame.slotBase <= Len(stack)
    BY <1>2, StackHere, VmAssumption DEF Full
  <2>5. \A i \in 1 .. Frame.slotBase : Append(stack, value)[i] = stack[i]
    BY <2>3, <2>4, StackHere
  <2>6. /\ Len(Append(stack, value)) = Len(stack) - Takes(chunk, ip) + Puts(chunk, ip)
        /\ Len(Append(stack, value)) <= MaxStackSlots
        /\ Frame.slotBase <= Len(Append(stack, value))
    BY <2>3, <2>4, StackHere
  <2>7. QED
    BY <2>1, <2>3, <2>5, <2>6, YieldIsSafe
<1>3. QED
  BY <1>1, <1>2

LEMMA ReplaceIsSafe ==
    ASSUME Safe, verdict = Running, Op \notin Ends,
           NEW n \in Nat, NEW value \in Value, Replace(n, value),
           n > 0, Takes(chunk, ip) = n, Puts(chunk, ip) = 1
    PROVE  Safe' /\ Untouched
<1>1. n <= height[ip]
  BY RuleHere
<1>2. /\ Append(Popped(n), value) \in Seq(Value)
      /\ Len(Append(Popped(n), value)) = Len(stack) - n + 1
      /\ \A i \in 1 .. Frame.slotBase : Append(Popped(n), value)[i] = stack[i]
  BY <1>1, PoppedThenPushed
<1>3. /\ Len(stack) - n + 1 <= MaxStackSlots
      /\ Frame.slotBase <= Len(stack) - n + 1
  <2>1. Len(stack) <= MaxStackSlots
    BY DEF Safe, StackWithinCap
  <2>2. /\ Len(stack) \in Nat /\ Frame.slotBase \in Nat
        /\ Width(chunk, owner[ip]) \in Nat /\ height[ip] \in Nat
        /\ Len(stack) = Frame.slotBase + Width(chunk, owner[ip]) + height[ip]
    BY StackHere
  <2>3. MaxStackSlots \in Nat
    BY VmAssumption
  <2>4. QED
    BY <1>1, <2>1, <2>2, <2>3
<1>4. Yield(Append(Popped(n), value))
  BY DEF Replace
<1>5. QED
  BY <1>2, <1>3, <1>4, YieldIsSafe

-----------------------------------------------------------------------------

(* One lemma for each arm of the dispatch loop. *)

LEMMA ConstIsSafe ==
    ASSUME Safe, Const
    PROVE  Safe' /\ Untouched
<1>1. Op = OpCode.CONST /\ verdict = Running /\ Push(chunk.constants[Operand + 1])
  BY DEF Const, Executing
<1>2. Operand \in Nat /\ Operand < Len(chunk.constants)
  BY <1>1, RuleHere DEF HasOperand
<1>3. chunk.constants \in Seq(Value)
  BY ChunkIsWellTyped DEF Safe
<1>4. chunk.constants[Operand + 1] \in Value
  BY <1>2, <1>3, ElementOfSeq
<1>5. QED
  BY <1>1, <1>4, Effects, PushIsSafe

LEMMA SlotOfFrame ==
    ASSUME Safe, Op \in {OpCode.LOAD_LOCAL, OpCode.STORE_LOCAL}
    PROVE  /\ Operand \in Nat
           /\ Frame.slotBase + Operand + 1 \in 1 .. Len(stack)
           /\ Frame.slotBase + Operand + 1 <= Len(stack) - height[ip]
           /\ Frame.slotBase + Operand + 1 > Frame.slotBase
<1>1. Operand \in Nat /\ Operand < Width(chunk, owner[ip])
  BY RuleHere DEF HasOperand
<1>2. Frame.slotBase \in Nat /\ Width(chunk, owner[ip]) \in Nat /\ height[ip] \in Nat
  BY StackHere
<1>3. Len(stack) = Frame.slotBase + Width(chunk, owner[ip]) + height[ip]
  BY StackHere
<1>4. \A base, width, temps, slot \in Nat :
          slot < width => /\ base + slot + 1 \in 1 .. base + width + temps
                          /\ base + slot + 1 <= (base + width + temps) - temps
                          /\ base + slot + 1 > base
  OBVIOUS
<1>5. QED
  BY <1>1, <1>2, <1>3, <1>4

LEMMA LoadLocalIsSafe ==
    ASSUME Safe, LoadLocal
    PROVE  Safe' /\ Untouched
<1>1. /\ Op = OpCode.LOAD_LOCAL /\ verdict = Running
      /\ Push(stack[Frame.slotBase + Operand + 1])
  BY DEF LoadLocal, Executing
<1>2. stack \in Seq(Value)
  BY DEF Safe, StateOK
<1>3. stack[Frame.slotBase + Operand + 1] \in Value
  BY <1>1, <1>2, SlotOfFrame, ElementOfSeq
<1>4. QED
  BY <1>1, <1>3, Effects, PushIsSafe

LEMMA PoppedIsSafe ==
    ASSUME Safe, verdict = Running, Op \notin Ends,
           Takes(chunk, ip) = 1, Puts(chunk, ip) = 0
    PROVE  /\ Popped(1) \in Seq(Value)
           /\ Len(Popped(1)) = Len(stack) - 1
           /\ Len(Popped(1)) <= MaxStackSlots
           /\ Frame.slotBase <= Len(Popped(1))
           /\ \A i \in 1 .. Frame.slotBase : Popped(1)[i] = stack[i]
           /\ Top \in Value
           /\ Frame.slotBase + Width(chunk, owner[ip]) <= Len(stack) - 1
<1>1. 1 <= height[ip]
  BY RuleHere
<1>2. /\ Popped(1) \in Seq(Value)
      /\ Len(Popped(1)) = Len(stack) - 1
      /\ \A i \in 1 .. Len(stack) - 1 : Popped(1)[i] = stack[i]
      /\ Frame.slotBase + Width(chunk, owner[ip]) <= Len(stack) - 1
  BY <1>1, PoppedFacts
<1>3. Len(stack) <= MaxStackSlots /\ MaxStackSlots \in Nat
  BY VmAssumption DEF Safe, StackWithinCap
<1>4. Top \in Value
  BY <1>1, StackHere, TemporariesAreValues
<1>5. Len(Popped(1)) <= MaxStackSlots /\ Frame.slotBase <= Len(Popped(1))
  BY <1>2, <1>3, StackHere
<1>6. \A i \in 1 .. Frame.slotBase : Popped(1)[i] = stack[i]
  BY <1>2, StackHere
<1>7. QED
  BY <1>2, <1>4, <1>5, <1>6

LEMMA StoreLocalIsSafe ==
    ASSUME Safe, StoreLocal
    PROVE  Safe' /\ Untouched
<1> DEFINE slot == Frame.slotBase + Operand + 1
           after == [Popped(1) EXCEPT ![slot] = Top]
<1>1. Op = OpCode.STORE_LOCAL /\ verdict = Running /\ Yield(after)
  BY DEF StoreLocal, Executing
<1>2. Takes(chunk, ip) = 1 /\ Puts(chunk, ip) = 0 /\ Op \notin Ends
  BY <1>1, Effects
<1>3. /\ Popped(1) \in Seq(Value)
      /\ Len(Popped(1)) = Len(stack) - 1
      /\ Len(Popped(1)) <= MaxStackSlots
      /\ Frame.slotBase <= Len(Popped(1))
      /\ \A i \in 1 .. Frame.slotBase : Popped(1)[i] = stack[i]
      /\ Top \in Value
  BY <1>1, <1>2, PoppedIsSafe
<1>4. slot \in 1 .. Len(Popped(1)) /\ slot > Frame.slotBase
  BY <1>1, <1>2, <1>3, SlotOfFrame, RuleHere, StackHere
<1>5. after \in Seq(Value) /\ Len(after) = Len(Popped(1))
  BY <1>3, <1>4, ExceptSeq
<1>6. \A i \in 1 .. Frame.slotBase : after[i] = stack[i]
  <2>1. ASSUME NEW i \in 1 .. Frame.slotBase
        PROVE  after[i] = stack[i]
    <3>1. i \in 1 .. Len(Popped(1)) /\ i # slot
      BY <1>3, <1>4, StackHere
    <3>2. after[i] = Popped(1)[i]
      BY <1>3, <1>4, <3>1, ExceptSeq
    <3>3. QED
      BY <1>3, <3>2
  <2>2. QED
    BY <2>1
<1>7. /\ Len(after) = Len(stack) - Takes(chunk, ip) + Puts(chunk, ip)
      /\ Len(after) <= MaxStackSlots /\ Frame.slotBase <= Len(after)
  BY <1>2, <1>3, <1>5, StackHere
<1>8. QED
  BY <1>1, <1>2, <1>5, <1>6, <1>7, YieldIsSafe

LEMMA PopIsSafe ==
    ASSUME Safe, Pop
    PROVE  Safe' /\ Untouched
<1>1. Op = OpCode.POP /\ verdict = Running /\ Yield(Popped(1))
  BY DEF Pop, Executing
<1>2. Takes(chunk, ip) = 1 /\ Puts(chunk, ip) = 0 /\ Op \notin Ends
  BY <1>1, Effects
<1>3. Len(Popped(1)) = Len(stack) - Takes(chunk, ip) + Puts(chunk, ip)
  BY <1>1, <1>2, PoppedIsSafe, StackHere
<1>4. QED
  BY <1>1, <1>2, <1>3, PoppedIsSafe, YieldIsSafe

(* What the operator arms leave: the result of the operands' values. *)
LEMMA BinaryIsSafe ==
    ASSUME Safe, verdict = Running, Op \in Binary, NEW value \in Value, Replace(2, value)
    PROVE  Safe' /\ Untouched
BY Effects, ReplaceIsSafe

LEMMA UnaryIsSafe ==
    ASSUME Safe, verdict = Running, Op \in Unary, NEW value \in Value, Replace(1, value)
    PROVE  Safe' /\ Untouched
BY Effects, ReplaceIsSafe

(* The operands of an operator are values of the language. *)
LEMMA OperandsAreValues ==
    ASSUME Safe
    PROVE  /\ Op \in Binary => Second \in Value /\ Top \in Value
           /\ Op \in Unary => Top \in Value
<1>1. /\ Op \in Binary => 2 <= height[ip]
      /\ Op \in Unary => 1 <= height[ip]
  BY RuleHere, Effects
<1>2. QED
  BY <1>1, StackHere, TemporariesAreValues

LEMMA ArithmeticIsSafe ==
    ASSUME Safe, Arithmetic
    PROVE  Safe' /\ Untouched
<1>1. /\ verdict = Running
      /\ Op \in {OpCode.ADD, OpCode.SUB, OpCode.MUL} /\ Op \in Binary
  BY DEF Arithmetic, Executing, Binary
<1>2. Second \in Value /\ Top \in Value
  BY <1>1, OperandsAreValues
<1>3. CASE ~BothIntegers
  BY <1>3, FaultIsSafe DEF Arithmetic, BinaryTypeFault
<1>4. CASE BothIntegers /\ ~Fits(Exact(Op, Second.v, Top.v))
  BY <1>4, FaultIsSafe DEF Arithmetic, BinaryOverflowFault
<1>5. CASE BothIntegers /\ Fits(Exact(Op, Second.v, Top.v))
  <2>1. IntValue(Exact(Op, Second.v, Top.v)) \in Value
    BY <1>5, ValueFacts DEF Fits
  <2>2. Replace(2, IntValue(Exact(Op, Second.v, Top.v)))
    BY <1>5 DEF Arithmetic
  <2>3. QED
    BY <1>1, <2>1, <2>2, BinaryIsSafe
<1>6. QED
  BY <1>3, <1>4, <1>5

LEMMA DivideIsSafe ==
    ASSUME Safe, Divide
    PROVE  Safe' /\ Untouched
<1>1. verdict = Running /\ Op = OpCode.DIV /\ Op \in Binary
  BY DEF Divide, Executing, Binary
<1>2. Second \in Value /\ Top \in Value
  BY <1>1, OperandsAreValues
<1>3. CASE ~BothIntegers
  BY <1>3, FaultIsSafe DEF Divide, BinaryTypeFault
<1>4. CASE BothIntegers /\ Top.v = 0
  BY <1>4, FaultIsSafe DEF Divide
<1>5. CASE BothIntegers /\ Top.v # 0 /\ Second.v = MinInt /\ Top.v = -1
  BY <1>5, FaultIsSafe DEF Divide, BinaryOverflowFault
<1>6. CASE BothIntegers /\ Top.v # 0 /\ ~(Second.v = MinInt /\ Top.v = -1)
  <2>1. Second.v \in MinInt .. MaxInt /\ Top.v \in MinInt .. MaxInt
    BY <1>2, <1>6, ValueFacts DEF BothIntegers
  <2>2. Quotient(Second.v, Top.v) \in MinInt .. MaxInt
    BY <1>6, <2>1, QuotientFits
  <2>3. IntValue(Quotient(Second.v, Top.v)) \in Value
    BY <2>2, ValueFacts
  <2>4. Replace(2, IntValue(Quotient(Second.v, Top.v)))
    BY <1>6 DEF Divide
  <2>5. QED
    BY <1>1, <2>3, <2>4, BinaryIsSafe
<1>7. QED
  BY <1>3, <1>4, <1>5, <1>6

LEMMA NegateIsSafe ==
    ASSUME Safe, Negate
    PROVE  Safe' /\ Untouched
<1>1. verdict = Running /\ Op \in Unary
  BY DEF Negate, Executing, Unary
<1>2. CASE ~IsInt(Top)
  BY <1>2, FaultIsSafe DEF Negate, UnaryTypeFault
<1>3. CASE IsInt(Top) /\ ~Fits(0 - Top.v)
  BY <1>3, FaultIsSafe DEF Negate
<1>4. CASE IsInt(Top) /\ Fits(0 - Top.v)
  <2>1. IntValue(0 - Top.v) \in Value
    BY <1>4, ValueFacts DEF Fits
  <2>2. Replace(1, IntValue(0 - Top.v))
    BY <1>4 DEF Negate
  <2>3. QED
    BY <1>1, <2>1, <2>2, UnaryIsSafe
<1>5. QED
  BY <1>2, <1>3, <1>4

LEMMA EqualIsSafe ==
    ASSUME Safe, Equal
    PROVE  Safe' /\ Untouched
<1>1. verdict = Running /\ Op \in Binary
  BY DEF Equal, Executing, Binary
<1>2. CASE Second.type # Top.type
  BY <1>2, FaultIsSafe DEF Equal, BinaryTypeFault
<1>3. CASE Second.type = Top.type
  <2>1. Replace(2, BoolValue(ValuesEqual(Second, Top)))
    BY <1>3 DEF Equal
  <2>2. BoolValue(ValuesEqual(Second, Top)) \in Value
    BY ValueFacts DEF ValuesEqual
  <2>3. QED
    BY <1>1, <2>1, <2>2, BinaryIsSafe
<1>4. QED
  BY <1>2, <1>3

LEMMA OrderIsSafe ==
    ASSUME Safe, Order
    PROVE  Safe' /\ Untouched
<1> DEFINE holds == IF Op = OpCode.LT THEN Second.v < Top.v ELSE Second.v > Top.v
<1>1. verdict = Running /\ Op \in Binary
  BY DEF Order, Executing, Binary
<1>2. CASE ~BothIntegers
  BY <1>2, FaultIsSafe DEF Order, BinaryTypeFault
<1>3. CASE BothIntegers
  <2>1. Replace(2, BoolValue(holds))
    BY <1>3 DEF Order
  <2>2. BoolValue(holds) \in Value
    BY DEF BoolValue, Value
  <2>3. QED
    BY <1>1, <2>1, <2>2, BinaryIsSafe
<1>4. QED
  BY <1>2, <1>3

LEMMA NotIsSafe ==
    ASSUME Safe, Not
    PROVE  Safe' /\ Untouched
<1>1. verdict = Running /\ Op \in Unary
  BY DEF Not, Executing, Unary
<1>2. CASE ~IsBool(Top)
  BY <1>2, FaultIsSafe DEF Not, UnaryTypeFault
<1>3. CASE IsBool(Top)
  <2>1. Replace(1, BoolValue(~IsTrue(Top)))
    BY <1>3 DEF Not
  <2>2. BoolValue(~IsTrue(Top)) \in Value
    BY ValueFacts
  <2>3. QED
    BY <1>1, <2>1, <2>2, UnaryIsSafe
<1>4. QED
  BY <1>2, <1>3

LEMMA JumpIsSafe ==
    ASSUME Safe, Jump
    PROVE  Safe' /\ Untouched
<1>1. Op = OpCode.JUMP /\ ip' = Operand /\ UNCHANGED <<chunk, stack, frames, out, verdict>>
  BY DEF Jump, Executing
<1>2. Flows(chunk, height, owner, owner[ip], height[ip] - 0 + 0, Operand)
  BY <1>1, RuleHere, Effects
<1>3. ip' \in Starts(chunk) /\ owner[ip'] = owner[ip] /\ height[ip'] = height[ip]
  BY <1>1, <1>2, StackHere DEF Flows
<1>4. /\ stack' \in Seq(Value) /\ out' \in Seq(Value)
      /\ verdict'.class \in {"running", "ok", "runtime"}
      /\ Len(stack') <= MaxStackSlots
  BY <1>1 DEF Safe, StateOK, StackWithinCap
<1>5. Len(stack') = Len(stack) - height[ip] + height[ip']
  BY <1>1, <1>3, StackHere
<1>6. Safe'
  BY <1>1, <1>3, <1>4, <1>5, WithinFrame
<1>7. Untouched
  BY <1>1, StackHere DEF Untouched
<1>8. QED
  BY <1>6, <1>7

LEMMA JumpIfFalseIsSafe ==
    ASSUME Safe, JumpIfFalse
    PROVE  Safe' /\ Untouched
<1>1. Op = OpCode.JUMP_IF_FALSE /\ verdict = Running
  BY DEF JumpIfFalse, Executing
<1>2. Takes(chunk, ip) = 1 /\ Puts(chunk, ip) = 0 /\ Op \notin Ends
  BY <1>1, Effects
<1>3. CASE ~IsBool(Top)
  BY <1>3, FaultIsSafe DEF JumpIfFalse
<1>4. CASE IsBool(Top)
  <2>1. /\ stack' = Popped(1) /\ UNCHANGED <<chunk, frames, out, verdict>>
        /\ ip' \in {Following, Operand}
    BY <1>4 DEF JumpIfFalse
  <2>2. Flows(chunk, height, owner, owner[ip], height[ip] - 1 + 0, ip')
    BY <1>1, <1>2, <2>1, RuleHere
  <2>3. ip' \in Starts(chunk) /\ owner[ip'] = owner[ip] /\ height[ip'] = height[ip] - 1
    BY <2>2, StackHere DEF Flows
  <2>4. /\ stack' \in Seq(Value) /\ Len(stack') = Len(stack) - 1
        /\ Len(stack') <= MaxStackSlots /\ Frame.slotBase <= Len(stack')
        /\ \A i \in 1 .. Frame.slotBase : stack'[i] = stack[i]
    BY <1>1, <1>2, <2>1, PoppedIsSafe
  <2>5. out' \in Seq(Value) /\ verdict'.class \in {"running", "ok", "runtime"}
    BY <2>1 DEF Safe, StateOK
  <2>6. Len(stack') = Len(stack) - height[ip] + height[ip']
    <3>1. Len(stack) \in Nat /\ height[ip] \in Nat
      BY StackHere
    <3>2. QED
      BY <2>3, <2>4, <3>1
  <2>7. Safe'
    BY <2>1, <2>3, <2>4, <2>5, <2>6, WithinFrame
  <2>8. QED
    BY <2>4, <2>7 DEF Untouched
<1>5. QED
  BY <1>3, <1>4

LEMMA PrintTopIsSafe ==
    ASSUME Safe, PrintTop
    PROVE  Safe' /\ Untouched
<1>1. /\ Op = OpCode.PRINT /\ verdict = Running
      /\ out' = Append(out, Top) /\ stack' = Popped(1) /\ ip' = Following
      /\ UNCHANGED <<chunk, frames, verdict>>
  BY DEF PrintTop, Executing
<1>2. Takes(chunk, ip) = 1 /\ Puts(chunk, ip) = 0 /\ Op \notin Ends
  BY <1>1, Effects
<1>3. /\ stack' \in Seq(Value) /\ Len(stack') = Len(stack) - 1
      /\ Len(stack') <= MaxStackSlots /\ Frame.slotBase <= Len(stack')
      /\ \A i \in 1 .. Frame.slotBase : stack'[i] = stack[i]
      /\ Top \in Value
  BY <1>1, <1>2, PoppedIsSafe
<1>4. out' \in Seq(Value) /\ verdict'.class \in {"running", "ok", "runtime"}
  BY <1>1, <1>3, AppendProperties DEF Safe, StateOK
<1>5. Len(stack') = Len(stack) - Takes(chunk, ip) + Puts(chunk, ip)
  BY <1>2, <1>3, StackHere
<1>6. Safe'
  BY <1>1, <1>2, <1>3, <1>4, <1>5, FallsThrough
<1>7. QED
  BY <1>3, <1>6 DEF Untouched

LEMMA HaltIsSafe ==
    ASSUME Safe, Halt
    PROVE  Safe' /\ Untouched
<1>1. verdict'.class = "ok" /\ UNCHANGED <<chunk, stack, frames, ip, out>>
  BY DEF Halt, Finished, Verdict
<1>2. QED
  BY <1>1, SameStackIsSafe

LEMMA UnknownIsSafe ==
    ASSUME Safe, Unknown
    PROVE  Safe' /\ Untouched
BY FaultIsSafe DEF Unknown

(* The function a CALL names: its code, its arguments on the caller's stack. *)
LEMMA CalleeFacts ==
    ASSUME Safe, Op = OpCode.CALL
    PROVE  LET function == chunk.functions[Operand + 1]
           IN  /\ Operand + 1 \in 1 .. Len(chunk.functions)
               /\ function.arity \in Nat /\ function.frameSize \in Nat
               /\ function.arity <= function.frameSize
               /\ function.entry \in Starts(chunk)
               /\ height[function.entry] = 0 /\ owner[function.entry] = Operand + 1
               /\ function.arity <= height[ip]
               /\ Following \in Starts(chunk)
               /\ height[Following] = height[ip] - function.arity + 1
               /\ owner[Following] = owner[ip]
<1> DEFINE function == chunk.functions[Operand + 1]
<1>1. chunk.functions \in Seq(FunctionEntry) /\ WellTyped(chunk, height, owner)
  BY ChunkIsWellTyped DEF Safe
<1>2. Operand \in Nat /\ Operand < Len(chunk.functions)
  BY RuleHere DEF HasOperand
<1>3. Operand + 1 \in 1 .. Len(chunk.functions)
  BY <1>1, <1>2
<1>4. function \in FunctionEntry
  BY <1>1, <1>3, ElementOfSeq
<1>5. DOMAIN chunk.functions = 1 .. Len(chunk.functions)
  BY <1>1, LenProperties
<1>6. /\ function.arity <= function.frameSize
      /\ function.entry \in Starts(chunk)
      /\ height[function.entry] = 0 /\ owner[function.entry] = Operand + 1
  BY <1>1, <1>3, <1>5 DEF WellTyped
<1>7. Takes(chunk, ip) = function.arity /\ Puts(chunk, ip) = 1 /\ Op \notin Ends
  BY Effects
<1>8. function.arity <= height[ip]
  BY <1>7, RuleHere
<1>9. Flows(chunk, height, owner, owner[ip], height[ip] - function.arity + 1, Following)
  BY <1>7, RuleHere
<1>10. QED
  BY <1>3, <1>4, <1>6, <1>8, <1>9 DEF Flows, FunctionEntry

(* n is the depth before the call: Len(frames) under a prime would be the depth
   after it. *)
LEMMA CallFromDepth ==
    ASSUME Safe, Call, NEW n \in Nat, n = Len(frames)
    PROVE  Safe' /\ Untouched
<1> DEFINE function == chunk.functions[Operand + 1]
           locals == function.frameSize - function.arity
           base == Len(stack) - function.arity
<1>1. Op = OpCode.CALL
  BY DEF Call, Executing
<1>2. CASE TooDeep
  BY <1>2, FaultIsSafe DEF Call
<1>3. CASE ~TooDeep /\ locals > 0 /\ Len(stack) + locals > MaxStackSlots
  BY <1>3, FaultIsSafe DEF Call
<1>4. CASE ~TooDeep /\ ~(locals > 0 /\ Len(stack) + locals > MaxStackSlots)
  <2>1. /\ stack' = stack \o Zeros(locals)
        /\ frames' = Append(frames, [returnIP |-> Following, slotBase |-> base])
        /\ ip' = function.entry
        /\ chunk' = chunk /\ out' = out /\ verdict' = verdict
    BY <1>4 DEF Call, Frames, CalleeBase
  <2>2. /\ Operand + 1 \in 1 .. Len(chunk.functions)
        /\ function.arity \in Nat /\ function.frameSize \in Nat
        /\ function.arity <= function.frameSize
        /\ function.entry \in Starts(chunk)
        /\ height[function.entry] = 0 /\ owner[function.entry] = Operand + 1
        /\ function.arity <= height[ip]
        /\ Following \in Starts(chunk)
        /\ height[Following] = height[ip] - function.arity + 1
        /\ owner[Following] = owner[ip]
    BY <1>1, CalleeFacts
  <2>3. /\ StateOK /\ stack \in Seq(Value) /\ frames \in Seq(FrameEntry)
        /\ Len(stack) <= MaxStackSlots /\ FramesAreContiguous /\ FramesRunTheirOwnCode
    BY DEF Safe, StateOK, StackWithinCap
  <2>4. /\ n \in Nat /\ n > 0 /\ Len(stack) \in Nat /\ height[ip] \in Nat
        /\ Width(chunk, owner[ip]) \in Nat /\ Frame.slotBase \in Nat
        /\ Len(stack) = Frame.slotBase + Width(chunk, owner[ip]) + height[ip]
    BY StackHere
  <2>5. locals \in Nat /\ base \in Nat
    <3>1. \A a, b \in Nat : a <= b => b - a \in Nat
      OBVIOUS
    <3>2. function.arity <= Len(stack)
      <4>1. \A p, s, w, h \in Nat : p <= h => p <= s + w + h
        OBVIOUS
      <4>2. /\ function.arity \in Nat /\ Frame.slotBase \in Nat
            /\ Width(chunk, owner[ip]) \in Nat /\ height[ip] \in Nat
            /\ function.arity <= height[ip]
        BY <2>2, <2>4
      <4>3. Len(stack) = Frame.slotBase + Width(chunk, owner[ip]) + height[ip]
        BY <2>4
      <4>4. QED
        BY <4>1, <4>2, <4>3
    <3>3. QED
      BY <2>2, <2>4, <3>1, <3>2
  <2>6. /\ stack' \in Seq(Value) /\ Len(stack') = Len(stack) + locals
        /\ \A i \in 1 .. Len(stack) : stack'[i] = stack[i]
    <3>1. Zeros(locals) \in Seq(Value) /\ Len(Zeros(locals)) = locals
      BY <2>5, ZerosFacts
    <3>2. /\ stack \o Zeros(locals) \in Seq(Value)
          /\ Len(stack \o Zeros(locals)) = Len(stack) + locals
          /\ \A i \in 1 .. Len(stack) + locals : i <= Len(stack) =>
                 (stack \o Zeros(locals))[i] = stack[i]
      BY <2>3, <3>1, ConcatProperties
    <3>3. \A i \in 1 .. Len(stack) : i \in 1 .. Len(stack) + locals /\ i <= Len(stack)
      BY <2>4, <2>5
    <3>4. QED
      BY <2>1, <3>2, <3>3
  <2>7. [returnIP |-> Following, slotBase |-> base] \in FrameEntry
    BY <2>2, <2>5 DEF FrameEntry
  <2>8. /\ frames' \in Seq(FrameEntry) /\ Len(frames') = n + 1
        /\ \A d \in 1 .. n : frames'[d] = frames[d]
        /\ frames'[n + 1] = [returnIP |-> Following, slotBase |-> base]
    BY <2>1, <2>3, <2>7, AppendProperties
  <2>9. height' = height /\ owner' = owner /\ FrameEntry' = FrameEntry
    BY <2>1 DEF height, owner, FrameEntry
  <2>10. StateOK'
    BY <2>1, <2>2, <2>3, <2>6, <2>8, <2>9 DEF StateOK
  (* Where each frame goes on now: the caller after its call, the callee at its entry. *)
  <2>11. \A d \in 1 .. n - 1 : Resumes(d)' = Resumes(d)
    <3>1. ASSUME NEW d \in 1 .. n - 1
          PROVE  Resumes(d)' = Resumes(d)
      <4>1. d # n /\ d # n + 1 /\ d + 1 \in 1 .. n
        BY <2>4
      <4>2. QED
        BY <2>8, <4>1 DEF Resumes
    <3>2. QED
      BY <3>1
  <2>12. Resumes(n)' = Following /\ Resumes(n + 1)' = function.entry
    <3>1. n # n + 1 /\ n + 1 = Len(frames')
      BY <2>4, <2>8
    <3>2. Resumes(n)' = Following
      BY <2>8, <3>1 DEF Resumes
    <3>3. Resumes(n + 1)' = function.entry
      BY <2>1, <3>1 DEF Resumes
    <3>4. QED
      BY <3>2, <3>3
  <2>13. Resumes(n) = ip
    BY DEF Resumes
  <2>14. FramesRunTheirOwnCode'
    <3>1. ASSUME NEW d \in 1 .. n + 1
          PROVE  (owner[Resumes(d)'] = 0) = (d = 1)
      <4>1. CASE d \in 1 .. n - 1
        <5>1. owner[Resumes(d)'] = owner[Resumes(d)]
          BY <2>11, <4>1
        <5>2. d \in 1 .. Len(frames)
          BY <2>4, <4>1
        <5>3. QED
          BY <2>3, <5>1, <5>2 DEF FramesRunTheirOwnCode
      <4>2. CASE d = n
        <5>1. owner[Resumes(d)'] = owner[Resumes(d)]
          BY <2>2, <2>12, <2>13, <4>2
        <5>2. d \in 1 .. Len(frames)
          BY <2>4, <4>2
        <5>3. QED
          BY <2>3, <5>1, <5>2 DEF FramesRunTheirOwnCode
      <4>3. CASE d = n + 1
        <5>1. owner[Resumes(d)'] = Operand + 1 /\ Operand + 1 # 0
          BY <2>2, <2>12, <4>3
        <5>2. d # 1
          BY <2>4, <4>3
        <5>3. QED
          BY <5>1, <5>2
      <4>4. QED
        BY <2>4, <4>1, <4>2, <4>3
    <3>2. QED
      BY <2>8, <2>9, <3>1 DEF FramesRunTheirOwnCode
  <2>15. FramesAreContiguous'
    <3>1. frames'[1].slotBase = 0 /\ Len(frames') > 0
      BY <2>3, <2>4, <2>8 DEF FramesAreContiguous
    <3>2. ASSUME NEW d \in 1 .. n - 1
          PROVE  height[Resumes(d)'] > 0 /\ frames'[d + 1].slotBase = FrameEnd(d)'
      <4>1. d \in 1 .. n /\ d # n /\ d # n + 1 /\ d + 1 \in 1 .. n
        BY <2>4
      <4>2. FrameEnd(d)' = FrameEnd(d)
        BY <2>1, <2>8, <2>9, <2>11, <4>1 DEF FrameEnd, TempsFrom, Pending, Width
      <4>3. QED
        BY <2>3, <2>8, <2>11, <4>1, <4>2 DEF FramesAreContiguous
    <3>3. height[Resumes(n)'] > 0
      <4>1. \A a, h \in Nat : a <= h => h - a + 1 > 0
        OBVIOUS
      <4>2. height[Following] > 0
        BY <2>2, <2>4, <4>1
      <4>3. QED
        BY <2>12, <4>2
    <3>4. FrameEnd(n)' = base
      <4>1. FrameEnd(n)' = Frame.slotBase + Width(chunk, owner[ip]) + (height[Following] - 1)
        <5>1. n \in 1 .. n /\ n # n + 1
          BY <2>4
        <5>2. frames'[n] = Frame
          BY <2>8, <5>1 DEF Frame
        <5>3. Width(chunk, owner[Resumes(n)])' = Width(chunk, owner[ip])
          BY <2>1, <2>2, <2>9, <2>12 DEF Width
        <5>4. TempsFrom(n)' = Frame.slotBase + Width(chunk, owner[ip])
          BY <5>2, <5>3 DEF TempsFrom
        <5>5. Pending(n)' = height[Following] - 1
          BY <2>8, <2>9, <2>12, <5>1 DEF Pending
        <5>6. QED
          BY <5>4, <5>5 DEF FrameEnd
      <4>2. \A s, w, h, a \in Nat : a <= h => s + w + ((h - a + 1) - 1) = (s + w + h) - a
        OBVIOUS
      <4>3. /\ Frame.slotBase \in Nat /\ Width(chunk, owner[ip]) \in Nat
            /\ height[ip] \in Nat /\ function.arity \in Nat /\ function.arity <= height[ip]
        BY <2>2, <2>4
      <4>4. height[Following] = height[ip] - function.arity + 1
        BY <2>2
      <4>5. Len(stack) = Frame.slotBase + Width(chunk, owner[ip]) + height[ip]
        BY <2>4
      <4>6. QED
        BY <4>1, <4>2, <4>3, <4>4, <4>5
    <3>5. Len(stack') = FrameEnd(n + 1)'
      <4>1. Width(chunk, Operand + 1) = function.frameSize
        BY <2>2 DEF Width
      <4>2. FrameEnd(n + 1)' = base + Width(chunk, Operand + 1) + 0
        <5>1. Width(chunk, owner[Resumes(n + 1)])' = Width(chunk, Operand + 1)
          BY <2>1, <2>2, <2>9, <2>12 DEF Width
        <5>2. frames'[n + 1].slotBase = base
          BY <2>8
        <5>3. TempsFrom(n + 1)' = base + Width(chunk, Operand + 1)
          BY <5>1, <5>2 DEF TempsFrom
        <5>4. Pending(n + 1)' = 0
          BY <2>1, <2>2, <2>8, <2>9 DEF Pending
        <5>5. QED
          BY <5>3, <5>4 DEF FrameEnd
      <4>3. \A length, a, width \in Nat : a <= width =>
                length + (width - a) = (length - a) + width + 0
        OBVIOUS
      <4>4. Len(stack) + locals = base + function.frameSize + 0
        <5>1. /\ Len(stack) \in Nat /\ function.arity \in Nat
              /\ function.frameSize \in Nat /\ function.arity <= function.frameSize
          BY <2>2, <2>4
        <5>2. QED
          BY <4>3, <5>1
      <4>5. QED
        BY <2>6, <4>1, <4>2, <4>4
    <3>6. ASSUME NEW d \in 1 .. n
          PROVE  height[Resumes(d)'] > 0 /\ frames'[d + 1].slotBase = FrameEnd(d)'
      <4>1. CASE d = n
        BY <2>8, <3>3, <3>4, <4>1
      <4>2. CASE d # n
        BY <2>4, <3>2, <4>2
      <4>3. QED
        BY <4>1, <4>2
    <3>7. QED
      BY <2>4, <2>8, <2>9, <3>1, <3>5, <3>6 DEF FramesAreContiguous
  <2>16. StackWithinCap'
    <3>1. Len(stack) + locals <= MaxStackSlots
      <4>1. CASE locals > 0
        BY <1>4, <2>4, <2>5, <4>1, VmAssumption
      <4>2. CASE ~(locals > 0)
        BY <2>3, <2>4, <2>5, <4>2
      <4>3. QED
        BY <4>1, <4>2
    <3>2. QED
      BY <2>6, <3>1 DEF StackWithinCap
  <2>17. DepthWithinLimit'
    <3>1. Len(frames) <= MaxCallDepth
      BY <1>4, <2>4, VmAssumption DEF TooDeep
    <3>2. Len(frames') = Len(frames) + 1
      BY <2>8
    <3>3. QED
      BY <2>4, <3>1, <3>2, VmAssumption DEF DepthWithinLimit
  <2>18. Untouched
    <3>1. Frame.slotBase <= Len(stack) /\ Len(stack) <= Len(stack) + locals
      BY <2>4, <2>5
    <3>2. Frame.slotBase <= Len(stack')
      <4>1. \A a, b, c \in Nat : a <= b /\ b <= c => a <= c
        OBVIOUS
      <4>2. Frame.slotBase \in Nat /\ Len(stack) \in Nat /\ Len(stack) + locals \in Nat
        BY <2>4, <2>5
      <4>3. QED
        BY <2>6, <3>1, <4>1, <4>2
    <3>3. \A i \in 1 .. Frame.slotBase : i \in 1 .. Len(stack)
      BY <2>4, <3>1
    <3>4. QED
      BY <2>6, <3>2, <3>3 DEF Untouched
  <2>19. QED
    BY <2>10, <2>14, <2>15, <2>16, <2>17, <2>18 DEF Safe
<1>5. QED
  BY <1>2, <1>3, <1>4

LEMMA CallIsSafe ==
    ASSUME Safe, Call
    PROVE  Safe' /\ Untouched
BY CallFromDepth, StackHere

(* A RETURN runs in a call, and finds its caller where it left it. *)
LEMMA ReturnFromDepth ==
    ASSUME Safe, Return, NEW n \in Nat, n = Len(frames)
    PROVE  Safe' /\ Untouched
<1>1. /\ Op = OpCode.RETURN
      /\ stack' = Append(SubSeq(stack, 1, Frame.slotBase), Top)
      /\ frames' = SubSeq(frames, 1, n - 1)
      /\ ip' = Frame.returnIP
      /\ chunk' = chunk /\ out' = out /\ verdict' = verdict
  BY DEF Return, Executing
<1>2. /\ StateOK /\ stack \in Seq(Value) /\ frames \in Seq(FrameEntry)
      /\ Len(stack) <= MaxStackSlots /\ FramesAreContiguous /\ FramesRunTheirOwnCode
      /\ DepthWithinLimit
  BY DEF Safe, StateOK, StackWithinCap
<1>3. /\ n > 0 /\ Len(stack) \in Nat /\ height[ip] \in Nat
      /\ Width(chunk, owner[ip]) \in Nat /\ Frame.slotBase \in Nat
      /\ Len(stack) = Frame.slotBase + Width(chunk, owner[ip]) + height[ip]
  BY StackHere
<1>4. height[ip] >= 1 /\ owner[ip] # 0
  BY <1>1, <1>3, RuleHere, Effects
<1>5. n # 1
  <2>1. Resumes(n) = ip /\ n \in 1 .. Len(frames)
    BY <1>3 DEF Resumes
  <2>2. QED
    BY <1>2, <1>4, <2>1 DEF FramesRunTheirOwnCode
<1>6. n - 1 \in 1 .. n /\ n - 1 \in 1 .. Len(frames) - 1 /\ n - 1 \in Nat
      /\ n - 1 # n /\ n - 1 > 0
  BY <1>3, <1>5
<1>7. Resumes(n - 1) = Frame.returnIP
  BY <1>6 DEF Resumes, Frame
<1>8. /\ Resumes(n - 1) \in Starts(chunk) /\ height[Resumes(n - 1)] \in Nat
      /\ Width(chunk, owner[Resumes(n - 1)]) \in Nat
      /\ frames[n - 1].slotBase \in Nat
  BY <1>2, <1>6, ResumesTyped
<1>9. /\ height[Resumes(n - 1)] > 0
      /\ Frame.slotBase = frames[n - 1].slotBase + Width(chunk, owner[Resumes(n - 1)])
                              + (height[Resumes(n - 1)] - 1)
  <2>1. /\ height[Resumes(n - 1)] > 0
        /\ frames[(n - 1) + 1].slotBase = FrameEnd(n - 1)
    BY <1>2, <1>6 DEF FramesAreContiguous
  <2>2. frames[(n - 1) + 1] = Frame
    BY DEF Frame
  <2>3. QED
    BY <1>6, <2>1, <2>2 DEF FrameEnd, TempsFrom, Pending
(* The frames that remain, and the stack under the result. *)
<1>10. /\ frames' \in Seq(FrameEntry) /\ Len(frames') = n - 1
       /\ \A d \in 1 .. n - 1 : frames'[d] = frames[d]
  <2>1. \A d \in 1 .. n - 1 : frames[d] \in FrameEntry
    BY <1>2, ElementOfSeq
  <2>2. QED
    BY <1>1, <1>6, <2>1, SubSeqProperties
<1>11. /\ stack' \in Seq(Value) /\ Len(stack') = Frame.slotBase + 1
       /\ \A i \in 1 .. Frame.slotBase : stack'[i] = stack[i]
  <2>1. \A i \in 1 .. Frame.slotBase : stack[i] \in Value
    BY <1>2, <1>3, ElementOfSeq
  <2>2. /\ SubSeq(stack, 1, Frame.slotBase) \in Seq(Value)
        /\ Len(SubSeq(stack, 1, Frame.slotBase)) = Frame.slotBase
        /\ \A i \in 1 .. Frame.slotBase : SubSeq(stack, 1, Frame.slotBase)[i] = stack[i]
    BY <1>3, <2>1, SubSeqProperties
  <2>3. Top \in Value
    BY <1>4, TemporariesAreValues
  <2>4. QED
    BY <1>1, <2>2, <2>3, AppendProperties
<1>12. height' = height /\ owner' = owner /\ FrameEntry' = FrameEntry
  BY <1>1 DEF height, owner, FrameEntry
<1>13. StateOK'
  BY <1>1, <1>2, <1>7, <1>8, <1>10, <1>11, <1>12 DEF StateOK
<1>14. \A d \in 1 .. n - 1 : Resumes(d)' = Resumes(d)
  <2>1. ASSUME NEW d \in 1 .. n - 1
        PROVE  Resumes(d)' = Resumes(d)
    <3>1. CASE d = n - 1
      BY <1>1, <1>7, <1>10, <3>1 DEF Resumes
    <3>2. CASE d # n - 1
      <4>1. d # n /\ d + 1 \in 1 .. n - 1
        BY <1>6, <3>2
      <4>2. QED
        BY <1>10, <3>2, <4>1 DEF Resumes
    <3>3. QED
      BY <3>1, <3>2
  <2>2. QED
    BY <2>1
<1>15. FramesRunTheirOwnCode'
  <2>1. ASSUME NEW d \in 1 .. n - 1
        PROVE  (owner[Resumes(d)'] = 0) = (d = 1)
    <3>1. owner[Resumes(d)'] = owner[Resumes(d)] /\ d \in 1 .. Len(frames)
      BY <1>6, <1>14
    <3>2. QED
      BY <1>2, <3>1 DEF FramesRunTheirOwnCode
  <2>2. QED
    BY <1>10, <1>12, <2>1 DEF FramesRunTheirOwnCode
<1>16. FramesAreContiguous'
  <2>1. frames'[1].slotBase = 0 /\ Len(frames') > 0
    <3>1. 1 \in 1 .. n - 1
      BY <1>6
    <3>2. frames'[1] = frames[1]
      BY <1>10, <3>1
    <3>3. frames[1].slotBase = 0
      BY <1>2 DEF FramesAreContiguous
    <3>4. Len(frames') > 0
      BY <1>6, <1>10
    <3>5. QED
      BY <3>2, <3>3, <3>4
  <2>2. ASSUME NEW d \in 1 .. (n - 1) - 1
        PROVE  height[Resumes(d)'] > 0 /\ frames'[d + 1].slotBase = FrameEnd(d)'
    <3>1. /\ d \in 1 .. n - 1 /\ d \in 1 .. Len(frames) - 1
          /\ d # n /\ d # n - 1 /\ d + 1 \in 1 .. n - 1
      BY <1>6
    <3>2. FrameEnd(d)' = FrameEnd(d)
      BY <1>1, <1>10, <1>12, <1>14, <3>1 DEF FrameEnd, TempsFrom, Pending, Width
    <3>3. QED
      BY <1>2, <1>10, <1>14, <3>1, <3>2 DEF FramesAreContiguous
  <2>3. Len(stack') = FrameEnd(n - 1)'
    <3>1. FrameEnd(n - 1)' = frames[n - 1].slotBase + Width(chunk, owner[Resumes(n - 1)])
                                + height[Resumes(n - 1)]
      BY <1>1, <1>6, <1>7, <1>10, <1>12, <1>14 DEF FrameEnd, TempsFrom, Pending, Width
    <3>2. \A base, width, h \in Nat : base + width + (h - 1) + 1 = base + width + h
      OBVIOUS
    <3>3. QED
      <4>1. /\ frames[n - 1].slotBase \in Nat /\ height[Resumes(n - 1)] \in Nat
            /\ Width(chunk, owner[Resumes(n - 1)]) \in Nat
        BY <1>8
      <4>2. Len(stack') = frames[n - 1].slotBase + Width(chunk, owner[Resumes(n - 1)])
                              + (height[Resumes(n - 1)] - 1) + 1
        BY <1>9, <1>11
      <4>3. QED
        BY <3>1, <3>2, <4>1, <4>2
  <2>4. QED
    BY <1>10, <1>12, <2>1, <2>2, <2>3 DEF FramesAreContiguous
<1>17. StackWithinCap'
  <2>1. Frame.slotBase + 1 <= Len(stack)
    BY <1>3, <1>4
  <2>2. QED
    BY <1>2, <1>3, <1>11, <2>1, VmAssumption DEF StackWithinCap
<1>18. DepthWithinLimit'
  BY <1>2, <1>6, <1>10, VmAssumption DEF DepthWithinLimit
<1>19. Untouched
  BY <1>3, <1>11 DEF Untouched
<1>20. QED
  BY <1>13, <1>15, <1>16, <1>17, <1>18, <1>19 DEF Safe

LEMMA ReturnIsSafe ==
    ASSUME Safe, Return
    PROVE  Safe' /\ Untouched
BY ReturnFromDepth, StackHere

-----------------------------------------------------------------------------

(* The program starts in a frame of its own, with all its slots and nothing else. *)
LEMMA StartIsSafe ==
    WellTyped(chunk, Heights(chunk), Owners(chunk)) /\ Start(chunk) => Safe
<1> SUFFICES ASSUME WellTyped(chunk, Heights(chunk), Owners(chunk)), Start(chunk)
             PROVE  Safe
  OBVIOUS
<1>1. /\ stack = Zeros(chunk.programFrameSize)
      /\ frames = <<[returnIP |-> 0, slotBase |-> 0]>>
      /\ ip = 0 /\ out = <<>> /\ verdict = Running
  BY DEF Start
<1>2. WellTyped(chunk, height, owner)
  BY DEF height, owner
<1>3. /\ chunk.programFrameSize \in 0 .. MaxOperand
      /\ 0 \in Starts(chunk) /\ height[0] = 0 /\ owner[0] = 0
  BY <1>2 DEF WellTyped
<1>4. /\ stack \in Seq(Value) /\ Len(stack) = chunk.programFrameSize
      /\ Len(stack) <= MaxStackSlots
  BY <1>1, <1>3, ZerosFacts, VmAssumption, ChunkAssumption
<1>5. [returnIP |-> 0, slotBase |-> 0] \in FrameEntry
  BY <1>3 DEF FrameEntry
<1>6. Len(frames) = 1 /\ frames[1] = [returnIP |-> 0, slotBase |-> 0]
  BY <1>1
<1>7. frames \in Seq(FrameEntry)
  BY <1>1, <1>5
<1>8. StateOK
  BY <1>1, <1>2, <1>3, <1>4, <1>7 DEF StateOK, Running, Verdict, height, owner
<1>9. Resumes(1) = 0
  BY <1>1, <1>6 DEF Resumes
<1>10. FramesRunTheirOwnCode
  BY <1>3, <1>6, <1>9 DEF FramesRunTheirOwnCode
<1>11. FramesAreContiguous
  <2>1. FrameEnd(1) = 0 + chunk.programFrameSize + 0
    BY <1>1, <1>3, <1>6, <1>9 DEF FrameEnd, TempsFrom, Pending, Width
  <2>2. QED
    BY <1>3, <1>4, <1>6, <2>1 DEF FramesAreContiguous
<1>12. QED
  BY <1>4, <1>6, <1>8, <1>10, <1>11, VmAssumption
     DEF Safe, StackWithinCap, DepthWithinLimit

LEMMA InitIsSafe == Init => Safe
BY StartIsSafe, ChunksAreWellTyped DEF Init

LEMMA NextIsSafe == Safe /\ [Next]_vars => Safe' /\ [Untouched]_vars
<1> SUFFICES ASSUME Safe, [Next]_vars
             PROVE  Safe' /\ [Untouched]_vars
  OBVIOUS
<1>1. CASE Const
  BY <1>1, ConstIsSafe
<1>2. CASE LoadLocal
  BY <1>2, LoadLocalIsSafe
<1>3. CASE StoreLocal
  BY <1>3, StoreLocalIsSafe
<1>4. CASE Pop
  BY <1>4, PopIsSafe
<1>5. CASE Arithmetic
  BY <1>5, ArithmeticIsSafe
<1>6. CASE Divide
  BY <1>6, DivideIsSafe
<1>7. CASE Negate
  BY <1>7, NegateIsSafe
<1>8. CASE Equal
  BY <1>8, EqualIsSafe
<1>9. CASE Order
  BY <1>9, OrderIsSafe
<1>10. CASE Not
  BY <1>10, NotIsSafe
<1>11. CASE Jump
  BY <1>11, JumpIsSafe
<1>12. CASE JumpIfFalse
  BY <1>12, JumpIfFalseIsSafe
<1>13. CASE Call
  BY <1>13, CallIsSafe
<1>14. CASE Return
  BY <1>14, ReturnIsSafe
<1>15. CASE PrintTop
  BY <1>15, PrintTopIsSafe
<1>16. CASE Halt
  BY <1>16, HaltIsSafe
<1>17. CASE Unknown
  BY <1>17, UnknownIsSafe
<1>18. CASE UNCHANGED vars
  <2>1. UNCHANGED <<chunk, stack, frames, ip, out>> /\ verdict' = verdict
    BY <1>18 DEF vars
  <2>2. verdict'.class \in {"running", "ok", "runtime"}
    BY <2>1 DEF Safe, StateOK
  <2>3. QED
    BY <1>18, <2>1, <2>2, SameStackIsSafe
<1>19. QED
  BY <1>1, <1>2, <1>3, <1>4, <1>5, <1>6, <1>7, <1>8, <1>9, <1>10, <1>11, <1>12,
     <1>13, <1>14, <1>15, <1>16, <1>17, <1>18 DEF Next

-----------------------------------------------------------------------------

(* The invariant of every run of src/src/vm.cpp over a well-typed chunk. *)
THEOREM VmIsSafe == Spec => []Safe
<1>1. Init => Safe
  BY InitIsSafe
<1>2. Safe /\ [Next]_vars => Safe'
  BY NextIsSafe
<1>3. QED
  BY <1>1, <1>2, PTL DEF Spec

LEMMA NextKeepsTheChunk ==
    ASSUME [Next]_vars
    PROVE  chunk' = chunk
<1>1. /\ \A message : Fault(message) => chunk' = chunk
      /\ \A after : Yield(after) => chunk' = chunk
  BY DEF Fault, Yield
<1>2. /\ \A value : Push(value) => chunk' = chunk
      /\ \A n, value : Replace(n, value) => chunk' = chunk
  BY <1>1 DEF Push, Replace
<1>3. CASE Const \/ LoadLocal \/ StoreLocal \/ Pop
  BY <1>1, <1>2, <1>3 DEF Const, LoadLocal, StoreLocal, Pop
<1>4. CASE Arithmetic \/ Divide \/ Negate \/ Equal \/ Order \/ Not
  BY <1>1, <1>2, <1>4
     DEF Arithmetic, Divide, Negate, Equal, Order, Not, BinaryTypeFault, UnaryTypeFault,
         BinaryOverflowFault
<1>5. CASE Jump \/ JumpIfFalse \/ Unknown \/ UNCHANGED vars
  BY <1>1, <1>5 DEF Jump, JumpIfFalse, Unknown, vars
<1>6. CASE Call \/ Return \/ PrintTop \/ Halt
  BY <1>1, <1>6 DEF Call, Return, PrintTop, Halt
<1>7. QED
  BY <1>3, <1>4, <1>5, <1>6 DEF Next

(* The instruction pointer stands at an instruction, and the stack holds values. *)
THEOREM TypeIsCorrect == Spec => []TypeOK
<1>1. Init => chunk \in Chunks
  BY DEF Init
<1>2. Safe /\ chunk \in Chunks /\ [Next]_vars => (chunk \in Chunks)'
  BY NextKeepsTheChunk
<1>3. Safe /\ chunk \in Chunks => TypeOK
  BY DEF Safe, StateOK, TypeOK
<1>4. QED
  BY <1>1, <1>2, <1>3, VmIsSafe, PTL DEF Spec

(* The frames tile the operand stack: a callee starts where its caller's
   temporaries end. *)
THEOREM FramesTileTheStack == Spec => []FramesAreContiguous
<1>1. Safe => FramesAreContiguous
  BY DEF Safe
<1>2. QED
  BY <1>1, VmIsSafe, PTL

(* No RETURN runs in the program's frame and no HALT in a call's. *)
THEOREM FramesKeepToTheirCode == Spec => []FramesRunTheirOwnCode
<1>1. Safe => FramesRunTheirOwnCode
  BY DEF Safe
<1>2. QED
  BY <1>1, VmIsSafe, PTL

LEMMA SafeOperands == Safe => OperandsAreTemporaries
<1>1. SUFFICES ASSUME Safe
               PROVE  OperandsAreTemporaries
  OBVIOUS
<1>2. Takes(chunk, ip) <= height[ip] /\ Takes(chunk, ip) \in Nat
  BY <1>1, RuleHere, TakesAndPuts
<1>3. QED
  BY <1>1, <1>2, StackHere DEF OperandsAreTemporaries

(* The unchecked back() and pop_back() of the dispatch loop take only the
   temporaries of the running call. *)
THEOREM OperandsAreThere == Spec => []OperandsAreTemporaries
BY SafeOperands, VmIsSafe, PTL

(* The cap that `push` enforces holds for the pushes that do not go through it. *)
THEOREM StackStaysWithinCap == Spec => []StackWithinCap
<1>1. Safe => StackWithinCap
  BY DEF Safe
<1>2. QED
  BY <1>1, VmIsSafe, PTL

(* maxCallDepth bounds the calls that are live. *)
THEOREM DepthStaysWithinLimit == Spec => []DepthWithinLimit
<1>1. Safe => DepthWithinLimit
  BY DEF Safe
<1>2. QED
  BY <1>1, VmIsSafe, PTL

(* No step of the VM changes the stack below the running frame. *)
THEOREM CallersStayUntouched == Spec => CallersAreUntouched
<1>1. Safe /\ [Next]_vars => [/\ Frame.slotBase <= Len(stack')
                             /\ \A i \in 1 .. Frame.slotBase : stack'[i] = stack[i]]_vars
  BY NextIsSafe DEF Untouched
<1>2. QED
  BY <1>1, VmIsSafe, PTL DEF Spec, CallersAreUntouched
------------------------------------------------------------------------------


views == [d \in DOMAIN frames |-> CallAt(d)]

View == [locals : Seq(Value), temps : Seq(Value)]

-----------------------------------------------------------------------------

(* A slice depends on what lies in it. *)
LEMMA SliceIsSeq ==
    ASSUME NEW S, NEW s \in Seq(S), NEW a \in Nat, NEW b \in Nat, a <= b, b <= Len(s)
    PROVE  /\ SubSeq(s, a + 1, b) \in Seq(S)
           /\ Len(SubSeq(s, a + 1, b)) = b - a
           /\ \A i \in 1 .. b - a : SubSeq(s, a + 1, b)[i] = s[a + i]
<1>1. \A i \in a + 1 .. b : s[i] \in S
  <2>1. \A i \in a + 1 .. b : i \in 1 .. Len(s)
    BY LenProperties
  <2>2. QED
    BY <2>1, ElementOfSeq
<1>2. /\ SubSeq(s, a + 1, b) \in Seq(S)
      /\ Len(SubSeq(s, a + 1, b)) = IF a + 1 <= b THEN b - (a + 1) + 1 ELSE 0
      /\ \A i \in 1 .. b - (a + 1) + 1 : SubSeq(s, a + 1, b)[i] = s[(a + 1) + i - 1]
  BY <1>1, SubSeqProperties
<1>3. b - (a + 1) + 1 = b - a /\ \A i \in 1 .. b - a : (a + 1) + i - 1 = a + i
  OBVIOUS
<1>4. QED
  BY <1>2, <1>3

LEMMA SliceEqual ==
    ASSUME NEW S, NEW s \in Seq(S), NEW t \in Seq(S), NEW a \in Nat, NEW b \in Nat,
           a <= b, b <= Len(s), b <= Len(t),
           \A i \in a + 1 .. b : s[i] = t[i]
    PROVE  SubSeq(s, a + 1, b) = SubSeq(t, a + 1, b)
<1>1. /\ SubSeq(s, a + 1, b) \in Seq(S) /\ SubSeq(t, a + 1, b) \in Seq(S)
      /\ Len(SubSeq(s, a + 1, b)) = b - a /\ Len(SubSeq(t, a + 1, b)) = b - a
      /\ \A i \in 1 .. b - a : SubSeq(s, a + 1, b)[i] = s[a + i]
      /\ \A i \in 1 .. b - a : SubSeq(t, a + 1, b)[i] = t[a + i]
  BY SliceIsSeq
<1>2. \A i \in 1 .. b - a : a + i \in a + 1 .. b
  OBVIOUS
<1>3. \A i \in 1 .. b - a : SubSeq(s, a + 1, b)[i] = SubSeq(t, a + 1, b)[i]
  BY <1>1, <1>2
<1>4. QED
  BY <1>1, <1>3, SeqEqual

(* A slice of a prefix, of a longer sequence, of a slice. *)
LEMMA SliceOfPrefix ==
    ASSUME NEW S, NEW s \in Seq(S), NEW a \in Nat, NEW b \in Nat, NEW m \in Nat,
           a <= b, b <= m, m <= Len(s)
    PROVE  SubSeq(SubSeq(s, 1, m), a + 1, b) = SubSeq(s, a + 1, b)
<1>1. /\ SubSeq(s, 0 + 1, m) \in Seq(S) /\ Len(SubSeq(s, 0 + 1, m)) = m - 0
      /\ \A i \in 1 .. m - 0 : SubSeq(s, 0 + 1, m)[i] = s[0 + i]
  BY SliceIsSeq
<1>2. 0 + 1 = 1 /\ m - 0 = m /\ \A i \in 1 .. m : 0 + i = i
  OBVIOUS
<1>3. /\ SubSeq(s, 1, m) \in Seq(S) /\ Len(SubSeq(s, 1, m)) = m
      /\ \A i \in 1 .. m : SubSeq(s, 1, m)[i] = s[i]
  BY <1>1, <1>2
<1>4. b <= Len(s) /\ \A i \in a + 1 .. b : i \in 1 .. m
  OBVIOUS
<1>5. QED
  BY <1>3, <1>4, SliceEqual

LEMMA SliceOfAppend ==
    ASSUME NEW S, NEW s \in Seq(S), NEW v \in S, NEW a \in Nat, a <= Len(s)
    PROVE  /\ \A b \in Nat : a <= b /\ b <= Len(s) =>
                  SubSeq(Append(s, v), a + 1, b) = SubSeq(s, a + 1, b)
           /\ SubSeq(Append(s, v), a + 1, Len(s) + 1) = Append(SubSeq(s, a + 1, Len(s)), v)
<1> DEFINE t == Append(s, v)
           left == SubSeq(t, a + 1, Len(s) + 1)
           right == Append(SubSeq(s, a + 1, Len(s)), v)
<1>1. /\ t \in Seq(S) /\ Len(t) = Len(s) + 1
      /\ \A i \in 1 .. Len(s) : t[i] = s[i]
      /\ t[Len(s) + 1] = v
  BY AppendProperties
<1>2. Len(s) \in Nat /\ Len(s) + 1 \in Nat /\ Len(s) + 1 <= Len(t) /\ a <= Len(s) + 1
  BY <1>1
<1>3. ASSUME NEW b \in Nat, a <= b, b <= Len(s)
      PROVE  SubSeq(t, a + 1, b) = SubSeq(s, a + 1, b)
  <2>1. b <= Len(t) /\ \A i \in a + 1 .. b : i \in 1 .. Len(s)
    BY <1>2, <1>3
  <2>2. QED
    BY <1>1, <1>3, <2>1, SliceEqual
<1>4. /\ SubSeq(s, a + 1, Len(s)) \in Seq(S) /\ Len(SubSeq(s, a + 1, Len(s))) = Len(s) - a
      /\ \A i \in 1 .. Len(s) - a : SubSeq(s, a + 1, Len(s))[i] = s[a + i]
  BY <1>2, SliceIsSeq
<1>5. /\ left \in Seq(S) /\ Len(left) = (Len(s) + 1) - a
      /\ \A i \in 1 .. (Len(s) + 1) - a : left[i] = t[a + i]
  BY <1>1, <1>2, SliceIsSeq
<1>6. /\ right \in Seq(S) /\ Len(right) = (Len(s) - a) + 1
      /\ \A i \in 1 .. Len(s) - a : right[i] = SubSeq(s, a + 1, Len(s))[i]
      /\ right[(Len(s) - a) + 1] = v
  BY <1>4, AppendProperties
<1>7. (Len(s) + 1) - a = (Len(s) - a) + 1 /\ a + ((Len(s) - a) + 1) = Len(s) + 1
  BY <1>2
<1>8. ASSUME NEW i \in 1 .. (Len(s) - a) + 1
      PROVE  left[i] = right[i]
  <2>1. CASE i = (Len(s) - a) + 1
    BY <1>1, <1>5, <1>6, <1>7, <2>1
  <2>2. CASE i # (Len(s) - a) + 1
    <3>1. i \in 1 .. Len(s) - a /\ a + i \in 1 .. Len(s)
      BY <1>2, <2>2
    <3>2. QED
      BY <1>1, <1>4, <1>5, <1>6, <1>7, <3>1
  <2>3. QED
    BY <2>1, <2>2
<1> HIDE DEF left, right
<1>9. left = right
  BY <1>5, <1>6, <1>7, <1>8, SeqEqual
<1>10. QED
  BY <1>3, <1>9 DEF left, right

LEMMA SliceOfSlice ==
    ASSUME NEW S, NEW s \in Seq(S), NEW a \in Nat, NEW b \in Nat, a <= b, b <= Len(s),
           NEW j \in Nat, NEW k \in Nat, j <= k, k <= b - a
    PROVE  SubSeq(SubSeq(s, a + 1, b), j + 1, k) = SubSeq(s, (a + j) + 1, a + k)
<1> DEFINE t == SubSeq(s, a + 1, b)
           left == SubSeq(t, j + 1, k)
           right == SubSeq(s, (a + j) + 1, a + k)
<1>1. t \in Seq(S) /\ Len(t) = b - a /\ \A i \in 1 .. b - a : t[i] = s[a + i]
  BY SliceIsSeq
<1>2. /\ left \in Seq(S) /\ Len(left) = k - j
      /\ \A i \in 1 .. k - j : left[i] = t[j + i]
  BY <1>1, SliceIsSeq
<1>3. a + j \in Nat /\ a + k \in Nat /\ a + j <= a + k /\ a + k <= Len(s)
  OBVIOUS
<1>4. /\ right \in Seq(S) /\ Len(right) = (a + k) - (a + j)
      /\ \A i \in 1 .. (a + k) - (a + j) : right[i] = s[(a + j) + i]
  BY <1>3, SliceIsSeq
<1>5. /\ (a + k) - (a + j) = k - j
      /\ \A i \in 1 .. k - j : j + i \in 1 .. b - a /\ a + (j + i) = (a + j) + i
  OBVIOUS
<1>6. \A i \in 1 .. k - j : left[i] = right[i]
  BY <1>1, <1>2, <1>4, <1>5
<1> HIDE DEF left, right
<1>7. left = right
  BY <1>2, <1>4, <1>5, <1>6, SeqEqual
<1>8. QED
  BY <1>7 DEF left, right

(* A slice of a concatenation, and of a sequence with one element changed. *)
LEMMA SliceOfConcat ==
    ASSUME NEW S, NEW s \in Seq(S), NEW z \in Seq(S), NEW a \in Nat, a <= Len(s)
    PROVE  SubSeq(s \o z, a + 1, Len(s) + Len(z)) = SubSeq(s, a + 1, Len(s)) \o z
<1> DEFINE t == s \o z
           n == Len(s) + Len(z)
           left == SubSeq(t, a + 1, n)
           head == SubSeq(s, a + 1, Len(s))
           right == head \o z
<1>1. Len(s) \in Nat /\ Len(z) \in Nat /\ n \in Nat /\ a <= n /\ Len(s) <= n /\ Len(s) <= Len(s)
  OBVIOUS
<1>2. /\ t \in Seq(S) /\ Len(t) = n
      /\ \A i \in 1 .. n : t[i] = IF i <= Len(s) THEN s[i] ELSE z[i - Len(s)]
  BY ConcatProperties
<1>3. left \in Seq(S) /\ Len(left) = n - a /\ \A i \in 1 .. n - a : left[i] = t[a + i]
  <2>1. t \in Seq(S) /\ n \in Nat /\ a \in Nat /\ a <= n /\ n <= Len(t)
    BY <1>1, <1>2
  <2> HIDE DEF t, n
  <2>2. QED
    BY <2>1, SliceIsSeq
<1>4. /\ head \in Seq(S) /\ Len(head) = Len(s) - a
      /\ \A i \in 1 .. Len(s) - a : head[i] = s[a + i]
  BY <1>1, SliceIsSeq
<1>5. /\ right \in Seq(S) /\ Len(right) = (Len(s) - a) + Len(z)
      /\ \A i \in 1 .. (Len(s) - a) + Len(z) :
             right[i] = IF i <= Len(s) - a THEN head[i] ELSE z[i - (Len(s) - a)]
  <2> HIDE DEF head
  <2>1. head \in Seq(S) /\ z \in Seq(S)
    BY <1>4
  <2>2. /\ head \o z \in Seq(S) /\ Len(head \o z) = Len(head) + Len(z)
        /\ \A i \in 1 .. Len(head) + Len(z) :
               (head \o z)[i] = IF i <= Len(head) THEN head[i] ELSE z[i - Len(head)]
    BY <2>1, ConcatProperties
  <2>3. QED
    BY <1>4, <2>2
<1>6. n - a = (Len(s) - a) + Len(z)
  BY <1>1
<1>7. ASSUME NEW i \in 1 .. n - a
      PROVE  left[i] = right[i]
  <2>1. a + i \in 1 .. n /\ i \in 1 .. (Len(s) - a) + Len(z)
    BY <1>1, <1>6
  <2>2. CASE i <= Len(s) - a
    <3>1. a + i <= Len(s) /\ i \in 1 .. Len(s) - a
      BY <1>1, <2>2
    <3>2. QED
      BY <1>2, <1>3, <1>4, <1>5, <2>1, <2>2, <3>1
  <2>3. CASE ~(i <= Len(s) - a)
    <3>1. ~(a + i <= Len(s)) /\ (a + i) - Len(s) = i - (Len(s) - a)
      BY <1>1, <2>3
    <3>2. QED
      BY <1>2, <1>3, <1>5, <2>1, <2>3, <3>1
  <2>4. QED
    BY <2>2, <2>3
<1>8. left = right
  <2> HIDE DEF left, right
  <2>1. QED
    BY <1>3, <1>5, <1>6, <1>7, SeqEqual
<1>9. QED
  BY <1>8 DEF left, right

LEMMA SliceBeforeConcat ==
    ASSUME NEW S, NEW s \in Seq(S), NEW z \in Seq(S), NEW a \in Nat, NEW b \in Nat,
           a <= b, b <= Len(s)
    PROVE  SubSeq(s \o z, a + 1, b) = SubSeq(s, a + 1, b)
<1> DEFINE t == s \o z
           n == Len(s) + Len(z)
<1>1. /\ t \in Seq(S) /\ Len(t) = n
      /\ \A i \in 1 .. n : t[i] = IF i <= Len(s) THEN s[i] ELSE z[i - Len(s)]
  BY ConcatProperties
<1>2. b <= n /\ \A i \in a + 1 .. b : i \in 1 .. n /\ i <= Len(s)
  OBVIOUS
<1>3. b <= Len(t) /\ \A i \in a + 1 .. b : t[i] = s[i]
  BY <1>1, <1>2
<1> HIDE DEF t
<1>4. SubSeq(t, a + 1, b) = SubSeq(s, a + 1, b)
  BY <1>1, <1>3, SliceEqual
<1>5. QED
  BY <1>4 DEF t

LEMMA SliceOfChange ==
    ASSUME NEW S, NEW s \in Seq(S), NEW v \in S, NEW a \in Nat, NEW b \in Nat,
           a <= b, b <= Len(s), NEW i \in 1 .. b - a
    PROVE  LET t == [s EXCEPT ![a + i] = v]
           IN  /\ SubSeq(t, a + 1, b) = [SubSeq(s, a + 1, b) EXCEPT ![i] = v]
               /\ SubSeq(t, b + 1, Len(t)) = SubSeq(s, b + 1, Len(s))
               /\ i \in DOMAIN SubSeq(s, a + 1, b)
<1> DEFINE t == [s EXCEPT ![a + i] = v]
           left == SubSeq(t, a + 1, b)
           old == SubSeq(s, a + 1, b)
           right == [old EXCEPT ![i] = v]
<1>1. t \in Seq(S) /\ Len(t) = Len(s) /\ \A j \in 1 .. Len(s) : t[j] = IF j = a + i THEN v ELSE s[j]
  <2>1. a + i \in 1 .. Len(s)
    OBVIOUS
  <2>2. QED
    BY <2>1, ExceptSeq
<1>2. left \in Seq(S) /\ Len(left) = b - a /\ \A j \in 1 .. b - a : left[j] = t[a + j]
  <2>1. b <= Len(t)
    BY <1>1
  <2> HIDE DEF t
  <2>2. QED
    BY <1>1, <2>1, SliceIsSeq
<1>3. old \in Seq(S) /\ Len(old) = b - a /\ \A j \in 1 .. b - a : old[j] = s[a + j]
  BY SliceIsSeq
<1>4. right \in Seq(S) /\ Len(right) = b - a
      /\ \A j \in 1 .. b - a : right[j] = IF j = i THEN v ELSE old[j]
  <2> HIDE DEF old
  <2>1. QED
    BY <1>3, ExceptSeq
<1>5. \A j \in 1 .. b - a : left[j] = right[j]
  <2>1. \A j \in 1 .. b - a : a + j \in 1 .. Len(s) /\ ((a + j = a + i) = (j = i))
    OBVIOUS
  <2>2. QED
    BY <1>1, <1>2, <1>3, <1>4, <2>1
<1>6. left = right
  <2> HIDE DEF left, right
  <2>1. QED
    BY <1>2, <1>4, <1>5, SeqEqual
<1>7. SubSeq(t, b + 1, Len(t)) = SubSeq(s, b + 1, Len(s))
  <2>1. \A j \in b + 1 .. Len(s) : j \in 1 .. Len(s) /\ j # a + i
    OBVIOUS
  <2>2. \A j \in b + 1 .. Len(s) : t[j] = s[j]
    BY <1>1, <2>1
  <2>3. Len(s) \in Nat /\ Len(s) <= Len(s) /\ Len(s) <= Len(t)
    BY <1>1
  <2> HIDE DEF t
  <2>4. SubSeq(t, b + 1, Len(s)) = SubSeq(s, b + 1, Len(s))
    BY <1>1, <2>2, <2>3, SliceEqual
  <2>5. QED
    BY <1>1, <2>4
<1>8. i \in DOMAIN old
  BY <1>3
<1>9. QED
  BY <1>6, <1>7, <1>8

(* A sequence that agrees with another below its last element. *)
LEMMA TwoMore ==
    ASSUME NEW S, NEW v \in Seq(S), NEW w \in Seq(S), NEW n \in Nat, n > 0,
           Len(v) = n, Len(w) = n + 1, \A d \in 1 .. n - 1 : w[d] = v[d]
    PROVE  w = SubSeq(v, 1, n - 1) \o <<w[n], w[n + 1]>>
<1> DEFINE head == SubSeq(v, 1, n - 1)
           tail == <<w[n], w[n + 1]>>
<1>1. head \in Seq(S) /\ Len(head) = n - 1 /\ \A i \in 1 .. n - 1 : head[i] = v[i]
  <2>1. /\ SubSeq(v, 0 + 1, n - 1) \in Seq(S) /\ Len(SubSeq(v, 0 + 1, n - 1)) = (n - 1) - 0
        /\ \A i \in 1 .. (n - 1) - 0 : SubSeq(v, 0 + 1, n - 1)[i] = v[0 + i]
    BY SliceIsSeq
  <2>2. 0 + 1 = 1 /\ (n - 1) - 0 = n - 1 /\ \A i \in 1 .. n - 1 : 0 + i = i
    OBVIOUS
  <2>3. QED
    BY <2>1, <2>2
<1>2. w[n] \in S /\ w[n + 1] \in S
  <2>1. n \in 1 .. Len(w) /\ n + 1 \in 1 .. Len(w)
    OBVIOUS
  <2>2. QED
    BY <2>1, ElementOfSeq
<1>3. tail \in Seq(S) /\ Len(tail) = 2 /\ tail[1] = w[n] /\ tail[2] = w[n + 1]
  BY <1>2
<1>4. /\ head \o tail \in Seq(S) /\ Len(head \o tail) = (n - 1) + 2
      /\ \A i \in 1 .. (n - 1) + 2 :
             (head \o tail)[i] = IF i <= n - 1 THEN head[i] ELSE tail[i - (n - 1)]
  <2> HIDE DEF head, tail
  <2>1. /\ head \o tail \in Seq(S) /\ Len(head \o tail) = Len(head) + Len(tail)
        /\ \A i \in 1 .. Len(head) + Len(tail) :
               (head \o tail)[i] = IF i <= Len(head) THEN head[i] ELSE tail[i - Len(head)]
    BY <1>1, <1>3, ConcatProperties
  <2>2. QED
    BY <1>1, <1>3, <2>1
<1>5. (n - 1) + 2 = n + 1 /\ n - (n - 1) = 1 /\ (n + 1) - (n - 1) = 2
  OBVIOUS
<1>6. ASSUME NEW i \in 1 .. n + 1
      PROVE  w[i] = (head \o tail)[i]
  <2> HIDE DEF head, tail
  <2>1. CASE i = n
    BY <1>3, <1>4, <1>5, <2>1
  <2>2. CASE i = n + 1
    BY <1>3, <1>4, <1>5, <2>2
  <2>3. CASE i # n /\ i # n + 1
    <3>1. i \in 1 .. n - 1 /\ i <= n - 1
      BY <2>3
    <3>2. QED
      BY <1>1, <1>4, <1>5, <3>1
  <2>4. QED
    BY <2>1, <2>2, <2>3
<1> HIDE DEF head, tail
<1>7. w = head \o tail
  BY <1>4, <1>5, <1>6, SeqEqual
<1>8. QED
  BY <1>7 DEF head, tail

LEMMA OneLess ==
    ASSUME NEW S, NEW v \in Seq(S), NEW w \in Seq(S), NEW n \in Nat, n > 1,
           Len(v) = n, Len(w) = n - 1, \A d \in 1 .. n - 2 : w[d] = v[d]
    PROVE  LET callers == SubSeq(v, 1, n - 1)
           IN  /\ w = [callers EXCEPT ![n - 1] = w[n - 1]]
               /\ Len(callers) = n - 1 /\ callers[n - 1] = v[n - 1]
<1> DEFINE callers == SubSeq(v, 1, n - 1)
           r == [callers EXCEPT ![n - 1] = w[n - 1]]
<1>1. callers \in Seq(S) /\ Len(callers) = n - 1 /\ \A i \in 1 .. n - 1 : callers[i] = v[i]
  <2>1. /\ SubSeq(v, 0 + 1, n - 1) \in Seq(S) /\ Len(SubSeq(v, 0 + 1, n - 1)) = (n - 1) - 0
        /\ \A i \in 1 .. (n - 1) - 0 : SubSeq(v, 0 + 1, n - 1)[i] = v[0 + i]
    BY SliceIsSeq
  <2>2. 0 + 1 = 1 /\ (n - 1) - 0 = n - 1 /\ \A i \in 1 .. n - 1 : 0 + i = i
    OBVIOUS
  <2>3. QED
    BY <2>1, <2>2
<1>2. n - 1 \in 1 .. Len(w) /\ n - 1 \in 1 .. n - 1
  OBVIOUS
<1>3. w[n - 1] \in S
  BY <1>2, ElementOfSeq
<1> HIDE DEF callers
<1>4. /\ r \in Seq(S) /\ Len(r) = n - 1
      /\ \A i \in 1 .. n - 1 : r[i] = IF i = n - 1 THEN w[n - 1] ELSE callers[i]
  BY <1>1, <1>2, <1>3, ExceptSeq
<1>5. ASSUME NEW i \in 1 .. n - 1
      PROVE  w[i] = r[i]
  <2>1. CASE i = n - 1
    BY <1>4, <2>1
  <2>2. CASE i # n - 1
    <3>1. i \in 1 .. n - 2
      BY <2>2
    <3>2. QED
      BY <1>1, <1>4, <2>2, <3>1
  <2>3. QED
    BY <2>1, <2>2
<1> HIDE DEF r
<1>6. w = r
  BY <1>4, <1>5, SeqEqual
<1>7. QED
  BY <1>1, <1>2, <1>6 DEF r, callers

-----------------------------------------------------------------------------

(* Less-than, as a set of pairs. *)
LessThan == {p \in Nat \X Nat : p[1] < p[2]}

LEMMA LessThanIsWellFounded == IsWellFoundedOn(LessThan, Nat)
BY NatLessThanWellFounded DEF OpToRel, LessThan

(* Every non-empty set of naturals has a least element. *)
LEMMA LeastElement ==
    ASSUME NEW T \in SUBSET Nat, T # {}
    PROVE  \E n \in T : \A m \in T : n <= m
<1>1. PICK n \in T : \A m \in T : <<m, n>> \notin LessThan
  BY LessThanIsWellFounded, WFMin
<1>2. \A m, k \in Nat : m < k => <<m, k>> \in LessThan
  BY DEF LessThan
<1>3. \A m \in T : ~(m < n)
  BY <1>1, <1>2
<1>4. QED
  BY <1>3

(* A set that holds 0 and with each natural the next one holds all of them. *)
LEMMA NatSetInduction ==
    ASSUME NEW S, 0 \in S, \A n \in Nat : n \in S => n + 1 \in S
    PROVE  Nat \subseteq S
<1>1. SUFFICES ASSUME Nat \ S # {}
               PROVE  FALSE
  OBVIOUS
<1>2. PICK n \in Nat \ S : \A m \in Nat \ S : n <= m
  BY <1>1, LeastElement
<1>3. n - 1 \in Nat /\ n - 1 \in S
  BY <1>2
<1>4. QED
  BY <1>2, <1>3

(* Each frame starts no higher than the running one. *)
LEMMA BasesIncrease ==
    ASSUME Safe, NEW d \in 1 .. Len(frames)
    PROVE  frames[d].slotBase <= Frame.slotBase
<1> DEFINE n == Len(frames)
           S == {k \in Nat : k < n => frames[n - k].slotBase <= Frame.slotBase}
<1>1. n \in Nat /\ n > 0 /\ StateOK /\ FramesAreContiguous /\ Frame = frames[n]
  BY StackHere DEF Safe, Frame
<1>2. \A k \in Nat : k < n => frames[n - k].slotBase \in Nat
  <2>1. \A k \in Nat : k < n => n - k \in 1 .. Len(frames)
    BY <1>1
  <2>2. QED
    BY <1>1, <2>1, ResumesTyped
<1>3. 0 \in S
  BY <1>1, <1>2, n - 0 = n
<1>4. ASSUME NEW k \in Nat, k \in S
      PROVE  k + 1 \in S
  <2>1. SUFFICES ASSUME k + 1 < n
                 PROVE  frames[n - (k + 1)].slotBase <= Frame.slotBase
    OBVIOUS
  <2> DEFINE e == n - (k + 1)
  <2>2. e \in 1 .. n - 1 /\ e \in 1 .. Len(frames) /\ e # Len(frames) /\ e + 1 = n - k
    BY <1>1, <2>1
  <2>3. height[Resumes(e)] > 0 /\ frames[n - k].slotBase = FrameEnd(e)
    BY <1>1, <2>2 DEF FramesAreContiguous
  <2>4. /\ frames[e].slotBase \in Nat /\ height[Resumes(e)] \in Nat
        /\ Width(chunk, owner[Resumes(e)]) \in Nat
    BY <1>1, <2>2, ResumesTyped
  <2>5. FrameEnd(e) = frames[e].slotBase + Width(chunk, owner[Resumes(e)])
                          + (height[Resumes(e)] - 1)
    BY <2>2 DEF FrameEnd, TempsFrom, Pending
  <2>6. \A b, w, h \in Nat : h > 0 => b <= b + w + (h - 1)
    OBVIOUS
  <2>7. frames[e].slotBase <= frames[n - k].slotBase
    BY <2>3, <2>4, <2>5, <2>6
  <2>8. frames[n - k].slotBase <= Frame.slotBase
    BY <1>4, <2>1, <1>1
  <2>9. frames[n - k].slotBase \in Nat /\ Frame.slotBase \in Nat
    <3>1. n - k \in 1 .. Len(frames)
      BY <1>1, <2>1
    <3>2. QED
      BY <1>1, <3>1, ResumesTyped, StackHere
  <2>10. \A x, y, z \in Nat : x <= y /\ y <= z => x <= z
    OBVIOUS
  <2>11. frames[e].slotBase <= Frame.slotBase
    BY <2>4, <2>7, <2>8, <2>9, <2>10
  <2>12. QED
    BY <2>11
<1>5. Nat \subseteq S
  <2> HIDE DEF S
  <2>1. QED
    BY <1>3, <1>4, NatSetInduction
<1>6. n - d \in Nat /\ n - d < n /\ n - (n - d) = d
  BY <1>1
<1>7. QED
  BY <1>5, <1>6

(* The pieces of a frame lie in order, and those of a caller below the running
   frame. *)
LEMMA Pieces ==
    ASSUME Safe, NEW d \in 1 .. Len(frames)
    PROVE  /\ frames[d].slotBase \in Nat /\ TempsFrom(d) \in Nat /\ FrameEnd(d) \in Nat
           /\ frames[d].slotBase <= TempsFrom(d) /\ TempsFrom(d) <= FrameEnd(d)
           /\ FrameEnd(d) <= Len(stack)
           /\ d # Len(frames) => FrameEnd(d) <= Frame.slotBase
<1> DEFINE n == Len(frames)
<1>1. StateOK /\ FramesAreContiguous
  BY DEF Safe
<1>2. /\ frames[d].slotBase \in Nat /\ height[Resumes(d)] \in Nat
      /\ Width(chunk, owner[Resumes(d)]) \in Nat
  BY <1>1, ResumesTyped
<1>3. /\ n \in Nat /\ Len(stack) \in Nat /\ Frame.slotBase \in Nat /\ height[ip] \in Nat
      /\ Width(chunk, owner[ip]) \in Nat
      /\ Len(stack) = Frame.slotBase + Width(chunk, owner[ip]) + height[ip]
  BY StackHere
<1>4. Pending(d) \in Nat
  <2>1. CASE d = n
    BY <1>3, <2>1 DEF Pending
  <2>2. CASE d # n
    <3>1. d \in 1 .. n - 1
      BY <1>3, <2>2
    <3>2. height[Resumes(d)] > 0
      BY <1>1, <3>1 DEF FramesAreContiguous
    <3>3. QED
      BY <1>2, <2>2, <3>2 DEF Pending
  <2>3. QED
    BY <2>1, <2>2
<1>5. TempsFrom(d) = frames[d].slotBase + Width(chunk, owner[Resumes(d)])
  BY DEF TempsFrom
<1>6. FrameEnd(d) = TempsFrom(d) + Pending(d)
  BY DEF FrameEnd
<1>7. d # n => FrameEnd(d) <= Frame.slotBase
  <2>1. SUFFICES ASSUME d # n
                 PROVE  FrameEnd(d) <= Frame.slotBase
    OBVIOUS
  <2>2. d \in 1 .. n - 1 /\ d + 1 \in 1 .. Len(frames)
    BY <1>3, <2>1
  <2>3. frames[d + 1].slotBase = FrameEnd(d)
    BY <1>1, <2>2 DEF FramesAreContiguous
  <2>4. QED
    BY <2>2, <2>3, BasesIncrease
<1>8. d = n => FrameEnd(d) = Len(stack)
  BY <1>1 DEF FramesAreContiguous
<1>9. \A b, w, p \in Nat : b + w \in Nat /\ b + w + p \in Nat /\ b <= b + w /\ b + w <= b + w + p
  OBVIOUS
<1>10. /\ TempsFrom(d) \in Nat /\ FrameEnd(d) \in Nat
       /\ frames[d].slotBase <= TempsFrom(d) /\ TempsFrom(d) <= FrameEnd(d)
  BY <1>2, <1>4, <1>5, <1>6, <1>9
<1>11. Frame.slotBase <= Len(stack)
  BY <1>3
<1>12. \A x, y, z \in Nat : x <= y /\ y <= z => x <= z
  OBVIOUS
<1>13. FrameEnd(d) <= Len(stack)
  <2>1. CASE d = n
    BY <1>8, <1>3, <2>1
  <2>2. CASE d # n
    BY <1>3, <1>7, <1>10, <1>11, <1>12, <2>2
  <2>3. QED
    BY <2>1, <2>2
<1>14. QED
  BY <1>2, <1>7, <1>10, <1>13

LEMMA ViewsAreViews ==
    Safe => /\ views \in Seq(View)
            /\ Len(views) = Len(frames)
            /\ \A d \in 1 .. Len(frames) : views[d] = CallAt(d)
<1> SUFFICES ASSUME Safe
             PROVE  /\ views \in Seq(View)
                      /\ Len(views) = Len(frames)
                      /\ \A d \in 1 .. Len(frames) : views[d] = CallAt(d)
  OBVIOUS
<1>1. Len(frames) \in Nat /\ DOMAIN frames = 1 .. Len(frames)
  <2>1. frames \in Seq(FrameEntry)
    BY DEF Safe, StateOK
  <2>2. QED
    BY <2>1, LenProperties
<1>2. stack \in Seq(Value)
  BY DEF Safe, StateOK
<1>3. ASSUME NEW d \in 1 .. Len(frames)
      PROVE  CallAt(d) \in View
  <2>1. /\ frames[d].slotBase \in Nat /\ TempsFrom(d) \in Nat /\ FrameEnd(d) \in Nat
        /\ frames[d].slotBase <= TempsFrom(d) /\ TempsFrom(d) <= FrameEnd(d)
        /\ FrameEnd(d) <= Len(stack)
    BY Pieces
  <2>2. TempsFrom(d) <= Len(stack)
    BY <2>1, StackHere
  <2>3. SubSeq(stack, frames[d].slotBase + 1, TempsFrom(d)) \in Seq(Value)
    BY <1>2, <2>1, <2>2, SliceIsSeq
  <2>4. SubSeq(stack, TempsFrom(d) + 1, FrameEnd(d)) \in Seq(Value)
    BY <1>2, <2>1, SliceIsSeq
  <2>5. QED
    BY <2>3, <2>4 DEF CallAt, View
<1>4. views \in [1 .. Len(frames) -> View]
  BY <1>1, <1>3 DEF views
<1>5. QED
  BY <1>1, <1>4 DEF views

-----------------------------------------------------------------------------

(* Where the running call's variables end on the stack. *)
Boundary == Frame.slotBase + Width(chunk, owner[ip])

(* The running call, as the abstract machine names its parts. *)
LEMMA TheRunningCall ==
    Safe => /\ views \in Seq(View) /\ Len(views) = Len(frames) /\ Len(views) \in Nat
            /\ Len(views) > 0
            /\ Separate!Innermost = views[Len(views)]
            /\ Separate!Innermost = [locals |-> SubSeq(stack, Frame.slotBase + 1, Boundary),
                                     temps |-> SubSeq(stack, Boundary + 1, Len(stack))]
            /\ Separate!Callers = SubSeq(views, 1, Len(views) - 1)
            /\ Separate!Temps = SubSeq(stack, Boundary + 1, Len(stack))
            /\ Boundary \in Nat /\ Frame.slotBase <= Boundary /\ Boundary <= Len(stack)
            /\ Len(stack) = Boundary + height[ip]
<1> SUFFICES ASSUME Safe
               PROVE  /\ views \in Seq(View) /\ Len(views) = Len(frames) /\ Len(views) \in Nat
                      /\ Len(views) > 0
                      /\ Separate!Innermost = views[Len(views)]
                      /\ Separate!Innermost = [locals |-> SubSeq(stack, Frame.slotBase + 1, Boundary),
                                               temps |-> SubSeq(stack, Boundary + 1, Len(stack))]
                      /\ Separate!Callers = SubSeq(views, 1, Len(views) - 1)
                      /\ Separate!Temps = SubSeq(stack, Boundary + 1, Len(stack))
                      /\ Boundary \in Nat /\ Frame.slotBase <= Boundary /\ Boundary <= Len(stack)
                      /\ Len(stack) = Boundary + height[ip]
  OBVIOUS
<1>1. views \in Seq(View) /\ Len(views) = Len(frames) /\ Len(views) \in Nat /\ Len(views) > 0
  BY ViewsAreViews, StackHere
<1>2. Separate!Innermost = views[Len(views)]
  BY DEF Separate!Innermost, views
<1>3. Separate!Callers = SubSeq(views, 1, Len(views) - 1)
  BY DEF Separate!Callers, views
<1>4. views[Len(views)] = CallAt(Len(frames))
  BY <1>1, ViewsAreViews
<1>5. /\ frames[Len(frames)].slotBase = Frame.slotBase
      /\ TempsFrom(Len(frames)) = Boundary
      /\ FrameEnd(Len(frames)) = Len(stack)
  BY DEF Safe, Frame, TempsFrom, Resumes, Boundary, FramesAreContiguous
<1>6. Separate!Innermost = [locals |-> SubSeq(stack, Frame.slotBase + 1, Boundary),
                            temps |-> SubSeq(stack, Boundary + 1, Len(stack))]
  BY <1>2, <1>4, <1>5 DEF CallAt
<1>7. Separate!Temps = SubSeq(stack, Boundary + 1, Len(stack))
  BY <1>6 DEF Separate!Temps
<1>8. /\ Boundary \in Nat /\ Frame.slotBase <= Boundary /\ Boundary <= Len(stack)
      /\ Len(stack) = Boundary + height[ip]
  BY StackHere DEF Boundary
<1>9. QED
  BY <1>1, <1>2, <1>3, <1>6, <1>7, <1>8

(* A caller's piece of the stack stays as it is while the frames up to the one
   it called, and the stack below the running frame, do. *)
LEMMA CallerStays ==
    ASSUME Safe, chunk' = chunk, stack' \in Seq(Value), Untouched,
           NEW d \in 1 .. Len(frames), d # Len(frames), d # Len(frames'),
           frames'[d] = frames[d], frames'[d + 1] = frames[d + 1]
    PROVE  CallAt(d)' = CallAt(d)
<1>1. height' = height /\ owner' = owner
  BY DEF height, owner
<1>2. Resumes(d)' = Resumes(d)
  BY DEF Resumes
<1>3. Pending(d)' = Pending(d)
  BY <1>1, <1>2 DEF Pending
<1>4. TempsFrom(d)' = TempsFrom(d)
  BY <1>1, <1>2 DEF TempsFrom, Width
<1>5. FrameEnd(d)' = FrameEnd(d)
  BY <1>3, <1>4 DEF FrameEnd
<1>6. /\ frames[d].slotBase \in Nat /\ TempsFrom(d) \in Nat /\ FrameEnd(d) \in Nat
      /\ frames[d].slotBase <= TempsFrom(d) /\ TempsFrom(d) <= FrameEnd(d)
      /\ FrameEnd(d) <= Frame.slotBase
  BY Pieces
<1>7. /\ stack \in Seq(Value) /\ Len(stack) \in Nat /\ Len(stack') \in Nat
      /\ Frame.slotBase \in Nat /\ Frame.slotBase <= Len(stack)
      /\ Frame.slotBase <= Len(stack')
  <2>1. stack \in Seq(Value) /\ Len(stack) \in Nat /\ Len(stack') \in Nat
    BY LenProperties DEF Safe, StateOK
  <2>2. \A b, w, h \in Nat : b <= b + w + h
    OBVIOUS
  <2>3. Frame.slotBase \in Nat /\ Frame.slotBase <= Len(stack)
    BY <2>2, StackHere
  <2>4. QED
    BY <2>1, <2>3 DEF Untouched
<1>8. \A i \in 1 .. Frame.slotBase : stack[i] = stack'[i]
  BY DEF Untouched
<1>9. ASSUME NEW a \in Nat, NEW b \in Nat, a <= b, b <= Frame.slotBase
      PROVE  SubSeq(stack', a + 1, b) = SubSeq(stack, a + 1, b)
  <2>1. b <= Len(stack) /\ b <= Len(stack')
    <3>1. \A x, y, z \in Nat : x <= y /\ y <= z => x <= z
      OBVIOUS
    <3>2. QED
      BY <1>7, <1>9, <3>1
  <2>2. \A i \in a + 1 .. b : i \in 1 .. Frame.slotBase
    BY <1>7, <1>9
  <2>3. \A i \in a + 1 .. b : stack'[i] = stack[i]
    BY <1>8, <2>2
  <2>4. stack \in Seq(Value) /\ stack' \in Seq(Value)
    BY <1>7
  <2>5. QED
    BY <1>9, <2>1, <2>3, <2>4, SliceEqual
<1>10. TempsFrom(d) <= Frame.slotBase
  BY <1>6, <1>7
<1>11. /\ SubSeq(stack', frames[d].slotBase + 1, TempsFrom(d))
              = SubSeq(stack, frames[d].slotBase + 1, TempsFrom(d))
       /\ SubSeq(stack', TempsFrom(d) + 1, FrameEnd(d))
              = SubSeq(stack, TempsFrom(d) + 1, FrameEnd(d))
  BY <1>6, <1>9, <1>10
<1>12. QED
  BY <1>4, <1>5, <1>11 DEF CallAt

(* A step that stays in its frame and below its limits changes the innermost
   call alone. *)
LEMMA OnlyTheRunningCall ==
    ASSUME Safe, Safe', chunk' = chunk, frames' = frames, Untouched,
           owner[ip'] = owner[ip]
    PROVE  /\ views' = Append(Separate!Callers,
                              [locals |-> SubSeq(stack', Frame.slotBase + 1, Boundary),
                               temps |-> SubSeq(stack', Boundary + 1, Len(stack'))])
           /\ Boundary <= Len(stack')
           /\ stack' \in Seq(Value)
           /\ Len(stack') = Boundary + height[ip']
<1> DEFINE n == Len(frames)
           last == [locals |-> SubSeq(stack', Frame.slotBase + 1, Boundary),
                    temps |-> SubSeq(stack', Boundary + 1, Len(stack'))]
<1>1. /\ views \in Seq(View) /\ Len(views) = n /\ n \in Nat /\ n > 0
      /\ \A d \in 1 .. n : views[d] = CallAt(d)
      /\ Separate!Callers = SubSeq(views, 1, n - 1)
  BY ViewsAreViews, TheRunningCall
<1>2. /\ views' \in Seq(View) /\ Len(views') = n
      /\ \A d \in 1 .. n : views'[d] = CallAt(d)'
  <2>1. (Safe => /\ views \in Seq(View)
                 /\ Len(views) = Len(frames)
                 /\ \A d \in 1 .. Len(frames) : views[d] = CallAt(d))'
    BY ViewsAreViews, PTL
  <2>2. View' = View
    BY DEF View, Value, MinInt
  <2>3. QED
    BY <2>1, <2>2
<1>3. stack' \in Seq(Value)
  BY DEF Safe, StateOK
<1>4. height' = height /\ owner' = owner
  BY DEF height, owner
<1>5. Frame' = Frame /\ Boundary' = Boundary
  BY <1>4 DEF Frame, Boundary, Width
<1>6. Boundary <= Len(stack') /\ Len(stack') = Boundary + height[ip'] /\ views'[n] = last
  <2>0. Safe => /\ Separate!Innermost = views[Len(views)]
                /\ Separate!Innermost = [locals |-> SubSeq(stack, Frame.slotBase + 1, Boundary),
                                         temps |-> SubSeq(stack, Boundary + 1, Len(stack))]
                /\ Boundary <= Len(stack) /\ Len(stack) = Boundary + height[ip]
    BY TheRunningCall
  <2>1. (Safe => /\ Separate!Innermost = views[Len(views)]
                 /\ Separate!Innermost = [locals |-> SubSeq(stack, Frame.slotBase + 1, Boundary),
                                          temps |-> SubSeq(stack, Boundary + 1, Len(stack))]
                 /\ Boundary <= Len(stack) /\ Len(stack) = Boundary + height[ip])'
    BY TheRunningCall, PTL
  <2>2. QED
    BY <1>2, <1>4, <1>5, <2>1
<1>7. ASSUME NEW d \in 1 .. n - 1
      PROVE  views'[d] = views[d]
  <2>1. d \in 1 .. Len(frames) /\ d # Len(frames)
    BY <1>1
  <2>2. CallAt(d)' = CallAt(d)
    BY <1>3, <2>1, CallerStays
  <2>3. QED
    BY <1>1, <1>2, <2>1, <2>2
<1>8. SubSeq(views, 1, n - 1) \in Seq(View) /\ Len(SubSeq(views, 1, n - 1)) = n - 1
      /\ \A d \in 1 .. n - 1 : SubSeq(views, 1, n - 1)[d] = views[d]
  <2>1. n - 1 \in Nat /\ 0 <= n - 1 /\ n - 1 <= Len(views) /\ 0 \in Nat
    BY <1>1
  <2>2. /\ SubSeq(views, 0 + 1, n - 1) \in Seq(View)
        /\ Len(SubSeq(views, 0 + 1, n - 1)) = (n - 1) - 0
        /\ \A i \in 1 .. (n - 1) - 0 : SubSeq(views, 0 + 1, n - 1)[i] = views[0 + i]
    BY <1>1, <2>1, SliceIsSeq
  <2>3. 0 + 1 = 1 /\ (n - 1) - 0 = n - 1 /\ \A i \in 1 .. n - 1 : 0 + i = i
    BY <1>1
  <2>4. QED
    BY <2>2, <2>3
<1>9. n \in 1 .. n /\ last \in View
  <2>1. n \in 1 .. Len(views')
    BY <1>1, <1>2
  <2>2. QED
    BY <1>2, <1>6, <2>1, ElementOfSeq
<1>10. views' = Append(SubSeq(views, 1, n - 1), last)
  <2> DEFINE r == Append(SubSeq(views, 1, n - 1), last)
  <2>1. /\ r \in Seq(View) /\ Len(r) = (n - 1) + 1
        /\ \A d \in 1 .. n - 1 : r[d] = SubSeq(views, 1, n - 1)[d]
        /\ r[(n - 1) + 1] = last
    BY <1>8, <1>9, AppendProperties
  <2>2. (n - 1) + 1 = n /\ \A d \in 1 .. n : d = n \/ d \in 1 .. n - 1
    BY <1>1
  <2>3. Len(r) = Len(views') /\ r[n] = last
    BY <1>2, <2>1, <2>2
  <2>4. \A d \in 1 .. n : r[d] = views'[d]
    BY <1>6, <1>7, <1>8, <2>1, <2>2, <2>3
  <2> HIDE DEF r
  <2>5. r = views'
    BY <1>2, <2>1, <2>3, <2>4, SeqEqual
  <2>6. QED
    BY <2>5 DEF r
<1>11. QED
  BY <1>1, <1>3, <1>6, <1>10

-----------------------------------------------------------------------------

(* Taking the last n of the h elements of s after position t off its end, and
   putting one there, does the same to the slice of those h elements and nothing
   to the one before it. *)
EndsAlike(S, s, b, t, h, n) ==
    LET temps == SubSeq(s, t + 1, Len(s))
        popped == SubSeq(s, 1, Len(s) - n)
        kept == SubSeq(temps, 1, Len(temps) - n)
    IN  /\ temps \in Seq(S) /\ Len(temps) = h /\ n \in 0 .. Len(temps)
        /\ kept = SubSeq(s, t + 1, Len(s) - n)
        /\ SubSeq(temps, Len(temps) - n + 1, Len(temps)) = SubSeq(s, Len(s) - n + 1, Len(s))
        /\ n > 0 => temps # <<>> /\ temps[Len(temps)] = s[Len(s)]
        /\ SubSeq(popped, b + 1, t) = SubSeq(s, b + 1, t)
        /\ SubSeq(popped, t + 1, Len(popped)) = kept
        /\ \A v \in S :
               /\ SubSeq(Append(popped, v), b + 1, t) = SubSeq(s, b + 1, t)
               /\ SubSeq(Append(popped, v), t + 1, Len(Append(popped, v))) = Append(kept, v)

LEMMA EndOfSlice ==
    ASSUME NEW S, NEW s \in Seq(S), NEW b \in Nat, NEW t \in Nat, NEW h \in Nat, NEW n \in Nat,
           b <= t, Len(s) = t + h, n <= h
    PROVE  EndsAlike(S, s, b, t, h, n)
<1> DEFINE m == Len(s) - n
           temps == SubSeq(s, t + 1, Len(s))
           popped == SubSeq(s, 1, m)
           kept == SubSeq(temps, 1, Len(temps) - n)
<1>1. /\ m \in Nat /\ t <= m /\ m <= Len(s) /\ b <= m /\ m = t + (h - n) /\ h - n \in Nat
      /\ Len(s) \in Nat /\ t <= Len(s) /\ Len(s) - t = h /\ n \in 0 .. h /\ h - n <= h
  OBVIOUS
<1>2. temps \in Seq(S) /\ Len(temps) = h /\ \A i \in 1 .. h : temps[i] = s[t + i]
  <2>1. /\ SubSeq(s, t + 1, Len(s)) \in Seq(S)
        /\ Len(SubSeq(s, t + 1, Len(s))) = Len(s) - t
        /\ \A i \in 1 .. Len(s) - t : SubSeq(s, t + 1, Len(s))[i] = s[t + i]
    BY <1>1, SliceIsSeq
  <2>2. QED
    BY <1>1, <2>1
<1>3. ASSUME NEW j \in Nat, NEW k \in Nat, j <= k, k <= h
      PROVE  SubSeq(temps, j + 1, k) = SubSeq(s, (t + j) + 1, t + k)
  <2>1. k <= Len(s) - t /\ Len(s) <= Len(s)
    BY <1>1, <1>3
  <2>2. QED
    BY <1>1, <1>3, <2>1, SliceOfSlice
<1>4. kept = SubSeq(s, t + 1, m)
  <2>1. 0 <= h - n /\ t + 0 = t /\ 0 + 1 = 1 /\ 0 \in Nat
    BY <1>1
  <2>2. SubSeq(temps, 0 + 1, h - n) = SubSeq(s, (t + 0) + 1, t + (h - n))
    BY <1>1, <1>3, <2>1
  <2>3. QED
    BY <1>1, <1>2, <2>1, <2>2
<1>5. SubSeq(temps, Len(temps) - n + 1, Len(temps)) = SubSeq(s, Len(s) - n + 1, Len(s))
  <2>1. SubSeq(temps, (h - n) + 1, h) = SubSeq(s, (t + (h - n)) + 1, t + h)
    BY <1>1, <1>3
  <2>2. QED
    BY <1>1, <1>2, <2>1
<1>6. ASSUME n > 0
      PROVE  temps # <<>> /\ temps[Len(temps)] = s[Len(s)]
  <2>1. h \in 1 .. h /\ h # 0
    BY <1>6
  <2>2. QED
    BY <1>2, <2>1
<1>7. popped \in Seq(S) /\ Len(popped) = m
  <2>1. /\ SubSeq(s, 0 + 1, m) \in Seq(S) /\ Len(SubSeq(s, 0 + 1, m)) = m - 0
    BY <1>1, SliceIsSeq
  <2>2. QED
    BY <1>1, <2>1
<1>8. SubSeq(popped, b + 1, t) = SubSeq(s, b + 1, t)
  BY <1>1, SliceOfPrefix
<1>9. SubSeq(popped, t + 1, m) = SubSeq(s, t + 1, m)
  <2>1. m <= m
    BY <1>1
  <2>2. QED
    BY <1>1, <2>1, SliceOfPrefix
<1>10. ASSUME NEW v \in S
       PROVE  /\ SubSeq(Append(popped, v), b + 1, t) = SubSeq(s, b + 1, t)
              /\ SubSeq(Append(popped, v), t + 1, Len(Append(popped, v))) = Append(kept, v)
  <2>1. Len(Append(popped, v)) = m + 1
    BY <1>7, AppendProperties
  <2> HIDE DEF popped, kept
  <2>2. b <= Len(popped) /\ t <= Len(popped)
    BY <1>1, <1>7
  <2>3. SubSeq(Append(popped, v), b + 1, t) = SubSeq(popped, b + 1, t)
    BY <1>7, <2>2, SliceOfAppend
  <2>4. SubSeq(Append(popped, v), t + 1, Len(popped) + 1)
            = Append(SubSeq(popped, t + 1, Len(popped)), v)
    BY <1>7, <2>2, SliceOfAppend
  <2>5. QED
    BY <1>4, <1>7, <1>8, <1>9, <2>1, <2>3, <2>4
<1>11. QED
  BY <1>1, <1>2, <1>4, <1>5, <1>6, <1>7, <1>8, <1>9, <1>10 DEF EndsAlike

(* The last temporaries of the running call are the top of the stack, and what
   an instruction that takes n of them leaves of the call. *)
LEMMA Temporaries ==
    ASSUME Safe, NEW n \in Nat, n <= height[ip]
    PROVE  /\ Len(Separate!Temps) = height[ip] /\ n \in 0 .. Len(Separate!Temps)
           /\ Separate!Kept(n) = SubSeq(stack, Boundary + 1, Len(stack) - n)
           /\ Separate!LastTemps(n) = SubSeq(stack, Len(stack) - n + 1, Len(stack))
           /\ n > 0 => /\ Separate!Temps # <<>>
                       /\ Separate!Temps[Len(Separate!Temps)] = Top
           /\ SubSeq(Popped(n), Frame.slotBase + 1, Boundary)
                  = Separate!Innermost.locals
           /\ SubSeq(Popped(n), Boundary + 1, Len(Popped(n))) = Separate!Kept(n)
           /\ \A v \in Value :
                  /\ SubSeq(Append(Popped(n), v), Frame.slotBase + 1, Boundary)
                         = Separate!Innermost.locals
                  /\ SubSeq(Append(Popped(n), v), Boundary + 1, Len(Append(Popped(n), v)))
                         = Append(Separate!Kept(n), v)
<1>1. /\ Boundary \in Nat /\ Frame.slotBase <= Boundary
      /\ Len(stack) = Boundary + height[ip]
      /\ Separate!Temps = SubSeq(stack, Boundary + 1, Len(stack))
      /\ Separate!Innermost.locals = SubSeq(stack, Frame.slotBase + 1, Boundary)
  BY TheRunningCall
<1>2. stack \in Seq(Value) /\ height[ip] \in Nat /\ Frame.slotBase \in Nat
  BY StackHere DEF Safe, StateOK
<1>3. EndsAlike(Value, stack, Frame.slotBase, Boundary, height[ip], n)
  BY <1>1, <1>2, EndOfSlice
<1>4. QED
  BY <1>1, <1>3 DEF EndsAlike, Separate!Kept, Separate!LastTemps, Popped, Top

-----------------------------------------------------------------------------

(* The running call as a record of its two parts. *)
LEMMA WithTemps ==
    ASSUME Safe
    PROVE  /\ Separate!Innermost = [locals |-> Separate!Innermost.locals,
                                    temps |-> Separate!Innermost.temps]
           /\ \A t : [Separate!Innermost EXCEPT !.temps = t]
                         = [locals |-> Separate!Innermost.locals, temps |-> t]
<1>1. Separate!Innermost = [locals |-> SubSeq(stack, Frame.slotBase + 1, Boundary),
                            temps |-> SubSeq(stack, Boundary + 1, Len(stack))]
  BY TheRunningCall
<1>2. \A r, t : r = [locals |-> r.locals, temps |-> r.temps] =>
                    [r EXCEPT !.temps = t] = [locals |-> r.locals, temps |-> t]
  OBVIOUS
<1>3. Separate!Innermost = [locals |-> Separate!Innermost.locals,
                            temps |-> Separate!Innermost.temps]
  BY <1>1
<1>4. QED
  BY <1>2, <1>3

(* Leaving `run` changes no call. *)
LEMMA Stops ==
    ASSUME Safe, verdict = Running, verdict' # Running,
           UNCHANGED <<chunk, stack, frames, ip, out>>
    PROVE  Separate!Next
<1>1. height' = height /\ owner' = owner
  BY DEF height, owner
<1>2. \A d \in DOMAIN frames : CallAt(d)' = CallAt(d)
  BY <1>1 DEF CallAt, TempsFrom, FrameEnd, Pending, Resumes, Width
<1>3. [d \in DOMAIN frames |-> CallAt(d)]' = [d \in DOMAIN frames |-> CallAt(d)]
  BY <1>2
<1>4. QED
  BY <1>3 DEF Separate!Next, Separate!Stop

LEMMA FaultStops ==
    ASSUME Safe, verdict = Running, NEW message, Fault(message)
    PROVE  Separate!Next
<1>1. verdict' # Running /\ UNCHANGED <<chunk, stack, frames, ip, out>>
  BY DEF Fault, RuntimeFault, Verdict, Running
<1>2. QED
  BY <1>1, Stops

(* An instruction of the running frame that pops, or pops and pushes, computes. *)
LEMMA Computes ==
    ASSUME Safe, Safe', verdict = Running, Untouched,
           UNCHANGED <<chunk, frames, out, verdict>>, owner[ip'] = owner[ip],
           NEW n \in Nat, n <= height[ip],
           \/ stack' = Popped(n)
           \/ \E v \in Value : stack' = Append(Popped(n), v)
    PROVE  Separate!Next
<1> DEFINE next == [locals |-> SubSeq(stack', Frame.slotBase + 1, Boundary),
                    temps |-> SubSeq(stack', Boundary + 1, Len(stack'))]
<1>1. views' = Append(Separate!Callers, next)
  BY OnlyTheRunningCall
<1>2. n \in 0 .. Len(Separate!Temps)
  BY Temporaries
<1>3. \A t : [Separate!Innermost EXCEPT !.temps = t]
                 = [locals |-> Separate!Innermost.locals, temps |-> t]
  BY WithTemps
<1>4. verdict = Running /\ out' = out /\ (verdict = Running)' = (verdict = Running)
  OBVIOUS
<1>5. CASE stack' = Popped(n)
  <2>1. next = [Separate!Innermost EXCEPT !.temps = Separate!Kept(n)]
    BY <1>3, <1>5, Temporaries
  <2>2. views' = Append(Separate!Callers, [Separate!Innermost EXCEPT !.temps = Separate!Kept(n)])
    BY <1>1, <2>1
  <2>3. Separate!Compute
    BY <1>2, <1>4, <2>2 DEF Separate!Compute, views
  <2>4. QED
    BY <1>4, <2>3 DEF Separate!Next
<1>6. CASE \E v \in Value : stack' = Append(Popped(n), v)
  <2>1. PICK v \in Value : stack' = Append(Popped(n), v)
    BY <1>6
  <2>2. next = [Separate!Innermost EXCEPT !.temps = Append(Separate!Kept(n), v)]
    BY <1>3, <2>1, Temporaries
  <2>3. v \in Separate!Value
    BY DEF Separate!Value, Value, MinInt, Separate!MinInt
  <2>4. views' = Append(Separate!Callers,
                        [Separate!Innermost EXCEPT !.temps = Append(Separate!Kept(n), v)])
    BY <1>1, <2>2
  <2>5. Separate!Compute
    BY <1>2, <1>4, <2>3, <2>4 DEF Separate!Compute, views
  <2>6. QED
    BY <1>4, <2>5 DEF Separate!Next
<1>7. QED
  BY <1>5, <1>6

(* The instruction after one that falls through, or where one jumps, belongs to
   the same call. *)
LEMMA SameOwner ==
    ASSUME Safe
    PROVE  /\ Op \notin Ends => owner[Following] = owner[ip]
           /\ Op \in {OpCode.JUMP, OpCode.JUMP_IF_FALSE} => owner[Operand] = owner[ip]
BY RuleHere DEF Flows

LEMMA YieldComputes ==
    ASSUME Safe, Safe', Untouched, verdict = Running, Op \notin Ends,
           NEW n \in Nat, n <= height[ip], NEW after, Yield(after),
           \/ after = Popped(n)
           \/ \E v \in Value : after = Append(Popped(n), v)
    PROVE  Separate!Next
<1>1. UNCHANGED <<chunk, frames, out, verdict>> /\ stack' = after /\ ip' = Following
  BY DEF Yield
<1>2. owner[ip'] = owner[ip]
  BY <1>1, SameOwner
<1>3. \/ stack' = Popped(n)
      \/ \E v \in Value : stack' = Append(Popped(n), v)
  BY <1>1
<1>4. QED
  BY <1>1, <1>2, <1>3, Computes

LEMMA NothingPopped ==
    ASSUME Safe
    PROVE  Popped(0) = stack /\ 0 \in Nat /\ 0 <= height[ip]
<1>1. stack \in Seq(Value) /\ Len(stack) - 0 = Len(stack)
  BY StackHere DEF Safe, StateOK
<1>2. 0 \in Nat /\ 0 <= height[ip]
  BY StackHere
<1>3. /\ Popped(0) \in Seq(Value) /\ Len(Popped(0)) = Len(stack) - 0
      /\ \A i \in 1 .. Len(stack) - 0 : Popped(0)[i] = stack[i]
  BY <1>2, PoppedFacts
<1>4. QED
  BY <1>1, <1>2, <1>3, SeqEqual

LEMMA PushComputes ==
    ASSUME Safe, Safe', Untouched, verdict = Running, Op \notin Ends,
           NEW value \in Value, Push(value)
    PROVE  Separate!Next
<1>1. CASE Full
  <2>1. Fault(<<"operand stack exhausted">>)
    BY <1>1 DEF Push
  <2>2. QED
    BY <2>1, FaultStops
<1>2. CASE ~Full
  <2>1. Yield(Append(stack, value))
    BY <1>2 DEF Push
  <2>2. Append(stack, value) = Append(Popped(0), value)
    BY NothingPopped
  <2>3. QED
    BY <2>1, <2>2, NothingPopped, YieldComputes
<1>3. QED
  BY <1>1, <1>2

LEMMA ReplaceComputes ==
    ASSUME Safe, Safe', Untouched, verdict = Running, Op \notin Ends,
           NEW n \in Nat, n <= height[ip], NEW value \in Value, Replace(n, value)
    PROVE  Separate!Next
BY YieldComputes DEF Replace

(* STORE_LOCAL moves the last temporary into a variable of its own call. *)
LEMMA StoreAssigns ==
    ASSUME Safe, Safe', Untouched, StoreLocal
    PROVE  Separate!Next
<1> DEFINE slot == Operand + 1
           next == [locals |-> SubSeq(stack', Frame.slotBase + 1, Boundary),
                    temps |-> SubSeq(stack', Boundary + 1, Len(stack'))]
<1>1. /\ Op = OpCode.STORE_LOCAL /\ verdict = Running
      /\ UNCHANGED <<chunk, frames, out, verdict>> /\ ip' = Following
      /\ stack' = [Popped(1) EXCEPT ![Frame.slotBase + Operand + 1] = Top]
  BY DEF StoreLocal, Executing, Yield
<1>2. 1 \in Nat /\ 1 <= height[ip] /\ Op \notin Ends
  BY <1>1, RuleHere, Effects
<1>3. Operand \in Nat /\ Operand < Width(chunk, owner[ip])
  BY <1>1, RuleHere DEF HasOperand
<1>4. owner[ip'] = owner[ip]
  BY <1>1, <1>2, SameOwner
<1>5. views' = Append(Separate!Callers, next)
  BY <1>1, <1>4, OnlyTheRunningCall
<1>6. /\ Popped(1) \in Seq(Value) /\ Len(Popped(1)) = Len(stack) - 1
      /\ Boundary <= Len(Popped(1))
  BY <1>2, PoppedFacts DEF Boundary
<1>7. Top \in Value
  BY <1>2, TemporariesAreValues
<1>8. /\ Frame.slotBase \in Nat /\ Boundary \in Nat /\ Frame.slotBase <= Boundary
      /\ Frame.slotBase + Operand + 1 = Frame.slotBase + slot
      /\ slot \in 1 .. Boundary - Frame.slotBase
  <2>1. Frame.slotBase \in Nat /\ Width(chunk, owner[ip]) \in Nat
    BY StackHere
  <2>2. \A b, w, o \in Nat : o < w => /\ b + w \in Nat /\ b <= b + w /\ b + o + 1 = b + (o + 1)
                                      /\ o + 1 \in 1 .. (b + w) - b
    OBVIOUS
  <2>3. QED
    BY <1>3, <2>1, <2>2 DEF Boundary
<1>9. LET t == [Popped(1) EXCEPT ![Frame.slotBase + slot] = Top]
      IN  /\ SubSeq(t, Frame.slotBase + 1, Boundary)
                 = [SubSeq(Popped(1), Frame.slotBase + 1, Boundary) EXCEPT ![slot] = Top]
          /\ SubSeq(t, Boundary + 1, Len(t)) = SubSeq(Popped(1), Boundary + 1, Len(Popped(1)))
          /\ slot \in DOMAIN SubSeq(Popped(1), Frame.slotBase + 1, Boundary)
  <2> HIDE DEF slot
  <2>1. QED
    BY <1>6, <1>7, <1>8, SliceOfChange
<1>10. /\ SubSeq(Popped(1), Frame.slotBase + 1, Boundary) = Separate!Innermost.locals
       /\ SubSeq(Popped(1), Boundary + 1, Len(Popped(1))) = Separate!Kept(1)
       /\ Separate!Temps # <<>> /\ Separate!Temps[Len(Separate!Temps)] = Top
  BY <1>2, Temporaries
<1>11. stack' = [Popped(1) EXCEPT ![Frame.slotBase + slot] = Top]
  BY <1>1, <1>8
<1>12. /\ next = [locals |-> [Separate!Innermost.locals EXCEPT ![slot] = Top],
                  temps |-> Separate!Kept(1)]
       /\ slot \in DOMAIN Separate!Innermost.locals
  BY <1>9, <1>10, <1>11
<1>13. [Separate!Innermost EXCEPT !.temps = Separate!Kept(1),
                                  !.locals[slot] = Separate!Temps[Len(Separate!Temps)]]
           = [locals |-> [Separate!Innermost.locals EXCEPT ![slot] = Top],
              temps |-> Separate!Kept(1)]
  <2> DEFINE rest == [Separate!Innermost EXCEPT !.temps = Separate!Kept(1)]
  <2>1. \A r, x : r = [locals |-> r.locals, temps |-> r.temps] =>
                      [r EXCEPT !.locals = x] = [locals |-> x, temps |-> r.temps]
    OBVIOUS
  <2>2. rest = [locals |-> Separate!Innermost.locals, temps |-> Separate!Kept(1)]
    BY WithTemps
  <2>3. /\ rest.locals = Separate!Innermost.locals /\ rest.temps = Separate!Kept(1)
        /\ rest = [locals |-> rest.locals, temps |-> rest.temps]
    <3> HIDE DEF rest
    <3>1. QED
      BY <2>2
  <2>4. [rest EXCEPT !.locals = [rest.locals EXCEPT ![slot] = Separate!Temps[Len(Separate!Temps)]]]
            = [locals |-> [Separate!Innermost.locals EXCEPT ![slot] = Top],
               temps |-> Separate!Kept(1)]
    <3> HIDE DEF rest, slot
    <3>1. QED
      BY <1>10, <2>1, <2>3
  <2>5. QED
    BY <2>4
<1> HIDE DEF slot, next
<1>14. views' = Append(Separate!Callers,
                   [Separate!Innermost EXCEPT !.temps = Separate!Kept(1),
                        !.locals[slot] = Separate!Temps[Len(Separate!Temps)]])
  BY <1>5, <1>12, <1>13
<1>15. \E i \in DOMAIN Separate!Innermost.locals :
           views' = Append(Separate!Callers,
                       [Separate!Innermost EXCEPT !.temps = Separate!Kept(1),
                            !.locals[i] = Separate!Temps[Len(Separate!Temps)]])
  BY <1>12, <1>14, Zenon
<1>16. Separate!Temps # <<>> /\ out' = out /\ (verdict = Running)' = (verdict = Running)
  BY <1>1, <1>10
<1>17. Separate!Assign
  BY <1>15, <1>16, Zenon DEF Separate!Assign, views
<1>18. QED
  BY <1>1, <1>17 DEF Separate!Next

(* PRINT shows the last temporary. *)
LEMMA PrintOutputs ==
    ASSUME Safe, Safe', Untouched, PrintTop
    PROVE  Separate!Next
<1>1. /\ Op = OpCode.PRINT /\ verdict = Running
      /\ UNCHANGED <<chunk, frames, verdict>> /\ ip' = Following
      /\ stack' = Popped(1) /\ out' = Append(out, Top)
  BY DEF PrintTop, Executing
<1>2. 1 \in Nat /\ 1 <= height[ip] /\ Op \notin Ends
  BY <1>1, RuleHere, Effects
<1>3. owner[ip'] = owner[ip]
  BY <1>1, <1>2, SameOwner
<1>4. views' = Append(Separate!Callers,
                      [locals |-> SubSeq(stack', Frame.slotBase + 1, Boundary),
                       temps |-> SubSeq(stack', Boundary + 1, Len(stack'))])
  BY <1>1, <1>3, OnlyTheRunningCall
<1>5. /\ SubSeq(Popped(1), Frame.slotBase + 1, Boundary) = Separate!Innermost.locals
      /\ SubSeq(Popped(1), Boundary + 1, Len(Popped(1))) = Separate!Kept(1)
      /\ Separate!Temps # <<>> /\ Separate!Temps[Len(Separate!Temps)] = Top
  BY <1>2, Temporaries
<1>6. \A t : [Separate!Innermost EXCEPT !.temps = t]
                 = [locals |-> Separate!Innermost.locals, temps |-> t]
  BY WithTemps
<1>7. views' = Append(Separate!Callers, [Separate!Innermost EXCEPT !.temps = Separate!Kept(1)])
  BY <1>1, <1>4, <1>5, <1>6
<1>8. Separate!Output
  BY <1>1, <1>5, <1>7 DEF Separate!Output, views
<1>9. QED
  BY <1>1, <1>8 DEF Separate!Next

-----------------------------------------------------------------------------

(* CALL: the callee's variables are its arguments, which its caller gives up,
   and zeros.  n is the depth before the call. *)
LEMMA CallEnters ==
    ASSUME Safe, Safe', Untouched, Call, NEW n \in Nat, n = Len(frames)
    PROVE  Separate!Next
<1> DEFINE function == chunk.functions[Operand + 1]
           arity == function.arity
           others == function.frameSize - function.arity
           base == Len(stack) - arity
<1>1. Op = OpCode.CALL /\ verdict = Running
  BY DEF Call, Executing
<1>2. CASE TooDeep
  BY <1>1, <1>2, FaultStops DEF Call
<1>3. CASE ~TooDeep /\ others > 0 /\ Len(stack) + others > MaxStackSlots
  BY <1>1, <1>3, FaultStops DEF Call
<1>4. CASE ~TooDeep /\ ~(others > 0 /\ Len(stack) + others > MaxStackSlots)
  <2>1. /\ stack' = stack \o Zeros(others)
        /\ frames' = Append(frames, [returnIP |-> Following, slotBase |-> base])
        /\ ip' = function.entry
        /\ chunk' = chunk /\ out' = out /\ verdict' = verdict
    BY <1>4 DEF Call, Frames, CalleeBase
  <2>2. /\ Operand + 1 \in 1 .. Len(chunk.functions)
        /\ arity \in Nat /\ function.frameSize \in Nat /\ arity <= function.frameSize
        /\ function.frameSize <= MaxOperand
        /\ height[function.entry] = 0 /\ owner[function.entry] = Operand + 1
        /\ arity <= height[ip]
        /\ height[Following] = height[ip] - arity + 1
        /\ owner[Following] = owner[ip]
    <3>1. Operand + 1 \in 1 .. Len(chunk.functions) /\ chunk.functions \in Seq(FunctionEntry)
      BY <1>1, CalleeFacts, ChunkIsWellTyped DEF Safe
    <3>2. function \in FunctionEntry
      BY <3>1, ElementOfSeq
    <3>3. function.frameSize <= MaxOperand
      BY <3>2 DEF FunctionEntry
    <3>4. QED
      BY <1>1, <3>3, CalleeFacts
  <2>3. /\ StateOK /\ stack \in Seq(Value) /\ frames \in Seq(FrameEntry)
        /\ stack' \in Seq(Value) /\ FramesAreContiguous /\ FramesAreContiguous'
    BY DEF Safe, StateOK
  <2>4. /\ n > 0 /\ Len(stack) \in Nat /\ height[ip] \in Nat /\ Frame.slotBase \in Nat
        /\ Boundary \in Nat /\ Frame.slotBase <= Boundary /\ Len(stack) = Boundary + height[ip]
    BY StackHere, TheRunningCall
  <2>5. /\ others \in Nat /\ base \in Nat /\ base <= Len(stack) /\ Boundary <= base
        /\ Boundary <= Len(stack)
        /\ Boundary + (height[Following] - 1) = base
        /\ base + function.frameSize = Len(stack) + others
        /\ others \in 0 .. MaxOperand - arity
    <3> DEFINE L == Len(stack)
               h == height[ip]
               h2 == height[Following]
               size == function.frameSize
    <3>1. /\ L \in Nat /\ h \in Nat /\ Boundary \in Nat /\ arity \in Nat /\ size \in Nat
          /\ MaxOperand \in Nat
          /\ L = Boundary + h /\ arity <= h /\ arity <= size /\ size <= MaxOperand
          /\ h2 = h - arity + 1
      BY <2>2, <2>4, ChunkAssumption
    <3> HIDE DEF L, h, h2, size, arity
    <3>2. /\ size - arity \in Nat /\ L - arity \in Nat /\ L - arity <= L /\ Boundary <= L - arity
          /\ Boundary <= L /\ Boundary + (h2 - 1) = L - arity
          /\ (L - arity) + size = L + (size - arity)
          /\ size - arity \in 0 .. MaxOperand - arity
      BY <3>1
    <3>3. QED
      BY <3>2 DEF L, h, h2, size, arity
  <2>6. Zeros(others) \in Seq(Value) /\ Len(Zeros(others)) = others
    BY <2>5, ZerosFacts
  <2>7. /\ \A c, b \in Nat : c <= b /\ b <= Len(stack) =>
               SubSeq(stack', c + 1, b) = SubSeq(stack, c + 1, b)
        /\ SubSeq(stack', base + 1, Len(stack) + others)
               = SubSeq(stack, base + 1, Len(stack)) \o Zeros(others)
        /\ Len(stack') = Len(stack) + others
    <3> HIDE DEF base, others
    <3>1. /\ SubSeq(stack \o Zeros(others), base + 1, Len(stack) + Len(Zeros(others)))
                 = SubSeq(stack, base + 1, Len(stack)) \o Zeros(others)
          /\ \A c, b \in Nat : c <= b /\ b <= Len(stack) =>
                 SubSeq(stack \o Zeros(others), c + 1, b) = SubSeq(stack, c + 1, b)
      <4> DEFINE z == Zeros(others)
      <4>1. stack \in Seq(Value) /\ z \in Seq(Value) /\ base \in Nat /\ base <= Len(stack)
        BY <2>3, <2>5, <2>6
      <4> HIDE DEF z
      <4>2. SubSeq(stack \o z, base + 1, Len(stack) + Len(z))
                = SubSeq(stack, base + 1, Len(stack)) \o z
        BY <4>1, SliceOfConcat
      <4>3. ASSUME NEW c \in Nat, NEW b \in Nat, c <= b, b <= Len(stack)
            PROVE  SubSeq(stack \o z, c + 1, b) = SubSeq(stack, c + 1, b)
        BY <4>1, <4>3, SliceBeforeConcat
      <4>4. QED
        BY <4>2, <4>3 DEF z
    <3>2. Len(stack \o Zeros(others)) = Len(stack) + Len(Zeros(others))
      BY <2>3, <2>6, ConcatProperties
    <3>3. QED
      BY <2>1, <2>6, <3>1, <3>2
  <2>8. [returnIP |-> Following, slotBase |-> base] \in FrameEntry
    BY <1>1, <2>5, CalleeFacts DEF FrameEntry
  <2>9. /\ Len(frames') = n + 1 /\ \A d \in 1 .. n : frames'[d] = frames[d]
        /\ frames'[n + 1] = [returnIP |-> Following, slotBase |-> base]
    BY <2>1, <2>3, <2>8, AppendProperties
  <2>10. height' = height /\ owner' = owner
    BY <2>1 DEF height, owner
(* The three kinds of frame after the call. *)
  <2>11. \A d \in 1 .. n - 1 : CallAt(d)' = CallAt(d)
    <3>1. ASSUME NEW d \in 1 .. n - 1
          PROVE  CallAt(d)' = CallAt(d)
      <4>1. /\ d \in 1 .. Len(frames) /\ d # Len(frames) /\ d # Len(frames')
            /\ d \in 1 .. n /\ d + 1 \in 1 .. n
        BY <2>4, <2>9
      <4>2. frames'[d] = frames[d] /\ frames'[d + 1] = frames[d + 1]
        BY <2>9, <4>1
      <4>3. QED
        BY <2>1, <2>3, <4>1, <4>2, CallerStays
    <3>2. QED
      BY <3>1
  <2>12. CallAt(n)' = [locals |-> Separate!Innermost.locals, temps |-> Separate!Kept(arity)]
    <3>1. n # n + 1 /\ n \in 1 .. n
      BY <2>4
    <3>2. Resumes(n)' = Following
      BY <2>9, <3>1 DEF Resumes
    <3>3. frames'[n].slotBase = Frame.slotBase
      BY <2>9, <3>1 DEF Frame
    <3>4. TempsFrom(n)' = Boundary
      BY <2>1, <2>2, <2>10, <3>2, <3>3 DEF TempsFrom, Boundary, Width
    <3>5. FrameEnd(n)' = base
      <4>1. Pending(n)' = height[Following] - 1
        BY <2>9, <2>10, <3>1, <3>2 DEF Pending
      <4>2. QED
        BY <2>5, <3>4, <4>1 DEF FrameEnd
    <3>6. SubSeq(stack', Frame.slotBase + 1, Boundary) = SubSeq(stack, Frame.slotBase + 1, Boundary)
      BY <2>4, <2>5, <2>7
    <3>7. SubSeq(stack', Boundary + 1, base) = SubSeq(stack, Boundary + 1, base)
      BY <2>4, <2>5, <2>7
    <3>8. Separate!Kept(arity) = SubSeq(stack, Boundary + 1, base)
      BY <2>2, Temporaries
    <3>9. Separate!Innermost.locals = SubSeq(stack, Frame.slotBase + 1, Boundary)
      BY TheRunningCall
    <3>10. QED
      BY <3>3, <3>4, <3>5, <3>6, <3>7, <3>8, <3>9 DEF CallAt
  <2>13. CallAt(n + 1)' = Separate!NewCall(Separate!LastTemps(arity), others)
    <3>1. Resumes(n + 1)' = function.entry
      BY <2>1, <2>9 DEF Resumes
    <3>2. frames'[n + 1].slotBase = base
      BY <2>9
    <3>3. Width(chunk, Operand + 1) = function.frameSize
      BY <2>2 DEF Width
    <3>4. TempsFrom(n + 1)' = base + function.frameSize
      BY <2>1, <2>2, <2>10, <3>1, <3>2, <3>3 DEF TempsFrom, Width
    <3>5. TempsFrom(n + 1)' = Len(stack')
      BY <2>5, <2>7, <3>4
    <3>6. FrameEnd(n + 1)' = Len(stack')
      BY <2>3, <2>9 DEF FramesAreContiguous
    <3>7. SubSeq(stack', base + 1, Len(stack')) = Separate!LastTemps(arity) \o Zeros(others)
      BY <2>2, <2>7, Temporaries
    <3>8. Zeros(others) = Separate!Nothing(others)
      BY DEF Zeros, Separate!Nothing, Separate!Zero, Zero, IntValue, Separate!IntValue
    <3>9. SubSeq(stack', Len(stack') + 1, Len(stack')) = <<>>
      BY <2>3
    <3>10. QED
      BY <3>2, <3>5, <3>6, <3>7, <3>8, <3>9 DEF CallAt, Separate!NewCall
  <2>14. views' = Separate!Callers \o
                      << [Separate!Innermost EXCEPT !.temps = Separate!Kept(arity)],
                         Separate!NewCall(Separate!LastTemps(arity), others) >>
    <3> DEFINE x == CallAt(n)'
               y == CallAt(n + 1)'
    <3>1. (Safe => /\ views \in Seq(View)
                   /\ Len(views) = Len(frames)
                   /\ \A d \in 1 .. Len(frames) : views[d] = CallAt(d))'
      BY ViewsAreViews, PTL
    <3>2. View' = View
      BY DEF View, Value, MinInt
    <3>3. /\ views' \in Seq(View) /\ Len(views') = n + 1
          /\ \A d \in 1 .. n + 1 : views'[d] = CallAt(d)'
      BY <2>9, <3>1, <3>2
    <3>4. /\ views \in Seq(View) /\ Len(views) = n /\ \A d \in 1 .. n : views[d] = CallAt(d)
          /\ Separate!Callers = SubSeq(views, 1, n - 1)
      BY ViewsAreViews, TheRunningCall
    <3>5. \A d \in 1 .. n - 1 : views'[d] = views[d]
      <4>1. \A d \in 1 .. n - 1 : d \in 1 .. n /\ d \in 1 .. n + 1
        BY <2>4
      <4>2. QED
        BY <2>11, <3>3, <3>4, <4>1
    <3>6. views'[n] = x /\ views'[n + 1] = y
      <4>1. n \in 1 .. n + 1 /\ n + 1 \in 1 .. n + 1
        BY <2>4
      <4>2. QED
        BY <3>3, <4>1
    <3>7. views' = SubSeq(views, 1, n - 1) \o <<x, y>>
      <4> HIDE DEF x, y
      <4>1. QED
        BY <2>4, <3>3, <3>4, <3>5, <3>6, TwoMore
    <3>8. x = [Separate!Innermost EXCEPT !.temps = Separate!Kept(arity)]
      BY <2>12, WithTemps
    <3>9. y = Separate!NewCall(Separate!LastTemps(arity), others)
      BY <2>13
    <3>10. QED
      BY <3>4, <3>7, <3>8, <3>9
  <2>15. Len(views) < MaxCallDepth + 1
    <3>1. ~(n > MaxCallDepth) /\ Len(views) = n
      BY <1>4, TheRunningCall DEF TooDeep
    <3>2. QED
      BY <3>1, VmAssumption
  <2>16. arity \in 0 .. Len(Separate!Temps)
    BY <2>2, Temporaries
  <2>17. out' = out /\ (verdict = Running)' = (verdict = Running)
    BY <2>1
  <2>18. Separate!Enter
    <3> HIDE DEF arity, others
    <3>1. QED
      BY <2>5, <2>14, <2>15, <2>16, <2>17, Zenon DEF Separate!Enter, views
  <2>19. QED
    BY <1>1, <2>18 DEF Separate!Next
<1>5. QED
  BY <1>2, <1>3, <1>4

(* RETURN: the callee goes with all it holds, and its last temporary is its
   caller's.  n is the depth before the return. *)
LEMMA ReturnLeaves ==
    ASSUME Safe, Safe', Untouched, Return, NEW n \in Nat, n = Len(frames)
    PROVE  Separate!Next
<1> DEFINE base == Frame.slotBase
           from == TempsFrom(n - 1)
<1>1. /\ Op = OpCode.RETURN /\ verdict = Running
      /\ stack' = Append(SubSeq(stack, 1, base), Top)
      /\ frames' = SubSeq(frames, 1, n - 1)
      /\ ip' = Frame.returnIP
      /\ chunk' = chunk /\ out' = out /\ verdict' = verdict
  BY DEF Return, Executing
<1>2. /\ StateOK /\ stack \in Seq(Value) /\ frames \in Seq(FrameEntry) /\ stack' \in Seq(Value)
      /\ FramesAreContiguous /\ FramesAreContiguous' /\ FramesRunTheirOwnCode
  BY DEF Safe, StateOK
<1>3. /\ n > 0 /\ Len(stack) \in Nat /\ height[ip] \in Nat /\ base \in Nat
      /\ 1 \in Nat /\ 1 <= height[ip] /\ owner[ip] # 0
  BY <1>1, StackHere, RuleHere, Effects
<1>4. n > 1
  <2>1. Resumes(n) = ip /\ n \in 1 .. Len(frames)
    BY <1>3 DEF Resumes
  <2>2. n # 1
    BY <1>2, <1>3, <2>1 DEF FramesRunTheirOwnCode
  <2>3. QED
    BY <1>3, <2>2
<1>5. /\ n - 1 \in 1 .. Len(frames) /\ n - 1 # Len(frames) /\ n - 1 \in 1 .. Len(frames) - 1
      /\ (n - 1) + 1 = n /\ n - 1 \in 1 .. n - 1
  BY <1>4
<1>6. Len(frames') = n - 1 /\ \A d \in 1 .. n - 1 : frames'[d] = frames[d]
  <2>1. \A d \in 1 .. n - 1 : frames[d] \in FrameEntry
    BY <1>2, <1>4, ElementOfSeq
  <2>2. QED
    BY <1>1, <1>4, <2>1, SubSeqProperties
<1>7. height' = height /\ owner' = owner
  BY <1>1 DEF height, owner
<1>8. \A d \in 1 .. n - 2 : CallAt(d)' = CallAt(d)
  <2>1. ASSUME NEW d \in 1 .. n - 2
        PROVE  CallAt(d)' = CallAt(d)
    <3>1. /\ d \in 1 .. Len(frames) /\ d # Len(frames) /\ d # Len(frames')
          /\ d \in 1 .. n - 1 /\ d + 1 \in 1 .. n - 1
      BY <1>4, <1>6
    <3>2. frames'[d] = frames[d] /\ frames'[d + 1] = frames[d + 1]
      BY <1>6, <3>1
    <3>3. QED
      BY <1>1, <1>2, <3>1, <3>2, CallerStays
  <2>2. QED
    BY <2>1
(* The caller before, and after with the result on top. *)
<1>9. /\ frames[n - 1].slotBase \in Nat /\ from \in Nat
      /\ frames[n - 1].slotBase <= from /\ from <= base /\ FrameEnd(n - 1) = base
  <2>1. FrameEnd(n - 1) = base
    BY <1>2, <1>5 DEF FramesAreContiguous, Frame
  <2>2. QED
    BY <1>5, <2>1, Pieces
<1>10. CallAt(n - 1) = [locals |-> SubSeq(stack, frames[n - 1].slotBase + 1, from),
                        temps |-> SubSeq(stack, from + 1, base)]
  BY <1>9 DEF CallAt
<1>11. CallAt(n - 1)' = [locals |-> SubSeq(stack', frames[n - 1].slotBase + 1, from),
                         temps |-> SubSeq(stack', from + 1, Len(stack'))]
  <2>1. Resumes(n - 1)' = Resumes(n - 1)
    BY <1>1, <1>5, <1>6 DEF Resumes, Frame
  <2>2. frames'[n - 1] = frames[n - 1]
    BY <1>5, <1>6
  <2>3. TempsFrom(n - 1)' = from
    BY <1>1, <1>7, <2>1, <2>2 DEF TempsFrom, Width
  <2>4. FrameEnd(n - 1)' = Len(stack')
    BY <1>2, <1>6 DEF FramesAreContiguous
  <2>5. QED
    BY <2>2, <2>3, <2>4 DEF CallAt
<1>12. Top \in Value /\ Separate!Temps # <<>> /\ Separate!Temps[Len(Separate!Temps)] = Top
  BY <1>3, TemporariesAreValues, Temporaries
<1>13. /\ SubSeq(stack', frames[n - 1].slotBase + 1, from)
              = SubSeq(stack, frames[n - 1].slotBase + 1, from)
       /\ SubSeq(stack', from + 1, Len(stack')) = Append(SubSeq(stack, from + 1, base), Top)
  <2> DEFINE below == SubSeq(stack, 1, base)
             first == frames[n - 1].slotBase
  <2>1. base <= Len(stack) /\ base <= base
    <3>1. \A b, w, h \in Nat : b <= b + w + h /\ b <= b
      OBVIOUS
    <3>2. QED
      BY <3>1, StackHere
  <2>2. below \in Seq(Value) /\ Len(below) = base
    <3>1. /\ SubSeq(stack, 0 + 1, base) \in Seq(Value)
          /\ Len(SubSeq(stack, 0 + 1, base)) = base - 0
      BY <1>2, <1>3, <2>1, SliceIsSeq
    <3>2. QED
      BY <1>3, <3>1
  <2>3. first \in Nat /\ from \in Nat /\ base \in Nat /\ first <= from /\ from <= base
    BY <1>3, <1>9
  <2> HIDE DEF first, from, base
  <2>4. /\ SubSeq(below, first + 1, from) = SubSeq(stack, first + 1, from)
        /\ SubSeq(below, from + 1, base) = SubSeq(stack, from + 1, base)
    BY <1>2, <2>1, <2>3, SliceOfPrefix
  <2> HIDE DEF below
  <2>5. first <= Len(below) /\ from <= Len(below)
    BY <2>2, <2>3
  <2>6. SubSeq(Append(below, Top), first + 1, from) = SubSeq(below, first + 1, from)
    BY <1>12, <2>2, <2>3, <2>5, SliceOfAppend
  <2>7. SubSeq(Append(below, Top), from + 1, Len(below) + 1)
            = Append(SubSeq(below, from + 1, Len(below)), Top)
    BY <1>12, <2>2, <2>3, <2>5, SliceOfAppend
  <2>8. Len(Append(below, Top)) = Len(below) + 1
    BY <1>12, <2>2, AppendProperties
  <2>9. stack' = Append(below, Top)
    BY <1>1 DEF below
  <2>10. QED
    BY <2>2, <2>4, <2>6, <2>7, <2>8, <2>9 DEF first
<1>14. CallAt(n - 1)' = [CallAt(n - 1) EXCEPT !.temps = Append(@, Top)]
  <2> DEFINE l == SubSeq(stack, frames[n - 1].slotBase + 1, from)
             t == SubSeq(stack, from + 1, base)
  <2>1. CallAt(n - 1) = [locals |-> l, temps |-> t]
    BY <1>10
  <2>2. CallAt(n - 1)' = [locals |-> l, temps |-> Append(t, Top)]
    BY <1>11, <1>13
  <2> HIDE DEF l, t
  <2>3. QED
    BY <2>1, <2>2
<1>15. /\ views \in Seq(View) /\ Len(views) = n /\ \A d \in 1 .. n : views[d] = CallAt(d)
       /\ Separate!Callers = SubSeq(views, 1, n - 1)
  BY ViewsAreViews, TheRunningCall
<1>16. /\ views' \in Seq(View) /\ Len(views') = n - 1
       /\ \A d \in 1 .. n - 1 : views'[d] = CallAt(d)'
  <2>1. (Safe => /\ views \in Seq(View)
                 /\ Len(views) = Len(frames)
                 /\ \A d \in 1 .. Len(frames) : views[d] = CallAt(d))'
    BY ViewsAreViews, PTL
  <2>2. View' = View
    BY DEF View, Value, MinInt
  <2>3. QED
    BY <1>6, <2>1, <2>2
<1>17. \A d \in 1 .. n - 2 : views'[d] = views[d]
  <2>1. \A d \in 1 .. n - 2 : d \in 1 .. n /\ d \in 1 .. n - 1
    BY <1>4
  <2>2. QED
    BY <1>8, <1>15, <1>16, <2>1
<1>18. /\ views' = [Separate!Callers EXCEPT ![n - 1] = views'[n - 1]]
       /\ Len(Separate!Callers) = n - 1
       /\ Separate!Callers[n - 1] = views[n - 1]
  BY <1>4, <1>15, <1>16, <1>17, OneLess
<1>19. views'[n - 1] = [Separate!Callers[n - 1] EXCEPT !.temps = Append(@, Top)]
  <2>1. views'[n - 1] = CallAt(n - 1)' /\ views[n - 1] = CallAt(n - 1)
    <3>1. n - 1 \in 1 .. n
      BY <1>4
    <3>2. QED
      BY <1>5, <1>15, <1>16, <3>1
  <2>2. QED
    BY <1>14, <1>18, <2>1
<1>20. views' = [Separate!Callers EXCEPT ![Len(Separate!Callers)].temps
                     = Append(@, Separate!Temps[Len(Separate!Temps)])]
  BY <1>12, <1>18, <1>19
<1>21. Len(views) > 1 /\ out' = out /\ (verdict = Running)' = (verdict = Running)
  BY <1>1, <1>4, <1>15
<1>22. Separate!Leave
  BY <1>12, <1>20, <1>21, Zenon DEF Separate!Leave, views
<1>23. QED
  BY <1>1, <1>22 DEF Separate!Next

-----------------------------------------------------------------------------

(* The operator arms: a fault, or one value for their operands. *)
LEMMA BinaryComputes ==
    ASSUME Safe, Safe', Untouched, verdict = Running, Op \in Binary,
           NEW value \in Value, Replace(2, value)
    PROVE  Separate!Next
<1>1. 2 \in Nat /\ 2 <= height[ip] /\ Op \notin Ends
  BY RuleHere, Effects
<1>2. QED
  BY <1>1, ReplaceComputes

LEMMA UnaryComputes ==
    ASSUME Safe, Safe', Untouched, verdict = Running, Op \in Unary,
           NEW value \in Value, Replace(1, value)
    PROVE  Separate!Next
<1>1. 1 \in Nat /\ 1 <= height[ip] /\ Op \notin Ends
  BY RuleHere, Effects
<1>2. QED
  BY <1>1, ReplaceComputes

LEMMA OperatorsCompute ==
    ASSUME Safe, Safe', Untouched,
           \/ Arithmetic \/ Divide \/ Negate \/ Equal \/ Order \/ Not
    PROVE  Separate!Next
<1>1. CASE Arithmetic
  <2>1. /\ verdict = Running /\ Op \in Binary
    BY <1>1 DEF Arithmetic, Executing, Binary
  <2>2. CASE ~BothIntegers
    BY <1>1, <2>1, <2>2, FaultStops DEF Arithmetic, BinaryTypeFault
  <2>3. CASE BothIntegers /\ ~Fits(Exact(Op, Second.v, Top.v))
    BY <1>1, <2>1, <2>3, FaultStops DEF Arithmetic, BinaryOverflowFault
  <2>4. CASE BothIntegers /\ Fits(Exact(Op, Second.v, Top.v))
    <3>1. IntValue(Exact(Op, Second.v, Top.v)) \in Value
      BY <2>4, ValueFacts DEF Fits
    <3>2. Replace(2, IntValue(Exact(Op, Second.v, Top.v)))
      BY <1>1, <2>4 DEF Arithmetic
    <3>3. QED
      BY <2>1, <3>1, <3>2, BinaryComputes
  <2>5. QED
    BY <2>2, <2>3, <2>4
<1>2. CASE Divide
  <2>1. /\ verdict = Running /\ Op \in Binary
    BY <1>2 DEF Divide, Executing, Binary
  <2>2. Second \in Value /\ Top \in Value
    BY <2>1, OperandsAreValues
  <2>3. CASE ~BothIntegers
    BY <1>2, <2>1, <2>3, FaultStops DEF Divide, BinaryTypeFault
  <2>4. CASE BothIntegers /\ Top.v = 0
    BY <1>2, <2>1, <2>4, FaultStops DEF Divide
  <2>5. CASE BothIntegers /\ Top.v # 0 /\ Second.v = MinInt /\ Top.v = -1
    BY <1>2, <2>1, <2>5, FaultStops DEF Divide, BinaryOverflowFault
  <2>6. CASE BothIntegers /\ Top.v # 0 /\ ~(Second.v = MinInt /\ Top.v = -1)
    <3>1. Second.v \in MinInt .. MaxInt /\ Top.v \in MinInt .. MaxInt
      BY <2>2, <2>6, ValueFacts DEF BothIntegers
    <3>2. IntValue(Quotient(Second.v, Top.v)) \in Value
      BY <2>6, <3>1, QuotientFits, ValueFacts
    <3>3. Replace(2, IntValue(Quotient(Second.v, Top.v)))
      BY <1>2, <2>6 DEF Divide
    <3>4. QED
      BY <2>1, <3>2, <3>3, BinaryComputes
  <2>7. QED
    BY <2>3, <2>4, <2>5, <2>6
<1>3. CASE Negate
  <2>1. verdict = Running /\ Op \in Unary
    BY <1>3 DEF Negate, Executing, Unary
  <2>2. CASE ~IsInt(Top)
    BY <1>3, <2>1, <2>2, FaultStops DEF Negate, UnaryTypeFault
  <2>3. CASE IsInt(Top) /\ ~Fits(0 - Top.v)
    <3>1. PICK message : Fault(message)
      BY <1>3, <2>3, Zenon DEF Negate
    <3>2. QED
      BY <2>1, <3>1, FaultStops
  <2>4. CASE IsInt(Top) /\ Fits(0 - Top.v)
    <3>1. IntValue(0 - Top.v) \in Value
      BY <2>4, ValueFacts DEF Fits
    <3>2. Replace(1, IntValue(0 - Top.v))
      BY <1>3, <2>4 DEF Negate
    <3>3. QED
      BY <2>1, <3>1, <3>2, UnaryComputes
  <2>5. QED
    BY <2>2, <2>3, <2>4
<1>4. CASE Equal
  <2>1. verdict = Running /\ Op \in Binary
    BY <1>4 DEF Equal, Executing, Binary
  <2>2. CASE Second.type # Top.type
    BY <1>4, <2>1, <2>2, FaultStops DEF Equal, BinaryTypeFault
  <2>3. CASE Second.type = Top.type
    <3>1. BoolValue(ValuesEqual(Second, Top)) \in Value
      BY ValueFacts DEF ValuesEqual
    <3>2. Replace(2, BoolValue(ValuesEqual(Second, Top)))
      BY <1>4, <2>3 DEF Equal
    <3>3. QED
      BY <2>1, <3>1, <3>2, BinaryComputes
  <2>4. QED
    BY <2>2, <2>3
<1>5. CASE Order
  <2>1. verdict = Running /\ Op \in Binary
    BY <1>5 DEF Order, Executing, Binary
  <2>2. CASE ~BothIntegers
    BY <1>5, <2>1, <2>2, FaultStops DEF Order, BinaryTypeFault
  <2>3. CASE BothIntegers
    <3> DEFINE result == IF Op = OpCode.LT THEN Second.v < Top.v ELSE Second.v > Top.v
    <3>1. BoolValue(result) \in Value
      BY DEF BoolValue, Value
    <3>2. Replace(2, BoolValue(result))
      BY <1>5, <2>3 DEF Order
    <3>3. QED
      BY <2>1, <3>1, <3>2, BinaryComputes
  <2>4. QED
    BY <2>2, <2>3
<1>6. CASE Not
  <2>1. verdict = Running /\ Op \in Unary
    BY <1>6 DEF Not, Executing, Unary
  <2>2. CASE ~IsBool(Top)
    BY <1>6, <2>1, <2>2, FaultStops DEF Not, UnaryTypeFault
  <2>3. CASE IsBool(Top)
    <3>1. BoolValue(~IsTrue(Top)) \in Value
      BY ValueFacts
    <3>2. Replace(1, BoolValue(~IsTrue(Top)))
      BY <1>6, <2>3 DEF Not
    <3>3. QED
      BY <2>1, <3>1, <3>2, UnaryComputes
  <2>4. QED
    BY <2>2, <2>3
<1>7. QED
  BY <1>1, <1>2, <1>3, <1>4, <1>5, <1>6

(* The arms that load, drop or jump. *)
LEMMA MovesCompute ==
    ASSUME Safe, Safe', Untouched,
           \/ Const \/ LoadLocal \/ Pop \/ Jump \/ JumpIfFalse
    PROVE  Separate!Next
<1>1. CASE Const
  <2>1. Op = OpCode.CONST /\ verdict = Running /\ Push(chunk.constants[Operand + 1])
    BY <1>1 DEF Const, Executing
  <2>2. Operand \in Nat /\ Operand < Len(chunk.constants)
    BY <2>1, RuleHere DEF HasOperand
  <2>3. chunk.constants \in Seq(Value)
    BY ChunkIsWellTyped DEF Safe
  <2>4. chunk.constants[Operand + 1] \in Value
    BY <2>2, <2>3, ElementOfSeq
  <2>5. QED
    BY <2>1, <2>4, Effects, PushComputes
<1>2. CASE LoadLocal
  <2>1. /\ Op = OpCode.LOAD_LOCAL /\ verdict = Running
        /\ Push(stack[Frame.slotBase + Operand + 1])
    BY <1>2 DEF LoadLocal, Executing
  <2>2. stack \in Seq(Value)
    BY DEF Safe, StateOK
  <2>3. stack[Frame.slotBase + Operand + 1] \in Value
    BY <2>1, <2>2, SlotOfFrame, ElementOfSeq
  <2>4. QED
    BY <2>1, <2>3, Effects, PushComputes
<1>3. CASE Pop
  <2>1. Op = OpCode.POP /\ verdict = Running /\ Yield(Popped(1))
    BY <1>3 DEF Pop, Executing
  <2>2. 1 \in Nat /\ 1 <= height[ip] /\ Op \notin Ends
    BY <2>1, RuleHere, Effects
  <2>3. QED
    BY <2>1, <2>2, YieldComputes
<1>4. CASE Jump
  <2>1. /\ Op = OpCode.JUMP /\ verdict = Running /\ ip' = Operand
        /\ UNCHANGED <<chunk, stack, frames, out, verdict>>
    BY <1>4 DEF Jump, Executing
  <2>2. owner[ip'] = owner[ip] /\ stack' = Popped(0) /\ 0 \in Nat /\ 0 <= height[ip]
    BY <2>1, SameOwner, NothingPopped
  <2>3. QED
    BY <2>1, <2>2, Computes
<1>5. CASE JumpIfFalse
  <2>1. Op = OpCode.JUMP_IF_FALSE /\ verdict = Running
    BY <1>5 DEF JumpIfFalse, Executing
  <2>2. CASE ~IsBool(Top)
    <3>1. PICK message : Fault(message)
      BY <1>5, <2>2, Zenon DEF JumpIfFalse
    <3>2. QED
      BY <2>1, <3>1, FaultStops
  <2>3. CASE IsBool(Top)
    <3>1. /\ stack' = Popped(1) /\ ip' = (IF IsTrue(Top) THEN Following ELSE Operand)
          /\ UNCHANGED <<chunk, frames, out, verdict>>
      BY <1>5, <2>3 DEF JumpIfFalse
    <3>2. 1 \in Nat /\ 1 <= height[ip] /\ Op \notin Ends
      BY <2>1, RuleHere, Effects
    <3>3. owner[ip'] = owner[ip]
      BY <2>1, <3>1, <3>2, SameOwner
    <3>4. QED
      BY <2>1, <3>1, <3>2, <3>3, Computes
  <2>4. QED
    BY <2>2, <2>3
<1>6. QED
  BY <1>1, <1>2, <1>3, <1>4, <1>5

(* Every step of the dispatch loop is a step of the machine without a stack. *)
LEMMA NextIsSeparate == Safe /\ [Next]_vars => [Separate!Next]_(Separate!vars)
<1> SUFFICES ASSUME Safe, [Next]_vars
             PROVE  [Separate!Next]_(Separate!vars)
  OBVIOUS
<1>1. CASE UNCHANGED vars
  <2>1. UNCHANGED <<chunk, stack, frames, ip, out, verdict>>
    BY <1>1 DEF vars
  <2>2. height' = height /\ owner' = owner
    BY <2>1 DEF height, owner
  <2>3. \A d \in DOMAIN frames : CallAt(d)' = CallAt(d)
    BY <2>1, <2>2 DEF CallAt, TempsFrom, FrameEnd, Pending, Resumes, Width
  <2>4. [d \in DOMAIN frames |-> CallAt(d)]' = [d \in DOMAIN frames |-> CallAt(d)]
    BY <2>1, <2>3
  <2>5. out' = out /\ (verdict = Running)' = (verdict = Running)
    BY <2>1
  <2>6. QED
    BY <2>4, <2>5 DEF Separate!vars
<1>2. CASE Next /\ ~UNCHANGED vars
  <2>1. Safe' /\ Untouched
    BY <1>2, NextIsSafe
  <2>2. CASE Arithmetic \/ Divide \/ Negate \/ Equal \/ Order \/ Not
    BY <2>1, <2>2, OperatorsCompute
  <2>3. CASE Const \/ LoadLocal \/ Pop \/ Jump \/ JumpIfFalse
    BY <2>1, <2>3, MovesCompute
  <2>4. CASE StoreLocal
    BY <2>1, <2>4, StoreAssigns
  <2>5. CASE PrintTop
    BY <2>1, <2>5, PrintOutputs
  <2>6. CASE Call
    BY <2>1, <2>6, CallEnters, StackHere
  <2>7. CASE Return
    BY <2>1, <2>7, ReturnLeaves, StackHere
  <2>8. CASE Halt
    <3>1. /\ verdict = Running /\ verdict' = Finished
          /\ UNCHANGED <<chunk, stack, frames, ip, out>>
      BY <2>8 DEF Halt, Executing
    <3>2. verdict' # Running
      BY <3>1 DEF Finished, Running, Verdict
    <3>3. QED
      BY <3>1, <3>2, Stops
  <2>9. CASE Unknown
    <3>1. verdict = Running
      BY <2>9 DEF Unknown
    <3>2. PICK message : Fault(message)
      BY <2>9, Zenon DEF Unknown
    <3>3. QED
      BY <3>1, <3>2, FaultStops
  <2>10. QED
    BY <1>2, <2>2, <2>3, <2>4, <2>5, <2>6, <2>7, <2>8, <2>9 DEF Next
<1>3. QED
  BY <1>1, <1>2

LEMMA InitIsSeparate == Init => Separate!Init
<1> SUFFICES ASSUME Init
             PROVE  Separate!Init
  OBVIOUS
<1> DEFINE slots == chunk.programFrameSize
<1>1. Safe
  BY InitIsSafe
<1>2. /\ stack = Zeros(slots) /\ out = <<>> /\ verdict = Running
      /\ frames = <<[returnIP |-> 0, slotBase |-> 0]>> /\ ip = 0 /\ chunk \in Chunks
  BY DEF Init, Start
<1>3. WellTyped(chunk, height, owner) /\ slots \in 0 .. MaxOperand /\ height[0] = 0 /\ owner[0] = 0
  BY <1>1, ChunkIsWellTyped DEF Safe, WellTyped
<1>4. Len(frames) = 1 /\ frames[1].slotBase = 0 /\ Frame.slotBase = 0
  BY <1>2 DEF Frame
<1>5. Boundary = slots
  <2>1. Width(chunk, owner[ip]) = slots
    BY <1>2, <1>3 DEF Width
  <2>2. slots \in Nat
    BY <1>3, ChunkAssumption
  <2>3. QED
    BY <1>4, <2>1, <2>2 DEF Boundary
<1>6. Len(stack) = slots /\ stack \in Seq(Value) /\ slots \in Nat
  BY <1>2, <1>3, ZerosFacts, ChunkAssumption
<1>7. /\ Separate!Innermost = [locals |-> SubSeq(stack, 0 + 1, slots),
                               temps |-> SubSeq(stack, slots + 1, slots)]
      /\ views \in Seq(View) /\ Len(views) = 1 /\ Separate!Innermost = views[1]
  BY <1>1, <1>4, <1>5, <1>6, TheRunningCall
<1>8. SubSeq(stack, 0 + 1, slots) = stack
  <2>1. /\ SubSeq(stack, 0 + 1, slots) \in Seq(Value) /\ Len(SubSeq(stack, 0 + 1, slots)) = slots - 0
        /\ \A i \in 1 .. slots - 0 : SubSeq(stack, 0 + 1, slots)[i] = stack[0 + i]
    BY <1>6, SliceIsSeq
  <2>2. slots - 0 = slots /\ \A i \in 1 .. slots : 0 + i = i
    BY <1>6
  <2>3. QED
    BY <1>6, <2>1, <2>2, SeqEqual
<1>9. SubSeq(stack, slots + 1, slots) = <<>>
  BY <1>6
<1>10. stack = <<>> \o Separate!Nothing(slots)
  <2>1. stack = Separate!Nothing(slots)
    BY <1>2 DEF Zeros, Separate!Nothing, Separate!Zero, Zero, IntValue, Separate!IntValue
  <2>2. stack = <<>> \o stack
    BY <1>6
  <2>3. QED
    BY <2>1, <2>2
<1>11. views[1] = Separate!NewCall(<<>>, slots)
  BY <1>7, <1>8, <1>9, <1>10 DEF Separate!NewCall
<1>12. views = <<Separate!NewCall(<<>>, slots)>>
  <2> DEFINE x == views[1]
  <2>1. x \in View
    <3>1. 1 \in 1 .. Len(views)
      BY <1>7
    <3>2. QED
      BY <1>7, <3>1, ElementOfSeq
  <2>2. <<x>> \in Seq(View) /\ Len(<<x>>) = 1 /\ <<x>>[1] = x
    BY <2>1
  <2>3. \A i \in 1 .. 1 : views[i] = <<x>>[i]
    BY <2>2
  <2>4. views = <<x>>
    BY <1>7, <2>2, <2>3, SeqEqual
  <2>5. QED
    BY <1>11, <2>4
<1> HIDE DEF slots
<1>13. QED
  BY <1>2, <1>3, <1>12 DEF Separate!Init, views

(* One operand stack for all calls, with each callee's first slots its caller's
   arguments (src/src/vm.cpp), does what a stack for each call would. *)
THEOREM CallsHaveStorageOfTheirOwn == Spec => CallsAreSeparate
<1>1. Init => Separate!Init
  BY InitIsSeparate
<1>2. Safe /\ [Next]_vars => [Separate!Next]_(Separate!vars)
  BY NextIsSeparate
<1>3. QED
  BY <1>1, <1>2, VmIsSafe, PTL DEF Spec, CallsAreSeparate, Separate!Spec
=============================================================================
