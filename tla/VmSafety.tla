------------------------------ MODULE VmSafety ------------------------------
(***************************************************************************)
(* What the VM guarantees over every well-typed chunk, although its        *)
(* dispatch loop (src/src/vm.cpp) never compares an index with a bound.    *)
(***************************************************************************)
EXTENDS Vm, ChunkTyping

ASSUME ChunksAreWellTyped ==
    \A c \in Chunks : WellTyped(c, Heights(c), Owners(c))

height == Heights(chunk)
owner == Owners(chunk)

-----------------------------------------------------------------------------

(* Where the code of the frame at depth d goes on, and what it then has left on
   the stack above its slots; a call's result is not there until it returns. *)
Resumes(d) == IF d = Len(frames) THEN ip ELSE frames[d + 1].returnIP
Pending(d) == IF d = Len(frames) THEN height[ip] ELSE height[Resumes(d)] - 1

(* The last stack slots of the frame's variables and of its temporaries. *)
TempsFrom(d) == frames[d].slotBase + Width(chunk, owner[Resumes(d)])
FrameEnd(d) == TempsFrom(d) + Pending(d)

FrameEntry == [returnIP : Starts(chunk), slotBase : Nat]

(* Every type the C++ declarations give, and an instruction pointer that always
   stands at the first byte of an instruction. *)
TypeOK ==
    /\ chunk \in Chunks
    /\ stack \in Seq(Value)
    /\ frames \in Seq(FrameEntry)
    /\ ip \in Starts(chunk)
    /\ out \in Seq(Value)
    /\ verdict.class \in {"running", "ok", "runtime"}

(* The frames lie on the operand stack end to end, the program's at the bottom:
   each callee's first slot is where its caller's temporaries end. *)
FramesAreContiguous ==
    /\ Len(frames) > 0
    /\ frames[1].slotBase = 0
    /\ \A d \in 1 .. Len(frames) - 1 :
           /\ height[Resumes(d)] > 0
           /\ frames[d + 1].slotBase = FrameEnd(d)
    /\ Len(stack) = FrameEnd(Len(frames))

(* Only the bottom frame runs code outside a function, which is why the code
   there may HALT and may not RETURN. *)
FramesRunTheirOwnCode ==
    \A d \in 1 .. Len(frames) : (owner[Resumes(d)] = 0) = (d = 1)

(* What an instruction takes off the stack are temporaries of the running call:
   it never reaches a local, another frame, or below the bottom (stack.back()
   and pop_back() are unchecked in src/src/vm.cpp). *)
OperandsAreTemporaries ==
    verdict = Running =>
        Frame.slotBase + Width(chunk, owner[ip]) + Takes(chunk, ip) <= Len(stack)

(* The unguarded push_backs of the arithmetic arms and of RETURN never pass the
   cap that `push` enforces (src/src/vm.h, maxStackSlots). *)
StackWithinCap == Len(stack) <= MaxStackSlots

(* At most maxCallDepth calls are live above the program's own frame. *)
DepthWithinLimit == Len(frames) <= MaxCallDepth + 1

(* A step changes nothing below the running frame: a call cannot disturb its
   caller's variables or the operands its caller has pending, whatever it does
   and however it returns. *)
CallersAreUntouched ==
    [][/\ Frame.slotBase <= Len(stack')
       /\ \A i \in 1 .. Frame.slotBase : stack'[i] = stack[i]]_vars

-----------------------------------------------------------------------------

(* The flat stack cut where the typing says each call's variables and its
   temporaries end. *)
CallAt(d) == [locals |-> SubSeq(stack, frames[d].slotBase + 1, TempsFrom(d)),
              temps |-> SubSeq(stack, TempsFrom(d) + 1, FrameEnd(d))]

Separate == INSTANCE Calls
    WITH calls <- [d \in DOMAIN frames |-> CallAt(d)],
         running <- verdict = Running,
         MaxSlots <- MaxOperand, MaxCalls <- MaxCallDepth + 1

(* Sharing one stack between all calls, and each callee's first slots with its
   caller's arguments, cannot be observed: every step of the VM is a step of a
   machine in which each call has its own storage, or changes nothing there. *)
CallsAreSeparate == Separate!Spec
=============================================================================
