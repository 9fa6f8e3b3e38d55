----------------------------- MODULE RunSafety ------------------------------
(***************************************************************************)
(* What the compiler's promise (CodeShape) and the VM's (VmSafety) come to *)
(* when one runs what the other wrote: main hands the chunk over as it is, *)
(* and nothing between the two looks at it (src/src/main.cpp).             *)
(***************************************************************************)
EXTENDS CodeShape

Machine == INSTANCE VmSafety
    WITH Chunks <- {}, frames <- vmFrames, out <- vmOut, verdict <- vmVerdict

(* A program that compiled runs in its frames, to whatever end it comes: they
   tile the stack, each runs its own function's code, no instruction takes an
   operand from below its temporaries, and neither limit is passed - although
   src/src/vm.cpp checks no index and src/src/compiler.cpp counts no stack. *)
CompiledProgramsKeepTheirFrames ==
    stage = "run" /\ compiled = Finished =>
        /\ Machine!FramesAreContiguous
        /\ Machine!FramesRunTheirOwnCode
        /\ Machine!OperandsAreTemporaries
        /\ Machine!StackWithinCap
        /\ Machine!DepthWithinLimit
=============================================================================
