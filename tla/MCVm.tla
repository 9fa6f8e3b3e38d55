-------------------------------- MODULE MCVm --------------------------------
(***************************************************************************)
(* The VM on the chunks of MCAssembly: with them it reaches POP, the stack *)
(* cap and an unknown opcode, which no compiled program does.              *)
(***************************************************************************)
EXTENDS VmSafety, MCAssembly

MCChunks ==
    {PopsTheTop, CallsUnderATemporary, Counts, UnknownOpcode}
    \cup {Recurses(w, t) : w \in {0, 1, 12}, t \in {0, 1, 12}}
    \cup {Applies(op, constants) : op \in Binary, constants \in {Numbers, Truth}}
    \cup {Negates(constants) : constants \in {Numbers, Truth, <<IntValue(MinInt)>>}}
=============================================================================
