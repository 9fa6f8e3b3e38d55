------------------------------ MODULE CodeShape ------------------------------
(***************************************************************************)
(* What the compiler (src/src/compiler.cpp) promises of the chunk it       *)
(* builds, while it builds it and once it is done.                         *)
(***************************************************************************)
EXTENDS Pipeline, FiniteSetsExt

T == INSTANCE ChunkTyping

Jumps == {T!OpCode.JUMP, T!OpCode.JUMP_IF_FALSE}

(* The jumps already emitted whose target is not known yet. *)
Unpatched ==
    {o \in T!Starts(chunk) : T!Byte(chunk, o) \in Jumps
                             /\ T!ReadOperand(chunk, o) = C!Placeholder}

(* The jumps the rest of the walk will patch. *)
ToBePatched ==
    {work[i].at : i \in {j \in DOMAIN work : work[j].do \in {"else", "end if", "end loop"}}}

Successful == stage = "run" /\ compiled = Finished

-----------------------------------------------------------------------------

(* At every moment the holes in the code are the jumps that pending parts of
   the walk remember, and once it is done there is none: a jump that kept its
   placeholder would leave the code.  (The end of a full chunk is the one real
   target that looks like a placeholder; the HALT or RETURN that has to follow
   no longer fits then.) *)
HolesArePending ==
    /\ stage = "compile" /\ compiled = Running /\ Len(chunk.code) < MaxOperand =>
           Unpatched = ToBePatched
    /\ Successful => Unpatched = {}

(* What has been emitted stays as it is: the only bytes that ever change are
   the operands of jumps that had none. *)
EmittedCodeIsFinal ==
    [][stage = "compile" =>
          LET hole == UNION {{o + 2, o + 3} : o \in Unpatched}
          IN  /\ Len(chunk'.code) >= Len(chunk.code)
              /\ \A i \in DOMAIN chunk.code : chunk'.code[i] # chunk.code[i] => i \in hole]_vars

(* Compiled code is well typed: it gives the VM, which checks none of this,
   the number of operands each instruction takes, slots inside the frame, only
   jumps and falls to instructions of the same body, and a callee that exists. *)
CompiledCodeIsWellTyped ==
    Successful =>
        /\ T!WellTyped(chunk, T!Heights(chunk), T!Owners(chunk))
        /\ \A o \in T!Starts(chunk) : T!Byte(chunk, o) <= T!OpCode.HALT

(* Each occurrence of a literal, and each implied 0, has a pool entry of its
   own that exactly one CONST reads, in order. *)
ConstantsAreReadOnce ==
    Successful =>
        LET isRead(s) == T!Byte(chunk, s.offset) = T!OpCode.CONST
            reads == SubSequence(chunk.spans,
                                 {i \in DOMAIN chunk.spans : isRead(chunk.spans[i])})
        IN  [i \in DOMAIN reads |-> T!ReadOperand(chunk, reads[i].offset)]
            = [i \in DOMAIN chunk.constants |-> i - 1]

-----------------------------------------------------------------------------

(* The bytes each node adds to the code, wherever it stands. *)
Bytes(node) ==
    CASE node.type \in {"Number", "Boolean", "Identifier", "Call", "Assign"} -> 3
      [] node.type = "BinOp" -> Len(C!OpCodesFor(node.kind))
      [] node.type \in {"UnaryOp", "Print"} -> 1
      [] node.type = "If" -> IF HasElse(node) THEN 6 ELSE 3
      [] node.type = "While" -> 6
      [] node.type = "Return" -> IF node.kids = <<>> THEN 4 ELSE 1
      [] node.type = "Function" -> 4
      [] node.type = "Block" -> 0

CodeBytes == 1 + MapThenSumSet(LAMBDA n : Bytes(nodes[n]), DOMAIN nodes)

TablesFit ==
    /\ programFrameSize <= MaxOperand
    /\ Len(C!Functions) <= MaxOperand + 1
    /\ \A n \in Range(C!Functions) : nodes[n].frameSize <= MaxOperand

(* A program is refused for its size if and only if it does not fit: what an
   operand cannot name is never emitted, and the last byte that fits is used.
   No program is refused for its constants, which cost three bytes each. *)
RefusedExactlyIfTooLarge ==
    compiled # Running =>
        /\ (compiled = Finished) = (TablesFit /\ CodeBytes <= MaxOperand)
        /\ compiled = Finished => Len(chunk.code) = CodeBytes
        /\ TablesFit /\ compiled # Finished =>
               compiled.message = <<"program too large for one chunk">>
==============================================================================
