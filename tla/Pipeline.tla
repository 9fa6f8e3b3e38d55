------------------------------ MODULE Pipeline ------------------------------
(***************************************************************************)
(* The stages as src/src/main.cpp strings them together, with both engines *)
(* run on one source: main picks one of the two per process, the tests run *)
(* every case under each (src/CMakeLists.txt), and both processes share    *)
(* the deterministic front end this module runs once.                      *)
(*                                                                         *)
(* The engines share no state, so how their steps interleave cannot matter *)
(* to either.  The schedule here runs the tree-walker up to its next print *)
(* or its end and then lets the VM catch up, which is what makes their     *)
(* states comparable at every print.                                       *)
(***************************************************************************)
EXTENDS Syntax, SequencesExt

CONSTANTS Sources, ByteBase, MaxOperand, MaxCallDepth, MaxStackSlots

(* An operand takes two bytes, a byte holds every opcode, and what the lexer
   hands over ends with the token of the end of the file. *)
ASSUME PipelineAssumption ==
    /\ ByteBase \in Nat /\ ByteBase > 18
    /\ MaxOperand \in Nat /\ MaxOperand > 0 /\ MaxOperand < ByteBase * ByteBase
    /\ \A source \in Sources :
           /\ source \in Seq(Token)
           /\ source # <<>>
           /\ source[Len(source)].type = "END_OF_FILE"

(* The stack holds at least the variables of the program itself (src/src/vm.h). *)
ASSUME LimitsAssumption ==
    /\ MaxCallDepth \in Nat /\ MaxCallDepth > 0
    /\ MaxStackSlots \in Nat /\ MaxStackSlots > MaxOperand

VARIABLES stage,
          tokens, pos, nodes, built, parsed,                    \* Parser
          program, scopes, functionArity, programFrameSize, resolved,   \* Resolver
          chunk, functionIndex, compiled,                       \* Compiler
          work,           \* the walk of the stage that is running
          frames, written, returnValue, flow, values, treeOut, treeVerdict,
          stack, vmFrames, ip, vmOut, vmVerdict

parserState == <<tokens, pos, built, parsed>>
resolverState == <<program, scopes, functionArity, programFrameSize, resolved>>
compilerState == <<chunk, functionIndex, compiled>>
treeState == <<frames, written, returnValue, flow, values, treeOut, treeVerdict>>
vmState == <<stack, vmFrames, ip, vmOut, vmVerdict>>

vars == <<stage, nodes, work, parserState, resolverState, compilerState, treeState, vmState>>

P == INSTANCE Parser
R == INSTANCE Resolver WITH Trees <- {}, frames <- scopes
C == INSTANCE Compiler WITH ResolvedTrees <- {}
I == INSTANCE Interpreter WITH ResolvedTrees <- {}, out <- treeOut, verdict <- treeVerdict
V == INSTANCE Vm WITH Chunks <- {}, frames <- vmFrames, out <- vmOut, verdict <- vmVerdict

-----------------------------------------------------------------------------

Parse ==
    /\ stage = "parse"
    /\ P!Next
    /\ UNCHANGED <<stage, resolverState, compilerState, treeState, vmState>>

StartResolve ==
    /\ stage = "parse"
    /\ parsed = Finished
    /\ stage' = "resolve"
    /\ program' = built
    /\ work' = R!InitialWork(built)
    /\ UNCHANGED <<nodes, parserState, scopes, functionArity, programFrameSize, resolved,
                   compilerState, treeState, vmState>>

Resolve ==
    /\ stage = "resolve"
    /\ R!Next
    /\ UNCHANGED <<stage, parserState, compilerState, treeState, vmState>>

StartCompile ==
    /\ stage = "resolve"
    /\ resolved = Finished
    /\ stage' = "compile"
    /\ work' = C!InitialWork(program)
    /\ UNCHANGED <<nodes, parserState, resolverState, compilerState, treeState, vmState>>

Compile ==
    /\ stage = "compile"
    /\ C!Next
    /\ UNCHANGED <<stage, parserState, scopes, functionArity, resolved, treeState, vmState>>

(* The process under --engine=vm ends here if its compiler threw. *)
StartRun ==
    /\ stage = "compile"
    /\ compiled # Running
    /\ stage' = "run"
    /\ work' = I!InitialWork(program)
    /\ frames' = <<I!NewEnvironment(programFrameSize)>>
    /\ stack' = V!Zeros(programFrameSize)
    /\ vmVerdict' = IF Failed(compiled) THEN compiled ELSE Running
    /\ UNCHANGED <<nodes, parserState, resolverState, compilerState, written, returnValue,
                   flow, values, treeOut, treeVerdict, vmFrames, ip, vmOut>>

CaughtUp == Len(vmOut) >= Len(treeOut) \/ vmVerdict # Running

TreeStep ==
    /\ stage = "run"
    /\ treeVerdict = Running
    /\ CaughtUp
    /\ I!Next
    /\ UNCHANGED <<stage, parserState, scopes, functionArity, resolved, compilerState, vmState>>

VmStep ==
    /\ stage = "run"
    /\ vmVerdict = Running
    /\ treeVerdict # Running \/ ~CaughtUp
    /\ V!Next
    /\ UNCHANGED <<stage, nodes, work, parserState, resolverState, functionIndex, compiled,
                   treeState>>

-----------------------------------------------------------------------------

Init ==
    /\ stage = "parse"
    /\ P!Init
    /\ program = <<>>
    /\ scopes = R!InitialFrames
    /\ functionArity = <<>>
    /\ programFrameSize = 0
    /\ resolved = Running
    /\ chunk = C!EmptyChunk
    /\ functionIndex = <<>>
    /\ compiled = Running
    /\ frames = <<>>
    /\ written = <<{}>>
    /\ returnValue = Zero
    /\ flow = "Normal"
    /\ values = <<>>
    /\ treeOut = <<>>
    /\ treeVerdict = Running
    /\ stack = <<>>
    /\ vmFrames = <<[returnIP |-> 0, slotBase |-> 0]>>
    /\ ip = 0
    /\ vmOut = <<>>
    /\ vmVerdict = Running

Next ==
    \/ Parse \/ StartResolve \/ Resolve \/ StartCompile \/ Compile \/ StartRun
    \/ TreeStep \/ VmStep

Spec == Init /\ [][Next]_vars
FairSpec == Spec /\ WF_vars(Next)

-----------------------------------------------------------------------------

(* A process ends when its stage throws or its engine returns. *)
Rejected == Failed(parsed) \/ Failed(resolved)
BothEnded == treeVerdict # Running /\ vmVerdict # Running

(* The VM's own resources: limits the tree-walker has no counterpart for. *)
VmOnly(verdict) ==
    \/ verdict.class = "compile"
    \/ verdict.message = <<"operand stack exhausted">>

(* Whatever the VM has printed, the tree-walker printed first, in that order;
   it prints nothing of its own after the tree-walker has ended (src/src/vm.h,
   the same bytes on stdout under either engine). *)
OutputsAgree == IsPrefix(vmOut, treeOut)

(* Once both have ended they ended alike: the same output, and either both
   ran to their end or both reported the same message about the same span of
   source - unless the VM ran out of a resource only it has. *)
VerdictsAgree ==
    BothEnded => \/ VmOnly(vmVerdict)
                 \/ treeVerdict = vmVerdict /\ treeOut = vmOut

(* Each slot of each live frame, where the VM keeps it. *)
VmSlot(depth, slot) == stack[vmFrames[depth].slotBase + slot]

SlotsAgree ==
    /\ Len(vmFrames) = Len(frames)
    /\ \A depth \in DOMAIN frames : \A slot \in DOMAIN frames[depth] :
           VmSlot(depth, slot) = frames[depth][slot]

(* At every print of the VM the tree-walker stands right behind the same one:
   the call stacks are equally deep there and every variable of every live
   call, not only the running one, has the same value in both engines. *)
SlotsAgreeAtPrints ==
    [][treeVerdict = Running /\ VmStep /\ vmOut' # vmOut => SlotsAgree]_vars

(* A variable is written before it is read on every path the tree-walker takes:
   slots start at 0 and no guard checks them, so what keeps a program from
   reading that 0 is only the resolver's scoping rule (src/src/resolver.cpp). *)
ReadsAreOfWrittenSlots ==
    stage = "run" /\ I!DoingA("evaluate", "Identifier") => I!This.slot \in Last(written)

(* Every program of a corpus without an endless loop ends under both engines. *)
Terminates == <>(Rejected \/ BothEnded)
=============================================================================
