------------------------------ MODULE Compiler ------------------------------
(***************************************************************************)
(* The bytecode compiler (src/src/compiler.cpp): function table, top-level *)
(* statements and HALT, then every function body in declaration order.     *)
(*                                                                         *)
(* `work` is the rest of the walk, its head first.  An item that waits for *)
(* code still to be emitted carries the offsets the C++ locals hold: `at`  *)
(* a jump to patch, `header` the first instruction of a loop.              *)
(***************************************************************************)
EXTENDS Chunk

CONSTANT ResolvedTrees      \* the resolved trees main hands over

VARIABLES nodes, program, programFrameSize, chunk, functionIndex, work, compiled

tree == <<nodes, program, programFrameSize>>
vars == <<tree, chunk, functionIndex, work, compiled>>

Placeholder == MaxOperand

JumpItem(do, node, at, header) ==
    [do |-> do, node |-> node, op |-> 0, at |-> at, header |-> header]
Item(do, node) == JumpItem(do, node, 0, 0)
Items(do, ids) == [i \in DOMAIN ids |-> Item(do, ids[i])]
EmitItem(op, node) == [Item("emit", node) EXCEPT !.op = op]

InitialWork(statements) ==
    <<Item("declare", 0)>> \o Items("statement", statements)
        \o <<Item("halt", 0), Item("bodies", 0)>>

-----------------------------------------------------------------------------

Visiting(do) == compiled = Running /\ work # <<>> /\ Head(work).do = do
VisitingA(do, type) == Visiting(do) /\ nodes[Head(work).node].type = type

Here == Head(work).node
This == nodes[Here]
CodeSize == Len(chunk.code)

Become(items) == work' = items \o Tail(work)

Fail(span, message) ==
    /\ compiled' = CompileError(span, message)
    /\ UNCHANGED <<tree, chunk, functionIndex, work>>

Visit(items) ==
    /\ Become(items)
    /\ UNCHANGED <<tree, chunk, functionIndex, compiled>>

(* One instruction appended to `onto`, or the error writeByte throws. *)
EmitOnto(onto, op, operand, span, text, items) ==
    IF HasRoom(onto, op)
    THEN /\ chunk' = Emit(onto, op, operand, span, text)
         /\ Become(items)
         /\ UNCHANGED <<tree, functionIndex, compiled>>
    ELSE Fail(span, <<"program too large for one chunk">>)

EmitHere(op, operand, span, text, items) == EmitOnto(chunk, op, operand, span, text, items)

(* constantFor and the CONST that reads it. *)
EmitConstant(value, span, items) ==
    IF PoolFull(chunk)
    THEN Fail(span, <<"too many constants in one program">>)
    ELSE EmitOnto(AddConstant(chunk, value), OpCode.CONST, Len(chunk.constants),
                  span, NoText, items)

(* slotOperand, and the load or store it is for. *)
EmitSlot(op, slot, span) ==
    IF slot < 0 \/ slot > MaxOperand
    THEN Fail(span, <<"too many local variables in one frame">>)
    ELSE EmitHere(op, slot, span, NoText, <<>>)

LeaveHole(onto, jump) == onto       \* mutants: no patch, and
PatchPastHere(onto, jump) == PatchOperand(onto, jump, Len(onto.code) + 1)  \* a byte too far

(* patchJumpToHere; writeByte keeps every offset within an operand. *)
PatchToHere(onto, jump) == PatchOperand(onto, jump, Len(onto.code))

-----------------------------------------------------------------------------

Functions ==
    SubSequence(program, {i \in DOMAIN program : nodes[program[i]].type = "Function"})

TooWide(size) == size < 0 \/ size > MaxOperand

(* run up to its first statement, and declareFunctions: every function gets its
   index before any code is emitted, so a call may precede its callee's body. *)
DeclareFunctions ==
    /\ Visiting("declare")
    /\ LET function(i) == nodes[Functions[i]]
           wide == {i \in DOMAIN Functions : \/ TooWide(Len(function(i).parameters))
                                             \/ TooWide(function(i).frameSize)}
           refused == wide \cup {i \in DOMAIN Functions : i - 1 > MaxOperand}
           first == Min(refused)
           declared == {function(i).name : i \in DOMAIN Functions}
       IN  IF TooWide(programFrameSize)
           THEN Fail(NoSpan, <<"too many local variables in one frame">>)
           ELSE IF refused # {}
           THEN Fail(function(first).nameSpan,
                     IF first - 1 > MaxOperand
                     THEN <<"too many functions in one program">>
                     ELSE <<"too many local variables in one frame">>)
           ELSE /\ chunk' = [chunk EXCEPT
                       !.programFrameSize = programFrameSize,
                       !.functions = [i \in DOMAIN Functions |->
                           FunctionInfo(function(i).name, Len(function(i).parameters),
                                        function(i).frameSize)]]
                /\ functionIndex' = [f \in declared |->
                       (CHOOSE i \in DOMAIN Functions : function(i).name = f) - 1]
                /\ Become(<<>>)
                /\ UNCHANGED <<tree, compiled>>

CompileLiteral ==
    /\ VisitingA("expression", "Number") \/ VisitingA("expression", "Boolean")
    /\ EmitConstant(This.value, This.span, <<>>)

CompileIdentifier ==
    /\ VisitingA("expression", "Identifier")
    /\ EmitSlot(OpCode.LOAD_LOCAL, This.slot, This.span)

(* Three comparisons have no opcode: they negate the opposite one. *)
OpCodesFor(kind) ==
    CASE kind = "Add" -> <<OpCode.ADD>>
      [] kind = "Subtract" -> <<OpCode.SUB>>
      [] kind = "Multiply" -> <<OpCode.MUL>>
      [] kind = "Divide" -> <<OpCode.DIV>>
      [] kind = "Less" -> <<OpCode.LT>>
      [] kind = "Greater" -> <<OpCode.GT>>
      [] kind = "Equal" -> <<OpCode.EQ>>
      [] kind = "LessEqual" -> <<OpCode.GT, OpCode.NOT>>
      [] kind = "GreaterEqual" -> <<OpCode.LT, OpCode.NOT>>
      [] kind = "NotEqual" -> <<OpCode.EQ, OpCode.NOT>>
      [] kind = "Negate" -> <<OpCode.NEG>>
      [] kind = "Not" -> <<OpCode.NOT>>

(* Operands left to right, then the opcode or the pair of them. *)
CompileOperator ==
    /\ VisitingA("expression", "BinOp") \/ VisitingA("expression", "UnaryOp")
    /\ LET ops == OpCodesFor(This.kind)
       IN  Visit(Items("expression", This.kids)
                     \o [i \in DOMAIN ops |-> EmitItem(ops[i], Here)])

(* Both halves of a pair carry the operator as it was written. *)
EmitOperation ==
    /\ Visiting("emit")
    /\ EmitHere(Head(work).op, 0, This.span, This.name, <<>>)

(* mutant: called before its arguments are there *)
CallFirst ==
    \/ /\ VisitingA("expression", "Call")
       /\ Visit(<<Item("call", Here)>> \o Items("expression", This.kids))
    \/ /\ Visiting("call")
       /\ EmitHere(OpCode.CALL, functionIndex[This.name], This.span, NoText, <<>>)

(* The arguments in source order are the callee's first locals. *)
CompileCall ==
    \/ /\ VisitingA("expression", "Call")
       /\ Visit(Append(Items("expression", This.kids), Item("call", Here)))
    \/ /\ Visiting("call")
       /\ EmitHere(OpCode.CALL, functionIndex[This.name], This.span, NoText, <<>>)

CompilePrint ==
    /\ VisitingA("statement", "Print")
    /\ Visit(<<Item("expression", This.kids[1]), EmitItem(OpCode.PRINT, Here)>>)

CompileAssign ==
    \/ /\ VisitingA("statement", "Assign")
       /\ Visit(<<Item("expression", This.kids[1]), Item("store", Here)>>)
    \/ /\ Visiting("store")
       /\ EmitSlot(OpCode.STORE_LOCAL, This.slot, This.span)

(* A block emits nothing of its own, and a declaration is compiled later. *)
CompileBlock ==
    \/ /\ VisitingA("statement", "Block")
       /\ Visit(Items("statement", This.kids))
    \/ /\ VisitingA("statement", "Function")
       /\ Visit(<<>>)

CompileIf ==
    /\ VisitingA("statement", "If")
    /\ Visit(<<Item("expression", This.kids[1]), Item("then", Here)>>)

(* The jump over the then branch faults as the condition: it has its span. *)
CompileThen ==
    /\ Visiting("then")
    /\ EmitHere(OpCode.JUMP_IF_FALSE, Placeholder, nodes[This.kids[1]].span, NoText,
                <<Item("statement", This.kids[2]), JumpItem("else", Here, CodeSize, 0)>>)

CompileElse ==
    /\ Visiting("else")
    /\ LET toElse == Head(work).at
           jumped == Emit(chunk, OpCode.JUMP, Placeholder, This.span, NoText)
       IN  IF ~HasElse(This)
           THEN /\ chunk' = PatchToHere(chunk, toElse)
                /\ Become(<<>>)
                /\ UNCHANGED <<tree, functionIndex, compiled>>
           ELSE IF ~HasRoom(chunk, OpCode.JUMP)
           THEN Fail(This.span, <<"program too large for one chunk">>)
           ELSE /\ chunk' = PatchToHere(jumped, toElse)
                /\ Become(<<Item("statement", This.kids[3]),
                            JumpItem("end if", Here, CodeSize, 0)>>)
                /\ UNCHANGED <<tree, functionIndex, compiled>>

CompileEndIf ==
    /\ Visiting("end if")
    /\ chunk' = PatchToHere(chunk, Head(work).at)
    /\ Become(<<>>)
    /\ UNCHANGED <<tree, functionIndex, compiled>>

CompileWhile ==
    /\ VisitingA("statement", "While")
    /\ Visit(<<Item("expression", This.kids[1]), JumpItem("loop", Here, 0, CodeSize)>>)

CompileLoop ==
    /\ Visiting("loop")
    /\ EmitHere(OpCode.JUMP_IF_FALSE, Placeholder, nodes[This.kids[1]].span, NoText,
                <<Item("statement", This.kids[2]),
                  JumpItem("end loop", Here, CodeSize, Head(work).header)>>)

(* The jump back to the header, and then the exit patched past it. *)
CompileEndLoop ==
    /\ Visiting("end loop")
    /\ LET back == Emit(chunk, OpCode.JUMP, Head(work).header, This.span, NoText)
       IN  IF HasRoom(chunk, OpCode.JUMP)
           THEN /\ chunk' = PatchToHere(back, Head(work).at)
                /\ Become(<<>>)
                /\ UNCHANGED <<tree, functionIndex, compiled>>
           ELSE Fail(This.span, <<"program too large for one chunk">>)

(* A bare return, and falling off the end of a body, return 0. *)
CompileReturn ==
    /\ VisitingA("statement", "Return")
    /\ Visit(<<IF This.kids = <<>> THEN Item("zero", Here)
                                   ELSE Item("expression", This.kids[1]),
               EmitItem(OpCode.RETURN, Here)>>)

EmitZero ==
    /\ Visiting("zero")
    /\ EmitConstant(Zero, This.span, <<>>)

EmitHalt ==
    /\ Visiting("halt")
    /\ EmitHere(OpCode.HALT, 0, IF program = <<>> THEN NoSpan ELSE nodes[program[Len(program)]].span,
                NoText, <<>>)

CompileBodies ==
    /\ Visiting("bodies")
    /\ Visit(Append(Items("body", Functions), Item("finish", 0)))

(* The entry is fixed when the body starts; every body ends in CONST 0, RETURN. *)
CompileFunctionBody ==
    /\ Visiting("body")
    /\ chunk' = [chunk EXCEPT !.functions[functionIndex[This.name] + 1].entry = CodeSize]
    /\ Become(<<Item("statement", This.kids[1]), Item("zero", Here), Item("end body", Here)>>)
    /\ UNCHANGED <<tree, functionIndex, compiled>>

EndFunctionBody ==
    /\ Visiting("end body")
    /\ EmitHere(OpCode.RETURN, 0, This.span, NoText, <<>>)

Finish ==
    /\ Visiting("finish")
    /\ compiled' = Finished
    /\ Become(<<>>)
    /\ UNCHANGED <<tree, chunk, functionIndex>>

-----------------------------------------------------------------------------

Init ==
    /\ \E resolved \in ResolvedTrees :
           /\ nodes = resolved.nodes
           /\ program = resolved.program
           /\ programFrameSize = resolved.programFrameSize
    /\ chunk = EmptyChunk
    /\ functionIndex = <<>>
    /\ work = InitialWork(program)
    /\ compiled = Running

Next ==
    \/ DeclareFunctions \/ CompileLiteral \/ CompileIdentifier \/ CompileOperator
    \/ EmitOperation \/ CompileCall \/ CompilePrint \/ CompileAssign \/ CompileBlock
    \/ CompileIf \/ CompileThen \/ CompileElse \/ CompileEndIf
    \/ CompileWhile \/ CompileLoop \/ CompileEndLoop
    \/ CompileReturn \/ EmitZero \/ EmitHalt
    \/ CompileBodies \/ CompileFunctionBody \/ EndFunctionBody \/ Finish

Spec == Init /\ [][Next]_vars
=============================================================================
