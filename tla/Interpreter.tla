----------------------------- MODULE Interpreter ----------------------------
(***************************************************************************)
(* The tree-walking interpreter (src/src/interpreter.cpp).                 *)
(*                                                                         *)
(* The C++ call stack is `work`, its head what runs next; the values that  *)
(* evaluate has returned into C++ locals, and that are still to be used,   *)
(* are `values`.  `flow` is what the last statement returned: while it is  *)
(* "Return", every enclosing statement returns at once, up to the call.    *)
(* `written` is a history variable: per frame, the slots written so far.   *)
(***************************************************************************)
EXTENDS Syntax, FiniteSetsExt

CONSTANTS MaxCallDepth, ResolvedTrees

VARIABLES nodes, program, programFrameSize,
          frames, written, returnValue, flow, values, work, out, verdict

tree == <<nodes, program, programFrameSize>>
vars == <<tree, frames, written, returnValue, flow, values, work, out, verdict>>

Item(do, node) == [do |-> do, node |-> node]
Items(do, ids) == [i \in DOMAIN ids |-> Item(do, ids[i])]

(* An environment: one value per slot, every one of them 0 at first. *)
NewEnvironment(size) == [i \in 1 .. size |-> Zero]

IsFunction(n) == nodes[n].type = "Function"

InitialWork(statements) ==
    Items("statement", SelectSeq(statements, LAMBDA n : ~IsFunction(n)))

-----------------------------------------------------------------------------

Doing(do) == verdict = Running /\ flow = "Normal" /\ work # <<>> /\ Head(work).do = do
DoingA(do, type) == Doing(do) /\ nodes[Head(work).node].type = type

Here == Head(work).node
This == nodes[Here]

Become(items) == work' = items \o Tail(work)

(* The exception unwinds every call: FramePopper leaves the program's frame. *)
Fault(span, message) ==
    /\ verdict' = RuntimeFault(span, message)
    /\ work' = <<>>
    /\ values' = <<>>
    /\ frames' = SubSeq(frames, 1, 1)
    /\ written' = SubSeq(written, 1, 1)
    /\ UNCHANGED <<tree, returnValue, flow, out>>

(* Only calls and values change: nothing but `work` and `values`. *)
Step(items, after) ==
    /\ Become(items)
    /\ values' = after
    /\ UNCHANGED <<tree, frames, written, returnValue, flow, out, verdict>>

Go(items) == Step(items, values)

Top == values[Len(values)]
Second == values[Len(values) - 1]
Dropped(n) == SubSeq(values, 1, Len(values) - n)

(* evaluate returns: the n operands it used are gone. *)
Yield(n, value) == Step(<<>>, Append(Dropped(n), value))

Environment == frames[Len(frames)]

-----------------------------------------------------------------------------

EvaluateLiteral ==
    /\ DoingA("evaluate", "Number") \/ DoingA("evaluate", "Boolean")
    /\ Yield(0, This.value)

EvaluateIdentifier ==
    /\ DoingA("evaluate", "Identifier")
    /\ Yield(0, Environment[This.slot + 1])

(* The operands left to right, each once, and then the operator. *)
EvaluateOperands ==
    \/ /\ DoingA("evaluate", "BinOp")
       /\ Go(Append(Items("evaluate", This.kids), Item("binary", Here)))
    \/ /\ DoingA("evaluate", "UnaryOp")
       /\ Go(Append(Items("evaluate", This.kids), Item("unary", Here)))

BinaryTypeFault ==
    Fault(This.span, <<"operator cannot be applied", This.name, Second.type, Top.type>>)
UnaryTypeFault == Fault(This.span, <<"operator cannot be applied", This.name, Top.type>>)
OverflowFault == Fault(This.span, <<"integer overflow", This.name>>)

BothIntegers == IsInt(Second) /\ IsInt(Top)

Exact(kind, left, right) ==
    CASE kind = "Add" -> left + right
      [] kind = "Subtract" -> left - right
      [] kind = "Multiply" -> left * right

ApplyArithmetic ==
    /\ Doing("binary")
    /\ This.kind \in {"Add", "Subtract", "Multiply"}
    /\ LET result == Exact(This.kind, Second.v, Top.v)
       IN  IF ~BothIntegers THEN BinaryTypeFault
           ELSE IF ~Fits(result) THEN OverflowFault
           ELSE Yield(2, IntValue(result))

ApplyDivide ==
    /\ Doing("binary")
    /\ This.kind = "Divide"
    /\ IF ~BothIntegers THEN BinaryTypeFault
       ELSE IF Top.v = 0 THEN Fault(This.span, <<"division by zero">>)
       ELSE IF Second.v = MinInt /\ Top.v = -1 THEN OverflowFault
       ELSE Yield(2, IntValue(Quotient(Second.v, Top.v)))

Ordered(kind, left, right) ==
    CASE kind = "Less" -> left < right
      [] kind = "LessEqual" -> left <= right
      [] kind = "Greater" -> left > right
      [] kind = "GreaterEqual" -> left >= right

ApplyOrder ==
    /\ Doing("binary")
    /\ This.kind \in {"Less", "LessEqual", "Greater", "GreaterEqual"}
    /\ IF ~BothIntegers THEN BinaryTypeFault
       ELSE Yield(2, BoolValue(Ordered(This.kind, Second.v, Top.v)))

ApplyEquality ==
    /\ Doing("binary")
    /\ This.kind \in {"Equal", "NotEqual"}
    /\ IF Second.type # Top.type THEN BinaryTypeFault
       ELSE Yield(2, BoolValue(ValuesEqual(Second, Top) = (This.kind = "Equal")))

ApplyNegate ==
    /\ Doing("unary")
    /\ This.kind = "Negate"
    /\ IF ~IsInt(Top) THEN UnaryTypeFault
       ELSE IF ~Fits(0 - Top.v)
       THEN Fault(This.span, <<"integer overflow in unary", This.name>>)
       ELSE Yield(1, IntValue(0 - Top.v))

ApplyNot ==
    /\ Doing("unary")
    /\ This.kind = "Not"
    /\ IF ~IsBool(Top) THEN UnaryTypeFault ELSE Yield(1, BoolValue(~IsTrue(Top)))

-----------------------------------------------------------------------------

(* callFunction: the arguments are evaluated in the caller's frame. *)
EvaluateCall ==
    /\ DoingA("evaluate", "Call")
    /\ Go(Append(Items("evaluate", This.kids), Item("call", Here)))

FunctionNamed(name) ==
    nodes[CHOOSE n \in Range(program) : IsFunction(n) /\ nodes[n].name = name]

(* The argument bound to each slot of a new frame, and 0 elsewhere. *)
BoundEnvironment(function, arguments) ==
    [i \in 1 .. function.frameSize |->
        LET bound == {p \in DOMAIN arguments : function.parameters[p].slot + 1 = i}
        IN  IF bound = {} THEN Zero ELSE arguments[Max(bound)]]

TooDeepLate == Len(frames) > MaxCallDepth + 1     \* mutant: one call more

(* The program's own frame is not a call. *)
TooDeep == Len(frames) > MaxCallDepth

EnterCall ==
    /\ Doing("call")
    /\ LET function == FunctionNamed(This.name)
           arity == Len(This.kids)
           arguments == SubSeq(values, Len(values) - arity + 1, Len(values))
       IN  IF TooDeep
           THEN Fault(This.span, <<"call depth exceeded">>)
           ELSE /\ frames' = Append(frames, BoundEnvironment(function, arguments))
                /\ written' = Append(written,
                       {function.parameters[p].slot : p \in 1 .. arity})
                /\ values' = Dropped(arity)
                /\ Become(<<Item("statement", function.kids[1]), Item("return", Here)>>)
                /\ UNCHANGED <<tree, returnValue, flow, out, verdict>>

(* mutant: whatever the last return anywhere left *)
LeaveWithStale ==
    /\ verdict = Running
    /\ work # <<>>
    /\ Head(work).do = "return"
    /\ frames' = SubSeq(frames, 1, Len(frames) - 1)
    /\ written' = SubSeq(written, 1, Len(written) - 1)
    /\ values' = Append(values, returnValue)
    /\ flow' = "Normal"
    /\ Become(<<>>)
    /\ UNCHANGED <<tree, returnValue, out, verdict>>

(* The call returns what `return` left, or 0 if the body ran to its end. *)
LeaveCall ==
    /\ verdict = Running
    /\ work # <<>>
    /\ Head(work).do = "return"
    /\ frames' = SubSeq(frames, 1, Len(frames) - 1)
    /\ written' = SubSeq(written, 1, Len(written) - 1)
    /\ values' = Append(values, IF flow = "Return" THEN returnValue ELSE Zero)
    /\ flow' = "Normal"
    /\ Become(<<>>)
    /\ UNCHANGED <<tree, returnValue, out, verdict>>

-----------------------------------------------------------------------------

ExecuteAssign ==
    \/ /\ DoingA("statement", "Assign")
       /\ Go(<<Item("evaluate", This.kids[1]), Item("assign", Here)>>)
    \/ /\ Doing("assign")
       /\ frames' = [frames EXCEPT ![Len(frames)][This.slot + 1] = Top]
       /\ written' = [written EXCEPT ![Len(written)] = @ \cup {This.slot}]
       /\ values' = Dropped(1)
       /\ Become(<<>>)
       /\ UNCHANGED <<tree, returnValue, flow, out, verdict>>

ExecutePrint ==
    \/ /\ DoingA("statement", "Print")
       /\ Go(<<Item("evaluate", This.kids[1]), Item("print", Here)>>)
    \/ /\ Doing("print")
       /\ out' = Append(out, Top)
       /\ values' = Dropped(1)
       /\ Become(<<>>)
       /\ UNCHANGED <<tree, frames, written, returnValue, flow, verdict>>

ExecuteBlock ==
    /\ DoingA("statement", "Block")
    /\ Go(Items("statement", This.kids))

(* An `if` tests its condition once; a `while` comes back to it after its body. *)
ExecuteConditional ==
    /\ DoingA("statement", "If") \/ DoingA("statement", "While")
    /\ Go(<<Item("evaluate", This.kids[1]), Item("test", Here)>>)

(* mutant: a loop that ended is tested again *)
SelectedAgain(truth) ==
    IF This.type = "While"
    THEN IF truth THEN <<Item("statement", This.kids[2]), Item("statement", Here)>>
                  ELSE <<Item("statement", Here)>>
    ELSE IF truth THEN <<Item("statement", This.kids[2])>>
    ELSE IF HasElse(This) THEN <<Item("statement", This.kids[3])>> ELSE <<>>

Selected(truth) ==
    IF This.type = "While"
    THEN IF truth THEN <<Item("statement", This.kids[2]), Item("statement", Here)>> ELSE <<>>
    ELSE IF truth THEN <<Item("statement", This.kids[2])>>
    ELSE IF HasElse(This) THEN <<Item("statement", This.kids[3])>> ELSE <<>>

TestCondition ==
    /\ Doing("test")
    /\ IF ~IsBool(Top)
       THEN Fault(nodes[This.kids[1]].span, <<"a condition must be a boolean", Top.type>>)
       ELSE Step(Selected(IsTrue(Top)), Dropped(1))

ExecuteReturn ==
    \/ /\ DoingA("statement", "Return")
       /\ This.kids # <<>>
       /\ Go(<<Item("evaluate", This.kids[1]), Item("return value", Here)>>)
    \/ /\ DoingA("statement", "Return")
       /\ This.kids = <<>>
       /\ returnValue' = Zero
       /\ flow' = "Return"
       /\ Become(<<>>)
       /\ UNCHANGED <<tree, frames, written, values, out, verdict>>
    \/ /\ Doing("return value")
       /\ returnValue' = Top
       /\ flow' = "Return"
       /\ values' = Dropped(1)
       /\ Become(<<>>)
       /\ UNCHANGED <<tree, frames, written, out, verdict>>

(* Flow::Return out of whatever block, if or while stood around the return. *)
Unwind ==
    /\ verdict = Running
    /\ flow = "Return"
    /\ work # <<>>
    /\ Head(work).do # "return"
    /\ Become(<<>>)
    /\ UNCHANGED <<tree, frames, written, returnValue, flow, values, out, verdict>>

Finish ==
    /\ verdict = Running
    /\ work = <<>>
    /\ verdict' = Finished
    /\ UNCHANGED <<tree, frames, written, returnValue, flow, values, work, out>>

-----------------------------------------------------------------------------

Init ==
    /\ \E resolved \in ResolvedTrees :
           /\ nodes = resolved.nodes
           /\ program = resolved.program
           /\ programFrameSize = resolved.programFrameSize
    /\ frames = <<NewEnvironment(programFrameSize)>>
    /\ written = <<{}>>
    /\ returnValue = Zero
    /\ flow = "Normal"
    /\ values = <<>>
    /\ work = InitialWork(program)
    /\ out = <<>>
    /\ verdict = Running

Next ==
    \/ EvaluateLiteral \/ EvaluateIdentifier \/ EvaluateOperands
    \/ ApplyArithmetic \/ ApplyDivide \/ ApplyOrder \/ ApplyEquality
    \/ ApplyNegate \/ ApplyNot
    \/ EvaluateCall \/ EnterCall \/ LeaveCall
    \/ ExecuteAssign \/ ExecutePrint \/ ExecuteBlock
    \/ ExecuteConditional \/ TestCondition \/ ExecuteReturn \/ Unwind \/ Finish

Spec == Init /\ [][Next]_vars
=============================================================================
