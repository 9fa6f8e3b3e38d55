------------------------------ MODULE Resolver ------------------------------
(***************************************************************************)
(* Name resolution (src/src/resolver.cpp): rejects names that are not in   *)
(* scope, and writes a frame slot onto every node that names a variable.   *)
(*                                                                         *)
(* The walk over the tree is `work`, its head what is visited next.  A     *)
(* frame numbers its variables from 0 and holds its open scopes, innermost *)
(* last, and the names whose scope has closed.                             *)
(***************************************************************************)
EXTENDS Syntax, SequencesExt

CONSTANT Trees      \* the trees the parser can hand over

VARIABLES nodes, program, frames, functionArity, work, programFrameSize, resolved

vars == <<nodes, program, frames, functionArity, work, programFrameSize, resolved>>

Item(do, node) == [do |-> do, node |-> node]
Items(do, ids) == [i \in DOMAIN ids |-> Item(do, ids[i])]

NewFrame == [nextSlot |-> 0, scopes |-> <<>>, retired |-> {}]
EmptyScope == <<>>

(* The program's own frame and scope, which nothing closes. *)
InitialFrames == <<[NewFrame EXCEPT !.scopes = <<EmptyScope>>]>>

InitialWork(statements) ==
    <<Item("collect", 0)>> \o Items("statement", statements) \o <<Item("finish", 0)>>

-----------------------------------------------------------------------------

Visiting(do) == resolved = Running /\ work # <<>> /\ Head(work).do = do
VisitingA(do, type) == Visiting(do) /\ nodes[Head(work).node].type = type

Here == Head(work).node
This == nodes[Here]

Become(items) == work' = items \o Tail(work)

Fail(span, message) ==
    /\ resolved' = CompileError(span, message)
    /\ UNCHANGED <<nodes, program, frames, functionArity, work, programFrameSize>>

Visit(items) ==
    /\ Become(items)
    /\ UNCHANGED <<nodes, program, frames, functionArity, programFrameSize, resolved>>

Frame == Last(frames)
WithFrame(frame) == Append(Front(frames), frame)

(* The innermost binding of the name in the current frame, and in no other. *)
Lookup(name) ==
    LET holding == {i \in DOMAIN Frame.scopes : name \in DOMAIN Frame.scopes[i]}
    IN  IF holding = {} THEN UnresolvedSlot ELSE Frame.scopes[Max(holding)][name]

VisibleInAnEnclosingFrame(name) ==
    \E depth \in 1 .. Len(frames) - 1 :
        \E scope \in Range(frames[depth].scopes) : name \in DOMAIN scope

Bind(scope, name, slot) ==
    [x \in DOMAIN scope \cup {name} |-> IF x = name THEN slot ELSE scope[x]]

(* A frame in which the name takes the next slot, in the innermost scope. *)
Declare(frame, name) ==
    [frame EXCEPT !.nextSlot = @ + 1,
                  !.scopes[Len(frame.scopes)] = Bind(@, name, frame.nextSlot)]

(* mutants: the closed scope's names stay visible, hand their slots back, or are
   forgotten *)
CloseLeaking(frame) ==
    LET outer == Front(frame.scopes)
    IN  [frame EXCEPT !.scopes = Append(Front(outer), Last(outer) @@ Last(frame.scopes))]

CloseReusing(frame) ==
    [frame EXCEPT !.scopes = Front(@), !.retired = @ \cup DOMAIN Last(frame.scopes),
                  !.nextSlot = @ - Cardinality(DOMAIN Last(frame.scopes))]

CloseForgetting(frame) == [frame EXCEPT !.scopes = Front(@)]

(* A frame without its innermost scope; its slots are not handed back. *)
CloseScope(frame) ==
    [frame EXCEPT !.scopes = Front(@), !.retired = @ \cup DOMAIN Last(frame.scopes)]

-----------------------------------------------------------------------------

Functions ==
    SubSequence(program, {i \in DOMAIN program : nodes[program[i]].type = "Function"})

(* collectFunctions: every name and arity before any body is walked. *)
CollectFunctions ==
    /\ Visiting("collect")
    /\ LET name(i) == nodes[Functions[i]].name
           duplicates == {i \in DOMAIN Functions : \E j \in 1 .. i - 1 : name(j) = name(i)}
           declared == {name(i) : i \in DOMAIN Functions}
           arity(f) == LET i == CHOOSE i \in DOMAIN Functions : name(i) = f
                       IN  Len(nodes[Functions[i]].parameters)
       IN  IF duplicates # {}
           THEN Fail(nodes[Functions[Min(duplicates)]].nameSpan,
                     <<"duplicate function", name(Min(duplicates))>>)
           ELSE /\ functionArity' = [f \in declared |-> arity(f)]
                /\ Become(<<>>)
                /\ UNCHANGED <<nodes, program, frames, programFrameSize, resolved>>

NotInScope(name) ==
    IF name \in Frame.retired
    THEN <<"variable used outside the block that assigns it", name>>
    ELSE IF VisibleInAnEnclosingFrame(name)
    THEN <<"variable used inside a function", name>>
    ELSE IF name \in DOMAIN functionArity
    THEN <<"a function, not a value", name>>
    ELSE <<"variable used before assignment", name>>

ResolveIdentifier ==
    /\ VisitingA("expression", "Identifier")
    /\ IF Lookup(This.name) = UnresolvedSlot
       THEN Fail(This.span, NotInScope(This.name))
       ELSE /\ nodes' = [nodes EXCEPT ![Here].slot = Lookup(This.name)]
            /\ Become(<<>>)
            /\ UNCHANGED <<program, frames, functionArity, programFrameSize, resolved>>

(* Operators resolve their operands left to right; a literal names nothing. *)
ResolveOperands ==
    /\ \E type \in {"BinOp", "UnaryOp", "Number", "Boolean"} : VisitingA("expression", type)
    /\ Visit(Items("expression", This.kids))

ResolveCall ==
    /\ VisitingA("expression", "Call")
    /\ LET callee == This.name
           given == Len(This.kids)
       IN  IF callee \notin DOMAIN functionArity
           THEN Fail(This.span, IF Lookup(callee) # UnresolvedSlot
                                THEN <<"a variable, not a function", callee>>
                                ELSE <<"unknown function", callee>>)
           ELSE IF given # functionArity[callee]
           THEN Fail(This.span, <<"wrong number of arguments", callee>>)
           ELSE Visit(Items("expression", This.kids))

(* mutant: the name before the value *)
AssignNameFirst ==
    /\ VisitingA("statement", "Assign")
    /\ Visit(<<Item("declare or bind", Here), Item("expression", This.kids[1])>>)

(* The value before the name: a variable is not visible in its first assignment. *)
ResolveAssign ==
    /\ VisitingA("statement", "Assign")
    /\ Visit(<<Item("expression", This.kids[1]), Item("declare or bind", Here)>>)

(* mutant: an assignment in a block makes a variable of that block's *)
DeclareInBlock ==
    /\ Visiting("declare or bind")
    /\ LET block == Last(Frame.scopes)
           bound == This.name \in DOMAIN block
       IN  /\ nodes' = [nodes EXCEPT ![Here].slot =
                           IF bound THEN block[This.name] ELSE Frame.nextSlot]
           /\ frames' = IF bound THEN frames ELSE WithFrame(Declare(Frame, This.name))
    /\ Become(<<>>)
    /\ UNCHANGED <<program, functionArity, programFrameSize, resolved>>

DeclareOrBind ==
    /\ Visiting("declare or bind")
    /\ LET existing == Lookup(This.name)
       IN  /\ nodes' = [nodes EXCEPT ![Here].slot =
                           IF existing # UnresolvedSlot THEN existing ELSE Frame.nextSlot]
           /\ frames' = IF existing # UnresolvedSlot
                        THEN frames
                        ELSE WithFrame(Declare(Frame, This.name))
    /\ Become(<<>>)
    /\ UNCHANGED <<program, functionArity, programFrameSize, resolved>>

ResolvePrint ==
    /\ VisitingA("statement", "Print")
    /\ Visit(Items("expression", This.kids))

ResolveBlock ==
    /\ VisitingA("statement", "Block")
    /\ frames' = WithFrame([Frame EXCEPT !.scopes = Append(@, EmptyScope)])
    /\ Become(Append(Items("statement", This.kids), Item("pop scope", Here)))
    /\ UNCHANGED <<nodes, program, functionArity, programFrameSize, resolved>>

PopScope ==
    /\ Visiting("pop scope")
    /\ frames' = WithFrame(CloseScope(Frame))
    /\ Become(<<>>)
    /\ UNCHANGED <<nodes, program, functionArity, programFrameSize, resolved>>

(* The condition stands in the scope of the statement itself, outside the
   blocks it selects; a loop's body is walked once. *)
ResolveConditional ==
    /\ VisitingA("statement", "If") \/ VisitingA("statement", "While")
    /\ Visit(<<Item("expression", Head(This.kids))>> \o Items("statement", Tail(This.kids)))

ResolveReturn ==
    /\ VisitingA("statement", "Return")
    /\ IF Len(frames) = 1
       THEN Fail(This.span, <<"'return' outside of a function">>)
       ELSE Visit(Items("expression", This.kids))

(* resolveFunction up to its body: a frame whose outermost scope holds the
   parameters, numbered in order. *)
ResolveFunction ==
    /\ VisitingA("statement", "Function")
    /\ LET parameters == This.parameters
           duplicates == {i \in DOMAIN parameters :
                             \E j \in 1 .. i - 1 : parameters[j].name = parameters[i].name}
           scope == [p \in {parameters[i].name : i \in DOMAIN parameters} |->
                        (CHOOSE i \in DOMAIN parameters : parameters[i].name = p) - 1]
       IN  IF duplicates # {}
           THEN Fail(parameters[Min(duplicates)].span,
                     <<"duplicate parameter", parameters[Min(duplicates)].name>>)
           ELSE /\ frames' = Append(frames, [nextSlot |-> Len(parameters),
                                             scopes |-> <<scope>>, retired |-> {}])
                /\ nodes' = [nodes EXCEPT ![Here].parameters =
                                [i \in DOMAIN @ |-> [@[i] EXCEPT !.slot = i - 1]]]
                /\ Become(<<Item("statement", This.kids[1]), Item("end function", Here)>>)
                /\ UNCHANGED <<program, functionArity, programFrameSize, resolved>>

EndFunction ==
    /\ Visiting("end function")
    /\ nodes' = [nodes EXCEPT ![Here].frameSize = Frame.nextSlot]
    /\ frames' = Front(frames)
    /\ Become(<<>>)
    /\ UNCHANGED <<program, functionArity, programFrameSize, resolved>>

Finish ==
    /\ Visiting("finish")
    /\ programFrameSize' = Frame.nextSlot
    /\ resolved' = Finished
    /\ Become(<<>>)
    /\ UNCHANGED <<nodes, program, frames, functionArity>>

-----------------------------------------------------------------------------

Init ==
    /\ \E tree \in Trees : nodes = tree.nodes /\ program = tree.program
    /\ frames = InitialFrames
    /\ functionArity = <<>>
    /\ work = InitialWork(program)
    /\ programFrameSize = 0
    /\ resolved = Running

Next ==
    \/ CollectFunctions \/ ResolveIdentifier \/ ResolveOperands \/ ResolveCall
    \/ ResolveAssign \/ DeclareOrBind \/ ResolvePrint \/ ResolveBlock \/ PopScope
    \/ ResolveConditional \/ ResolveReturn \/ ResolveFunction \/ EndFunction \/ Finish

Spec == Init /\ [][Next]_vars
=============================================================================
