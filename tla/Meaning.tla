------------------------------- MODULE Meaning -------------------------------
(***************************************************************************)
(* What a program means, said of its tree without slots, frames, jumps or  *)
(* a stack: variables are names in nested scopes, operators are those of   *)
(* the integers, and a call evaluates a body.  Both engines take the       *)
(* resolver's slots, so that comparing them with each other says nothing   *)
(* of a slot that is wrong; this does.                                     *)
(*                                                                         *)
(* A state of the evaluation is the scopes open in the running call, how   *)
(* deep that call is, what was printed, the value of what was evaluated    *)
(* last, and why the evaluation stops, or that it goes on.                 *)
(***************************************************************************)
EXTENDS Pipeline

Start == [scopes |-> << <<>> >>, depth |-> 0, out |-> <<>>, value |-> Zero, stop |-> Running]

Returning == Verdict("return", NoSpan, <<>>)

GoesOn(m) == m.stop = Running
Stopped(m, span, message) == [m EXCEPT !.stop = RuntimeFault(span, message)]
Valued(m, value) == [m EXCEPT !.value = value]

Holding(m, name) == {k \in DOMAIN m.scopes : name \in DOMAIN m.scopes[k]}

(* An assignment is to the variable of that name, and makes one where none is. *)
Assigned(m, name) ==
    LET k == IF Holding(m, name) = {} THEN Len(m.scopes) ELSE Max(Holding(m, name))
    IN  [m EXCEPT !.scopes[k] = (name :> m.value) @@ @]

-----------------------------------------------------------------------------

(* What an operator comes to: a value, or the message of the fault.  The
   integers are of unbounded width, and a quotient is pinned down by its
   remainder instead of computed. *)
Wide == (2 * MinInt) .. (-2 * MinInt)

WideQuotient(n, d) ==
    CHOOSE q \in Wide : LET r == n - q * d
                        IN  Magnitude(r) < Magnitude(d) /\ (r = 0 \/ (r < 0) = (n < 0))

Outcome(results, message) == [results |-> results, message |-> message]

InRange(n, message) ==
    IF n \in MinInt .. MaxInt THEN Outcome(<<IntValue(n)>>, <<>>) ELSE Outcome(<<>>, message)

Truth(b) == Outcome(<<BoolValue(b)>>, <<>>)

OnIntegers(op, n, d) ==
    CASE op = "+" -> InRange(n + d, <<"integer overflow", op>>)
      [] op = "-" -> InRange(n - d, <<"integer overflow", op>>)
      [] op = "*" -> InRange(n * d, <<"integer overflow", op>>)
      [] op = "/" /\ d = 0 -> Outcome(<<>>, <<"division by zero">>)
      [] op = "/" /\ d # 0 -> InRange(WideQuotient(n, d), <<"integer overflow", op>>)
      [] op = "<" -> Truth(n < d)
      [] op = "<=" -> Truth(n <= d)
      [] op = ">" -> Truth(n > d)
      [] op = ">=" -> Truth(n >= d)
      [] op = "==" -> Truth(n = d)
      [] op = "!=" -> Truth(n # d)

Applied(op, operands) ==
    LET types == {operands[i].type : i \in DOMAIN operands}
    IN  IF Len(operands) = 2 /\ types = {"integer"}
        THEN OnIntegers(op, operands[1].v, operands[2].v)
        ELSE IF op \in {"==", "!="} /\ types = {"boolean"}
        THEN Truth((operands[1] = operands[2]) = (op = "=="))
        ELSE IF op = "-" /\ types = {"integer"}
        THEN InRange(-operands[1].v, <<"integer overflow in unary", op>>)
        ELSE IF op = "!" /\ types = {"boolean"} THEN Truth(operands[1].v = 0)
        ELSE Outcome(<<>>, <<"operator cannot be applied", op>>
                               \o [i \in DOMAIN operands |-> operands[i].type])

-----------------------------------------------------------------------------

RECURSIVE Evaluated(_, _), Executed(_, _)

(* Several expressions, left to right, up to one that stops; their values. *)
InTurn(m, ids) ==
    FoldLeft(LAMBDA done, n :
                 IF ~GoesOn(done.m) THEN done
                 ELSE LET next == Evaluated(done.m, n)
                      IN  [m |-> next, found |-> Append(done.found, next.value)],
             [m |-> m, found |-> <<>>], ids)

(* A body in scopes of its own, with the arguments by name; the caller's are
   there again afterwards. *)
Called(m, n, arguments) ==
    LET f == nodes[CHOOSE k \in Range(program) :
                       nodes[k].type = "Function" /\ nodes[k].name = nodes[n].name]
        named == [p \in {f.parameters[i].name : i \in DOMAIN f.parameters} |->
                     arguments[CHOOSE i \in DOMAIN f.parameters : f.parameters[i].name = p]]
        left == Executed([m EXCEPT !.scopes = <<named>>, !.depth = @ + 1], f.kids[1])
        back == [left EXCEPT !.scopes = m.scopes, !.depth = m.depth]
    IN  IF m.depth = MaxCallDepth THEN Stopped(m, nodes[n].span, <<"call depth exceeded">>)
        ELSE IF GoesOn(left) THEN Valued(back, Zero)
        ELSE IF left.stop = Returning THEN [back EXCEPT !.stop = Running]
        ELSE back

Evaluated(m, n) ==
    LET node == nodes[n]
        operands == InTurn(m, node.kids)
        result == Applied(node.name, operands.found)
    IN  CASE node.type \in {"Number", "Boolean"} -> Valued(m, node.value)
          [] node.type = "Identifier" ->
                 Valued(m, m.scopes[Max(Holding(m, node.name))][node.name])
          [] ~GoesOn(operands.m) -> operands.m
          [] GoesOn(operands.m) /\ node.type = "Call" -> Called(operands.m, n, operands.found)
          [] GoesOn(operands.m) /\ node.type \in {"BinOp", "UnaryOp"} ->
                 IF result.results = <<>>
                 THEN Stopped(operands.m, node.span, result.message)
                 ELSE Valued(operands.m, result.results[1])

(* Statements, up to one that stops. *)
Sequenced(m, ids) ==
    FoldLeft(LAMBDA done, n : IF GoesOn(done) THEN Executed(done, n) ELSE done, m, ids)

(* What a branch or a loop does once its condition is known. *)
Chosen(m, n) ==
    LET node == nodes[n]
        again == IF node.type = "While" THEN <<n>> ELSE <<>>
    IN  IF ~IsBool(m.value)
        THEN Stopped(m, nodes[node.kids[1]].span, <<"a condition must be a boolean", m.value.type>>)
        ELSE Sequenced(m, IF IsTrue(m.value) THEN <<node.kids[2]>> \o again
                          ELSE SubSeq(node.kids, 3, Len(node.kids)))

(* What a statement does with the value of its expression. *)
Used(m, n) ==
    CASE nodes[n].type = "Assign" -> Assigned(m, nodes[n].name)
      [] nodes[n].type = "Print" -> [m EXCEPT !.out = Append(@, m.value)]
      [] nodes[n].type = "Return" -> [m EXCEPT !.stop = Returning]
      [] nodes[n].type \in {"If", "While"} -> Chosen(m, n)

Executed(m, n) ==
    LET node == nodes[n]
        inner == Sequenced([m EXCEPT !.scopes = Append(@, <<>>)], node.kids)
        evaluated == Evaluated(m, node.kids[1])
    IN  IF node.type = "Block"
        THEN [inner EXCEPT !.scopes = SubSeq(@, 1, Len(m.scopes))]
        ELSE IF node.kids = <<>>
        THEN [Valued(m, Zero) EXCEPT !.stop = Returning]
        ELSE IF GoesOn(evaluated) THEN Used(evaluated, n) ELSE evaluated

-----------------------------------------------------------------------------

(* What a program that has ended printed, and how it ended, is what the program
   means; under the VM too, unless it ran out of what only it has.  The engines
   agreeing does not show it: parser, resolver and slots are the same for both. *)
ProgramsMeanWhatTheySay ==
    BothEnded =>
        LET m == Sequenced(Start, SelectSeq(program, LAMBDA n : nodes[n].type # "Function"))
            verdict == IF GoesOn(m) THEN Finished ELSE m.stop
        IN  /\ treeOut = m.out /\ treeVerdict = verdict
            /\ VmOnly(vmVerdict) \/ (vmOut = m.out /\ vmVerdict = verdict)
=============================================================================
