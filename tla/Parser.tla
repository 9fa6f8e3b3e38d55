------------------------------- MODULE Parser -------------------------------
(***************************************************************************)
(* The recursive-descent parser (src/src/parser.cpp).                      *)
(*                                                                         *)
(* The C++ call stack is `work`: its head is what runs next, and an item   *)
(* that calls another parse function puts that call and the rest of its    *)
(* own body in its place.  `built` holds the nodes the pending calls have  *)
(* returned and not yet put into a parent.  `pos` counts from 1.           *)
(***************************************************************************)
EXTENDS Syntax

CONSTANT Sources    \* the token vectors the lexer can hand over

VARIABLES tokens, pos, nodes, built, work, parsed

vars == <<tokens, pos, nodes, built, work, parsed>>

(* One call, or the rest of one: `arg` and `text` parameterise it, `at` is the
   position of the construct's first token, `n` a count or a precedence level. *)
Item(do, arg, text, at, n) == [do |-> do, arg |-> arg, text |-> text, at |-> at, n |-> n]

CallTo(function) == Item(function, "", "", 0, 0)
Expect(type, message) == Item("expect", type, message, 0, 0)
Make(type, at, n) == Item("make", type, "", at, n)

LevelOperators ==
    <<{"EQUAL_EQUAL", "NOT_EQUAL"},
      {"LESS", "LESS_EQUAL", "GREATER", "GREATER_EQUAL"},
      {"PLUS", "MINUS"},
      {"MULTIPLY", "DIVIDE"}>>

TightestLevel == Len(LevelOperators)

(* mutant: the right operand may hold an operator of its own level *)
DescendLoosely(level) ==
    <<CallTo("unary")>> \o
        [i \in 1 .. TightestLevel + 1 - (IF level = 1 THEN 1 ELSE level - 1) |->
            Item("operators", "", "", 0, TightestLevel + 1 - i)]

(* The calls parseEquality -> parseComparison -> ... -> parseUnary, entered at
   `level`: each level first calls the tighter one and then runs its own loop. *)
Descend(level) ==
    <<CallTo("unary")>> \o
        [i \in 1 .. TightestLevel + 1 - level |->
            Item("operators", "", "", 0, TightestLevel + 1 - i)]

ParseExpr == Descend(1)

StartsExpression == {"NUMBER", "BOOLEAN", "IDENTIFIER", "MINUS", "NOT"}

BinOpKindOf(type) ==
    CASE type = "PLUS" -> "Add"
      [] type = "MINUS" -> "Subtract"
      [] type = "MULTIPLY" -> "Multiply"
      [] type = "DIVIDE" -> "Divide"
      [] type = "LESS" -> "Less"
      [] type = "LESS_EQUAL" -> "LessEqual"
      [] type = "GREATER" -> "Greater"
      [] type = "GREATER_EQUAL" -> "GreaterEqual"
      [] type = "EQUAL_EQUAL" -> "Equal"
      [] type = "NOT_EQUAL" -> "NotEqual"

UnaryOpKindOf(type) == IF type = "MINUS" THEN "Negate" ELSE "Not"

Describe(token) == IF token.type = "END_OF_FILE" THEN "end of file" ELSE token.text

-----------------------------------------------------------------------------

Current == tokens[pos]
Sees(types) == Current.type \in types

Calling(do) == parsed = Running /\ work # <<>> /\ Head(work).do = do

Become(items) == work' = items \o Tail(work)
Consume(k) == pos' = pos + k

Fail(span, message) ==
    /\ parsed' = CompileError(span, message)
    /\ UNCHANGED <<tokens, pos, nodes, built, work>>

(* A call that moves over k tokens and leaves `items` to run. *)
Go(k, items) ==
    /\ Consume(k)
    /\ Become(items)
    /\ UNCHANGED <<tokens, nodes, built, parsed>>

(* A call that returns a new node over the last n nodes built. *)
Return(k, n, node) ==
    /\ Consume(k)
    /\ nodes' = Append(nodes, node)
    /\ built' = Append(SubSeq(built, 1, Len(built) - n), Len(nodes) + 1)
    /\ work' = Tail(work)
    /\ UNCHANGED <<tokens, parsed>>

(* mutant: the parts in the order they come off a stack *)
LastPopped(n) == [i \in 1 .. n |-> built[Len(built) + 1 - i]]

LastBuilt(n) == SubSeq(built, Len(built) - n + 1, Len(built))

ExpectToken ==
    /\ Calling("expect")
    /\ IF Sees({Head(work).arg})
       THEN Go(1, <<>>)
       ELSE Fail(Current.span, <<Head(work).text>>)

(* parse: statements until the end of the file; `fn` is looked for only here. *)
ParseProgram ==
    /\ Calling("program")
    /\ IF Sees({"END_OF_FILE"})
       THEN /\ parsed' = Finished
            /\ work' = <<>>
            /\ UNCHANGED <<tokens, pos, nodes, built>>
       ELSE /\ ~Sees({"FN"})
            /\ Go(0, <<CallTo("statement"), CallTo("program")>>)

ParseFunction ==
    /\ Calling("program")
    /\ Sees({"FN"})
    /\ Go(1, <<Expect("IDENTIFIER", "expected a function name after 'fn'"),
               Expect("LEFT_PAREN", "expected '(' after the function name"),
               CallTo("parameters"),
               Expect("RIGHT_PAREN", "expected ')' to close the parameter list"),
               CallTo("block"),
               Make("Function", pos, 1),
               CallTo("program")>>)

MaybeParameter == <<CallTo("more parameters")>>     \* mutant: a name may be missing

ExpectParameter ==
    <<Expect("IDENTIFIER", "expected a parameter name"), CallTo("more parameters")>>

ParseParameters ==
    \/ /\ Calling("parameters")
       /\ Go(0, IF Sees({"RIGHT_PAREN"}) THEN <<>> ELSE ExpectParameter)
    \/ /\ Calling("more parameters")
       /\ IF Sees({"COMMA"}) THEN Go(1, ExpectParameter) ELSE Go(0, <<>>)

ParseStatement ==
    /\ Calling("statement")
    /\ \/ /\ Sees({"LEFT_BRACE"})
          /\ Go(0, <<CallTo("block")>>)
       \/ /\ Sees({"FN"})
          /\ Fail(Current.span, <<"a function may only be declared at the top level">>)
       \/ /\ ~Sees({"PRINT", "IF", "WHILE", "RETURN", "LEFT_BRACE", "FN", "IDENTIFIER"})
          /\ Fail(Current.span, <<"expected a statement, found", Describe(Current)>>)

ParsePrint ==
    /\ Calling("statement")
    /\ Sees({"PRINT"})
    /\ Go(1, Append(ParseExpr, Make("Print", pos, 1)))

ParseAssign ==
    /\ Calling("statement")
    /\ Sees({"IDENTIFIER"})
    /\ Go(1, <<Expect("EQUALS", "expected '=' after variable name")>>
               \o Append(ParseExpr, Make("Assign", pos, 1)))

(* An `else if` calls parseIf again, so a chain nests to the right. *)
ParseIf ==
    /\ \/ Calling("statement")
       \/ Calling("if")
    /\ Sees({"IF"})
    /\ Go(1, ParseExpr \o <<CallTo("block"), Item("else", "", "", pos, 0)>>)

ParseElse ==
    /\ Calling("else")
    /\ IF Sees({"ELSE"})
       THEN Go(1, <<CallTo(IF tokens[pos + 1].type = "IF" THEN "if" ELSE "block"),
                    Make("If", Head(work).at, 3)>>)
       ELSE Go(0, <<Make("If", Head(work).at, 2)>>)

ParseWhile ==
    /\ Calling("statement")
    /\ Sees({"WHILE"})
    /\ Go(1, ParseExpr \o <<CallTo("block"), Make("While", pos, 2)>>)

(* Bare unless the token after the keyword could begin an expression. *)
ParseReturn ==
    /\ Calling("statement")
    /\ Sees({"RETURN"})
    /\ IF tokens[pos + 1].type \in StartsExpression
       THEN Go(1, Append(ParseExpr, Make("Return", pos, 1)))
       ELSE Return(1, 0, PlainNode("Return", Current.span, "", <<>>))

ParseBlock ==
    /\ Calling("block")
    /\ IF Sees({"LEFT_BRACE"})
       THEN Go(1, <<Item("statements", "", "", pos, 0)>>)
       ELSE Fail(Current.span, <<"expected '{'">>)

ParseBlockStatements ==
    /\ Calling("statements")
    /\ LET block == Head(work)
       IN  IF ~Sees({"RIGHT_BRACE", "END_OF_FILE"})
           THEN Go(0, <<CallTo("statement"), [block EXCEPT !.n = @ + 1]>>)
           ELSE IF Sees({"END_OF_FILE"})
           THEN Fail(Current.span, <<"expected '}' to close this block">>)
           ELSE Return(1, block.n,
                       PlainNode("Block", MergeSpans(tokens[block.at].span, Current.span),
                                 "", LastBuilt(block.n)))

(* mutant: the loop goes on when there is no operator *)
LoopOnOperators ==
    /\ Calling("operators")
    /\ LET level == Head(work).n
       IN  IF Sees(LevelOperators[level])
           THEN Go(1, Descend(level + 1) \o <<Make("BinOp", pos, 2), Head(work)>>)
           ELSE Go(0, <<Head(work)>>)

(* The loop of one binary level; consuming and coming back makes it left-associative. *)
ParseOperators ==
    /\ Calling("operators")
    /\ LET level == Head(work).n
       IN  IF Sees(LevelOperators[level])
           THEN Go(1, Descend(level + 1) \o <<Make("BinOp", pos, 2), Head(work)>>)
           ELSE Go(0, <<>>)

ParseUnary ==
    /\ Calling("unary")
    /\ Sees({"MINUS", "NOT"})
    /\ Go(1, <<CallTo("unary"), Make("UnaryOp", pos, 1)>>)

(* parsePrimary on a literal: the digits are converted, and refused, here. *)
ParseLiteral ==
    /\ Calling("unary")
    /\ \/ /\ Sees({"NUMBER"})
          /\ IF Current.digits > MaxInt
             THEN Fail(Current.span, <<"integer literal out of range", Current.text>>)
             ELSE Return(1, 0, LiteralNode("Number", Current.span, Current.text,
                                           IntValue(Current.digits)))
       \/ /\ Sees({"BOOLEAN"})
          /\ Return(1, 0, LiteralNode("Boolean", Current.span, Current.text,
                                      BoolValue(Current.text = "true")))

(* parsePrimary on a name: a call if `(` follows, otherwise a variable. *)
ParseName ==
    /\ Calling("unary")
    /\ Sees({"IDENTIFIER"})
    /\ IF tokens[pos + 1].type # "LEFT_PAREN"
       THEN Return(1, 0, PlainNode("Identifier", Current.span, Current.text, <<>>))
       ELSE Go(2, IF tokens[pos + 2].type = "RIGHT_PAREN"
                  THEN <<Item("close call", "", "", pos, 0)>>
                  ELSE Append(ParseExpr, Item("arguments", "", "", pos, 1)))

ParseNoExpression ==
    /\ Calling("unary")
    /\ ~Sees(StartsExpression)
    /\ Fail(Current.span, <<"expected an expression, found", Describe(Current)>>)

ParseArguments ==
    /\ Calling("arguments")
    /\ LET call == Head(work)
       IN  IF Sees({"COMMA"})
           THEN Go(1, Append(ParseExpr, [call EXCEPT !.n = @ + 1]))
           ELSE Go(0, <<[call EXCEPT !.do = "close call"]>>)

ParseCloseCall ==
    /\ Calling("close call")
    /\ LET call == Head(work)
           name == tokens[call.at]
       IN  IF Sees({"RIGHT_PAREN"})
           THEN Return(1, call.n,
                       PlainNode("Call", MergeSpans(name.span, Current.span),
                                 name.text, LastBuilt(call.n)))
           ELSE Fail(Current.span, <<"expected ')' to close the argument list">>)

(* The parameter names of the declaration whose `fn` stands at `at`. *)
ParametersOf(at) ==
    LET close == CHOOSE i \in at .. Len(tokens) :
                     /\ tokens[i].type = "RIGHT_PAREN"
                     /\ \A j \in at .. i - 1 : tokens[j].type # "RIGHT_PAREN"
        list == SubSeq(tokens, at + 3, close)
        names == SubSequence(list, {i \in DOMAIN list : list[i].type = "IDENTIFIER"})
    IN  [i \in DOMAIN names |-> Parameter(names[i].text, names[i].span)]

(* The node a construct makes once its parts are built.  It spans from its first
   token - for a BinOp, from its left operand - to the end of its last part. *)
NodeFor(item) ==
    LET first == tokens[item.at]
        kids == LastBuilt(item.n)
        start == IF item.arg = "BinOp" THEN nodes[Head(kids)].span ELSE first.span
        span == MergeSpans(start, nodes[kids[Len(kids)]].span)
    IN  CASE item.arg = "BinOp" ->
                 OperatorNode("BinOp", span, first.text, BinOpKindOf(first.type), kids)
          [] item.arg = "UnaryOp" ->
                 OperatorNode("UnaryOp", span, first.text, UnaryOpKindOf(first.type), kids)
          [] item.arg = "Function" ->
                 FunctionNode(span, tokens[item.at + 1].text, tokens[item.at + 1].span,
                              ParametersOf(item.at), Head(kids))
          [] item.arg = "Assign" -> PlainNode("Assign", span, first.text, kids)
          [] OTHER -> PlainNode(item.arg, span, "", kids)

MakeTheNode ==
    /\ Calling("make")
    /\ Return(0, Head(work).n, NodeFor(Head(work)))

-----------------------------------------------------------------------------

Init ==
    /\ tokens \in Sources
    /\ pos = 1
    /\ nodes = <<>>
    /\ built = <<>>
    /\ work = <<CallTo("program")>>
    /\ parsed = Running

Next ==
    \/ ParseProgram \/ ParseFunction \/ ParseParameters \/ ExpectToken
    \/ ParseStatement \/ ParsePrint \/ ParseAssign \/ ParseReturn
    \/ ParseIf \/ ParseElse \/ ParseWhile \/ ParseBlock \/ ParseBlockStatements
    \/ ParseOperators \/ ParseUnary \/ ParseLiteral \/ ParseName
    \/ ParseArguments \/ ParseCloseCall \/ ParseNoExpression \/ MakeTheNode

Spec == Init /\ [][Next]_vars

(* The program runs on one thread that is never blocked. *)
FairSpec == Spec /\ WF_vars(Next)

=============================================================================
