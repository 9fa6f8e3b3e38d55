------------------------------- MODULE Grammar -------------------------------
(***************************************************************************)
(* What the parser must produce, said without saying how: the language of  *)
(* the productions its functions stand for (the comments above them in     *)
(* src/src/parser.cpp, and src/docs/GRAMMAR.md), and how a tree relates to *)
(* the tokens it was made from.                                            *)
(***************************************************************************)
EXTENDS Parser, SequencesExt

TypeAt(i) == tokens[i].type

Positions == DOMAIN tokens
IsAt(type, i) == i \in Positions /\ TypeAt(i) = type

(* Each operator below gives the positions that a phrase starting at i can end
   before.  What a production repeats is written right-recursively. *)
After(type, i) == IF IsAt(type, i) THEN {i + 1} ELSE {}

RECURSIVE Unaries(_), Expressions(_), Arguments(_)

(* The four levels together: the order of the operators is for
   OperatorsBindByLevel to say. *)
Expressions(i) ==
    UNION {{j} \cup (IF j \in Positions /\ TypeAt(j) \in UNION Range(LevelOperators)
                     THEN Expressions(j + 1) ELSE {}) : j \in Unaries(i)}

Arguments(i) ==
    UNION {{j} \cup UNION {Arguments(k) : k \in After("COMMA", j)} : j \in Expressions(i)}

Unaries(i) ==
    IF i \notin Positions THEN {}
    ELSE IF TypeAt(i) \in {"MINUS", "NOT"} THEN Unaries(i + 1)
    ELSE IF TypeAt(i) \in {"NUMBER", "BOOLEAN"} THEN {i + 1}
    ELSE After("IDENTIFIER", i)
         \cup (IF IsAt("IDENTIFIER", i) /\ IsAt("LEFT_PAREN", i + 1)
               THEN UNION {After("RIGHT_PAREN", j) : j \in {i + 2} \cup Arguments(i + 2)}
               ELSE {})

(* `bare` is the set of positions before which a return may go without a value. *)
RECURSIVE Statement(_, _), Statements(_, _), Block(_, _), If(_, _)

Statements(i, bare) == {i} \cup UNION {Statements(j, bare) : j \in Statement(i, bare)}

Block(i, bare) ==
    IF IsAt("LEFT_BRACE", i)
    THEN UNION {After("RIGHT_BRACE", j) : j \in Statements(i + 1, bare)}
    ELSE {}

ConditionAndBlock(i, bare) == UNION {Block(j, bare) : j \in Expressions(i)}

If(i, bare) ==
    UNION {{j} \cup (IF IsAt("ELSE", j)
                     THEN Block(j + 1, bare)
                          \cup (IF IsAt("IF", j + 1) THEN If(j + 2, bare) ELSE {})
                     ELSE {}) : j \in ConditionAndBlock(i, bare)}

Statement(i, bare) ==
    IF i \notin Positions THEN {}
    ELSE CASE TypeAt(i) = "PRINT" -> Expressions(i + 1)
           [] TypeAt(i) = "IDENTIFIER" ->
                  UNION {Expressions(j) : j \in After("EQUALS", i + 1)}
           [] TypeAt(i) = "IF" -> If(i + 1, bare)
           [] TypeAt(i) = "WHILE" -> ConditionAndBlock(i + 1, bare)
           [] TypeAt(i) = "RETURN" -> Expressions(i + 1) \cup ({i + 1} \cap bare)
           [] OTHER -> Block(i, bare)

RECURSIVE Parameters(_)
Parameters(i) ==
    UNION {{j} \cup UNION {Parameters(k) : k \in After("COMMA", j)} :
               j \in After("IDENTIFIER", i)}

Declaration(i, bare) ==
    IF IsAt("FN", i) /\ IsAt("IDENTIFIER", i + 1) /\ IsAt("LEFT_PAREN", i + 2)
    THEN UNION {Block(k, bare) :
                    k \in UNION {After("RIGHT_PAREN", j) :
                                     j \in {i + 3} \cup Parameters(i + 3)}}
    ELSE {}

(* A program takes everything up to the end-of-file token. *)
RECURSIVE ProgramFrom(_, _)
ProgramFrom(i, bare) ==
    \/ IsAt("END_OF_FILE", i)
    \/ \E j \in Declaration(i, bare) \cup Statement(i, bare) : ProgramFrom(j, bare)

IsProgram(bare) == ProgramFrom(1, bare)

LiteralsFit == \A i \in Positions : tokens[i].digits <= MaxInt

-----------------------------------------------------------------------------

(* The token texts a tree stands for, in order. *)
Texts(node, parts) ==
    CASE node.type \in {"Number", "Boolean", "Identifier"} -> <<node.name>>
      [] node.type = "BinOp" -> parts[1] \o <<node.name>> \o parts[2]
      [] node.type = "UnaryOp" -> <<node.name>> \o parts[1]
      [] node.type = "Call" ->
             <<node.name, "(">>
             \o FlattenSeq([i \in DOMAIN parts |->
                              IF i = 1 THEN parts[i] ELSE <<",">> \o parts[i]])
             \o <<")">>
      [] node.type = "Assign" -> <<node.name, "=">> \o parts[1]
      [] node.type = "Print" -> <<"print">> \o parts[1]
      [] node.type = "Block" -> <<"{">> \o FlattenSeq(parts) \o <<"}">>
      [] node.type = "If" ->
             <<"if">> \o parts[1] \o parts[2]
             \o (IF Len(parts) = 3 THEN <<"else">> \o parts[3] ELSE <<>>)
      [] node.type = "While" -> <<"while">> \o parts[1] \o parts[2]
      [] node.type = "Return" -> <<"return">> \o FlattenSeq(parts)
      [] node.type = "Function" ->
             <<"fn", node.name, "(">>
             \o FlattenSeq([i \in DOMAIN node.parameters |->
                    (IF i = 1 THEN <<>> ELSE <<",">>) \o <<node.parameters[i].name>>])
             \o <<")">> \o parts[1]

RECURSIVE ReadBack(_)
ReadBack(n) == Texts(nodes[n], [i \in DOMAIN nodes[n].kids |-> ReadBack(nodes[n].kids[i])])

TextsOf(some) == [i \in DOMAIN some |-> some[i].text]

(* The level at which a subtree binds; what is not a binary operator binds tightest. *)
Tightness(n) ==
    IF nodes[n].type = "BinOp"
    THEN CHOOSE level \in DOMAIN LevelOperators :
             \E type \in LevelOperators[level] : BinOpKindOf(type) = nodes[n].kind
    ELSE TightestLevel + 1

Covers(span, token) ==
    /\ token.span.line = span.line
    /\ token.span.col >= span.col
    /\ token.span.col + token.span.len <= span.col + span.len

-----------------------------------------------------------------------------

(* The parser accepts what its productions derive, and nothing else: `return`
   takes a value whenever the next token could begin one (src/src/parser.cpp,
   startsExpression), and a literal has to fit. *)
AcceptsItsGrammar ==
    parsed # Running =>
        LET bare == {j \in Positions : TypeAt(j) \notin StartsExpression}
        IN  (parsed = Finished) = (IsProgram(bare) /\ LiteralsFit)

(* The page's productions alone, under "That is the whole language"
   (src/docs/GRAMMAR.md:63): there `[ expression ]` may always be left out. *)
AcceptsTheDocumentedGrammar ==
    parsed # Running => (parsed = Finished) = (IsProgram(Positions) /\ LiteralsFit)

(* A finished tree holds every token of the source, once and in order: no
   operand, statement, argument or branch is lost, repeated or swapped. *)
TreeReadsBack ==
    parsed = Finished =>
        FlattenSeq([i \in DOMAIN built |-> ReadBack(built[i])]) = TextsOf(Front(tokens))

(* The shape the levels promise: the left operand of a binary operator may be
   of its own level, the right one only of a tighter one, and the operand of a
   unary operator is never a binary one.  With TreeReadsBack this leaves one
   tree for each source. *)
OperatorsBindByLevel ==
    \A n \in DOMAIN nodes :
        /\ nodes[n].type = "BinOp" =>
               /\ Tightness(nodes[n].kids[1]) >= Tightness(n)
               /\ Tightness(nodes[n].kids[2]) > Tightness(n)
        /\ nodes[n].type = "UnaryOp" =>
               Tightness(nodes[n].kids[1]) > TightestLevel

(* A node's span starts where the construct starts and stays on its first line.
   It quotes the tokens the node was made from: all of them if they are on one
   line, else the first of them, whatever mergeSpans was handed on the way
   (src/src/token.h). *)
SpansQuoteTheirSource ==
    \A n \in DOMAIN nodes : \E i \in 1 .. Len(tokens) - Len(ReadBack(n)) :
        LET made == SubSeq(tokens, i, i + Len(ReadBack(n)) - 1)
            quoted == SelectSeq(Front(tokens), LAMBDA t : Covers(nodes[n].span, t))
        IN  /\ TextsOf(made) = ReadBack(n)
            /\ quoted # <<>> /\ IsPrefix(quoted, made)
            /\ Last(made).span.line = made[1].span.line => quoted = made

(* Every source is accepted or refused: no token sequence makes the parser
   loop or leaves it with nothing to do. *)
ParserDecides == <>(parsed # Running)
=============================================================================
