------------------------------- MODULE Syntax -------------------------------
(***************************************************************************)
(* Tokens (src/src/token.h) and the syntax tree (src/src/ast.h).           *)
(*                                                                         *)
(* The tree is a heap: `nodes` is a sequence of node records and a Node (a *)
(* shared_ptr) is an index into it.  One record shape serves every struct  *)
(* of ast.h; `kids` holds the struct's child pointers in field order:      *)
(*   BinOp <<left, right>>, UnaryOp <<operand>>, Assign and Print <<value>>*)
(*   Block its statements, If <<condition, then>> or with the else branch  *)
(*   third, While <<condition, body>>, Function <<body>>, Call its         *)
(*   arguments, Return <<value>> or << >> for the bare form.               *)
(* `name` is the identifier, callee or operator text, `kind` the BinOpKind *)
(* or UnaryOpKind, `value` the literal.                                    *)
(***************************************************************************)
EXTENDS Diagnostic, Values, SubSequences

TokenTypes ==
    {"NUMBER", "BOOLEAN", "IDENTIFIER", "EQUALS", "EQUAL_EQUAL", "NOT_EQUAL",
     "LESS", "LESS_EQUAL", "GREATER", "GREATER_EQUAL", "NOT", "PLUS", "MINUS",
     "MULTIPLY", "DIVIDE", "LEFT_BRACE", "RIGHT_BRACE", "LEFT_PAREN",
     "RIGHT_PAREN", "COMMA", "PRINT", "IF", "ELSE", "WHILE", "FN", "RETURN",
     "END_OF_FILE"}

(* `digits` is the number a NUMBER token denotes, of any width. *)
Token == [type : TokenTypes, text : STRING, digits : Nat, span : Span]

UnresolvedSlot == -1

Parameter(name, span) == [name |-> name, span |-> span, slot |-> UnresolvedSlot]

PlainNode(type, span, name, kids) ==
    [type |-> type, span |-> span, name |-> name, kids |-> kids,
     kind |-> "none", value |-> Zero, slot |-> UnresolvedSlot,
     nameSpan |-> NoSpan, parameters |-> <<>>, frameSize |-> 0]

LiteralNode(type, span, text, value) ==
    [PlainNode(type, span, text, <<>>) EXCEPT !.value = value]

OperatorNode(type, span, text, kind, kids) ==
    [PlainNode(type, span, text, kids) EXCEPT !.kind = kind]

FunctionNode(span, name, nameSpan, parameters, body) ==
    [PlainNode("Function", span, name, <<body>>) EXCEPT
        !.nameSpan = nameSpan, !.parameters = parameters]

ExpressionTypes == {"Number", "Boolean", "Identifier", "BinOp", "UnaryOp", "Call"}
StatementTypes == {"Assign", "Print", "Block", "If", "While", "Return", "Function"}

HasElse(node) == Len(node.kids) = 3
=============================================================================
