------------------------------ MODULE MCParser -------------------------------
(***************************************************************************)
(* The parser on every short token sequence over three small vocabularies: *)
(* one of expressions, one of statements, one of declarations; on operator *)
(* chains long enough to bring every pair of levels together; and on       *)
(* programs broken into three lines wherever they can be.                  *)
(***************************************************************************)
EXTENDS Grammar, MCSource

SequencesUpTo(n, words) == UNION {[1 .. k -> words] : k \in 0 .. n}

ExpressionSources ==
    {<<"print">> \o s : s \in SequencesUpTo(4, {"x", "8", "-", "<", "(", ")", ","})}

StatementSources ==
    SequencesUpTo(4, {"x", "1", "=", "{", "}", "return", "print"})
    \cup {<<head>> \o s : head \in {"if", "while"}, s \in SequencesUpTo(4, {"x", "{", "}", "else", "if"})}
    \cup {<<"if", "x", "{", "}", "else">> \o s : s \in SequencesUpTo(4, {"x", "{", "}", "else", "if"})}

DeclarationSources ==
    {<<"fn">> \o s : s \in SequencesUpTo(4, {"f", "(", ")", ",", "{"})}
    \cup {<<"fn", "f", "(">> \o s : s \in SequencesUpTo(5, {"a", ")", ",", "{", "}"})}
    \cup {<<"{", "fn">>, <<"print", "1", "fn", "f", "(", ")", "{", "}", "x", "=", "2">>}

Operand == {<<"1">>, <<"-", "x">>, <<"!", "!", "true">>, <<"f", "(", "1", "+", "2", ",", "x", ")">>}

ChainSources ==
    {<<"x", "=">> \o a \o <<op1>> \o b \o <<op2, "3", op3, "4">> :
        a \in Operand, b \in Operand,
        op1 \in {"==", "<", "+", "/"}, op2 \in {"!=", ">=", "-", "*"}, op3 \in {"==", "<=", "+", "*"}}

ProgramSources ==
    {<<"x", "=", "-", "f", "(", "1", "+", "2", ",", "x", ")">> \o <<op, "y", "*", "3">> :
        op \in {"<", "+", "*"}}
    \cup {<<"fn", "f", "(", "a", ",", "b", ")", "{", "return", "a", "==", "b", "}">>,
          <<"if", "x", "<", "y", "{", "print", "x", "}", "else", "if", "y", "{", "}", "else", "{", "}">>,
          <<"while", "!", "x", "{", "x", "=", "f", "(", ")", "{", "return", "}", "}">>}

Broken(line, i, j) == <<SubSeq(line, 1, i), SubSeq(line, i + 1, j), SubSeq(line, j + 1, Len(line))>>

BrokenSources ==
    UNION {UNION {{Broken(line, i, j) : j \in i .. Len(line)} : i \in DOMAIN line} :
               line \in ProgramSources}

MCSources ==
    {TokensOf(<<line>>) :
        line \in ExpressionSources \cup StatementSources \cup DeclarationSources \cup ChainSources}
    \cup {TokensOf(lines) : lines \in BrokenSources}
=============================================================================
