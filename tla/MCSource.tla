------------------------------ MODULE MCSource ------------------------------
(***************************************************************************)
(* Sources for model checking, written as lines of words, and the token    *)
(* vector each stands for: the words of a line are one space apart.        *)
(***************************************************************************)
EXTENDS Syntax, SequencesExt

Keyword ==
    [print |-> "PRINT", if |-> "IF", else |-> "ELSE", while |-> "WHILE", fn |-> "FN",
     return |-> "RETURN", true |-> "BOOLEAN", false |-> "BOOLEAN"]
    @@ ("=" :> "EQUALS" @@ "==" :> "EQUAL_EQUAL" @@ "!=" :> "NOT_EQUAL" @@ "<" :> "LESS"
        @@ "<=" :> "LESS_EQUAL" @@ ">" :> "GREATER" @@ ">=" :> "GREATER_EQUAL"
        @@ "!" :> "NOT" @@ "+" :> "PLUS" @@ "-" :> "MINUS" @@ "*" :> "MULTIPLY"
        @@ "/" :> "DIVIDE" @@ "{" :> "LEFT_BRACE" @@ "}" :> "RIGHT_BRACE"
        @@ "(" :> "LEFT_PAREN" @@ ")" :> "RIGHT_PAREN" @@ "," :> "COMMA")

Digits == [i \in 0 .. 9 |-> ToString(i)]
IsNumber(word) == \E i \in 0 .. 9 : Digits[i] = word

TypeOf(word) ==
    IF word \in DOMAIN Keyword THEN Keyword[word]
    ELSE IF IsNumber(word) THEN "NUMBER" ELSE "IDENTIFIER"

MakeToken(type, text, line, col, len) ==
    [type |-> type, text |-> text,
     digits |-> IF type = "NUMBER" THEN CHOOSE i \in 0 .. 9 : Digits[i] = text ELSE 0,
     span |-> MakeSpan(line, col, len)]

(* One line's tokens, each a space after the one before. *)
LineTokens(words, line) ==
    FoldLeft(LAMBDA done, word :
                 LET col == IF done = <<>> THEN 1
                            ELSE Last(done).span.col + Last(done).span.len + 1
                 IN  Append(done, MakeToken(TypeOf(word), word, line, col, Len(word))),
             <<>>, words)

(* The file: its lines, and the token the lexer ends every vector with. *)
TokensOf(lines) ==
    Append(FlattenSeq([i \in DOMAIN lines |-> LineTokens(lines[i], i)]),
           MakeToken("END_OF_FILE", "", Len(lines) + 1, 1, 0))

(* Every sequence of at most n pieces whose braces match. *)
Opens(piece) == "{" \in Range(piece)
Closes(piece) == Head(piece) = "}"

Depth(pieces, k) ==
    Cardinality({i \in 1 .. k : Opens(pieces[i])}) - Cardinality({i \in 1 .. k : Closes(pieces[i])})

Balanced(pieces) ==
    /\ Depth(pieces, Len(pieces)) = 0
    /\ \A i \in DOMAIN pieces : Closes(pieces[i]) => Depth(pieces, i - 1) > 0

Bodies(n, vocabulary) ==
    {pieces \in UNION {[1 .. k -> vocabulary] : k \in 0 .. n} : Balanced(pieces)}
=============================================================================
