------------------------------- MODULE Lexemes -------------------------------
(***************************************************************************)
(* What the lexer must make of a file, said of the characters and not of   *)
(* the scan: which position a line and a column name, which characters are *)
(* somebody's, and which runs of them are a token.                         *)
(***************************************************************************)
EXTENDS Lexer

(* The line and column of a position, counted from the file alone. *)
NewlinesBefore(file, p) == {k \in 1 .. p - 1 : k \in DOMAIN file /\ file[k] = Newline}

LineOf(file, p) == 1 + Cardinality(NewlinesBefore(file, p))
ColOf(file, p) == p - Max({0} \cup NewlinesBefore(file, p))

Stands(file, p, span) == LineOf(file, p) = span.line /\ ColOf(file, p) = span.col

(* There is a place behind the last character. *)
Places(file) == 1 .. Len(file) + 1

(* The one place a span starts at, and the characters it covers. *)
PlaceOf(file, span) == CHOOSE p \in Places(file) : Stands(file, p, span)

End(file, span) == PlaceOf(file, span) + span.len
Quoted(file, span) == SubSeq(file, PlaceOf(file, span), End(file, span) - 1)

(* The tokens whose span covers a place, by its line and columns. *)
Owners(p) ==
    {k \in DOMAIN tokens :
        LET span == tokens[k].span
        IN  /\ span.line = LineOf(source, p)
            /\ ColOf(source, p) \in span.col .. span.col + span.len - 1}

Separators == Blank \cup {Newline}

Legal == Separators \cup AlphaNumeric \cup DOMAIN ShortOperatorType

Strays == {p \in DOMAIN source : source[p] \notin Legal}

(* The runs of characters that are one token. *)
IsLexeme(chars) ==
    \/ Range(chars) \subseteq Digit
    \/ Head(chars) \in Letter /\ Range(chars) \subseteq AlphaNumeric
    \/ chars \in {<<"=", "=">>, <<"!", "=">>, <<"<", "=">>, <<">", "=">>}
    \/ chars \in {<<c>> : c \in DOMAIN ShortOperatorType}

-----------------------------------------------------------------------------

(* Every character passed is in exactly one token, unless it is blank and in
   none, the tokens are in order, and a token's text is what its span quotes:
   whatever the scan does to i, line and col, nothing is lost, taken twice or
   misplaced, and a caret drawn from a span stands under its token
   (src/src/token.h, Span). *)
TokensTileTheSource ==
    /\ \A p \in 1 .. i - 1 :
           Cardinality(Owners(p)) = IF source[p] \in Separators THEN 0 ELSE 1
    /\ \A k \in DOMAIN tokens :
           /\ \E p \in Places(source) : Stands(source, p, tokens[k].span)
           /\ tokens[k].text = Spell(Quoted(source, tokens[k].span))
    /\ \A k \in 2 .. Len(tokens) :
           End(source, tokens[k - 1].span) <= PlaceOf(source, tokens[k].span)

(* A token is as long as it can be: `==` is not two `=`, a number is not cut,
   and a name that begins with a keyword is one name (src/src/lexer.cpp, the
   comments on the word run and on the two-character forms). *)
TokensAreLongest ==
    \A k \in DOMAIN tokens :
        LET span == tokens[k].span
        IN  tokens[k].type # "END_OF_FILE" =>
                /\ IsLexeme(Quoted(source, span))
                /\ End(source, span) \in DOMAIN source =>
                       ~IsLexeme(Append(Quoted(source, span), source[End(source, span)]))

(* A file is refused exactly if some character begins no token, at the first
   such, with everything before it lexed; otherwise the vector ends with its one
   end-of-file token, of no width, just past the last character - the token
   every loop of the parser counts on. *)
EndsWhereItMust ==
    /\ \A k \in DOMAIN tokens :
           tokens[k].type = "END_OF_FILE" => k = Len(tokens) /\ lexed = Finished
    /\ lexed # Running =>
           IF Strays = {}
           THEN /\ lexed = Finished
                /\ Last(tokens).type = "END_OF_FILE"
                /\ LET end == Len(source) + 1
                   IN  Last(tokens).span = MakeSpan(LineOf(source, end), ColOf(source, end), 0)
           ELSE /\ lexed.class = "compile"
                /\ Stands(source, Min(Strays), lexed.span)
                /\ i = Min(Strays)

(* Every file is lexed to its end or refused. *)
LexerDecides == <>(lexed # Running)
=============================================================================
