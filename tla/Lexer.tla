-------------------------------- MODULE Lexer --------------------------------
(***************************************************************************)
(* The lexer (src/src/lexer.cpp): one pass over the characters of a file,  *)
(* a step of it being one token or one blank.  `i` counts from 1, and line *)
(* and col are the position of source[i].                                  *)
(*                                                                         *)
(* A character is a string of length one.  The `digits` of a number token  *)
(* is the value its text has; the code converts it in the parser.          *)
(***************************************************************************)
EXTENDS Syntax, SequencesExt

CONSTANT SourceTexts    \* the files: sequences of characters

ASSUME SourcesAssumption == SourceTexts \subseteq Seq(STRING)

VARIABLES source, i, line, col, tokens, lexed

vars == <<source, i, line, col, tokens, lexed>>

Newline == "\n"
Blank == {" ", "\r", "\t"}
Digit == {"0", "1", "2", "3", "4", "5", "6", "7", "8", "9"}             \* isdigit
Letter ==                                                               \* isalpha
    {"a", "b", "c", "d", "e", "f", "g", "h", "i", "j", "k", "l", "m",
     "n", "o", "p", "q", "r", "s", "t", "u", "v", "w", "x", "y", "z",
     "A", "B", "C", "D", "E", "F", "G", "H", "I", "J", "K", "L", "M",
     "N", "O", "P", "Q", "R", "S", "T", "U", "V", "W", "X", "Y", "Z"}
AlphaNumeric == Letter \cup Digit                                       \* isalnum

(* The operators that an equals sign makes one longer. *)
LongOperatorType ==
    [c \in {"=", "!", "<", ">"} |->
        CASE c = "=" -> "EQUAL_EQUAL"
          [] c = "!" -> "NOT_EQUAL"
          [] c = "<" -> "LESS_EQUAL"
          [] c = ">" -> "GREATER_EQUAL"]

ShortOperatorType ==
    [c \in {"=", "!", "<", ">", "+", "-", "*", "/", "{", "}", "(", ")", ","} |->
        CASE c = "=" -> "EQUALS"
          [] c = "!" -> "NOT"
          [] c = "<" -> "LESS"
          [] c = ">" -> "GREATER"
          [] c = "+" -> "PLUS"
          [] c = "-" -> "MINUS"
          [] c = "*" -> "MULTIPLY"
          [] c = "/" -> "DIVIDE"
          [] c = "{" -> "LEFT_BRACE"
          [] c = "}" -> "RIGHT_BRACE"
          [] c = "(" -> "LEFT_PAREN"
          [] c = ")" -> "RIGHT_PAREN"
          [] c = "," -> "COMMA"]

(* mutant: true and false are names *)
WordTypeOf(text) ==
    CASE text = "print" -> "PRINT"
      [] text = "if" -> "IF"
      [] text = "else" -> "ELSE"
      [] text = "while" -> "WHILE"
      [] text = "fn" -> "FN"
      [] text = "return" -> "RETURN"
      [] OTHER -> "IDENTIFIER"

WordType(text) ==
    CASE text = "print" -> "PRINT"
      [] text = "if" -> "IF"
      [] text = "else" -> "ELSE"
      [] text = "while" -> "WHILE"
      [] text = "fn" -> "FN"
      [] text = "return" -> "RETURN"
      [] text \in {"true", "false"} -> "BOOLEAN"
      [] OTHER -> "IDENTIFIER"

Spell(chars) == FoldLeft(LAMBDA text, c : text \o c, "", chars)

DigitValue == [d \in Digit |-> CHOOSE n \in 0 .. 9 : ToString(n) = d]

NumberOf(chars) == FoldLeft(LAMBDA n, d : 10 * n + DigitValue[d], 0, chars)

-----------------------------------------------------------------------------

Scanning == lexed = Running /\ i <= Len(source)

Current == source[i]

(* The n characters from here on. *)
Coming(n) == SubSeq(source, i, i + n - 1)

(* How many characters from here on are of a class. *)
RunOf(class) ==
    CHOOSE n \in 0 .. Len(source) - i + 1 :
        /\ \A k \in i .. i + n - 1 : source[k] \in class
        /\ i + n \in DOMAIN source => source[i + n] \notin class

NewToken(type, n) ==
    [type |-> type, text |-> Spell(Coming(n)),
     digits |-> IF type = "NUMBER" THEN NumberOf(Coming(n)) ELSE 0,
     span |-> MakeSpan(line, col, n)]

(* The next n characters are a token. *)
Take(type, n) ==
    /\ tokens' = Append(tokens, NewToken(type, n))
    /\ i' = i + n
    /\ col' = col + n
    /\ UNCHANGED <<source, line, lexed>>

(* mutant: the column runs on *)
SkipLikeABlank ==
    /\ Scanning
    /\ Current = Newline
    /\ i' = i + 1
    /\ line' = line + 1
    /\ col' = col + 1
    /\ UNCHANGED <<source, tokens, lexed>>

SkipNewline ==
    /\ Scanning
    /\ Current = Newline
    /\ i' = i + 1
    /\ line' = line + 1
    /\ col' = 1
    /\ UNCHANGED <<source, tokens, lexed>>

SkipBlank ==
    /\ Scanning
    /\ Current \in Blank
    /\ i' = i + 1
    /\ col' = col + 1
    /\ UNCHANGED <<source, line, tokens, lexed>>

LexNumber ==
    /\ Scanning
    /\ Current \in Digit
    /\ Take("NUMBER", RunOf(Digit))

(* The whole run is taken before it is compared with the keywords. *)
LexWord ==
    /\ Scanning
    /\ Current \in Letter
    /\ LET n == RunOf(AlphaNumeric)
       IN  Take(WordType(Spell(Coming(n))), n)

(* mutant: not the last two characters of the file *)
IsInnerOperator ==
    i + 1 < Len(source) /\ Current \in DOMAIN LongOperatorType /\ source[i + 1] = "="

IsLongOperator ==
    i < Len(source) /\ Current \in DOMAIN LongOperatorType /\ source[i + 1] = "="

LexLongOperator ==
    /\ Scanning
    /\ IsLongOperator
    /\ Take(LongOperatorType[Current], 2)

LexShortOperator ==
    /\ Scanning
    /\ ~IsLongOperator
    /\ Current \in DOMAIN ShortOperatorType
    /\ Take(ShortOperatorType[Current], 1)

(* mutant: reported from behind it *)
ReportFromBehind ==
    /\ Scanning
    /\ Current \notin {Newline} \cup Blank \cup AlphaNumeric \cup DOMAIN ShortOperatorType
    /\ lexed' = CompileError(MakeSpan(line, col + 1, 1), <<"unknown character", Current>>)
    /\ UNCHANGED <<source, i, line, col, tokens>>

(* mutant: neither reported nor passed *)
IgnoreUnknown == Scanning /\ UNCHANGED vars

UnknownCharacter ==
    /\ Scanning
    /\ Current \notin {Newline} \cup Blank \cup AlphaNumeric \cup DOMAIN ShortOperatorType
    /\ lexed' = CompileError(MakeSpan(line, col, 1), <<"unknown character", Current>>)
    /\ UNCHANGED <<source, i, line, col, tokens>>

(* The token that ends every vector stands just past the last character. *)
EndOfFile ==
    /\ lexed = Running
    /\ i > Len(source)
    /\ tokens' = Append(tokens, NewToken("END_OF_FILE", 0))
    /\ lexed' = Finished
    /\ UNCHANGED <<source, i, line, col>>

-----------------------------------------------------------------------------

Init ==
    /\ source \in SourceTexts
    /\ i = 1
    /\ line = 1
    /\ col = 1
    /\ tokens = <<>>
    /\ lexed = Running

Next ==
    \/ SkipNewline \/ SkipBlank
    \/ LexNumber \/ LexWord \/ LexLongOperator \/ LexShortOperator
    \/ UnknownCharacter \/ EndOfFile

Spec == Init /\ [][Next]_vars

(* The program runs on one thread that is never blocked. *)
FairSpec == Spec /\ WF_vars(Next)
=============================================================================
