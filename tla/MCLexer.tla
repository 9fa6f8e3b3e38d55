------------------------------- MODULE MCLexer -------------------------------
(***************************************************************************)
(* The lexer on every short file over an alphabet with two of each kind of *)
(* character that matters - blanks and line ends, digits, letters that     *)
(* make a keyword and more than one, the operators that pair up, a stray - *)
(* and on whole programs, the corpora of the other runs among them.        *)
(***************************************************************************)
EXTENDS Lexemes, MCCorpus

Characters(string) == [k \in 1 .. Len(string) |-> SubSeq(string, k, k)]

FilesUpTo(n, chars) == UNION {[1 .. k -> chars] : k \in 0 .. n}

(* A file as the other runs lay it out: words one space apart, lines ended. *)
Laid(lines) ==
    FlattenSeq([n \in DOMAIN lines |->
        FlattenSeq([w \in DOMAIN lines[n] |->
            (IF w = 1 THEN <<>> ELSE <<" ">>) \o Characters(lines[n][w])])
        \o <<"\n">>])

LayoutOf == [file \in {Laid(lines) : lines \in Programs} |->
                CHOOSE lines \in Programs : Laid(lines) = file]

(* Tabs, carriage returns, a stray in the middle, no line end at the end. *)
Texts ==
    {"x=10\r\n\tprint x==-1", "fn f(a,b){return a<=b}\n\n", "while!trueValue{print2\r}",
     "if x1!=0{}else{y=12 34}\n ", "print 1 # one\nprint", "returned=fnord*ifs/elsewhere",
     "x = = 1\n == !\t= >>= <\n\r", "123456789 print"}

MCFiles ==
    FilesUpTo(3, {Newline, " ", "\t", "\r", "1", "i", "f", "=", "!", "<", "@"})
    \cup FilesUpTo(4, {Newline, " ", "1", "x", "=", "?"})
    \cup FilesUpTo(5, {"i", "f", "0"})
    \cup FilesUpTo(5, {"=", "!", ">"})
    \cup {Characters(text) : text \in Texts}
    \cup DOMAIN LayoutOf

-----------------------------------------------------------------------------

(* The token vectors from which the other runs start are the ones the lexer
   makes of the same programs. *)
LayoutsAreLexed ==
    lexed = Finished /\ source \in DOMAIN LayoutOf => tokens = TokensOf(LayoutOf[source])
=============================================================================
