----------------------------- MODULE LexerProofs -----------------------------
(***************************************************************************)
(* Proofs that the lexer, on every file, keeps what Lexemes says of it.    *)
(***************************************************************************)
EXTENDS Lexemes, FiniteSetTheorems, SequenceTheorems, WellFoundedInduction, TLAPS

(* Every set of natural numbers that is not empty has a least one. *)
LEMMA LeastNatural ==
    ASSUME NEW S \in SUBSET Nat, S # {}
    PROVE  \E m \in S : \A n \in S : m <= n
<1>1. PICK b \in S : TRUE
  OBVIOUS
<1> DEFINE Below == {n \in S : n <= b}
           Segments == {1 .. n : n \in Below}
           R == StrictSubsetOrdering(1 .. b)
<1>2. IsFiniteSet(1 .. b)
  BY FS_Interval
<1>3. IsWellFoundedOn(R, SUBSET (1 .. b))
  BY <1>2, FS_StrictSubsetOrderingWellFounded, FS_FiniteSubsetsOfFinite
<1>4. Segments \subseteq SUBSET (1 .. b)
  OBVIOUS
<1>5. Segments # {}
  OBVIOUS
<1>6. PICK x \in Segments : \A y \in Segments : ~(<<y, x>> \in R)
  <2> HIDE DEF R, Segments
  <2> QED
    BY <1>3, <1>4, <1>5, WFMin
<1>7. PICK m \in Below : x = 1 .. m
  OBVIOUS
<1>8. ASSUME NEW n \in S PROVE m <= n
  <2> SUFFICES ASSUME n < m PROVE FALSE
    OBVIOUS
  <2>1. n \in Below /\ 1 .. n \in Segments
    BY <1>7
  <2>2. 1 .. n \subseteq 1 .. m /\ m \in 1 .. m /\ m \notin 1 .. n
    BY <1>7
  <2>3. 1 .. n \in SUBSET (1 .. b) /\ 1 .. m \in SUBSET (1 .. b) /\ 1 .. n # 1 .. m
    BY <2>1, <2>2, <1>7
  <2>4. <<1 .. n, 1 .. m>> \in R
    BY <2>2, <2>3 DEF StrictSubsetOrdering
  <2>5. QED
    BY <1>6, <1>7, <2>1, <2>4
<1>9. QED
  BY <1>7, <1>8

LEMMA NewlinesAreFinite ==
    ASSUME NEW file \in Seq(STRING), NEW p \in Nat \ {0}
    PROVE  /\ IsFiniteSet(NewlinesBefore(file, p))
           /\ NewlinesBefore(file, p) \subseteq 1 .. p - 1
           /\ Cardinality(NewlinesBefore(file, p)) \in Nat
<1>1. IsFiniteSet(1 .. p - 1)
  BY FS_Interval
<1>2. NewlinesBefore(file, p) \in SUBSET (1 .. p - 1)
  BY DEF NewlinesBefore
<1>3. IsFiniteSet(NewlinesBefore(file, p))
  BY <1>1, <1>2, FS_Subset
<1>4. QED
  BY <1>2, <1>3, FS_CardinalityType

(* The last newline before a place, if there is one, is before it. *)
LEMMA ColumnsCount ==
    ASSUME NEW file \in Seq(STRING), NEW p \in Nat \ {0}
    PROVE  /\ LineOf(file, p) \in Nat \ {0}
           /\ ColOf(file, p) \in 1 .. p
           /\ Max({0} \cup NewlinesBefore(file, p)) \in 0 .. p - 1
<1> DEFINE S == {0} \cup NewlinesBefore(file, p)
           T == {n \in Nat : p - 1 - n \in S}
<1>1. S \subseteq 0 .. p - 1
  BY NewlinesAreFinite
<1>2. p - 1 \in T
  OBVIOUS
<1>3. PICK m \in T : \A n \in T : m <= n
  BY <1>2, LeastNatural
<1>4. p - 1 - m \in S /\ \A s \in S : p - 1 - m >= s
  <2>1. ASSUME NEW s \in S PROVE p - 1 - m >= s
    <3>1. s \in 0 .. p - 1 /\ p - 1 - (p - 1 - s) = s
      BY <1>1
    <3>2. p - 1 - s \in T
      BY <3>1
    <3>3. m <= p - 1 - s /\ m \in Nat
      BY <1>3, <3>2
    <3>4. QED
      BY <3>1, <3>3
  <2>2. QED
    BY <1>3, <2>1
<1>5. Max(S) \in 0 .. p - 1
  <2>1. Max(S) \in S
    BY <1>4 DEF Max
  <2>2. QED
    BY <1>1, <2>1
<1>6. ColOf(file, p) \in 1 .. p
  BY <1>5 DEF ColOf
<1>7. QED
  BY <1>5, <1>6, NewlinesAreFinite DEF LineOf

(* Along a line, the column counts the characters. *)
LEMMA AlongALine ==
    ASSUME NEW file \in Seq(STRING), NEW p \in Nat \ {0}, NEW q \in Nat, p <= q,
           \A k \in p .. q - 1 : k \in DOMAIN file => file[k] # Newline
    PROVE  /\ LineOf(file, q) = LineOf(file, p)
           /\ ColOf(file, q) = ColOf(file, p) + (q - p)
<1>1. NewlinesBefore(file, q) = NewlinesBefore(file, p)
  BY DEF NewlinesBefore
<1>2. Max({0} \cup NewlinesBefore(file, p)) \in 0 .. p - 1
  BY ColumnsCount
<1>3. QED
  BY <1>1, <1>2 DEF LineOf, ColOf

(* A newline begins a line. *)
LEMMA AfterANewline ==
    ASSUME NEW file \in Seq(STRING), NEW p \in DOMAIN file, file[p] = Newline
    PROVE  /\ LineOf(file, p + 1) = LineOf(file, p) + 1
           /\ ColOf(file, p + 1) = 1
<1>1. p \in Nat \ {0}
  OBVIOUS
<1>2. NewlinesBefore(file, p + 1) = NewlinesBefore(file, p) \cup {p}
  BY <1>1 DEF NewlinesBefore
<1>3. NewlinesBefore(file, p) \subseteq 1 .. p - 1
  BY <1>1, NewlinesAreFinite
<1>4. LineOf(file, p + 1) = LineOf(file, p) + 1
  <2>1. Cardinality(NewlinesBefore(file, p) \cup {p}) = Cardinality(NewlinesBefore(file, p)) + 1
    <3>1. IsFiniteSet(NewlinesBefore(file, p)) /\ p \notin NewlinesBefore(file, p)
      BY <1>1, <1>3, NewlinesAreFinite
    <3>2. QED
      BY <3>1, FS_AddElement
  <2>2. Cardinality(NewlinesBefore(file, p)) \in Nat
    BY <1>1, NewlinesAreFinite
  <2>3. Cardinality(NewlinesBefore(file, p + 1)) = Cardinality(NewlinesBefore(file, p)) + 1
    BY <1>2, <2>1, Zenon
  <2>4. QED
    BY <2>2, <2>3 DEF LineOf
<1>5. Max({0} \cup NewlinesBefore(file, p + 1)) = p
  <2> DEFINE S == {0} \cup NewlinesBefore(file, p + 1)
  <2>1. p \in S /\ \A s \in S : p >= s
    BY <1>1, <1>2, <1>3
  <2>2. \A x \in S : (\A s \in S : x >= s) => x = p
    BY <1>1, <1>2, <1>3, <2>1
  <2>3. QED
    BY <2>1, <2>2 DEF Max
<1>6. QED
  BY <1>1, <1>4, <1>5 DEF ColOf

(* A line and a column name one place. *)
LEMMA PlacesAreApart ==
    ASSUME NEW file \in Seq(STRING), NEW p \in Nat \ {0}, NEW q \in Nat, p < q
    PROVE  ~(LineOf(file, p) = LineOf(file, q) /\ ColOf(file, p) = ColOf(file, q))
<1> SUFFICES ASSUME LineOf(file, p) = LineOf(file, q) PROVE ColOf(file, p) # ColOf(file, q)
  OBVIOUS
<1>1. NewlinesBefore(file, p) \in SUBSET NewlinesBefore(file, q)
  BY DEF NewlinesBefore
<1>2. Cardinality(NewlinesBefore(file, p)) = Cardinality(NewlinesBefore(file, q))
  BY NewlinesAreFinite DEF LineOf
<1>3. NewlinesBefore(file, p) = NewlinesBefore(file, q)
  <2>1. IsFiniteSet(NewlinesBefore(file, q))
    BY NewlinesAreFinite
  <2>2. QED
    BY <1>1, <1>2, <2>1, FS_Subset
<1>4. Max({0} \cup NewlinesBefore(file, p)) \in 0 .. p - 1
  BY ColumnsCount
<1>5. QED
  BY <1>3, <1>4 DEF ColOf

LEMMA PlaceIsUnique ==
    ASSUME NEW file \in Seq(STRING), NEW span, NEW p \in Places(file), Stands(file, p, span)
    PROVE  PlaceOf(file, span) = p
<1>1. ASSUME NEW q \in Places(file), Stands(file, q, span) PROVE q = p
  <2>1. p \in Nat \ {0} /\ q \in Nat \ {0}
    BY DEF Places
  <2>2. LineOf(file, p) = LineOf(file, q) /\ ColOf(file, p) = ColOf(file, q)
    BY <1>1 DEF Stands
  <2>3. ~(p < q) /\ ~(q < p)
    BY <2>1, <2>2, PlacesAreApart
  <2>4. QED
    BY <2>1, <2>3
<1>2. QED
  BY <1>1 DEF PlaceOf

(* The places whose line and column are within a span are the ones it covers. *)
LEMMA SpanCovers ==
    ASSUME NEW file \in Seq(STRING), NEW p \in Places(file), NEW span, Stands(file, p, span),
           span.len \in Nat, p + span.len <= Len(file) + 1,
           \A k \in p .. p + span.len - 1 : file[k] # Newline,
           NEW q \in Places(file)
    PROVE  /\ span.line = LineOf(file, q)
           /\ ColOf(file, q) \in span.col .. span.col + span.len - 1
           <=> q \in p .. p + span.len - 1
<1>1. p \in Nat \ {0} /\ q \in Nat \ {0} /\ Len(file) \in Nat
  BY DEF Places
<1>2. span.col \in 1 .. p /\ span.line = LineOf(file, p) /\ span.col = ColOf(file, p)
  BY <1>1, ColumnsCount DEF Stands
<1>3. ASSUME NEW n \in 0 .. span.len - 1
      PROVE  LineOf(file, p + n) = span.line /\ ColOf(file, p + n) = span.col + n
  BY <1>1, <1>2, AlongALine
<1>4. ASSUME q \in p .. p + span.len - 1
      PROVE  /\ span.line = LineOf(file, q)
             /\ ColOf(file, q) \in span.col .. span.col + span.len - 1
  <2>1. q - p \in 0 .. span.len - 1 /\ p + (q - p) = q
    BY <1>1, <1>4
  <2>2. LineOf(file, q) = span.line /\ ColOf(file, q) = span.col + (q - p)
    BY <1>3, <2>1
  <2>3. QED
    BY <1>2, <2>1, <2>2
<1>5. ASSUME span.line = LineOf(file, q),
             ColOf(file, q) \in span.col .. span.col + span.len - 1
      PROVE  q \in p .. p + span.len - 1
  <2> DEFINE n == ColOf(file, q) - span.col
  <2> HIDE DEF n
  <2>1. n \in 0 .. span.len - 1 /\ span.col + n = ColOf(file, q)
    <3>1. ColOf(file, q) \in 1 .. q
      BY <1>1, ColumnsCount
    <3>2. QED
      BY <1>1, <1>2, <1>5, <3>1 DEF n
  <2>2. LineOf(file, p + n) = LineOf(file, q) /\ ColOf(file, p + n) = ColOf(file, q)
    BY <1>3, <1>5, <2>1
  <2>3. p + n \in Nat \ {0}
    BY <1>1, <2>1
  <2>4. ~(p + n < q) /\ ~(q < p + n)
    BY <1>1, <2>2, <2>3, PlacesAreApart
  <2>5. q = p + n
    BY <1>1, <2>3, <2>4
  <2>6. QED
    BY <1>1, <2>1, <2>5
<1>6. QED
  BY <1>4, <1>5

-----------------------------------------------------------------------------

(* What every token has of the file before a bound, whichever arm made it. *)
Placed(file, toks, bound) ==
    \A k \in DOMAIN toks :
        LET span == toks[k].span
            p == PlaceOf(file, span)
        IN  /\ p \in Places(file)
            /\ Stands(file, p, span)
            /\ span.len \in Nat
            /\ p + span.len <= bound
            /\ \A q \in p .. p + span.len - 1 : file[q] \notin Separators
            /\ toks[k].text = Spell(Quoted(file, span))

Ordered(file, toks) ==
    \A j, k \in DOMAIN toks :
        j < k => End(file, toks[j].span) <= PlaceOf(file, toks[k].span)

Covered(file, toks, bound) ==
    \A q \in 1 .. bound - 1 :
        file[q] \notin Separators =>
            \E k \in DOMAIN toks :
                q \in PlaceOf(file, toks[k].span) .. End(file, toks[k].span) - 1

Longest(file, token) ==
    token.type # "END_OF_FILE" =>
        /\ IsLexeme(Quoted(file, token.span))
        /\ End(file, token.span) \in DOMAIN file =>
               ~IsLexeme(Append(Quoted(file, token.span), file[End(file, token.span)]))

(* A vector that is one token longer. *)
LEMMA OneMore ==
    ASSUME NEW s, s \in Seq(Range(s)), NEW x
    PROVE  /\ Append(s, x) \in Seq(Range(Append(s, x)))
           /\ Len(Append(s, x)) = Len(s) + 1
           /\ DOMAIN Append(s, x) = DOMAIN s \cup {Len(s) + 1}
           /\ \A k \in DOMAIN s : Append(s, x)[k] = s[k]
           /\ Append(s, x)[Len(s) + 1] = x
           /\ Len(s) \in Nat /\ DOMAIN s = 1 .. Len(s)
<1> DEFINE S == Range(s) \cup {x}
<1>1. s \in Seq(S) /\ x \in S
  OBVIOUS
<1> HIDE DEF S
<1>2. Append(s, x) \in Seq(S)
  BY <1>1
<1>3. Range(Append(s, x)) = {Append(s, x)[k] : k \in DOMAIN Append(s, x)}
  BY DEF Range
<1>4. QED
  BY <1>1, <1>2, <1>3

(* Taking a token off the front of what is left keeps all of this. *)
LEMMA Takes ==
    ASSUME NEW file \in Seq(STRING), NEW toks, toks \in Seq(Range(toks)),
           NEW at \in Places(file), NEW token, token.span.len \in Nat,
           NEW past, past = at + token.span.len,
           past <= Len(file) + 1,
           Stands(file, at, token.span),
           token.text = Spell(SubSeq(file, at, past - 1)),
           \A q \in at .. past - 1 : file[q] \notin Separators,
           Placed(file, toks, at), Ordered(file, toks), Covered(file, toks, at)
    PROVE  /\ PlaceOf(file, token.span) = at
           /\ Placed(file, Append(toks, token), past)
           /\ Ordered(file, Append(toks, token))
           /\ Covered(file, Append(toks, token), past)
<1> DEFINE more == Append(toks, token)
<1>1. PlaceOf(file, token.span) = at
  BY PlaceIsUnique
<1>2. at \in Nat \ {0} /\ Len(file) \in Nat /\ past \in Nat /\ past >= at
  BY DEF Places
<1>3. /\ DOMAIN more = DOMAIN toks \cup {Len(toks) + 1}
      /\ \A k \in DOMAIN toks : more[k] = toks[k]
      /\ more[Len(toks) + 1] = token
      /\ DOMAIN toks = 1 .. Len(toks) /\ Len(toks) \in Nat
  BY OneMore
<1> HIDE DEF more
<1>4. End(file, token.span) = past
  BY <1>1 DEF End
<1>5. \A k \in DOMAIN toks :
          /\ PlaceOf(file, toks[k].span) \in Nat \ {0}
          /\ toks[k].span.len \in Nat
          /\ End(file, toks[k].span) = PlaceOf(file, toks[k].span) + toks[k].span.len
          /\ End(file, toks[k].span) <= at
  BY DEF Placed, End, Places
<1>6. Placed(file, more, past)
  <2> SUFFICES ASSUME NEW k \in DOMAIN more
               PROVE  LET span == more[k].span
                          p == PlaceOf(file, span)
                      IN  /\ p \in Places(file)
                          /\ Stands(file, p, span)
                          /\ span.len \in Nat
                          /\ p + span.len <= past
                          /\ \A q \in p .. p + span.len - 1 : file[q] \notin Separators
                          /\ more[k].text = Spell(Quoted(file, span))
    BY DEF Placed
  <2>1. CASE k \in DOMAIN toks
    <3>1. more[k] = toks[k]
      BY <1>3, <2>1
    <3>2. PlaceOf(file, toks[k].span) + toks[k].span.len <= at
      BY <2>1 DEF Placed
    <3>3. PlaceOf(file, toks[k].span) + toks[k].span.len <= past
      BY <1>2, <1>5, <2>1, <3>2, SMTT(30)
    <3>4. QED
      BY <2>1, <3>1, <3>3 DEF Placed
  <2>2. CASE k = Len(toks) + 1
    <3>1. more[k] = token
      BY <1>3, <2>2
    <3>2. Quoted(file, token.span) = SubSeq(file, at, past - 1)
      BY <1>1, <1>4 DEF Quoted
    <3>3. QED
      BY <1>1, <1>2, <3>1, <3>2, SMTT(30)
  <2>3. QED
    BY <1>3, <2>1, <2>2
<1>7. Ordered(file, more)
  <2> SUFFICES ASSUME NEW j \in DOMAIN more, NEW k \in DOMAIN more, j < k
               PROVE  End(file, more[j].span) <= PlaceOf(file, more[k].span)
    BY DEF Ordered
  <2>1. j \in DOMAIN toks /\ more[j] = toks[j]
    BY <1>3
  <2>2. CASE k \in DOMAIN toks
    BY <1>3, <2>1, <2>2 DEF Ordered
  <2>3. CASE k = Len(toks) + 1
    BY <1>1, <1>3, <1>5, <2>1, <2>3
  <2>4. QED
    BY <1>3, <2>2, <2>3
<1>8. Covered(file, more, past)
  <2> SUFFICES ASSUME NEW q \in 1 .. past - 1, file[q] \notin Separators
               PROVE  \E k \in DOMAIN more :
                          q \in PlaceOf(file, more[k].span) .. End(file, more[k].span) - 1
    BY DEF Covered
  <2>1. CASE q < at
    <3>1. PICK k \in DOMAIN toks : q \in PlaceOf(file, toks[k].span) .. End(file, toks[k].span) - 1
      BY <1>2, <2>1 DEF Covered
    <3>2. QED
      BY <1>3, <3>1
  <2>2. CASE q >= at
    <3>1. q \in PlaceOf(file, token.span) .. End(file, token.span) - 1
      BY <1>1, <1>2, <1>4, <2>2
    <3>2. Len(toks) + 1 \in DOMAIN more /\ more[Len(toks) + 1] = token
      BY <1>3
    <3>3. QED
      BY <3>1, <3>2
  <2>3. QED
    BY <1>2, <2>1, <2>2
<1>9. QED
  BY <1>1, <1>6, <1>7, <1>8 DEF more

(* So does passing a separator. *)
LEMMA Skips ==
    ASSUME NEW file \in Seq(STRING), NEW toks, NEW at \in DOMAIN file,
           file[at] \in Separators,
           Placed(file, toks, at), Covered(file, toks, at)
    PROVE  Placed(file, toks, at + 1) /\ Covered(file, toks, at + 1)
<1>1. at \in Nat
  OBVIOUS
<1>2. Placed(file, toks, at + 1)
  <2>1. \A k \in DOMAIN toks :
            LET p == PlaceOf(file, toks[k].span) IN p + toks[k].span.len <= at + 1
    BY <1>1 DEF Placed, Places
  <2>2. QED
    BY <2>1 DEF Placed
<1>3. Covered(file, toks, at + 1)
  BY <1>1 DEF Covered
<1>4. QED
  BY <1>2, <1>3

-----------------------------------------------------------------------------

(* The characters a token can begin with, and no two kinds of them overlap. *)
LEMMA CharacterKinds ==
    /\ Separators \cap Digit = {}
    /\ Separators \cap Letter = {}
    /\ Separators \cap DOMAIN ShortOperatorType = {}
    /\ Digit \cap Letter = {}
    /\ DOMAIN ShortOperatorType \cap (Digit \cup Letter) = {}
    /\ DOMAIN LongOperatorType = {"=", "!", "<", ">"}
    /\ DOMAIN LongOperatorType \subseteq DOMAIN ShortOperatorType
<1>1. DOMAIN LongOperatorType = {"=", "!", "<", ">"}
  BY DEF LongOperatorType
<1>2. DOMAIN ShortOperatorType =
          {"=", "!", "<", ">", "+", "-", "*", "/", "{", "}", "(", ")", ","}
  BY DEF ShortOperatorType
<1>3. Separators = {" ", "\r", "\t", "\n"}
  BY DEF Separators, Blank, Newline
<1>4. Separators \cap Digit = {}
  BY <1>3 DEF Digit
<1>5. Separators \cap Letter = {}
  BY <1>3, ZenonT(40) DEF Letter
<1>6. Digit \cap Letter = {}
  BY DEF Digit, Letter
<1>7. DOMAIN ShortOperatorType \cap (Digit \cup Letter) = {}
  <2>1. DOMAIN ShortOperatorType \cap Digit = {}
    BY <1>2 DEF Digit
  <2>2. DOMAIN ShortOperatorType \cap Letter = {}
    <3>1. \A c \in {"=", "!", "<", ">"} : c \notin Letter
      BY DEF Letter
    <3>2. \A c \in {"+", "-", "*", "/", "{"} : c \notin Letter
      BY ZenonT(40) DEF Letter
    <3>3. \A c \in {"}", "(", ")", ","} : c \notin Letter
      BY ZenonT(40) DEF Letter
    <3>4. QED
      BY <1>2, <3>1, <3>2, <3>3
  <2>3. QED
    BY <2>1, <2>2
<1>8. QED
  BY <1>1, <1>2, <1>3, <1>4, <1>5, <1>6, <1>7

LEMMA TokensThatEndNoFile ==
    /\ \A c \in DOMAIN LongOperatorType : LongOperatorType[c] # "END_OF_FILE"
    /\ \A c \in DOMAIN ShortOperatorType : ShortOperatorType[c] # "END_OF_FILE"
    /\ \A text : WordType(text) # "END_OF_FILE"
<1>1. \A c \in DOMAIN LongOperatorType : LongOperatorType[c] # "END_OF_FILE"
  BY DEF LongOperatorType
<1>2. \A c \in DOMAIN ShortOperatorType : ShortOperatorType[c] # "END_OF_FILE"
  BY DEF ShortOperatorType
<1>3. \A text : WordType(text) # "END_OF_FILE"
  BY DEF WordType
<1>4. QED
  BY <1>1, <1>2, <1>3

(* A run of a class of characters is all of it there is. *)
LEMMA RunsAreWhole ==
    ASSUME source \in Seq(STRING), i \in DOMAIN source, NEW class, source[i] \in class
    PROVE  /\ RunOf(class) \in 1 .. Len(source) - i + 1
           /\ \A k \in i .. i + RunOf(class) - 1 : source[k] \in class
           /\ i + RunOf(class) \in DOMAIN source => source[i + RunOf(class)] \notin class
<1> DEFINE Stop(n) == i + n \in DOMAIN source => source[i + n] \notin class
           Stops == {n \in Nat : n <= Len(source) - i + 1 /\ Stop(n)}
           Whole(n) == \A k \in i .. i + n - 1 : source[k] \in class
<1>1. Len(source) \in Nat /\ i \in 1 .. Len(source) /\ DOMAIN source = 1 .. Len(source)
  OBVIOUS
<1>2. Len(source) - i + 1 \in Stops
  BY <1>1
<1>3. PICK m \in Stops : \A n \in Stops : m <= n
  BY <1>2, LeastNatural
<1>4. Whole(m)
  <2> SUFFICES ASSUME NEW k \in i .. i + m - 1, source[k] \notin class PROVE FALSE
    OBVIOUS
  <2>1. k - i \in Nat /\ k - i < m /\ i + (k - i) = k
    BY <1>1, <1>3
  <2>2. k - i \in Stops
    BY <1>1, <1>3, <2>1
  <2>3. QED
    BY <1>3, <2>1, <2>2
<1>5. \E n \in 0 .. Len(source) - i + 1 : Whole(n) /\ Stop(n)
  BY <1>1, <1>3, <1>4
<1>6. RunOf(class) \in 0 .. Len(source) - i + 1 /\ Whole(RunOf(class)) /\ Stop(RunOf(class))
  BY <1>5 DEF RunOf
<1>7. RunOf(class) # 0
  BY <1>1, <1>6
<1>8. QED
  BY <1>1, <1>6, <1>7

(* The characters of a token, and one more. *)
LEMMA CharactersOfAToken ==
    ASSUME NEW file \in Seq(STRING), NEW at \in DOMAIN file, NEW past \in Places(file), at < past
    PROVE  LET chars == SubSeq(file, at, past - 1)
           IN  /\ chars \in Seq(STRING)
               /\ Len(chars) = past - at
               /\ \A k \in 1 .. past - at : chars[k] = file[at + k - 1]
               /\ past \in DOMAIN file =>
                      LET more == Append(chars, file[past])
                      IN  /\ more \in Seq(STRING)
                          /\ Len(more) = past - at + 1
                          /\ \A k \in 1 .. past - at + 1 : more[k] = file[at + k - 1]
<1>1. at \in Nat \ {0} /\ past \in Nat /\ Len(file) \in Nat /\ past <= Len(file) + 1
  BY DEF Places
<1> DEFINE chars == SubSeq(file, at, past - 1)
<1>2. chars \in Seq(STRING) /\ Len(chars) = past - at
  BY <1>1
<1>3. \A k \in 1 .. past - at : chars[k] = file[at + k - 1]
  BY <1>1, <1>2
<1>4. ASSUME past \in DOMAIN file
      PROVE  LET more == Append(chars, file[past])
             IN  /\ more \in Seq(STRING)
                 /\ Len(more) = past - at + 1
                 /\ \A k \in 1 .. past - at + 1 : more[k] = file[at + k - 1]
  <2> HIDE DEF chars
  <2>1. file[past] \in STRING /\ at + (past - at + 1) - 1 = past
    BY <1>1, <1>4
  <2> DEFINE more == Append(chars, file[past])
  <2>2. /\ more \in Seq(STRING) /\ Len(more) = Len(chars) + 1
        /\ \A k \in 1 .. Len(chars) : more[k] = chars[k]
        /\ more[Len(chars) + 1] = file[past]
    BY <1>2, <2>1, AppendProperties
  <2> HIDE DEF more
  <2>3. Len(more) = past - at + 1 /\ past - at \in Nat
    BY <1>1, <1>2, <2>2
  <2>4. ASSUME NEW k \in 1 .. past - at + 1
        PROVE  more[k] = file[at + k - 1]
    <3>1. CASE k = past - at + 1
      BY <1>1, <1>2, <2>1, <2>2, <3>1
    <3>2. CASE k \in 1 .. past - at
      BY <1>2, <1>3, <2>2, <3>2
    <3>3. QED
      BY <1>1, <3>1, <3>2
  <2>5. QED
    BY <2>2, <2>3, <2>4 DEF more
<1>5. QED
  BY <1>2, <1>3, <1>4

LEMMA NumbersAreLongest ==
    ASSUME NEW file \in Seq(STRING), NEW at \in DOMAIN file, NEW past \in Places(file), at < past,
           \A q \in at .. past - 1 : file[q] \in Digit,
           past \in DOMAIN file => file[past] \notin Digit
    PROVE  /\ IsLexeme(SubSeq(file, at, past - 1))
           /\ past \in DOMAIN file => ~IsLexeme(Append(SubSeq(file, at, past - 1), file[past]))
<1> DEFINE chars == SubSeq(file, at, past - 1)
           more == Append(chars, file[past])
<1>1. at \in Nat \ {0} /\ past \in Nat /\ Len(file) \in Nat
  BY DEF Places
<1>2. /\ chars \in Seq(STRING) /\ Len(chars) = past - at
      /\ \A k \in 1 .. past - at : chars[k] = file[at + k - 1]
  BY CharactersOfAToken
<1>3. past \in DOMAIN file =>
          /\ more \in Seq(STRING) /\ Len(more) = past - at + 1
          /\ \A k \in 1 .. past - at + 1 : more[k] = file[at + k - 1]
  BY CharactersOfAToken
<1> HIDE DEF chars, more
<1>4. IsLexeme(chars)
  <2>1. \A k \in DOMAIN chars : chars[k] \in Digit
    BY <1>1, <1>2
  <2>2. QED
    BY <2>1 DEF IsLexeme, Range
<1>5. ASSUME past \in DOMAIN file PROVE ~IsLexeme(more)
  <2>1. past - at + 1 \in DOMAIN more /\ more[past - at + 1] = file[past]
    BY <1>1, <1>3, <1>5
  <2>2. 1 \in DOMAIN more /\ more[1] \in Digit /\ Head(more) = more[1]
    <3>1. 1 \in DOMAIN more /\ 1 \in 1 .. past - at + 1 /\ at + 1 - 1 = at /\ at \in at .. past - 1
      BY <1>1, <1>3, <1>5
    <3>2. more[1] = file[at]
      BY <1>3, <1>5, <3>1
    <3>3. Head(more) = more[1]
      BY <1>3, <1>5, <3>1
    <3>4. QED
      BY <3>1, <3>2, <3>3
  <2>3. more[1] \notin Letter /\ more[1] \notin DOMAIN ShortOperatorType
    BY <2>2, CharacterKinds
  <2>4. ~(Range(more) \subseteq Digit)
    BY <1>5, <2>1 DEF Range
  <2>5. more \notin {<<"=", "=">>, <<"!", "=">>, <<"<", "=">>, <<">", "=">>}
    BY <2>2, <2>3, CharacterKinds
  <2>6. more \notin {<<c>> : c \in DOMAIN ShortOperatorType}
    BY <2>3
  <2>7. QED
    BY <2>2, <2>3, <2>4, <2>5, <2>6 DEF IsLexeme
<1>6. QED
  BY <1>4, <1>5 DEF chars, more

(* A word can only be cut by something that is neither a letter nor a digit. *)
LEMMA WordsAreLongest ==
    ASSUME NEW file \in Seq(STRING), NEW at \in DOMAIN file, NEW past \in Places(file), at < past,
           file[at] \in Letter,
           \A q \in at .. past - 1 : file[q] \in AlphaNumeric,
           past \in DOMAIN file => file[past] \notin AlphaNumeric
    PROVE  /\ IsLexeme(SubSeq(file, at, past - 1))
           /\ past \in DOMAIN file => ~IsLexeme(Append(SubSeq(file, at, past - 1), file[past]))
<1> DEFINE chars == SubSeq(file, at, past - 1)
           more == Append(chars, file[past])
<1>1. at \in Nat \ {0} /\ past \in Nat /\ Len(file) \in Nat
  BY DEF Places
<1>2. /\ chars \in Seq(STRING) /\ Len(chars) = past - at
      /\ \A k \in 1 .. past - at : chars[k] = file[at + k - 1]
  BY CharactersOfAToken
<1>3. past \in DOMAIN file =>
          /\ more \in Seq(STRING) /\ Len(more) = past - at + 1
          /\ \A k \in 1 .. past - at + 1 : more[k] = file[at + k - 1]
  BY CharactersOfAToken
<1> HIDE DEF chars, more
<1>4. IsLexeme(chars)
  <2>1. \A k \in DOMAIN chars : chars[k] \in AlphaNumeric
    BY <1>1, <1>2
  <2>2. 1 \in 1 .. past - at /\ at + 1 - 1 = at
    BY <1>1
  <2>3. chars[1] = file[at] /\ Head(chars) = chars[1]
    BY <1>1, <1>2, <2>2
  <2>4. QED
    BY <2>1, <2>3 DEF IsLexeme, Range
<1>5. ASSUME past \in DOMAIN file PROVE ~IsLexeme(more)
  <2>1. past - at + 1 \in DOMAIN more /\ more[past - at + 1] = file[past]
    BY <1>1, <1>3, <1>5
  <2>2. 1 \in DOMAIN more /\ more[1] \in Letter
    <3>1. 1 \in DOMAIN more /\ 1 \in 1 .. past - at + 1 /\ at + 1 - 1 = at
      BY <1>1, <1>3, <1>5
    <3>2. more[1] = file[at]
      BY <1>3, <1>5, <3>1
    <3>3. QED
      BY <3>1, <3>2
  <2>3. more[1] \notin Digit /\ more[1] \notin DOMAIN ShortOperatorType
    BY <2>2, CharacterKinds
  <2>4. ~(Range(more) \subseteq Digit)
    BY <2>2, <2>3 DEF Range
  <2>5. ~(Range(more) \subseteq AlphaNumeric)
    BY <1>5, <2>1 DEF Range
  <2>6. more \notin {<<"=", "=">>, <<"!", "=">>, <<"<", "=">>, <<">", "=">>}
    BY <2>2, <2>3, CharacterKinds
  <2>7. more \notin {<<c>> : c \in DOMAIN ShortOperatorType}
    BY <2>3
  <2>8. QED
    BY <2>4, <2>5, <2>6, <2>7 DEF IsLexeme
<1>6. QED
  BY <1>4, <1>5 DEF chars, more

(* No token is three characters long and begins with an operator. *)
LEMMA LongOperatorsAreLongest ==
    ASSUME NEW file \in Seq(STRING), NEW at \in DOMAIN file, at + 1 \in DOMAIN file,
           file[at] \in DOMAIN LongOperatorType, file[at + 1] = "=",
           NEW past, past = at + 2
    PROVE  /\ IsLexeme(SubSeq(file, at, past - 1))
           /\ past \in DOMAIN file => ~IsLexeme(Append(SubSeq(file, at, past - 1), file[past]))
<1> DEFINE chars == SubSeq(file, at, past - 1)
           more == Append(chars, file[past])
<1>1. at \in Nat \ {0} /\ past \in Nat /\ Len(file) \in Nat /\ past \in Places(file) /\ at < past
  BY DEF Places
<1>2. /\ chars \in Seq(STRING) /\ Len(chars) = 2
      /\ chars[1] = file[at] /\ chars[2] = file[at + 1]
  <2>1. /\ chars \in Seq(STRING) /\ Len(chars) = past - at
        /\ \A k \in 1 .. past - at : chars[k] = file[at + k - 1]
    BY <1>1, CharactersOfAToken
  <2>2. past - at = 2 /\ at + 1 - 1 = at /\ at + 2 - 1 = at + 1 /\ 1 \in 1 .. 2 /\ 2 \in 1 .. 2
    BY <1>1
  <2> HIDE DEF chars
  <2>3. QED
    BY <2>1, <2>2
<1>3. past \in DOMAIN file => Len(more) = 3 /\ more \in Seq(STRING) /\ more[1] = file[at]
  <2>1. past \in DOMAIN file =>
          /\ more \in Seq(STRING) /\ Len(more) = past - at + 1
          /\ \A k \in 1 .. past - at + 1 : more[k] = file[at + k - 1]
    BY <1>1, CharactersOfAToken
  <2>2. past - at + 1 = 3 /\ at + 1 - 1 = at /\ 1 \in 1 .. 3
    BY <1>1
  <2> HIDE DEF more
  <2>3. QED
    BY <2>1, <2>2
<1> HIDE DEF chars, more
<1>4. IsLexeme(chars)
  <2>1. chars = <<file[at], "=">>
    BY <1>2
  <2>2. file[at] \in {"=", "!", "<", ">"}
    BY CharacterKinds
  <2>3. QED
    BY <2>1, <2>2 DEF IsLexeme
<1>5. ASSUME past \in DOMAIN file PROVE ~IsLexeme(more)
  <2>1. 1 \in DOMAIN more /\ more[1] \in DOMAIN ShortOperatorType /\ Head(more) = more[1]
    BY <1>3, <1>5, CharacterKinds
  <2>2. more[1] \notin Digit /\ more[1] \notin Letter
    BY <2>1, CharacterKinds
  <2>3. ~(Range(more) \subseteq Digit)
    BY <2>1, <2>2 DEF Range
  <2>4. more \notin {<<"=", "=">>, <<"!", "=">>, <<"<", "=">>, <<">", "=">>}
    <3>1. \A c : Len(<<c, "=">>) = 2
      OBVIOUS
    <3>2. \A c : more # <<c, "=">>
      BY <1>3, <1>5, <3>1
    <3>3. QED
      BY <3>2
  <2>5. more \notin {<<c>> : c \in DOMAIN ShortOperatorType}
    BY <1>3, <1>5
  <2>6. QED
    BY <2>1, <2>2, <2>3, <2>4, <2>5 DEF IsLexeme
<1>6. QED
  BY <1>4, <1>5 DEF chars, more

(* An operator of one character is only taken where none of two begins. *)
LEMMA ShortOperatorsAreLongest ==
    ASSUME NEW file \in Seq(STRING), NEW at \in DOMAIN file,
           file[at] \in DOMAIN ShortOperatorType,
           ~(at < Len(file) /\ file[at] \in DOMAIN LongOperatorType /\ file[at + 1] = "="),
           NEW past, past = at + 1
    PROVE  /\ IsLexeme(SubSeq(file, at, past - 1))
           /\ past \in DOMAIN file => ~IsLexeme(Append(SubSeq(file, at, past - 1), file[past]))
<1> DEFINE chars == SubSeq(file, at, past - 1)
           more == Append(chars, file[past])
<1>1. at \in Nat \ {0} /\ past \in Nat /\ Len(file) \in Nat /\ past \in Places(file) /\ at < past
  BY DEF Places
<1>2. /\ chars \in Seq(STRING) /\ Len(chars) = 1
      /\ chars[1] = file[at]
  <2>1. /\ chars \in Seq(STRING) /\ Len(chars) = past - at
        /\ \A k \in 1 .. past - at : chars[k] = file[at + k - 1]
    BY <1>1, CharactersOfAToken
  <2>2. past - at = 1 /\ at + 1 - 1 = at /\ 1 \in 1 .. 1
    BY <1>1
  <2> HIDE DEF chars
  <2>3. QED
    BY <2>1, <2>2
<1>3. past \in DOMAIN file =>
          /\ Len(more) = 2 /\ more \in Seq(STRING)
          /\ more[1] = file[at] /\ more[2] = file[past]
  <2>1. past \in DOMAIN file =>
          /\ more \in Seq(STRING) /\ Len(more) = past - at + 1
          /\ \A k \in 1 .. past - at + 1 : more[k] = file[at + k - 1]
    BY <1>1, CharactersOfAToken
  <2>2. past - at + 1 = 2 /\ at + 1 - 1 = at /\ at + 2 - 1 = past /\ 1 \in 1 .. 2 /\ 2 \in 1 .. 2
    BY <1>1
  <2> HIDE DEF more
  <2>3. QED
    BY <2>1, <2>2
<1> HIDE DEF chars, more
<1>4. IsLexeme(chars)
  <2>1. chars = <<file[at]>>
    BY <1>2
  <2>2. QED
    BY <2>1 DEF IsLexeme
<1>5. ASSUME past \in DOMAIN file PROVE ~IsLexeme(more)
  <2>1. 1 \in DOMAIN more /\ more[1] \in DOMAIN ShortOperatorType /\ Head(more) = more[1]
    BY <1>3, <1>5
  <2>2. more[1] \notin Digit /\ more[1] \notin Letter
    BY <2>1, CharacterKinds
  <2>3. ~(Range(more) \subseteq Digit)
    BY <2>1, <2>2 DEF Range
  <2>4. more \notin {<<"=", "=">>, <<"!", "=">>, <<"<", "=">>, <<">", "=">>}
    <3>1. at < Len(file) /\ past = at + 1
      BY <1>1, <1>5
    <3>2. ~(more[1] \in {"=", "!", "<", ">"} /\ more[2] = "=")
      BY <1>3, <1>5, <3>1, CharacterKinds
    <3>3. QED
      BY <3>2
  <2>5. more \notin {<<c>> : c \in DOMAIN ShortOperatorType}
    BY <1>3, <1>5
  <2>6. QED
    BY <2>1, <2>2, <2>3, <2>4, <2>5 DEF IsLexeme
<1>6. QED
  BY <1>4, <1>5 DEF chars, more

-----------------------------------------------------------------------------

(* The inductive invariant: the scan knows where it is, ... *)
Positioned ==
    /\ source \in Seq(STRING)
    /\ i \in Places(source)
    /\ line = LineOf(source, i)
    /\ col = ColOf(source, i)
    /\ \A p \in 1 .. i - 1 : source[p] \in Legal

(* ... the tokens lie side by side up to there, ... *)
Filled ==
    /\ tokens \in Seq(Range(tokens))
    /\ Placed(source, tokens, i)
    /\ Ordered(source, tokens)
    /\ Covered(source, tokens, i)
    /\ \A k \in DOMAIN tokens : Longest(source, tokens[k])

OnlyTheLastEnds ==
    \A k \in DOMAIN tokens :
        tokens[k].type = "END_OF_FILE" => k = Len(tokens) /\ lexed = Finished

(* ... and it has stopped, if it has, for its one reason. *)
Concluded ==
    \/ lexed = Running
    \/ /\ lexed = Finished
       /\ i = Len(source) + 1
       /\ tokens # <<>>
       /\ Last(tokens).type = "END_OF_FILE"
       /\ Last(tokens).span = MakeSpan(line, col, 0)
    \/ /\ lexed.class = "compile"
       /\ i \in DOMAIN source
       /\ source[i] \notin Legal
       /\ Stands(source, i, lexed.span)

LexerInvariant == Positioned /\ Filled /\ OnlyTheLastEnds /\ Concluded

LEMMA InitialInvariant == Init => LexerInvariant
<1> SUFFICES ASSUME Init PROVE LexerInvariant
  OBVIOUS
<1>1. source \in Seq(STRING) /\ Len(source) \in Nat /\ i = 1 /\ tokens = <<>> /\ lexed = Running
  BY SourcesAssumption DEF Init
<1>2. LineOf(source, 1) = 1 /\ ColOf(source, 1) = 1
  <2>1. NewlinesBefore(source, 1) = {}
    BY DEF NewlinesBefore
  <2>2. LineOf(source, 1) = 1
    BY <2>1, FS_EmptySet DEF LineOf
  <2>3. ColOf(source, 1) \in 1 .. 1
    <3>1. 1 \in Nat \ {0}
      OBVIOUS
    <3>2. QED
      BY <1>1, <3>1, ColumnsCount, Zenon
  <2>4. QED
    BY <2>2, <2>3
<1>3. Positioned
  BY <1>1, <1>2 DEF Positioned, Places, Init
<1>4. DOMAIN tokens = {} /\ tokens \in Seq(Range(tokens))
  BY <1>1
<1>5. Filled
  BY <1>1, <1>4 DEF Filled, Placed, Ordered, Covered
<1>6. OnlyTheLastEnds /\ Concluded
  BY <1>1, <1>4 DEF OnlyTheLastEnds, Concluded
<1>7. QED
  BY <1>3, <1>5, <1>6 DEF LexerInvariant

(* What the four arms that take a token have in common. *)
LEMMA TakeKeepsTheInvariant ==
    ASSUME LexerInvariant, Scanning,
           NEW type, type # "END_OF_FILE", NEW n \in Nat \ {0}, i + n \in Places(source),
           \A q \in i .. i + n - 1 : source[q] \in Legal \ Separators,
           IsLexeme(SubSeq(source, i, (i + n) - 1)),
           i + n \in DOMAIN source =>
               ~IsLexeme(Append(SubSeq(source, i, (i + n) - 1), source[i + n])),
           Take(type, n)
    PROVE  LexerInvariant'
<1> DEFINE token == NewToken(type, n)
           past == i + n
<1>1. /\ source' = source /\ line' = line /\ lexed' = lexed /\ lexed = Running
      /\ i' = past /\ col' = col + n /\ tokens' = Append(tokens, token)
  BY DEF Take, Scanning
<1>2. /\ source \in Seq(STRING) /\ i \in Places(source) /\ Len(source) \in Nat
      /\ i \in Nat \ {0} /\ past \in Nat /\ i <= past /\ past <= Len(source) + 1
  BY DEF LexerInvariant, Positioned, Places
<1>3. /\ token.span = MakeSpan(line, col, n) /\ token.span.len = n
      /\ token.type = type
      /\ token.text = Spell(SubSeq(source, i, past - 1))
  <2>1. i + n - 1 = past - 1
    BY <1>2
  <2>2. QED
    BY <2>1 DEF NewToken, Coming, MakeSpan
<1>4. Stands(source, i, token.span)
  BY <1>3 DEF Stands, MakeSpan, LexerInvariant, Positioned
<1>5. \A q \in i .. past - 1 : source[q] \in Legal \ Separators
  BY <1>2
<1> HIDE DEF token, past
<1>6. /\ PlaceOf(source, token.span) = i
      /\ Placed(source, Append(tokens, token), past)
      /\ Ordered(source, Append(tokens, token))
      /\ Covered(source, Append(tokens, token), past)
  <2>1. past = i + token.span.len
    BY <1>3 DEF past
  <2>2. token.span.len \in Nat /\ \A q \in i .. past - 1 : source[q] \notin Separators
    BY <1>3, <1>5
  <2>3. /\ tokens \in Seq(Range(tokens)) /\ Placed(source, tokens, i)
        /\ Ordered(source, tokens) /\ Covered(source, tokens, i)
    BY DEF LexerInvariant, Filled
  <2>4. token.text = Spell(SubSeq(source, i, past - 1))
    BY <1>3
  <2>5. QED
    BY <1>2, <1>4, <2>1, <2>2, <2>3, <2>4, Takes, SMTT(30)
<1>7. /\ Append(tokens, token) \in Seq(Range(Append(tokens, token)))
      /\ DOMAIN Append(tokens, token) = DOMAIN tokens \cup {Len(tokens) + 1}
      /\ \A k \in DOMAIN tokens : Append(tokens, token)[k] = tokens[k]
      /\ Append(tokens, token)[Len(tokens) + 1] = token
  BY OneMore DEF LexerInvariant, Filled
<1>8. Longest(source, token)
  <2>1. End(source, token.span) = past
    BY <1>3, <1>6 DEF End, past
  <2>2. Quoted(source, token.span) = SubSeq(source, i, past - 1)
    BY <1>6, <2>1 DEF Quoted
  <2>3. QED
    BY <2>1, <2>2 DEF Longest, past
<1>9. Positioned'
  <2>1. \A k \in i .. past - 1 : source[k] # Newline
    BY <1>5 DEF Separators
  <2>2. /\ LineOf(source, past) = LineOf(source, i)
        /\ ColOf(source, past) = ColOf(source, i) + (past - i)
    BY <1>2, <2>1, AlongALine
  <2>3. past - i = n
    BY <1>2 DEF past
  <2>4. \A p \in 1 .. past - 1 : source[p] \in Legal
    BY <1>2, <1>5 DEF LexerInvariant, Positioned
  <2>5. past \in Places(source)
    BY DEF past
  <2>6. QED
    BY <1>1, <1>2, <2>2, <2>3, <2>4, <2>5 DEF LexerInvariant, Positioned
<1>10. Filled'
  <2>1. \A k \in DOMAIN Append(tokens, token) : Longest(source, Append(tokens, token)[k])
    BY <1>7, <1>8 DEF LexerInvariant, Filled
  <2>2. QED
    BY <1>1, <1>6, <1>7, <2>1 DEF Filled
<1>11. OnlyTheLastEnds'
  <2>1. \A k \in DOMAIN tokens : tokens[k].type # "END_OF_FILE"
    BY <1>1 DEF LexerInvariant, OnlyTheLastEnds, Running, Finished, Verdict
  <2>2. QED
    BY <1>1, <1>3, <1>7, <2>1 DEF OnlyTheLastEnds
<1>12. Concluded'
  BY <1>1 DEF Concluded
<1>13. QED
  BY <1>9, <1>10, <1>11, <1>12 DEF LexerInvariant

(* What the two that pass a separator have in common. *)
LEMMA SkipKeepsTheInvariant ==
    ASSUME LexerInvariant, Scanning, Current \in Separators, i' = i + 1,
           line' = LineOf(source, i + 1), col' = ColOf(source, i + 1),
           UNCHANGED <<source, tokens, lexed>>
    PROVE  LexerInvariant'
<1>1. /\ source \in Seq(STRING) /\ Len(source) \in Nat /\ i \in Nat \ {0} /\ i \in DOMAIN source
      /\ source[i] \in Separators /\ i + 1 \in Places(source)
  BY DEF LexerInvariant, Positioned, Places, Scanning, Current
<1>2. Placed(source, tokens, i + 1) /\ Covered(source, tokens, i + 1)
  BY <1>1, Skips DEF LexerInvariant, Filled
<1>3. Positioned'
  <2>1. \A p \in 1 .. i + 1 - 1 : source[p] \in Legal
    BY <1>1 DEF LexerInvariant, Positioned, Legal
  <2>2. QED
    BY <1>1, <2>1 DEF Positioned
<1>4. Filled'
  BY <1>2 DEF LexerInvariant, Filled
<1>5. OnlyTheLastEnds' /\ Concluded'
  BY DEF LexerInvariant, OnlyTheLastEnds, Concluded, Scanning
<1>6. QED
  BY <1>3, <1>4, <1>5 DEF LexerInvariant

LEMMA NextKeepsTheInvariant == LexerInvariant /\ [Next]_vars => LexerInvariant'
<1> SUFFICES ASSUME LexerInvariant, [Next]_vars PROVE LexerInvariant'
  OBVIOUS
<1>1. /\ source \in Seq(STRING) /\ Len(source) \in Nat /\ i \in Nat \ {0}
      /\ i <= Len(source) + 1
      /\ DOMAIN source = 1 .. Len(source)
  BY DEF LexerInvariant, Positioned, Places
<1>2. Scanning => i \in DOMAIN source
  BY <1>1 DEF Scanning
<1>3. CASE SkipNewline
  <2>1. LineOf(source, i + 1) = LineOf(source, i) + 1 /\ ColOf(source, i + 1) = 1
    BY <1>1, <1>2, <1>3, AfterANewline DEF SkipNewline, Current
  <2>2. QED
    BY <1>3, <2>1, SkipKeepsTheInvariant
       DEF SkipNewline, Separators, LexerInvariant, Positioned
<1>4. CASE SkipBlank
  <2>1. source[i] # Newline
    BY <1>4 DEF SkipBlank, Current, Blank, Newline
  <2>2. LineOf(source, i + 1) = LineOf(source, i) /\ ColOf(source, i + 1) = ColOf(source, i) + 1
    <3>1. \A k \in i .. i + 1 - 1 : k \in DOMAIN source => source[k] # Newline
      BY <1>1, <2>1
    <3>2. i + 1 - i = 1 /\ i <= i + 1 /\ i + 1 \in Nat
      BY <1>1
    <3>3. ColOf(source, i + 1) = ColOf(source, i) + (i + 1 - i)
      BY <1>1, <3>1, <3>2, AlongALine
    <3>4. LineOf(source, i + 1) = LineOf(source, i)
      BY <1>1, <3>1, <3>2, AlongALine
    <3>5. QED
      BY <1>1, <3>3, <3>4
  <2>3. QED
    BY <1>4, <2>2, SkipKeepsTheInvariant
       DEF SkipBlank, Separators, LexerInvariant, Positioned
<1>5. CASE LexNumber
  <2> DEFINE n == RunOf(Digit)
  <2>1. Scanning /\ source[i] \in Digit /\ Take("NUMBER", n)
    BY <1>5 DEF LexNumber, Current
  <2>2. /\ n \in 1 .. Len(source) - i + 1
        /\ \A k \in i .. i + n - 1 : source[k] \in Digit
        /\ i + n \in DOMAIN source => source[i + n] \notin Digit
    BY <1>1, <1>2, <2>1, RunsAreWhole
  <2> HIDE DEF n
  <2>3. n \in Nat \ {0} /\ i < i + n /\ i + n - 1 = (i + n) - 1 /\ i + n \in Places(source)
    BY <1>1, <2>2 DEF Places
  <2>4. \A q \in i .. i + n - 1 : source[q] \in Legal \ Separators
    BY <2>2, CharacterKinds DEF Legal, AlphaNumeric
  <2>5. /\ IsLexeme(SubSeq(source, i, (i + n) - 1))
        /\ i + n \in DOMAIN source =>
               ~IsLexeme(Append(SubSeq(source, i, (i + n) - 1), source[i + n]))
    BY <1>1, <1>2, <2>1, <2>2, <2>3, NumbersAreLongest
  <2>6. QED
    BY <2>1, <2>3, <2>4, <2>5, TakeKeepsTheInvariant
<1>6. CASE LexWord
  <2> DEFINE n == RunOf(AlphaNumeric)
             type == WordType(Spell(Coming(n)))
  <2>1. Scanning /\ source[i] \in Letter /\ Take(type, n)
    BY <1>6 DEF LexWord, Current
  <2>2. /\ n \in 1 .. Len(source) - i + 1
        /\ \A k \in i .. i + n - 1 : source[k] \in AlphaNumeric
        /\ i + n \in DOMAIN source => source[i + n] \notin AlphaNumeric
    BY <1>1, <1>2, <2>1, RunsAreWhole DEF AlphaNumeric
  <2>3. type # "END_OF_FILE"
    BY TokensThatEndNoFile
  <2> HIDE DEF n, type
  <2>4. n \in Nat \ {0} /\ i < i + n /\ i + n - 1 = (i + n) - 1 /\ i + n \in Places(source)
    BY <1>1, <2>2 DEF Places
  <2>5. \A q \in i .. i + n - 1 : source[q] \in Legal \ Separators
    BY <2>2, CharacterKinds DEF Legal, AlphaNumeric
  <2>6. /\ IsLexeme(SubSeq(source, i, (i + n) - 1))
        /\ i + n \in DOMAIN source =>
               ~IsLexeme(Append(SubSeq(source, i, (i + n) - 1), source[i + n]))
    BY <1>1, <1>2, <2>1, <2>2, <2>4, WordsAreLongest
  <2>7. QED
    BY <2>1, <2>3, <2>4, <2>5, <2>6, TakeKeepsTheInvariant
<1>7. CASE LexLongOperator
  <2> DEFINE type == LongOperatorType[Current]
  <2>1. /\ Scanning /\ i < Len(source) /\ source[i] \in DOMAIN LongOperatorType
        /\ source[i + 1] = "=" /\ Take(type, 2)
    BY <1>7 DEF LexLongOperator, IsLongOperator, Current
  <2>2. type # "END_OF_FILE"
    BY <2>1, TokensThatEndNoFile DEF Current
  <2> HIDE DEF type
  <2>3. i + 1 \in DOMAIN source /\ i + 2 \in Places(source)
    BY <1>1, <2>1 DEF Places
  <2>4. \A q \in i .. i + 2 - 1 : source[q] \in Legal \ Separators
    <3>1. source[i] \in DOMAIN ShortOperatorType /\ source[i + 1] \in DOMAIN ShortOperatorType
      BY <2>1, CharacterKinds
    <3>2. \A q \in i .. i + 2 - 1 : q = i \/ q = i + 1
      BY <1>1
    <3>3. QED
      BY <3>1, <3>2, CharacterKinds DEF Legal
  <2>5. /\ IsLexeme(SubSeq(source, i, (i + 2) - 1))
        /\ i + 2 \in DOMAIN source =>
               ~IsLexeme(Append(SubSeq(source, i, (i + 2) - 1), source[i + 2]))
    BY <1>1, <1>2, <2>1, <2>3, LongOperatorsAreLongest
  <2>6. QED
    BY <2>1, <2>2, <2>3, <2>4, <2>5, TakeKeepsTheInvariant
<1>8. CASE LexShortOperator
  <2> DEFINE type == ShortOperatorType[Current]
  <2>1. /\ Scanning /\ source[i] \in DOMAIN ShortOperatorType
        /\ ~(i < Len(source) /\ source[i] \in DOMAIN LongOperatorType /\ source[i + 1] = "=")
        /\ Take(type, 1)
    BY <1>8 DEF LexShortOperator, IsLongOperator, Current
  <2>2. type # "END_OF_FILE"
    BY <2>1, TokensThatEndNoFile DEF Current
  <2> HIDE DEF type
  <2>3. i + 1 \in Places(source)
    BY <1>1, <1>2, <2>1 DEF Places
  <2>4. \A q \in i .. i + 1 - 1 : source[q] \in Legal \ Separators
    <3>1. \A q \in i .. i + 1 - 1 : q = i
      BY <1>1
    <3>2. QED
      BY <2>1, <3>1, CharacterKinds DEF Legal
  <2>5. /\ IsLexeme(SubSeq(source, i, (i + 1) - 1))
        /\ i + 1 \in DOMAIN source =>
               ~IsLexeme(Append(SubSeq(source, i, (i + 1) - 1), source[i + 1]))
    BY <1>1, <1>2, <2>1, ShortOperatorsAreLongest
  <2>6. QED
    BY <2>1, <2>2, <2>3, <2>4, <2>5, TakeKeepsTheInvariant
<1>9. CASE UnknownCharacter
  <2>1. /\ Scanning /\ source[i] \notin Legal
        /\ lexed' = CompileError(MakeSpan(line, col, 1), <<"unknown character", Current>>)
        /\ UNCHANGED <<source, i, line, col, tokens>>
    BY <1>9 DEF UnknownCharacter, Current, Legal, Separators
  <2>2. Positioned' /\ Filled'
    BY <2>1 DEF LexerInvariant, Positioned, Filled
  <2>3. OnlyTheLastEnds'
    <3>1. \A k \in DOMAIN tokens : tokens[k].type # "END_OF_FILE"
      BY <2>1 DEF LexerInvariant, OnlyTheLastEnds, Scanning, Running, Finished, Verdict
    <3>2. QED
      BY <2>1, <3>1 DEF OnlyTheLastEnds
  <2>4. Concluded'
    <3>1. lexed'.class = "compile" /\ lexed'.span = MakeSpan(line, col, 1)
      BY <2>1 DEF CompileError, Verdict
    <3>2. Stands(source, i, lexed'.span)
      BY <3>1 DEF Stands, MakeSpan, LexerInvariant, Positioned
    <3>3. QED
      BY <1>2, <2>1, <3>1, <3>2 DEF Concluded
  <2>5. QED
    BY <2>2, <2>3, <2>4 DEF LexerInvariant
<1>10. CASE EndOfFile
  <2> DEFINE token == NewToken("END_OF_FILE", 0)
             more == Append(tokens, token)
  <2>1. /\ lexed = Running /\ i = Len(source) + 1 /\ tokens' = more /\ lexed' = Finished
        /\ UNCHANGED <<source, i, line, col>>
    BY <1>1, <1>10 DEF EndOfFile
  <2>2. /\ token.type = "END_OF_FILE" /\ token.span = MakeSpan(line, col, 0)
        /\ token.span.len = 0 /\ i = i + token.span.len
        /\ token.text = Spell(SubSeq(source, i, i - 1))
    <3>1. i + 0 - 1 = i - 1 /\ i + 0 = i
      BY <1>1
    <3>2. QED
      BY <3>1 DEF NewToken, Coming, MakeSpan
  <2>3. Stands(source, i, token.span)
    BY <2>2 DEF Stands, MakeSpan, LexerInvariant, Positioned
  <2> HIDE DEF token
  <2>4. /\ more \in Seq(Range(more)) /\ Len(more) = Len(tokens) + 1
        /\ DOMAIN more = DOMAIN tokens \cup {Len(tokens) + 1}
        /\ \A k \in DOMAIN tokens : more[k] = tokens[k]
        /\ more[Len(tokens) + 1] = token
        /\ Len(tokens) \in Nat
    BY OneMore DEF LexerInvariant, Filled
  <2>5. Placed(source, more, i) /\ Ordered(source, more) /\ Covered(source, more, i)
    <3>1. /\ i \in Places(source) /\ i <= Len(source) + 1
          /\ \A q \in i .. i - 1 : source[q] \notin Separators
      BY <1>1 DEF Places
    <3>2. /\ tokens \in Seq(Range(tokens)) /\ Placed(source, tokens, i)
          /\ Ordered(source, tokens) /\ Covered(source, tokens, i)
      BY DEF LexerInvariant, Filled
    <3>3. token.span.len \in Nat
      BY <2>2
    <3>4. QED
      BY <1>1, <2>2, <2>3, <3>1, <3>2, <3>3, Takes
  <2> HIDE DEF more
  <2>6. Filled'
    <3>1. \A k \in DOMAIN more : Longest(source, more[k])
      BY <2>2, <2>4 DEF LexerInvariant, Filled, Longest
    <3>2. QED
      BY <2>1, <2>4, <2>5, <3>1 DEF Filled
  <2>7. Positioned'
    BY <2>1 DEF LexerInvariant, Positioned
  <2>8. OnlyTheLastEnds'
    <3>1. \A k \in DOMAIN tokens : tokens[k].type # "END_OF_FILE"
      BY <2>1 DEF LexerInvariant, OnlyTheLastEnds, Running, Finished, Verdict
    <3>2. QED
      BY <2>1, <2>4, <3>1 DEF OnlyTheLastEnds
  <2>9. Concluded'
    <3>1. Last(more) = token /\ more # <<>>
      BY <2>4 DEF Last
    <3>2. QED
      BY <2>1, <2>2, <3>1 DEF Concluded
  <2>10. QED
    BY <2>6, <2>7, <2>8, <2>9 DEF LexerInvariant
<1>11. CASE UNCHANGED vars
  BY <1>11 DEF vars, LexerInvariant, Positioned, Filled, OnlyTheLastEnds, Concluded
<1>12. QED
  BY <1>3, <1>4, <1>5, <1>6, <1>7, <1>8, <1>9, <1>10, <1>11 DEF Next

(* Every reachable state of the lexer satisfies its invariant. *)
THEOREM LexerInvariantHolds == Spec => []LexerInvariant
<1>1. QED
  BY InitialInvariant, NextKeepsTheInvariant, PTL DEF Spec

-----------------------------------------------------------------------------

(* The tokens that own a place are the ones that cover it. *)
LEMMA OwnersCover ==
    ASSUME LexerInvariant, NEW p \in 1 .. i - 1
    PROVE  /\ Owners(p) = {k \in DOMAIN tokens :
                   p \in PlaceOf(source, tokens[k].span) .. End(source, tokens[k].span) - 1}
           /\ \A k \in Owners(p) : source[p] \notin Separators
<1>1. /\ source \in Seq(STRING) /\ Len(source) \in Nat /\ i \in Nat /\ i <= Len(source) + 1
      /\ p \in Places(source)
  BY DEF LexerInvariant, Positioned, Places
<1>2. ASSUME NEW k \in DOMAIN tokens
      PROVE  LET span == tokens[k].span
                 at == PlaceOf(source, span)
             IN  /\ span.line = LineOf(source, p)
                 /\ ColOf(source, p) \in span.col .. span.col + span.len - 1
                 <=> p \in at .. at + span.len - 1
  <2> DEFINE span == tokens[k].span
             at == PlaceOf(source, span)
  <2>1. /\ at \in Places(source) /\ Stands(source, at, span) /\ span.len \in Nat
        /\ at + span.len <= i
        /\ \A q \in at .. at + span.len - 1 : source[q] \notin Separators
    BY <1>2 DEF LexerInvariant, Filled, Placed
  <2>2. at + span.len <= Len(source) + 1
    BY <1>1, <2>1 DEF Places
  <2>3. \A q \in at .. at + span.len - 1 : source[q] # Newline
    BY <2>1 DEF Separators
  <2> HIDE DEF span, at
  <2>4. /\ span.line = LineOf(source, p)
        /\ ColOf(source, p) \in span.col .. span.col + span.len - 1
        <=> p \in at .. at + span.len - 1
    BY <1>1, <2>1, <2>2, <2>3, SpanCovers
  <2>5. QED
    BY <2>4 DEF span, at
<1>3. \A k \in DOMAIN tokens :
          /\ PlaceOf(source, tokens[k].span) \in Nat /\ tokens[k].span.len \in Nat
          /\ End(source, tokens[k].span) - 1
                 = PlaceOf(source, tokens[k].span) + tokens[k].span.len - 1
  BY DEF LexerInvariant, Filled, Placed, End, Places
<1>4. Owners(p) = {k \in DOMAIN tokens :
                   p \in PlaceOf(source, tokens[k].span) .. End(source, tokens[k].span) - 1}
  BY <1>2, <1>3 DEF Owners
<1>5. \A k \in Owners(p) : source[p] \notin Separators
  BY <1>3, <1>4 DEF LexerInvariant, Filled, Placed
<1>6. QED
  BY <1>4, <1>5

LEMMA InvariantTiles == LexerInvariant => TokensTileTheSource
<1> SUFFICES ASSUME LexerInvariant PROVE TokensTileTheSource
  OBVIOUS
<1>1. ASSUME NEW p \in 1 .. i - 1
      PROVE  Cardinality(Owners(p)) = IF source[p] \in Separators THEN 0 ELSE 1
  <2>1. CASE source[p] \in Separators
    <3>1. Owners(p) = {}
      BY <2>1, OwnersCover
    <3>2. QED
      BY <2>1, <3>1, FS_EmptySet
  <2>2. CASE source[p] \notin Separators
    <3>1. PICK k \in DOMAIN tokens :
              p \in PlaceOf(source, tokens[k].span) .. End(source, tokens[k].span) - 1
      BY <2>2 DEF LexerInvariant, Filled, Covered
    <3>2. k \in Owners(p)
      BY <3>1, OwnersCover
    <3>3. ASSUME NEW j \in Owners(p) PROVE j = k
      <4>1. /\ j \in DOMAIN tokens
            /\ p \in PlaceOf(source, tokens[j].span) .. End(source, tokens[j].span) - 1
        BY <3>3, OwnersCover
      <4>2. \A m \in DOMAIN tokens :
                /\ PlaceOf(source, tokens[m].span) \in Nat
                /\ End(source, tokens[m].span) \in Nat
        BY DEF LexerInvariant, Filled, Placed, Places, End
      <4>3. j \in Nat /\ k \in Nat
        BY <3>1, <4>1 DEF LexerInvariant, Filled
      <4>4. ~(j < k) /\ ~(k < j)
        BY <3>1, <4>1, <4>2 DEF LexerInvariant, Filled, Ordered
      <4>5. QED
        BY <4>3, <4>4
    <3>4. Owners(p) = {k}
      BY <3>2, <3>3
    <3>5. QED
      BY <2>2, <3>4, FS_Singleton
  <2>3. QED
    BY <2>1, <2>2
<1>2. ASSUME NEW k \in DOMAIN tokens
      PROVE  /\ \E p \in Places(source) : Stands(source, p, tokens[k].span)
             /\ tokens[k].text = Spell(Quoted(source, tokens[k].span))
  BY <1>2 DEF LexerInvariant, Filled, Placed
<1>3. ASSUME NEW k \in 2 .. Len(tokens)
      PROVE  End(source, tokens[k - 1].span) <= PlaceOf(source, tokens[k].span)
  <2>1. Len(tokens) \in Nat /\ DOMAIN tokens = 1 .. Len(tokens)
    BY DEF LexerInvariant, Filled
  <2>2. k - 1 \in DOMAIN tokens /\ k \in DOMAIN tokens /\ k - 1 < k
    BY <2>1
  <2>3. QED
    BY <2>2 DEF LexerInvariant, Filled, Ordered
<1>4. QED
  BY <1>1, <1>2, <1>3 DEF TokensTileTheSource

LEMMA InvariantTakesTheLongest == LexerInvariant => TokensAreLongest
  BY DEF LexerInvariant, Filled, Longest, TokensAreLongest

LEMMA InvariantEnds == LexerInvariant => EndsWhereItMust
<1> SUFFICES ASSUME LexerInvariant PROVE EndsWhereItMust
  OBVIOUS
<1>1. /\ Len(source) \in Nat /\ DOMAIN source = 1 .. Len(source) /\ i \in Nat \ {0}
      /\ \A p \in 1 .. i - 1 : source[p] \in Legal
  BY DEF LexerInvariant, Positioned, Places
<1>2. CASE lexed = Running
  BY <1>2 DEF LexerInvariant, OnlyTheLastEnds, EndsWhereItMust
<1>3. CASE /\ lexed = Finished
           /\ i = Len(source) + 1
           /\ tokens # <<>>
           /\ Last(tokens).type = "END_OF_FILE"
           /\ Last(tokens).span = MakeSpan(line, col, 0)
  <2>1. Strays = {}
    BY <1>1, <1>3 DEF Strays
  <2>2. line = LineOf(source, Len(source) + 1) /\ col = ColOf(source, Len(source) + 1)
    BY <1>3 DEF LexerInvariant, Positioned
  <2>3. QED
    BY <1>3, <2>1, <2>2 DEF LexerInvariant, OnlyTheLastEnds, EndsWhereItMust
<1>4. CASE /\ lexed.class = "compile"
           /\ i \in DOMAIN source
           /\ source[i] \notin Legal
           /\ Stands(source, i, lexed.span)
  <2>1. i \in Strays
    BY <1>4 DEF Strays
  <2>2. \A p \in Strays : i <= p
    BY <1>1 DEF Strays
  <2>3. Min(Strays) = i
    <3>1. Strays \subseteq Nat
      BY <1>1 DEF Strays
    <3>2. \A x \in Strays : (\A y \in Strays : x <= y) => x = i
      BY <2>1, <2>2, <3>1
    <3>3. QED
      BY <2>1, <2>2, <3>2 DEF Min
  <2>4. QED
    BY <1>4, <2>1, <2>3 DEF LexerInvariant, OnlyTheLastEnds, EndsWhereItMust
<1>5. QED
  BY <1>2, <1>3, <1>4 DEF LexerInvariant, Concluded

(* On every file, each character passed is in exactly one token, or blank and
   in none, and a token's span quotes its text. *)
THEOREM TokensAlwaysTile == Spec => []TokensTileTheSource
<1>1. QED
  BY LexerInvariantHolds, InvariantTiles, PTL

(* On every file, every token is as long as it can be. *)
THEOREM TokensAreAlwaysLongest == Spec => []TokensAreLongest
<1>1. QED
  BY LexerInvariantHolds, InvariantTakesTheLongest, PTL

(* Every file is refused exactly at its first character that begins no token,
   and otherwise ends with the one end-of-file token. *)
THEOREM AlwaysEndsWhereItMust == Spec => []EndsWhereItMust
<1>1. QED
  BY LexerInvariantHolds, InvariantEnds, PTL
=============================================================================
