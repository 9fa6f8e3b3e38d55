----------------------------- MODULE ParserProofs -----------------------------
(***************************************************************************)
(* Proofs about the front of the pipeline, for every token vector: the     *)
(* parser builds trees of the shape src/src/ast.h declares.                *)
(*                                                                         *)
(* The parser's work is typed as stack code is: each item of it takes      *)
(* nodes of known kinds off `built` and puts one back, and what is built   *)
(* when an item runs is what it takes.                                     *)
(*                                                                         *)
(* First come facts about naturals and sequences that the proofs share:    *)
(* induction for sets of naturals, elements picked out of a sequence, the  *)
(* rest of a walk whose head is replaced.                                  *)
(***************************************************************************)
EXTENDS Pipeline, SequenceTheorems, WellFoundedInduction, TLAPS

(* Less-than, as a set of pairs. *)
LessThan == {p \in Nat \X Nat : p[1] < p[2]}

LEMMA LessThanIsWellFounded == IsWellFoundedOn(LessThan, Nat)
BY NatLessThanWellFounded DEF OpToRel, LessThan

(* Every non-empty set of naturals has a least element. *)
LEMMA LeastElement ==
    ASSUME NEW T \in SUBSET Nat, T # {}
    PROVE  \E n \in T : \A m \in T : n <= m
<1>1. PICK n \in T : \A m \in T : <<m, n>> \notin LessThan
  BY LessThanIsWellFounded, WFMin
<1>2. \A m, k \in Nat : m < k => <<m, k>> \in LessThan
  BY DEF LessThan
<1>3. \A m \in T : ~(m < n)
  BY <1>1, <1>2
<1>4. QED
  BY <1>3

(* Every non-empty set of positions of a sequence has a largest element. *)
LEMMA LargestElement ==
    ASSUME NEW n \in Nat, NEW T \in SUBSET (1 .. n), T # {}
    PROVE  \E m \in T : \A k \in T : m >= k
<1> DEFINE U == {n - k : k \in T}
<1>1. U \in SUBSET Nat /\ U # {}
  <2>1. \A k \in T : n - k \in Nat
    OBVIOUS
  <2>2. PICK k \in T : TRUE
    OBVIOUS
  <2>3. n - k \in U
    OBVIOUS
  <2>4. QED
    BY <2>1, <2>3
<1> HIDE DEF U
<1>2. PICK u \in U : \A v \in U : u <= v
  BY <1>1, LeastElement
<1>3. PICK m \in T : u = n - m
  BY DEF U
<1>4. \A k \in T : n - m <= n - k
  BY <1>2, <1>3 DEF U
<1>5. \A k \in T : m >= k
  BY <1>4
<1>6. QED
  BY <1>5

(* A set that holds 0 and with each natural the next one holds all of them. *)
LEMMA NatSetInduction ==
    ASSUME NEW S, 0 \in S, \A n \in Nat : n \in S => n + 1 \in S
    PROVE  Nat \subseteq S
<1>1. SUFFICES ASSUME Nat \ S # {}
               PROVE  FALSE
  OBVIOUS
<1>2. PICK n \in Nat \ S : \A m \in Nat \ S : n <= m
  BY <1>1, LeastElement
<1>3. n - 1 \in Nat /\ n - 1 \in S
  BY <1>2
<1>4. QED
  BY <1>2, <1>3

-----------------------------------------------------------------------------

(* The function SubSequence is defined with, and what each of its steps adds. *)
Taken(s, positions, n, f) ==
    f = [i \in 0 .. n |->
            IF i = 0 THEN <<>>
            ELSE IF i \in positions THEN Append(f[i - 1], s[i])
            ELSE f[i - 1]]

LEMMA TakenStep ==
    ASSUME NEW s, NEW positions, NEW n \in Nat, NEW f, Taken(s, positions, n, f)
    PROVE  /\ f[0] = <<>>
           /\ \A i \in 1 .. n :
                  f[i] = IF i \in positions THEN Append(f[i - 1], s[i]) ELSE f[i - 1]
<1> DEFINE Body(i) == IF i = 0 THEN <<>>
                      ELSE IF i \in positions THEN Append(f[i - 1], s[i])
                      ELSE f[i - 1]
<1>1. f = [i \in 0 .. n |-> Body(i)]
  BY DEF Taken
<1> HIDE DEF Body
<1>2. \A i \in 0 .. n : f[i] = Body(i)
  BY <1>1
<1>3. QED
  BY <1>2 DEF Body

LEMMA TakenExists ==
    ASSUME NEW s, NEW positions, NEW n \in Nat
    PROVE  \E f : Taken(s, positions, n, f)
<1> DEFINE S == {m \in Nat : \E f : Taken(s, positions, m, f)}
<1>1. 0 \in S
  <2>1. Taken(s, positions, 0, [i \in 0 .. 0 |-> <<>>])
    BY DEF Taken
  <2>2. QED
    BY <2>1
<1>2. ASSUME NEW m \in Nat, m \in S
      PROVE  m + 1 \in S
  <2>1. PICK f : Taken(s, positions, m, f)
    BY <1>2
  <2> DEFINE last == IF m + 1 \in positions THEN Append(f[m], s[m + 1]) ELSE f[m]
             g == [i \in 0 .. m + 1 |-> IF i = m + 1 THEN last ELSE f[i]]
  <2>2. g[m + 1] = last /\ \A i \in 0 .. m : g[i] = f[i]
    OBVIOUS
  <2>3. /\ f[0] = <<>>
        /\ \A i \in 1 .. m :
               f[i] = IF i \in positions THEN Append(f[i - 1], s[i]) ELSE f[i - 1]
    <3> HIDE DEF last, g
    <3>1. QED
      BY <1>2, <2>1, TakenStep
  <2>4. \A i \in 0 .. m + 1 :
            g[i] = IF i = 0 THEN <<>>
                   ELSE IF i \in positions THEN Append(g[i - 1], s[i])
                   ELSE g[i - 1]
    <3>1. CASE m = 0
      BY <2>2, <2>3, <3>1
    <3>2. CASE m > 0
      <4>1. \A i \in 1 .. m : i - 1 \in 0 .. m /\ i \in 0 .. m
        OBVIOUS
      <4>2. (m + 1) - 1 = m /\ m \in 0 .. m /\ m + 1 # 0
        OBVIOUS
      <4> HIDE DEF g
      <4>3. QED
        BY <2>2, <2>3, <4>1, <4>2
    <3>3. QED
      BY <3>1, <3>2
  <2>5. Taken(s, positions, m + 1, g)
    <3>1. g = [i \in 0 .. m + 1 |-> g[i]]
      OBVIOUS
    <3> HIDE DEF g
    <3>2. QED
      BY <2>4, <3>1 DEF Taken
  <2>6. QED
    BY <2>5
<1> HIDE DEF S
<1>3. Nat \subseteq S
  BY <1>1, <1>2, NatSetInduction
<1>4. QED
  BY <1>3 DEF S

LEMMA SubSequenceIsTaken ==
    ASSUME NEW s, NEW positions, Len(s) \in Nat
    PROVE  \E f : Taken(s, positions, Len(s), f) /\ SubSequence(s, positions) = f[Len(s)]
<1>1. \E f : Taken(s, positions, Len(s), f)
  BY TakenExists
<1> DEFINE f == CHOOSE f : Taken(s, positions, Len(s), f)
<1>2. Taken(s, positions, Len(s), f)
  BY <1>1
<1>3. SubSequence(s, positions) = f[Len(s)]
  BY DEF SubSequence, Taken
<1>4. QED
  BY <1>2, <1>3

(* Two such functions agree as far as their sequences and positions do. *)
LEMMA TakenAgree ==
    ASSUME NEW s, NEW t, NEW A, NEW B, NEW m \in Nat, NEW n \in Nat, NEW f, NEW g,
           Taken(s, A, m, f), Taken(t, B, n, g),
           n <= m, \A i \in 1 .. n : s[i] = t[i] /\ (i \in A <=> i \in B)
    PROVE  f[n] = g[n]
<1> DEFINE S == {i \in Nat : i <= n => f[i] = g[i]}
<1>1. /\ f[0] = <<>> /\ g[0] = <<>>
      /\ \A i \in 1 .. m : f[i] = IF i \in A THEN Append(f[i - 1], s[i]) ELSE f[i - 1]
      /\ \A i \in 1 .. n : g[i] = IF i \in B THEN Append(g[i - 1], t[i]) ELSE g[i - 1]
  BY TakenStep
<1>2. 0 \in S
  BY <1>1
<1>3. ASSUME NEW i \in Nat, i \in S
      PROVE  i + 1 \in S
  <2>1. SUFFICES ASSUME i + 1 <= n PROVE f[i + 1] = g[i + 1]
    OBVIOUS
  <2>2. i + 1 \in 1 .. m /\ i + 1 \in 1 .. n /\ (i + 1) - 1 = i
    BY <2>1
  <2>3. f[i] = g[i]
    BY <1>3, <2>1
  <2>4. QED
    BY <1>1, <2>2, <2>3
<1> HIDE DEF S
<1>4. Nat \subseteq S
  BY <1>2, <1>3, NatSetInduction
<1>5. QED
  BY <1>4 DEF S

(* What is picked lies at the positions. *)
LEMMA SubSequenceIsSeq ==
    ASSUME NEW S, NEW s \in Seq(S), NEW positions
    PROVE  SubSequence(s, positions) \in Seq({s[i] : i \in positions \cap DOMAIN s})
<1> DEFINE Picked == {s[i] : i \in positions \cap DOMAIN s}
<1>1. Len(s) \in Nat /\ DOMAIN s = 1 .. Len(s)
  BY LenProperties
<1>2. PICK f : Taken(s, positions, Len(s), f) /\ SubSequence(s, positions) = f[Len(s)]
  BY <1>1, SubSequenceIsTaken
<1> DEFINE Good == {n \in Nat : n <= Len(s) => f[n] \in Seq(Picked)}
<1>3. /\ f[0] = <<>>
      /\ \A i \in 1 .. Len(s) :
             f[i] = IF i \in positions THEN Append(f[i - 1], s[i]) ELSE f[i - 1]
  BY <1>1, <1>2, TakenStep
<1>4. 0 \in Good
  <2>1. <<>> \in Seq(Picked)
    OBVIOUS
  <2>2. QED
    BY <1>3, <2>1
<1>5. ASSUME NEW n \in Nat, n \in Good
      PROVE  n + 1 \in Good
  <2>1. SUFFICES ASSUME n + 1 <= Len(s) PROVE f[n + 1] \in Seq(Picked)
    OBVIOUS
  <2>2. n + 1 \in 1 .. Len(s) /\ (n + 1) - 1 = n /\ f[n] \in Seq(Picked)
    BY <1>1, <1>5, <2>1
  <2>3. CASE n + 1 \in positions
    <3>1. s[n + 1] \in Picked
      BY <1>1, <2>2, <2>3
    <3>2. f[n + 1] = Append(f[n], s[n + 1])
      BY <1>3, <2>2, <2>3
    <3> HIDE DEF Picked
    <3>3. QED
      BY <2>2, <3>1, <3>2, AppendProperties
  <2>4. QED
    BY <1>3, <2>2, <2>3
<1> HIDE DEF Good
<1>6. Nat \subseteq Good
  BY <1>4, <1>5, NatSetInduction
<1>7. Len(s) \in Good
  BY <1>1, <1>6
<1> HIDE DEF Picked
<1>8. SubSequence(s, positions) \in Seq(Picked)
  BY <1>1, <1>2, <1>7 DEF Good
<1>9. QED
  BY <1>8 DEF Picked

LEMMA SubSequenceOfAppend ==
    ASSUME NEW S, NEW s \in Seq(S), NEW x \in S, NEW A, NEW B,
           \A i \in 1 .. Len(s) : i \in A <=> i \in B
    PROVE  SubSequence(Append(s, x), A)
           = IF Len(s) + 1 \in A THEN Append(SubSequence(s, B), x) ELSE SubSequence(s, B)
<1> DEFINE t == Append(s, x)
<1>1. /\ Len(s) \in Nat /\ Len(t) = Len(s) + 1 /\ t[Len(s) + 1] = x
      /\ \A i \in 1 .. Len(s) : t[i] = s[i]
  BY AppendProperties, LenProperties
<1> HIDE DEF t
<1>2. PICK f : Taken(s, B, Len(s), f) /\ SubSequence(s, B) = f[Len(s)]
  BY <1>1, SubSequenceIsTaken
<1>3. PICK g : Taken(t, A, Len(t), g) /\ SubSequence(t, A) = g[Len(t)]
  BY <1>1, SubSequenceIsTaken
<1>4. g[Len(s)] = f[Len(s)]
  <2>1. Len(t) \in Nat /\ Len(s) <= Len(t) /\ Len(s) <= Len(s)
    BY <1>1
  <2>2. \A i \in 1 .. Len(s) : t[i] = s[i] /\ (i \in A <=> i \in B)
    BY <1>1
  <2>3. QED
    BY <1>1, <1>2, <1>3, <2>1, <2>2, TakenAgree
<1>5. Len(t) \in Nat /\ Len(t) \in 1 .. Len(t) /\ Len(t) - 1 = Len(s)
  BY <1>1
<1>6. g[Len(t)] = IF Len(t) \in A THEN Append(g[Len(s)], t[Len(t)]) ELSE g[Len(s)]
  BY <1>3, <1>5, TakenStep
<1>7. QED
  BY <1>1, <1>2, <1>3, <1>4, <1>6 DEF t

-----------------------------------------------------------------------------

(* A walk whose head is replaced by `items`. *)
LEMMA ReplaceHead ==
    ASSUME NEW S, NEW w \in Seq(S), w # <<>>, NEW items \in Seq(S)
    PROVE  /\ items \o Tail(w) \in Seq(S)
           /\ Len(items \o Tail(w)) = Len(items) + Len(w) - 1
           /\ \A i \in 1 .. Len(items) : (items \o Tail(w))[i] = items[i]
           /\ \A i \in 2 .. Len(w) : (items \o Tail(w))[Len(items) + i - 1] = w[i]
<1>1. /\ Tail(w) \in Seq(S) /\ Len(Tail(w)) = Len(w) - 1 /\ Len(w) \in Nat /\ Len(w) > 0
      /\ \A i \in 1 .. Len(Tail(w)) : Tail(w)[i] = w[i + 1]
  BY HeadTailProperties, EmptySeq, LenProperties
<1> DEFINE t == Tail(w)
<1>2. /\ items \o t \in Seq(S) /\ Len(items \o t) = Len(items) + Len(t)
      /\ \A i \in 1 .. Len(items) + Len(t) :
             (items \o t)[i] = IF i <= Len(items) THEN items[i] ELSE t[i - Len(items)]
  BY <1>1, ConcatProperties
<1>3. Len(items) \in Nat
  BY LenProperties
<1> HIDE DEF t
<1>4. \A i \in 2 .. Len(w) : (items \o t)[Len(items) + i - 1] = w[i]
  <2> TAKE i \in 2 .. Len(w)
  <2>1. /\ i - 1 \in 1 .. Len(t) /\ (i - 1) + 1 = i
        /\ Len(items) + i - 1 \in 1 .. Len(items) + Len(t)
        /\ ~(Len(items) + i - 1 <= Len(items)) /\ (Len(items) + i - 1) - Len(items) = i - 1
    BY <1>1, <1>3 DEF t
  <2>2. t[i - 1] = w[i]
    BY <1>1, <2>1 DEF t
  <2>3. QED
    BY <1>2, <2>1, <2>2
<1>5. Len(items) + Len(t) = Len(items) + Len(w) - 1
  BY <1>1, <1>3 DEF t
<1>6. \A i \in 1 .. Len(items) : i \in 1 .. Len(items) + Len(t) /\ i <= Len(items)
  BY <1>1, <1>3 DEF t
<1>7. QED
  BY <1>2, <1>4, <1>5, <1>6 DEF t

(* The two ends of a sequence that is cut before its last n elements. *)
LEMMA CutBeforeLast ==
    ASSUME NEW S, NEW s \in Seq(S), NEW n \in Nat, n <= Len(s)
    PROVE  /\ SubSeq(s, 1, Len(s) - n) \in Seq(S)
           /\ Len(SubSeq(s, 1, Len(s) - n)) = Len(s) - n
           /\ \A i \in 1 .. Len(s) - n : SubSeq(s, 1, Len(s) - n)[i] = s[i]
           /\ SubSeq(s, Len(s) - n + 1, Len(s)) \in Seq(S)
           /\ Len(SubSeq(s, Len(s) - n + 1, Len(s))) = n
           /\ \A i \in 1 .. n :
                  SubSeq(s, Len(s) - n + 1, Len(s))[i] = s[Len(s) - n + i]
<1> DEFINE m == Len(s) - n
<1>1. m \in Nat /\ Len(s) \in Nat /\ m <= Len(s)
  BY LenProperties
<1>2. \A i \in 1 .. m : i \in 1 .. Len(s) /\ s[i] \in S
  BY <1>1, ElementOfSeq
<1>3. \A i \in m + 1 .. Len(s) : i \in 1 .. Len(s) /\ s[i] \in S
  BY <1>1, ElementOfSeq
<1>4. /\ SubSeq(s, 1, m) \in Seq(S)
      /\ Len(SubSeq(s, 1, m)) = IF 1 <= m THEN m - 1 + 1 ELSE 0
      /\ \A i \in 1 .. m - 1 + 1 : SubSeq(s, 1, m)[i] = s[1 + i - 1]
  BY <1>1, <1>2, SubSeqProperties
<1>5. /\ SubSeq(s, m + 1, Len(s)) \in Seq(S)
      /\ Len(SubSeq(s, m + 1, Len(s)))
         = IF m + 1 <= Len(s) THEN Len(s) - (m + 1) + 1 ELSE 0
      /\ \A i \in 1 .. Len(s) - (m + 1) + 1 :
             SubSeq(s, m + 1, Len(s))[i] = s[(m + 1) + i - 1]
  BY <1>1, <1>3, SubSeqProperties
<1>6. m - 1 + 1 = m /\ Len(s) - (m + 1) + 1 = n /\ (1 <= m \/ m = 0)
      /\ (m + 1 <= Len(s) \/ n = 0)
  BY <1>1
<1>7. \A i \in 1 .. m : 1 + i - 1 = i
  BY <1>1
<1>8. \A i \in 1 .. n : (m + 1) + i - 1 = m + i
  BY <1>1
<1> HIDE DEF m
<1>9. /\ Len(SubSeq(s, 1, m)) = m
      /\ \A i \in 1 .. m : SubSeq(s, 1, m)[i] = s[i]
  BY <1>4, <1>6, <1>7
<1>10. /\ Len(SubSeq(s, m + 1, Len(s))) = n
       /\ \A i \in 1 .. n : SubSeq(s, m + 1, Len(s))[i] = s[m + i]
  BY <1>5, <1>6, <1>8
<1>11. QED
  BY <1>4, <1>5, <1>9, <1>10 DEF m

(* Short tuples as concatenations. *)
LEMMA TupleOfTwo ==
    ASSUME NEW S, NEW x \in S, NEW y \in S
    PROVE  <<x, y>> \in Seq(S) /\ <<x>> \o <<y>> = <<x, y>>
<1> DEFINE a == <<x>>
           b == <<y>>
           c == <<x, y>>
<1>1. /\ a \in Seq(S) /\ Len(a) = 1 /\ a[1] = x
      /\ b \in Seq(S) /\ Len(b) = 1 /\ b[1] = y
      /\ c \in Seq(S) /\ Len(c) = 2 /\ c[1] = x /\ c[2] = y
  OBVIOUS
<1> HIDE DEF a, b, c
<1>2. /\ a \o b \in Seq(S) /\ Len(a \o b) = Len(a) + Len(b)
      /\ \A i \in 1 .. Len(a) + Len(b) :
             (a \o b)[i] = IF i <= Len(a) THEN a[i] ELSE b[i - Len(a)]
  BY <1>1, ConcatProperties
<1>3. (a \o b)[1] = x /\ (a \o b)[2] = y
  BY <1>1, <1>2
<1>4. a \o b = c
  BY <1>1, <1>2, <1>3, SeqEqual
<1>5. QED
  BY <1>1, <1>4 DEF a, b, c

(* One element in the place of the last n. *)
LEMMA ReplaceLast ==
    ASSUME NEW S, NEW s \in Seq(S), NEW n \in Nat, n <= Len(s), NEW x \in S
    PROVE  /\ Append(SubSeq(s, 1, Len(s) - n), x) \in Seq(S)
           /\ Len(Append(SubSeq(s, 1, Len(s) - n), x)) = Len(s) - n + 1
           /\ Append(SubSeq(s, 1, Len(s) - n), x)[Len(s) - n + 1] = x
           /\ \A i \in 1 .. Len(s) - n : Append(SubSeq(s, 1, Len(s) - n), x)[i] = s[i]
<1> DEFINE kept == SubSeq(s, 1, Len(s) - n)
<1>1. /\ kept \in Seq(S) /\ Len(kept) = Len(s) - n
      /\ \A i \in 1 .. Len(s) - n : kept[i] = s[i]
  BY CutBeforeLast
<1> HIDE DEF kept
<1>2. /\ Append(kept, x) \in Seq(S) /\ Len(Append(kept, x)) = Len(kept) + 1
      /\ Append(kept, x)[Len(kept) + 1] = x
      /\ \A i \in 1 .. Len(kept) : Append(kept, x)[i] = kept[i]
  BY <1>1, AppendProperties
<1>3. QED
  BY <1>1, <1>2 DEF kept

-----------------------------------------------------------------------------

(* An expression, a statement, a function declaration. *)
Kinds == {"E", "S", "F"}

KindOf(type) ==
    IF type \in ExpressionTypes THEN "E" ELSE IF type = "Function" THEN "F" ELSE "S"

(* The kind of the i-th child of a node, and how many children it may have. *)
KidKind(type, i) ==
    IF type \in {"Block", "Function"} \/ (type \in {"If", "While"} /\ i > 1) THEN "S" ELSE "E"

KidCounts(type) ==
    CASE type \in {"Number", "Boolean", "Identifier"} -> {0}
      [] type \in {"UnaryOp", "Assign", "Print", "Function"} -> {1}
      [] type \in {"BinOp", "While"} -> {2}
      [] type = "If" -> {2, 3}
      [] type = "Return" -> {0, 1}
      [] type \in {"Call", "Block"} -> Nat

BinOpKinds ==
    {"Add", "Subtract", "Multiply", "Divide", "Less", "LessEqual", "Greater", "GreaterEqual",
     "Equal", "NotEqual"}
UnaryOpKinds == {"Negate", "Not"}

NodeTypes == ExpressionTypes \cup StatementTypes
Names == STRING \cup {""}
Param == [name : STRING, span : Span, slot : Int]
TreeNode ==
    [type : NodeTypes, span : Span, name : Names, kids : Seq(Nat),
     kind : {"none"} \cup BinOpKinds \cup UnaryOpKinds, value : Value, slot : Int,
     nameSpan : Span, parameters : Seq(Param), frameSize : Nat]

(* Children are built before their parent, and are of the kinds it declares. *)
KidsAreSound(n) ==
    /\ Len(nodes[n].kids) \in KidCounts(nodes[n].type)
    /\ \A i \in 1 .. Len(nodes[n].kids) :
           /\ nodes[n].kids[i] \in 1 .. n - 1
           /\ KindOf(nodes[nodes[n].kids[i]].type) = KidKind(nodes[n].type, i)

OperatorIsKnown(n) ==
    /\ nodes[n].type = "BinOp" => nodes[n].kind \in BinOpKinds
    /\ nodes[n].type = "UnaryOp" => nodes[n].kind \in UnaryOpKinds
    /\ nodes[n].type = "Function" => nodes[n].name \in STRING

TreesAreSound ==
    /\ nodes \in Seq(TreeNode)
    /\ \A n \in 1 .. Len(nodes) : KidsAreSound(n) /\ OperatorIsKnown(n)

(* The nodes of `roots` are in the order they were built, and none of them lies
   inside the tree of another: no child of a node n is at or below a root that
   is below n. *)
Separate(roots) ==
    /\ roots \in Seq(1 .. Len(nodes))
    /\ \A i, j \in 1 .. Len(roots) : i < j => roots[i] < roots[j]
    /\ \A n \in 1 .. Len(nodes) : \A i \in 1 .. Len(nodes[n].kids) : \A j \in 1 .. Len(roots) :
           ~(nodes[n].kids[i] <= roots[j] /\ roots[j] < n)

-----------------------------------------------------------------------------

(* The construct an item is part of, and how many parts of it are built. *)
Builds(item) ==
    CASE item.do = "make" -> item.arg
      [] item.do = "else" -> "If"
      [] item.do = "statements" -> "Block"
      [] item.do \in {"arguments", "close call"} -> "Call"
      [] OTHER -> "Print"

PartsBuilt(item) ==
    CASE item.do \in {"make", "statements", "arguments", "close call"} -> item.n
      [] item.do = "else" -> 2
      [] item.do = "operators" -> 1
      [] OTHER -> 0

Takes(item) == [i \in 1 .. PartsBuilt(item) |-> KidKind(Builds(item), i)]

Gives(item) ==
    CASE item.do \in {"expect", "parameters", "more parameters", "program"} -> <<>>
      [] item.do = "make" -> <<KindOf(item.arg)>>
      [] item.do \in {"unary", "operators", "arguments", "close call"} -> <<"E">>
      [] item.do \in {"statement", "if", "else", "block", "statements"} -> <<"S">>

(* The item takes `before`, what is built when it runs, to `after`.  The end of
   the program takes all of it, statements and declarations. *)
Step(item, before, after) ==
    IF item.do = "program"
    THEN before \in Seq({"S", "F"}) /\ after = <<>>
    ELSE \E p \in Seq(Kinds) : before = p \o Takes(item) /\ after = p \o Gives(item)

Typing(items, K) ==
    /\ K \in [1 .. Len(items) + 1 -> Seq(Kinds)]
    /\ \A i \in 1 .. Len(items) : Step(items[i], K[i], K[i + 1])

Typed(items, before, after) ==
    \E K : Typing(items, K) /\ K[1] = before /\ K[Len(items) + 1] = after

(* The items take `before` to `after` on top of anything. *)
Runs(items, before, after) ==
    \A p \in Seq(Kinds) : Typed(items, p \o before, p \o after)

Calls ==
    {"program", "expect", "parameters", "more parameters", "statement", "if", "else", "block",
     "statements", "operators", "unary", "arguments", "close call", "make"}
Made == {"Print", "Assign", "If", "While", "Return", "BinOp", "UnaryOp", "Function"}
Expected == {"IDENTIFIER", "LEFT_PAREN", "RIGHT_PAREN", "EQUALS"}
Messages ==
    {"expected a function name after 'fn'", "expected '(' after the function name",
     "expected ')' to close the parameter list", "expected a parameter name",
     "expected '=' after variable name"}

ParserItem ==
    [do : Calls, arg : {""} \cup Expected \cup Made, text : {""} \cup Messages,
     at : Nat, n : Nat]

KindsBuilt == [i \in 1 .. Len(built) |-> KindOf(nodes[built[i]].type)]

-----------------------------------------------------------------------------

(* The typing of one list after another, of one item, of none. *)
LEMMA TypedConcat ==
    ASSUME NEW x \in Seq(ParserItem), NEW y \in Seq(ParserItem), NEW a, NEW b, NEW c,
           Typed(x, a, b), Typed(y, b, c)
    PROVE  Typed(x \o y, a, c)
<1>1. PICK K : Typing(x, K) /\ K[1] = a /\ K[Len(x) + 1] = b
  BY DEF Typed
<1>2. PICK L : Typing(y, L) /\ L[1] = b /\ L[Len(y) + 1] = c
  BY DEF Typed
<1> DEFINE z == x \o y
           m == Len(x)
           n == Len(y)
           M == [i \in 1 .. (m + n) + 1 |-> IF i <= m THEN K[i] ELSE L[i - m]]
<1>3. /\ z \in Seq(ParserItem) /\ Len(z) = m + n /\ m \in Nat /\ n \in Nat
      /\ \A i \in 1 .. m + n : z[i] = IF i <= m THEN x[i] ELSE y[i - m]
  BY ConcatProperties, LenProperties
<1>4. /\ K \in [1 .. m + 1 -> Seq(Kinds)] /\ L \in [1 .. n + 1 -> Seq(Kinds)]
      /\ \A i \in 1 .. m : Step(x[i], K[i], K[i + 1])
      /\ \A i \in 1 .. n : Step(y[i], L[i], L[i + 1])
  BY <1>1, <1>2 DEF Typing
<1>5. \A i \in 1 .. (m + n) + 1 : M[i] = IF i <= m THEN K[i] ELSE L[i - m]
  OBVIOUS
<1>6. M \in [1 .. (m + n) + 1 -> Seq(Kinds)]
  <2>1. \A i \in 1 .. (m + n) + 1 : (IF i <= m THEN K[i] ELSE L[i - m]) \in Seq(Kinds)
    <3> TAKE i \in 1 .. (m + n) + 1
    <3>1. CASE i <= m
      <4>1. i \in 1 .. m + 1
        BY <1>3, <3>1
      <4>2. QED
        BY <1>4, <3>1, <4>1
    <3>2. CASE ~(i <= m)
      <4>1. i - m \in 1 .. n + 1
        BY <1>3, <3>2
      <4>2. QED
        BY <1>4, <3>2, <4>1
    <3>3. QED
      BY <3>1, <3>2
  <2>2. QED
    BY <2>1
<1> HIDE DEF M, z, m, n
<1>7. \A i \in 1 .. m + 1 : M[i] = K[i]
  <2> TAKE i \in 1 .. m + 1
  <2>1. i \in 1 .. (m + n) + 1
    BY <1>3
  <2>2. CASE i <= m
    BY <1>5, <2>1, <2>2
  <2>3. CASE i = m + 1
    <3>1. ~(i <= m) /\ i - m = 1
      BY <1>3, <2>3
    <3>2. M[i] = L[1]
      BY <1>5, <2>1, <3>1
    <3>3. QED
      BY <1>1, <1>2, <2>3, <3>2 DEF m
  <2>4. QED
    BY <1>3, <2>2, <2>3
<1>8. \A i \in 1 .. n + 1 : M[m + i] = L[i]
  <2> TAKE i \in 1 .. n + 1
  <2>1. m + i \in 1 .. (m + n) + 1 /\ ~(m + i <= m) /\ (m + i) - m = i
    BY <1>3
  <2>2. QED
    BY <1>5, <2>1
<1>9. \A i \in 1 .. m + n : Step(z[i], M[i], M[i + 1])
  <2> TAKE i \in 1 .. m + n
  <2>1. CASE i <= m
    <3>1. i \in 1 .. m /\ i \in 1 .. m + 1 /\ i + 1 \in 1 .. m + 1
      BY <1>3, <2>1
    <3>2. z[i] = x[i]
      BY <1>3, <2>1
    <3>3. QED
      BY <1>4, <1>7, <3>1, <3>2
  <2>2. CASE ~(i <= m)
    <3> DEFINE j == i - m
    <3>1. j \in 1 .. n /\ j \in 1 .. n + 1 /\ j + 1 \in 1 .. n + 1 /\ m + j = i
          /\ m + (j + 1) = i + 1
      BY <1>3, <2>2
    <3>2. z[i] = y[j]
      BY <1>3, <2>2
    <3> HIDE DEF j
    <3>3. M[i] = L[j] /\ M[i + 1] = L[j + 1]
      BY <1>8, <3>1
    <3>4. QED
      BY <1>4, <3>1, <3>2, <3>3
  <2>3. QED
    BY <2>1, <2>2
<1>10. M[1] = a /\ M[Len(z) + 1] = c
  <2>1. 1 \in 1 .. m + 1 /\ n + 1 \in 1 .. n + 1 /\ m + (n + 1) = Len(z) + 1
    BY <1>3
  <2>2. QED
    BY <1>1, <1>2, <1>7, <1>8, <2>1 DEF n
<1>11. Typing(z, M)
  BY <1>3, <1>6, <1>9 DEF Typing
<1>12. QED
  BY <1>10, <1>11 DEF Typed, z

LEMMA TypedOne ==
    ASSUME NEW item, NEW a \in Seq(Kinds), NEW b \in Seq(Kinds), Step(item, a, b)
    PROVE  Typed(<<item>>, a, b)
<1> DEFINE K == [i \in 1 .. 2 |-> IF i = 1 THEN a ELSE b]
<1>1. Len(<<item>>) = 1 /\ <<item>>[1] = item
  OBVIOUS
<1>2. K \in [1 .. 2 -> Seq(Kinds)] /\ K[1] = a /\ K[2] = b
  OBVIOUS
<1> HIDE DEF K
<1>3. \A i \in 1 .. 1 : Step(<<item>>[i], K[i], K[i + 1])
  BY <1>1, <1>2
<1>4. Typing(<<item>>, K)
  BY <1>1, <1>2, <1>3 DEF Typing
<1>5. QED
  BY <1>1, <1>2, <1>4 DEF Typed

LEMMA TypedNone ==
    ASSUME NEW a \in Seq(Kinds)
    PROVE  Typed(<<>>, a, a)
<1> DEFINE K == [i \in 1 .. 1 |-> a]
<1>1. Typing(<<>>, K) /\ K[1] = a
  BY DEF Typing
<1>2. QED
  BY <1>1 DEF Typed

LEMMA TypedHead ==
    ASSUME NEW w \in Seq(ParserItem), w # <<>>, NEW a, NEW c, Typed(w, a, c)
    PROVE  \E b \in Seq(Kinds) : Step(Head(w), a, b) /\ Typed(Tail(w), b, c)
<1>1. PICK K : Typing(w, K) /\ K[1] = a /\ K[Len(w) + 1] = c
  BY DEF Typed
<1> DEFINE t == Tail(w)
           n == Len(t)
           L == [i \in 1 .. n + 1 |-> K[i + 1]]
<1>2. /\ Head(w) = w[1] /\ n = Len(w) - 1 /\ n \in Nat /\ Len(w) = n + 1
      /\ \A i \in 1 .. n : t[i] = w[i + 1]
  BY HeadTailProperties, EmptySeq, LenProperties
<1>3. /\ K \in [1 .. (n + 1) + 1 -> Seq(Kinds)]
      /\ \A i \in 1 .. n + 1 : Step(w[i], K[i], K[i + 1])
  BY <1>1, <1>2 DEF Typing
<1> HIDE DEF t, n
<1>4. \A i \in 1 .. n + 1 : L[i] = K[i + 1] /\ L[i] \in Seq(Kinds)
  <2> TAKE i \in 1 .. n + 1
  <2>1. i + 1 \in 1 .. (n + 1) + 1
    BY <1>2
  <2>2. QED
    BY <1>3, <2>1
<1>5. L \in [1 .. n + 1 -> Seq(Kinds)]
  BY <1>4
<1> HIDE DEF L
<1>6. \A i \in 1 .. n : Step(t[i], L[i], L[i + 1])
  <2> TAKE i \in 1 .. n
  <2>1. i \in 1 .. n + 1 /\ i + 1 \in 1 .. n + 1
    BY <1>2
  <2>2. QED
    BY <1>2, <1>3, <1>4, <2>1
<1>7. Typing(t, L)
  BY <1>5, <1>6 DEF Typing, n
<1>8. 1 \in 1 .. n + 1 /\ n + 1 \in 1 .. n + 1 /\ 1 + 1 = 2
  BY <1>2
<1>9. L[1] = K[2] /\ L[n + 1] = c /\ L[1] \in Seq(Kinds)
  BY <1>1, <1>2, <1>4, <1>8
<1>10. Step(Head(w), a, L[1])
  BY <1>1, <1>2, <1>3, <1>8, <1>9
<1>11. Typed(t, L[1], c)
  BY <1>7, <1>9 DEF Typed, n
<1>12. QED
  BY <1>9, <1>10, <1>11 DEF t

(* The same for what runs on top of anything. *)
LEMMA RunsConcat ==
    ASSUME NEW x \in Seq(ParserItem), NEW y \in Seq(ParserItem),
           NEW a, NEW b, NEW c, Runs(x, a, b), Runs(y, b, c)
    PROVE  Runs(x \o y, a, c)
BY TypedConcat DEF Runs

LEMMA RunsOne ==
    ASSUME NEW item, item.do # "program",
           Takes(item) \in Seq(Kinds), Gives(item) \in Seq(Kinds)
    PROVE  Runs(<<item>>, Takes(item), Gives(item))
<1> SUFFICES ASSUME NEW p \in Seq(Kinds)
             PROVE  Typed(<<item>>, p \o Takes(item), p \o Gives(item))
  BY DEF Runs
<1>1. p \o Takes(item) \in Seq(Kinds) /\ p \o Gives(item) \in Seq(Kinds)
  BY ConcatProperties
<1>2. Step(item, p \o Takes(item), p \o Gives(item))
  BY DEF Step
<1>3. QED
  BY <1>1, <1>2, TypedOne

LEMMA RunsNone ==
    ASSUME NEW a \in Seq(Kinds)
    PROVE  Runs(<<>>, a, a)
<1> SUFFICES ASSUME NEW p \in Seq(Kinds)
             PROVE  Typed(<<>>, p \o a, p \o a)
  BY DEF Runs
<1>1. p \o a \in Seq(Kinds)
  BY ConcatProperties
<1>2. QED
  BY <1>1, TypedNone

(* On top of `c`. *)
LEMMA RunsAbove ==
    ASSUME NEW x, NEW a \in Seq(Kinds), NEW b \in Seq(Kinds), NEW c \in Seq(Kinds),
           Runs(x, a, b)
    PROVE  Runs(x, c \o a, c \o b)
<1> SUFFICES ASSUME NEW p \in Seq(Kinds)
             PROVE  Typed(x, p \o (c \o a), p \o (c \o b))
  BY DEF Runs
<1>1. p \o c \in Seq(Kinds)
  BY ConcatProperties
<1>2. Typed(x, (p \o c) \o a, (p \o c) \o b)
  BY <1>1 DEF Runs
<1>3. (p \o c) \o a = p \o (c \o a)
  BY ConcatAssociative
<1>4. (p \o c) \o b = p \o (c \o b)
  BY ConcatAssociative
<1>5. QED
  BY <1>2, <1>3, <1>4

-----------------------------------------------------------------------------

(* What the items that take nothing, or one expression, do. *)
Plain == {"expect", "parameters", "more parameters", "unary", "statement", "if", "block"}

LEMMA KindSeqs ==
    /\ <<>> \in Seq(Kinds) /\ <<"E">> \in Seq(Kinds) /\ <<"S">> \in Seq(Kinds)
    /\ <<"F">> \in Seq(Kinds) /\ <<"E", "S">> \in Seq(Kinds) /\ <<"E", "E">> \in Seq(Kinds)
    /\ <<"E", "S", "S">> \in Seq(Kinds)
BY DEF Kinds

LEMMA KindIsKind ==
    ASSUME NEW type
    PROVE  KindOf(type) \in Kinds /\ \A i : KidKind(type, i) \in Kinds
BY DEF KindOf, KidKind, Kinds

LEMMA TakesIsSeq ==
    ASSUME NEW item, PartsBuilt(item) \in Nat
    PROVE  /\ Takes(item) \in Seq(Kinds)
           /\ Len(Takes(item)) = PartsBuilt(item)
           /\ \A i \in 1 .. PartsBuilt(item) : Takes(item)[i] = KidKind(Builds(item), i)
<1> DEFINE n == PartsBuilt(item)
           Kind(i) == KidKind(Builds(item), i)
<1>1. Takes(item) = [i \in 1 .. n |-> Kind(i)]
  BY DEF Takes
<1>2. \A i \in 1 .. n : Kind(i) \in Kinds
  BY KindIsKind
<1>3. n \in Nat
  OBVIOUS
<1> HIDE DEF n, Kind
<1>4. [i \in 1 .. n |-> Kind(i)] \in Seq(Kinds)
  BY <1>2, <1>3
<1>5. QED
  BY <1>1, <1>3, <1>4 DEF n, Kind

LEMMA PlainRuns ==
    ASSUME NEW item, item.do \in Plain
    PROVE  /\ Takes(item) = <<>>
           /\ Gives(item) \in Seq(Kinds)
           /\ Runs(<<item>>, <<>>, Gives(item))
           /\ item.do \in {"expect", "parameters", "more parameters"} => Gives(item) = <<>>
           /\ item.do = "unary" => Gives(item) = <<"E">>
           /\ item.do \in {"statement", "if", "block"} => Gives(item) = <<"S">>
<1>1. PartsBuilt(item) = 0
  BY DEF PartsBuilt, Plain
<1>2. Takes(item) = <<>>
  BY <1>1 DEF Takes
<1>3. /\ item.do \in {"expect", "parameters", "more parameters"} => Gives(item) = <<>>
      /\ item.do = "unary" => Gives(item) = <<"E">>
      /\ item.do \in {"statement", "if", "block"} => Gives(item) = <<"S">>
  BY DEF Gives
<1>4. Gives(item) \in Seq(Kinds)
  BY <1>3, KindSeqs DEF Plain
<1>5. Runs(<<item>>, Takes(item), Gives(item))
  BY <1>2, <1>4, KindSeqs, RunsOne DEF Plain
<1>6. QED
  BY <1>2, <1>3, <1>4, <1>5

Level(n) == P!Item("operators", "", "", 0, n)

LEMMA LevelRuns ==
    ASSUME NEW n \in Nat
    PROVE  Level(n) \in ParserItem /\ Runs(<<Level(n)>>, <<"E">>, <<"E">>)
<1> DEFINE item == Level(n)
<1>1. item.do = "operators" /\ item \in ParserItem
  BY DEF Level, P!Item, ParserItem, Calls
<1> HIDE DEF item
<1>2. PartsBuilt(item) = 1 /\ Builds(item) = "Print" /\ Gives(item) = <<"E">>
  BY <1>1 DEF PartsBuilt, Builds, Gives
<1>3. Takes(item) \in Seq(Kinds) /\ Len(Takes(item)) = 1 /\ Takes(item)[1] = "E"
  BY <1>2, TakesIsSeq DEF KidKind
<1>4. Takes(item) = <<"E">>
  BY <1>3, KindSeqs, SeqEqual
<1>5. Runs(<<item>>, Takes(item), Gives(item))
  BY <1>1, <1>2, <1>3, KindSeqs, RunsOne
<1>6. QED
  BY <1>1, <1>2, <1>4, <1>5 DEF item

(* An expression parsed from any level gives one expression. *)
LEMMA DescendRuns ==
    ASSUME NEW level \in 1 .. 5
    PROVE  /\ P!Descend(level) \in Seq(ParserItem)
           /\ Runs(P!Descend(level), <<>>, <<"E">>)
<1> DEFINE call == P!CallTo("unary")
           n == P!TightestLevel + 1 - level
           Item(i) == Level(P!TightestLevel + 1 - i)
           loops == [i \in 1 .. n |-> Item(i)]
<1>1. P!TightestLevel = 4
  BY DEF P!TightestLevel, P!LevelOperators
<1>2. P!Descend(level) = <<call>> \o loops
  BY DEF P!Descend, Level
<1>3. call.do = "unary" /\ call \in ParserItem
  BY DEF P!CallTo, P!Item, ParserItem, Calls
<1> HIDE DEF call
<1>4. Runs(<<call>>, <<>>, <<"E">>)
  <2>1. call.do \in Plain
    BY <1>3 DEF Plain
  <2>2. Runs(<<call>>, <<>>, Gives(call))
    BY <2>1, PlainRuns
  <2>3. Gives(call) = <<"E">>
    BY <1>3, <2>1, PlainRuns
  <2>4. QED
    BY <2>2, <2>3
<1>5. n \in Nat /\ \A i \in 1 .. n : Item(i) \in ParserItem
  <2>1. n \in Nat
    BY <1>1
  <2>2. ASSUME NEW i \in 1 .. n PROVE P!TightestLevel + 1 - i \in Nat
    BY <1>1
  <2>3. QED
    BY <2>1, <2>2, LevelRuns
<1>6. loops \in Seq(ParserItem) /\ Len(loops) = n /\ \A i \in 1 .. n : loops[i] = Item(i)
  <2> HIDE DEF n, Item
  <2>1. QED
    BY <1>5
<1>7. Runs(loops, <<"E">>, <<"E">>)
  <2> SUFFICES ASSUME NEW p \in Seq(Kinds)
               PROVE  Typed(loops, p \o <<"E">>, p \o <<"E">>)
    BY DEF Runs
  <2> DEFINE e == p \o <<"E">>
             K == [i \in 1 .. n + 1 |-> e]
  <2>1. e \in Seq(Kinds)
    BY KindSeqs, ConcatProperties
  <2>2. \A i \in 1 .. n : Step(Item(i), e, e)
    <3> TAKE i \in 1 .. n
    <3> DEFINE item == Item(i)
    <3>1. item.do = "operators"
      BY DEF Level, P!Item
    <3> HIDE DEF item
    <3>2. PartsBuilt(item) = 1 /\ Builds(item) = "Print" /\ Gives(item) = <<"E">>
      BY <3>1 DEF PartsBuilt, Builds, Gives
    <3>3. Takes(item) \in Seq(Kinds) /\ Len(Takes(item)) = 1 /\ Takes(item)[1] = "E"
      BY <3>2, TakesIsSeq DEF KidKind
    <3>4. Takes(item) = <<"E">>
      BY <3>3, KindSeqs, SeqEqual
    <3>5. Step(item, e, e)
      BY <3>1, <3>2, <3>4 DEF Step
    <3>6. QED
      BY <3>5 DEF item
  <2> HIDE DEF e, Item, loops, n
  <2>3. K \in [1 .. n + 1 -> Seq(Kinds)] /\ \A i \in 1 .. n + 1 : K[i] = e
    BY <2>1
  <2>4. \A i \in 1 .. n : i \in 1 .. n + 1 /\ i + 1 \in 1 .. n + 1
    BY <1>5
  <2>5. 1 \in 1 .. n + 1 /\ n + 1 \in 1 .. n + 1
    BY <1>5
  <2> HIDE DEF K
  <2>6. \A i \in 1 .. n : Step(loops[i], K[i], K[i + 1])
    BY <1>6, <2>2, <2>3, <2>4
  <2>7. Typing(loops, K)
    BY <1>6, <2>3, <2>6 DEF Typing
  <2>8. K[1] = e /\ K[Len(loops) + 1] = e
    BY <1>6, <2>3, <2>5
  <2>9. QED
    BY <2>7, <2>8 DEF Typed, e
<1>8. <<call>> \in Seq(ParserItem)
  BY <1>3
<1> HIDE DEF loops, call, n
<1>9. <<call>> \o loops \in Seq(ParserItem)
  BY <1>6, <1>8, ConcatProperties
<1>10. Runs(<<call>> \o loops, <<>>, <<"E">>)
  BY <1>4, <1>6, <1>7, <1>8, RunsConcat
<1>11. QED
  BY <1>2, <1>9, <1>10

-----------------------------------------------------------------------------

(* What an item does, from the kinds it takes. *)
LEMMA ItemRuns ==
    ASSUME NEW item, item.do # "program", NEW takes \in Seq(Kinds),
           Len(takes) = PartsBuilt(item),
           \A i \in 1 .. Len(takes) : takes[i] = KidKind(Builds(item), i),
           Gives(item) \in Seq(Kinds)
    PROVE  Takes(item) = takes /\ Runs(<<item>>, takes, Gives(item))
<1>1. PartsBuilt(item) \in Nat
  BY LenProperties
<1>2. /\ Takes(item) \in Seq(Kinds) /\ Len(Takes(item)) = Len(takes)
      /\ \A i \in 1 .. Len(takes) : Takes(item)[i] = KidKind(Builds(item), i)
  BY <1>1, TakesIsSeq
<1>3. Takes(item) = takes
  BY <1>2, SeqEqual
<1>4. Runs(<<item>>, Takes(item), Gives(item))
  BY <1>2, RunsOne
<1>5. QED
  BY <1>3, <1>4

LEMMA MakeFacts ==
    ASSUME NEW type, NEW at, NEW n
    PROVE  /\ P!Make(type, at, n).do = "make" /\ P!Make(type, at, n).arg = type
           /\ P!Make(type, at, n).at = at /\ P!Make(type, at, n).n = n
           /\ PartsBuilt(P!Make(type, at, n)) = n
           /\ Builds(P!Make(type, at, n)) = type
           /\ Gives(P!Make(type, at, n)) = <<KindOf(type)>>
           /\ type \in Made /\ at \in Nat /\ n \in Nat => P!Make(type, at, n) \in ParserItem
<1> DEFINE item == P!Make(type, at, n)
<1>1. item.do = "make" /\ item.arg = type /\ item.at = at /\ item.n = n /\ item.text = ""
  BY DEF P!Make, P!Item
<1>2. type \in Made /\ at \in Nat /\ n \in Nat => item \in ParserItem
  BY DEF P!Make, P!Item, ParserItem, Calls
<1> HIDE DEF item
<1>3. PartsBuilt(item) = n
  BY <1>1 DEF PartsBuilt
<1>4. Builds(item) = type
  BY <1>1 DEF Builds
<1>5. Gives(item) = <<KindOf(type)>>
  BY <1>1 DEF Gives
<1>6. QED
  BY <1>1, <1>2, <1>3, <1>4, <1>5 DEF item

LEMMA MakeRuns ==
    ASSUME NEW type, NEW at, NEW takes \in Seq(Kinds),
           \A i \in 1 .. Len(takes) : takes[i] = KidKind(type, i)
    PROVE  Runs(<<P!Make(type, at, Len(takes))>>, takes, <<KindOf(type)>>)
<1> DEFINE item == P!Make(type, at, Len(takes))
<1>1. /\ item.do = "make" /\ PartsBuilt(item) = Len(takes) /\ Builds(item) = type
      /\ Gives(item) = <<KindOf(type)>>
  BY MakeFacts
<1>2. <<KindOf(type)>> \in Seq(Kinds)
  BY KindIsKind
<1>3. item.do # "program"
  BY <1>1
<1> HIDE DEF item
<1>4. Runs(<<item>>, takes, Gives(item))
  BY <1>1, <1>2, <1>3, ItemRuns
<1>5. QED
  BY <1>1, <1>4 DEF item

LEMMA Constructs ==
    ASSUME NEW at
    PROVE  /\ Runs(<<P!Make("Print", at, 1)>>, <<"E">>, <<"S">>)
           /\ Runs(<<P!Make("Assign", at, 1)>>, <<"E">>, <<"S">>)
           /\ Runs(<<P!Make("Return", at, 1)>>, <<"E">>, <<"S">>)
           /\ Runs(<<P!Make("UnaryOp", at, 1)>>, <<"E">>, <<"E">>)
           /\ Runs(<<P!Make("BinOp", at, 2)>>, <<"E", "E">>, <<"E">>)
           /\ Runs(<<P!Make("While", at, 2)>>, <<"E", "S">>, <<"S">>)
           /\ Runs(<<P!Make("If", at, 2)>>, <<"E", "S">>, <<"S">>)
           /\ Runs(<<P!Make("If", at, 3)>>, <<"E", "S", "S">>, <<"S">>)
           /\ Runs(<<P!Make("Function", at, 1)>>, <<"S">>, <<"F">>)
<1>1. /\ KindOf("Print") = "S" /\ KindOf("Assign") = "S" /\ KindOf("Return") = "S"
      /\ KindOf("UnaryOp") = "E" /\ KindOf("BinOp") = "E" /\ KindOf("While") = "S"
      /\ KindOf("If") = "S" /\ KindOf("Function") = "F"
  BY DEF KindOf, ExpressionTypes
<1>2. /\ \A type \in {"Print", "Assign", "Return", "UnaryOp"} : KidKind(type, 1) = "E"
      /\ KidKind("BinOp", 1) = "E" /\ KidKind("BinOp", 2) = "E"
      /\ KidKind("While", 1) = "E" /\ KidKind("While", 2) = "S"
      /\ KidKind("If", 1) = "E" /\ KidKind("If", 2) = "S" /\ KidKind("If", 3) = "S"
      /\ KidKind("Function", 1) = "S"
  BY DEF KidKind
<1> DEFINE e == <<"E">>
           s == <<"S">>
           ee == <<"E", "E">>
           es == <<"E", "S">>
           ess == <<"E", "S", "S">>
<1>3. /\ Len(e) = 1 /\ Len(s) = 1 /\ Len(ee) = 2 /\ Len(es) = 2 /\ Len(ess) = 3
      /\ e[1] = "E" /\ s[1] = "S" /\ ee[1] = "E" /\ ee[2] = "E" /\ es[1] = "E" /\ es[2] = "S"
      /\ ess[1] = "E" /\ ess[2] = "S" /\ ess[3] = "S"
  OBVIOUS
<1>4. e \in Seq(Kinds) /\ s \in Seq(Kinds) /\ ee \in Seq(Kinds) /\ es \in Seq(Kinds)
      /\ ess \in Seq(Kinds)
  BY KindSeqs
<1> HIDE DEF e, s, ee, es, ess
<1>5. \A type \in {"Print", "Assign", "Return", "UnaryOp"} :
          Runs(<<P!Make(type, at, 1)>>, e, <<KindOf(type)>>)
  <2> TAKE type \in {"Print", "Assign", "Return", "UnaryOp"}
  <2>1. \A i \in 1 .. Len(e) : e[i] = KidKind(type, i)
    BY <1>2, <1>3
  <2>2. Runs(<<P!Make(type, at, Len(e))>>, e, <<KindOf(type)>>)
    BY <1>4, <2>1, MakeRuns
  <2>3. QED
    BY <1>3, <2>2
<1>6. Runs(<<P!Make("Function", at, 1)>>, s, <<KindOf("Function")>>)
  <2>1. \A i \in 1 .. Len(s) : s[i] = KidKind("Function", i)
    BY <1>2, <1>3
  <2>2. Runs(<<P!Make("Function", at, Len(s))>>, s, <<KindOf("Function")>>)
    BY <1>4, <2>1, MakeRuns
  <2>3. QED
    BY <1>3, <2>2
<1>7. Runs(<<P!Make("BinOp", at, 2)>>, ee, <<KindOf("BinOp")>>)
  <2>1. \A i \in 1 .. Len(ee) : ee[i] = KidKind("BinOp", i)
    BY <1>2, <1>3
  <2>2. Runs(<<P!Make("BinOp", at, Len(ee))>>, ee, <<KindOf("BinOp")>>)
    BY <1>4, <2>1, MakeRuns
  <2>3. QED
    BY <1>3, <2>2
<1>8. \A type \in {"While", "If"} : Runs(<<P!Make(type, at, 2)>>, es, <<KindOf(type)>>)
  <2> TAKE type \in {"While", "If"}
  <2>1. \A i \in 1 .. Len(es) : es[i] = KidKind(type, i)
    BY <1>2, <1>3
  <2>2. Runs(<<P!Make(type, at, Len(es))>>, es, <<KindOf(type)>>)
    BY <1>4, <2>1, MakeRuns
  <2>3. QED
    BY <1>3, <2>2
<1>9. Runs(<<P!Make("If", at, 3)>>, ess, <<KindOf("If")>>)
  <2>1. \A i \in 1 .. Len(ess) : ess[i] = KidKind("If", i)
    BY <1>2, <1>3
  <2>2. Runs(<<P!Make("If", at, Len(ess))>>, ess, <<KindOf("If")>>)
    BY <1>4, <2>1, MakeRuns
  <2>3. QED
    BY <1>3, <2>2
<1>10. QED
  BY <1>1, <1>5, <1>6, <1>7, <1>8, <1>9 DEF e, s, ee, es, ess

(* One more item after those that run. *)
LEMMA RunsAppend ==
    ASSUME NEW x \in Seq(ParserItem), NEW item \in ParserItem, NEW a, NEW b, NEW c,
           Runs(x, a, b), Runs(<<item>>, b, c)
    PROVE  Append(x, item) \in Seq(ParserItem) /\ Runs(Append(x, item), a, c)
<1>1. <<item>> \in Seq(ParserItem) /\ Append(x, item) = x \o <<item>>
  BY AppendIsConcat
<1>2. x \o <<item>> \in Seq(ParserItem)
  BY <1>1, ConcatProperties
<1>3. Runs(x \o <<item>>, a, c)
  BY <1>1, RunsConcat
<1>4. QED
  BY <1>1, <1>2, <1>3

LEMMA RunsTwo ==
    ASSUME NEW item \in ParserItem, NEW next \in ParserItem, NEW a, NEW b, NEW c,
           Runs(<<item>>, a, b), Runs(<<next>>, b, c)
    PROVE  <<item, next>> \in Seq(ParserItem) /\ Runs(<<item, next>>, a, c)
<1>1. <<item>> \in Seq(ParserItem) /\ <<next>> \in Seq(ParserItem)
  OBVIOUS
<1>2. <<item, next>> \in Seq(ParserItem) /\ <<item>> \o <<next>> = <<item, next>>
  BY TupleOfTwo
<1>3. QED
  BY <1>1, <1>2, RunsConcat

(* Two items after those that run. *)
LEMMA RunsThenTwo ==
    ASSUME NEW x \in Seq(ParserItem), NEW item \in ParserItem, NEW next \in ParserItem,
           NEW a, NEW b, NEW c, NEW d,
           Runs(x, a, b), Runs(<<item>>, b, c), Runs(<<next>>, c, d)
    PROVE  /\ x \o <<item, next>> \in Seq(ParserItem)
           /\ Runs(x \o <<item, next>>, a, d)
<1>1. <<item, next>> \in Seq(ParserItem) /\ Runs(<<item, next>>, b, d)
  BY RunsTwo
<1>2. QED
  BY <1>1, RunsConcat, ConcatProperties

-----------------------------------------------------------------------------

(* Where an item stands, and what it is part of. *)
BinOpTokens ==
    {"EQUAL_EQUAL", "NOT_EQUAL", "LESS", "LESS_EQUAL", "GREATER", "GREATER_EQUAL",
     "PLUS", "MINUS", "MULTIPLY", "DIVIDE"}

Placed(item) ==
    /\ item.do \in {"make", "else", "statements", "arguments", "close call"} =>
           item.at \in 1 .. Len(tokens)
    /\ item.do = "make" => item.arg \in Made /\ item.n \in KidCounts(item.arg) \ {0}
    /\ item.do = "make" /\ item.arg = "BinOp" => tokens[item.at].type \in BinOpTokens
    /\ item.do = "make" /\ item.arg = "Function" => item.at + 1 \in 1 .. Len(tokens)
    /\ item.do = "operators" => item.n \in 1 .. 4

LEMMA ItemFacts ==
    ASSUME NEW item \in ParserItem
    PROVE  item.at \in Nat /\ item.n \in Nat /\ item.do \in Calls
BY DEF ParserItem

(* The parameters of a declaration that is still parsed have their `)`, or the
   call that expects it is still to run. *)
MakesFunction(item) == item.do = "make" /\ item.arg = "Function"
ExpectsClose(item) == item.do = "expect" /\ item.arg = "RIGHT_PAREN"

ClosedFrom(at) == \E k \in at .. Len(tokens) : tokens[k].type = "RIGHT_PAREN"

ParametersClose ==
    \A j \in 1 .. Len(work) :
        MakesFunction(work[j]) =>
            /\ work[j].at <= pos
            /\ ClosedFrom(work[j].at) \/ \E i \in 1 .. j - 1 : ExpectsClose(work[i])

TokensAreWhole ==
    /\ tokens \in Seq(Token)
    /\ pos \in 1 .. Len(tokens)
    /\ tokens[Len(tokens)].type = "END_OF_FILE"

WorkIsTyped == \E after : Typed(work, KindsBuilt, after)

ParserInvariant ==
    /\ TokensAreWhole
    /\ Separate(built)
    /\ work \in Seq(ParserItem)
    /\ \A i \in 1 .. Len(work) : Placed(work[i])
    /\ ParametersClose
    /\ parsed = Running => WorkIsTyped
    /\ parsed = Finished => \A i \in 1 .. Len(built) : KindOf(nodes[built[i]].type) # "E"

(* Where an item of the old work is after its head was replaced by m items. *)
LEMMA PlaceAfterHead ==
    ASSUME NEW m \in Nat, NEW n \in Nat, NEW i \in Int, i > m, i <= m + n - 1
    PROVE  i - m + 1 \in 2 .. n /\ m + (i - m + 1) - 1 = i
OBVIOUS

(* A call that moves on by k tokens and leaves `items` to run. *)
LEMMA GoKeeps ==
    ASSUME TreesAreSound, ParserInvariant, work # <<>>,
           NEW k \in Nat, pos + k <= Len(tokens),
           NEW items \in Seq(ParserItem), \A i \in 1 .. Len(items) : Placed(items[i]),
           \A j \in 1 .. Len(items) :
               MakesFunction(items[j]) =>
                   items[j].at <= pos + k /\ \E i \in 1 .. j - 1 : ExpectsClose(items[i]),
           ExpectsClose(Head(work)) => tokens[pos].type = "RIGHT_PAREN",
           \E after : Typed(items \o Tail(work), KindsBuilt, after),
           P!Go(k, items)
    PROVE  TreesAreSound' /\ ParserInvariant'
<1> DEFINE w == items \o Tail(work)
           m == Len(items)
<1>1. /\ pos' = pos + k /\ work' = w /\ tokens' = tokens /\ nodes' = nodes /\ built' = built
      /\ parsed' = parsed
  BY DEF P!Go, P!Consume, P!Become
<1>2. /\ tokens \in Seq(Token) /\ pos \in 1 .. Len(tokens) /\ Len(tokens) \in Nat
      /\ tokens[Len(tokens)].type = "END_OF_FILE"
      /\ work \in Seq(ParserItem) /\ Len(work) \in Nat /\ m \in Nat
  BY LenProperties DEF ParserInvariant, TokensAreWhole
<1>3. /\ w \in Seq(ParserItem) /\ Len(w) = m + Len(work) - 1
      /\ \A i \in 1 .. m : w[i] = items[i]
      /\ \A i \in 2 .. Len(work) : w[m + i - 1] = work[i]
  BY <1>2, ReplaceHead
<1> HIDE DEF w, m
<1>4. TreesAreSound'
  BY <1>1 DEF TreesAreSound, KidsAreSound, OperatorIsKnown
<1>5. TokensAreWhole'
  BY <1>1, <1>2 DEF TokensAreWhole
<1>6. Separate(built)'
  BY <1>1 DEF ParserInvariant, Separate
<1>7. \A i \in 1 .. Len(w) : \/ i \in 1 .. m /\ w[i] = items[i]
                             \/ i - m + 1 \in 2 .. Len(work) /\ w[i] = work[i - m + 1]
  <2> TAKE i \in 1 .. Len(w)
  <2>1. CASE i <= m
    BY <1>2, <1>3, <2>1
  <2>2. CASE ~(i <= m)
    <3> DEFINE j == i - m + 1
    <3>1. j \in 2 .. Len(work) /\ m + j - 1 = i
      <4>1. i \in Int /\ i <= m + Len(work) - 1 /\ i > m
        BY <1>2, <1>3, <2>2
      <4>2. QED
        BY <1>2, <4>1, PlaceAfterHead
    <3> HIDE DEF j
    <3>2. w[i] = work[j]
      BY <1>3, <3>1
    <3>3. QED
      BY <3>1, <3>2 DEF j
  <2>3. QED
    BY <2>1, <2>2
<1>8. \A i \in 1 .. Len(w) : Placed(w[i])
  BY <1>2, <1>7 DEF ParserInvariant, m
<1>9. (\A i \in 1 .. Len(work) : Placed(work[i]))'
  BY <1>1, <1>8 DEF Placed
<1>10. ParametersClose'
  <2> SUFFICES ASSUME NEW j \in 1 .. Len(w), MakesFunction(w[j])
               PROVE  /\ w[j].at <= pos + k
                      /\ \/ ClosedFrom(w[j].at)
                         \/ \E i \in 1 .. j - 1 : ExpectsClose(w[i])
    BY <1>1 DEF ParametersClose, ClosedFrom, MakesFunction, ExpectsClose
  <2>1. CASE j \in 1 .. m /\ w[j] = items[j]
    <3>1. w[j].at <= pos + k
      BY <2>1 DEF m
    <3>2. PICK i \in 1 .. j - 1 : ExpectsClose(items[i])
      BY <2>1 DEF m
    <3>3. i \in 1 .. m
      BY <1>2, <2>1
    <3>4. QED
      BY <1>3, <3>1, <3>2, <3>3
  <2>2. CASE j - m + 1 \in 2 .. Len(work) /\ w[j] = work[j - m + 1]
    <3> DEFINE h == j - m + 1
    <3>1. /\ work[h].at <= pos
          /\ ClosedFrom(work[h].at) \/ \E i \in 1 .. h - 1 : ExpectsClose(work[i])
      BY <1>2, <2>2 DEF ParserInvariant, ParametersClose
    <3>2. work[h].at \in Nat
      <4>1. work[h] \in ParserItem
        BY <1>2, <2>2, ElementOfSeq
      <4>2. QED
        BY <4>1, ItemFacts
    <3>3. w[j].at <= pos + k
      BY <1>2, <2>2, <3>1, <3>2
    <3>4. ASSUME NEW i \in 1 .. h - 1, ExpectsClose(work[i])
          PROVE  ClosedFrom(work[h].at) \/ \E l \in 1 .. j - 1 : ExpectsClose(w[l])
      <4>1. CASE i = 1
        <5>1. work[1] = Head(work)
          OBVIOUS
        <5>2. tokens[pos].type = "RIGHT_PAREN"
          BY <3>4, <4>1, <5>1
        <5>3. pos \in work[h].at .. Len(tokens)
          BY <1>2, <3>1, <3>2
        <5>4. QED
          BY <5>2, <5>3 DEF ClosedFrom
      <4>2. CASE i # 1
        <5>1. i \in 2 .. Len(work) /\ m + i - 1 \in 1 .. j - 1
          BY <1>2, <2>2, <4>2
        <5>2. w[m + i - 1] = work[i]
          BY <1>3, <5>1
        <5>3. QED
          BY <3>4, <5>1, <5>2
      <4>3. QED
        BY <4>1, <4>2
    <3>5. QED
      BY <2>2, <3>1, <3>3, <3>4
  <2>3. QED
    BY <1>7, <2>1, <2>2
<1>11. (parsed = Running => WorkIsTyped)'
  BY <1>1 DEF WorkIsTyped, KindsBuilt, w
<1>12. (parsed = Finished => \A i \in 1 .. Len(built) : KindOf(nodes[built[i]].type) # "E")'
  BY <1>1 DEF ParserInvariant
<1>13. QED
  BY <1>1, <1>3, <1>4, <1>5, <1>6, <1>9, <1>10, <1>11, <1>12 DEF ParserInvariant

(* What the head of the work takes is there. *)
LEMMA PartsAreBuilt ==
    ASSUME TreesAreSound, ParserInvariant, parsed = Running, work # <<>>,
           Head(work).do # "program", PartsBuilt(Head(work)) \in Nat
    PROVE  LET n == PartsBuilt(Head(work))
           IN  /\ n <= Len(built)
               /\ P!LastBuilt(n) \in Seq(1 .. Len(nodes))
               /\ Len(P!LastBuilt(n)) = n
               /\ \A i \in 1 .. n :
                      /\ P!LastBuilt(n)[i] = built[Len(built) - n + i]
                      /\ KindOf(nodes[built[Len(built) - n + i]].type)
                         = KidKind(Builds(Head(work)), i)
               /\ \E p \in Seq(Kinds) :
                      /\ Len(p) = Len(built) - n
                      /\ \A i \in 1 .. Len(p) : p[i] = KindOf(nodes[built[i]].type)
                      /\ \E after : Typed(Tail(work), p \o Gives(Head(work)), after)
<1> DEFINE head == Head(work)
           n == PartsBuilt(head)
<1>1. /\ work \in Seq(ParserItem) /\ built \in Seq(1 .. Len(nodes)) /\ Len(built) \in Nat
      /\ WorkIsTyped
  BY LenProperties DEF ParserInvariant, Separate
<1>2. PICK after : Typed(work, KindsBuilt, after)
  BY <1>1 DEF WorkIsTyped
<1>3. PICK b \in Seq(Kinds) : Step(head, KindsBuilt, b) /\ Typed(Tail(work), b, after)
  BY <1>1, <1>2, TypedHead
<1> HIDE DEF head
<1>4. PICK p \in Seq(Kinds) : KindsBuilt = p \o Takes(head) /\ b = p \o Gives(head)
  <2>1. head.do # "program"
    BY DEF head
  <2>2. QED
    BY <1>3, <2>1 DEF Step
<1>5. /\ Takes(head) \in Seq(Kinds) /\ Len(Takes(head)) = n /\ n \in Nat
      /\ \A i \in 1 .. n : Takes(head)[i] = KidKind(Builds(head), i)
  BY TakesIsSeq DEF head
<1> HIDE DEF n
<1> DEFINE Kind(i) == KindOf(nodes[built[i]].type)
<1>6. KindsBuilt = [i \in 1 .. Len(built) |-> Kind(i)]
  BY DEF KindsBuilt
<1>7. \A i \in 1 .. Len(built) : Kind(i) \in Kinds
  BY KindIsKind
<1> HIDE DEF Kind
<1>8. KindsBuilt \in Seq(Kinds) /\ Len(KindsBuilt) = Len(built)
      /\ \A i \in 1 .. Len(built) : KindsBuilt[i] = Kind(i)
  BY <1>1, <1>6, <1>7
<1>9. /\ Len(p) \in Nat /\ Len(built) = Len(p) + n
      /\ \A i \in 1 .. Len(p) + n :
             KindsBuilt[i] = IF i <= Len(p) THEN p[i] ELSE Takes(head)[i - Len(p)]
  BY <1>4, <1>5, <1>8, ConcatProperties, LenProperties
<1>10. n <= Len(built) /\ Len(p) = Len(built) - n
  BY <1>5, <1>9
<1>11. /\ P!LastBuilt(n) \in Seq(1 .. Len(nodes)) /\ Len(P!LastBuilt(n)) = n
       /\ \A i \in 1 .. n : P!LastBuilt(n)[i] = built[Len(built) - n + i]
  <2> DEFINE Ids == 1 .. Len(nodes)
  <2>1. built \in Seq(Ids)
    BY <1>1
  <2> HIDE DEF Ids
  <2>2. /\ P!LastBuilt(n) \in Seq(Ids) /\ Len(P!LastBuilt(n)) = n
        /\ \A i \in 1 .. n : P!LastBuilt(n)[i] = built[Len(built) - n + i]
    BY <1>5, <1>10, <2>1, CutBeforeLast DEF P!LastBuilt
  <2>3. QED
    BY <2>2 DEF Ids
<1>12. \A i \in 1 .. n : Kind(Len(built) - n + i) = KidKind(Builds(head), i)
  <2> TAKE i \in 1 .. n
  <2> DEFINE j == Len(built) - n + i
  <2>1. /\ j \in 1 .. Len(built) /\ j \in 1 .. Len(p) + n /\ ~(j <= Len(p))
        /\ j - Len(p) = i
    BY <1>5, <1>9
  <2> HIDE DEF j
  <2>2. Kind(j) = Takes(head)[i]
    BY <1>8, <1>9, <2>1
  <2>3. QED
    BY <1>5, <2>2 DEF j
<1>13. \A i \in 1 .. Len(p) : p[i] = Kind(i)
  <2> TAKE i \in 1 .. Len(p)
  <2>1. i \in 1 .. Len(built) /\ i \in 1 .. Len(p) + n /\ i <= Len(p)
    BY <1>5, <1>9
  <2>2. QED
    BY <1>8, <1>9, <2>1
<1>14. \E last : Typed(Tail(work), p \o Gives(head), last)
  BY <1>3, <1>4
<1>15. QED
  BY <1>10, <1>11, <1>12, <1>13, <1>14 DEF head, n, Kind

(* A call that moves on by k tokens and returns a node over what it takes. *)
LEMMA ReturnKeeps ==
    ASSUME TreesAreSound, ParserInvariant, parsed = Running, work # <<>>,
           Head(work).do \notin {"program", "expect"},
           NEW k \in Nat, pos + k <= Len(tokens),
           NEW n \in Nat, n = PartsBuilt(Head(work)),
           NEW node \in TreeNode, node.kids = P!LastBuilt(n),
           n \in KidCounts(node.type),
           \A i \in 1 .. n : KidKind(Builds(Head(work)), i) = KidKind(node.type, i),
           node.type = "BinOp" => node.kind \in BinOpKinds,
           node.type = "UnaryOp" => node.kind \in UnaryOpKinds,
           node.type = "Function" => node.name \in STRING,
           Gives(Head(work)) = <<KindOf(node.type)>>,
           P!Return(k, n, node)
    PROVE  TreesAreSound' /\ ParserInvariant'
<1> DEFINE new == Len(nodes) + 1
           m == Len(built) - n
           rest == Tail(work)
<1>1. /\ pos' = pos + k /\ nodes' = Append(nodes, node)
      /\ built' = Append(SubSeq(built, 1, Len(built) - n), new)
      /\ work' = rest /\ tokens' = tokens /\ parsed' = parsed
  BY DEF P!Return, P!Consume
<1>2. /\ nodes \in Seq(TreeNode) /\ Len(nodes) \in Nat
      /\ built \in Seq(1 .. Len(nodes)) /\ Len(built) \in Nat /\ n <= Len(built)
      /\ work \in Seq(ParserItem) /\ Len(work) \in Nat
      /\ tokens \in Seq(Token) /\ pos \in 1 .. Len(tokens) /\ Len(tokens) \in Nat
  BY PartsAreBuilt, LenProperties
     DEF TreesAreSound, ParserInvariant, Separate, TokensAreWhole
<1>3. /\ nodes' \in Seq(TreeNode) /\ Len(nodes') = new /\ nodes'[new] = node
      /\ \A i \in 1 .. Len(nodes) : nodes'[i] = nodes[i]
  BY <1>1, <1>2, AppendProperties
<1>4. /\ built' \in Seq(1 .. new) /\ Len(built') = m + 1 /\ built'[m + 1] = new
      /\ \A i \in 1 .. m : built'[i] = built[i]
      /\ m \in Nat /\ m + n = Len(built)
  <2> DEFINE Ids == 1 .. new
  <2>1. built \in Seq(Ids)
    <3>1. 1 .. Len(nodes) \subseteq Ids
      BY <1>2
    <3> HIDE DEF Ids
    <3>2. QED
      BY <1>2, <3>1, SeqMonotonic
  <2>2. new \in Ids
    BY <1>2
  <2> HIDE DEF Ids, new
  <2> DEFINE c == Append(SubSeq(built, 1, Len(built) - n), new)
  <2>3. /\ c \in Seq(Ids) /\ Len(c) = Len(built) - n + 1
        /\ c[Len(built) - n + 1] = new
        /\ \A i \in 1 .. Len(built) - n : c[i] = built[i]
    <3>1. n \in Nat /\ n <= Len(built) /\ built \in Seq(Ids) /\ new \in Ids
      BY <1>2, <2>1, <2>2
    <3>2. QED
      BY ONLY <3>1, ReplaceLast
  <2>4. m \in Nat /\ m + n = Len(built)
    BY <1>2
  <2>5. QED
    BY <1>1, <2>3, <2>4 DEF Ids
<1>5. /\ rest \in Seq(ParserItem) /\ Len(rest) = Len(work) - 1
      /\ \A i \in 1 .. Len(rest) : rest[i] = work[i + 1]
  BY <1>2, HeadTailProperties
<1>6. /\ Len(node.kids) = n /\ node.kids \in Seq(1 .. Len(nodes))
      /\ \A i \in 1 .. n : /\ node.kids[i] = built[m + i]
                           /\ KindOf(nodes[node.kids[i]].type) = KidKind(node.type, i)
  BY PartsAreBuilt
<1>7. /\ m + 1 \in 1 .. m + 1
      /\ \A i \in 1 .. m + 1 : i = m + 1 \/ i \in 1 .. m
      /\ \A i \in 1 .. m : i \in 1 .. Len(built) /\ i \in 1 .. m + 1
      /\ \A h \in 1 .. n : m + h \in 1 .. Len(built)
      /\ \A i \in 1 .. m : \A h \in 1 .. n : i < m + h
  <2>1. m \in Nat /\ n \in Nat /\ m + n = Len(built)
    BY <1>4
  <2> HIDE DEF m
  <2>2. QED
    BY <2>1
<1>8. \A i \in 1 .. Len(built) : built[i] \in 1 .. Len(nodes) /\ built[i] < new
  BY <1>2, ElementOfSeq
<1>9. /\ \A i \in 1 .. new : i \in 1 .. Len(nodes) \/ i = new
      /\ \A i \in 1 .. Len(nodes) : i # new /\ i \in 1 .. new /\ i < new
      /\ new \in 1 .. new /\ new - 1 = Len(nodes) /\ new \in Nat
  BY <1>2
<1> HIDE DEF m, rest, new
<1>10. ASSUME NEW i \in 1 .. Len(nodes)
       PROVE  KidsAreSound(i)' /\ OperatorIsKnown(i)'
  <2>1. nodes'[i] = nodes[i]
    BY <1>3
  <2>2. OperatorIsKnown(i)' /\ KidsAreSound(i)
    BY <2>1 DEF TreesAreSound, OperatorIsKnown
  <2>3. ASSUME NEW j \in 1 .. Len(nodes[i].kids)
        PROVE  /\ nodes[i].kids[j] \in 1 .. i - 1
               /\ KindOf(nodes'[nodes[i].kids[j]].type) = KidKind(nodes[i].type, j)
    <3>1. /\ nodes[i].kids[j] \in 1 .. i - 1
          /\ KindOf(nodes[nodes[i].kids[j]].type) = KidKind(nodes[i].type, j)
      BY <2>2 DEF KidsAreSound
    <3>2. nodes[i].kids[j] \in 1 .. Len(nodes)
      BY <1>2, <3>1, SMTT(30)
    <3>3. nodes'[nodes[i].kids[j]] = nodes[nodes[i].kids[j]]
      BY <1>3, <3>2
    <3>4. QED
      BY <3>1, <3>3
  <2>4. KidsAreSound(i)'
    BY <2>1, <2>2, <2>3 DEF KidsAreSound
  <2>5. QED
    BY <2>2, <2>4
<1>11. ASSUME NEW i, i = new
       PROVE  KidsAreSound(i)' /\ OperatorIsKnown(i)'
  <2>1. nodes'[i] = node
    BY <1>3, <1>11
  <2>2. OperatorIsKnown(i)'
    BY <2>1 DEF OperatorIsKnown
  <2>3. ASSUME NEW j \in 1 .. n
        PROVE  /\ node.kids[j] \in 1 .. i - 1
               /\ KindOf(nodes'[node.kids[j]].type) = KidKind(node.type, j)
    <3>1. node.kids[j] \in 1 .. Len(nodes)
      BY <1>6, <1>7, <1>8
    <3>2. nodes'[node.kids[j]] = nodes[node.kids[j]]
      BY <1>3, <3>1
    <3>3. QED
      BY <1>6, <1>9, <1>11, <3>1, <3>2
  <2>4. KidsAreSound(i)'
    BY <1>6, <2>1, <2>3 DEF KidsAreSound
  <2>5. QED
    BY <2>2, <2>4
<1>12. TreesAreSound'
  <2>1. ASSUME NEW i \in 1 .. Len(nodes') PROVE KidsAreSound(i)' /\ OperatorIsKnown(i)'
    BY <1>3, <1>9, <1>10, <1>11
  <2>2. QED
    BY <1>3, <2>1 DEF TreesAreSound
<1>13. TokensAreWhole'
  <2>1. pos + k \in 1 .. Len(tokens) /\ tokens[Len(tokens)].type = "END_OF_FILE"
    BY <1>2 DEF ParserInvariant, TokensAreWhole
  <2>2. QED
    BY <1>1, <1>2, <2>1 DEF TokensAreWhole
<1>14. Separate(built)'
  <2>1. /\ \A i, j \in 1 .. Len(built) : i < j => built[i] < built[j]
        /\ \A i \in 1 .. Len(nodes) : \A h \in 1 .. Len(nodes[i].kids) :
               \A j \in 1 .. Len(built) : ~(nodes[i].kids[h] <= built[j] /\ built[j] < i)
    BY DEF ParserInvariant, Separate
  <2>2. ASSUME NEW i \in 1 .. m + 1, NEW j \in 1 .. m + 1, i < j
        PROVE  built'[i] < built'[j]
    <3>1. i \in 1 .. m
      BY <1>4, <2>2
    <3>2. CASE j = m + 1
      BY <1>4, <1>7, <1>8, <3>1, <3>2
    <3>3. CASE j \in 1 .. m
      BY <1>4, <1>7, <2>1, <2>2, <3>1, <3>3
    <3>4. QED
      BY <1>7, <3>2, <3>3
  <2>3. ASSUME NEW i \in 1 .. Len(nodes), NEW h \in 1 .. Len(nodes[i].kids),
               NEW j \in 1 .. m + 1
        PROVE  ~(nodes[i].kids[h] <= built'[j] /\ built'[j] < i)
    <3>1. CASE j = m + 1
      BY <1>2, <1>4, <1>9, <3>1
    <3>2. CASE j \in 1 .. m
      <4>1. built'[j] = built[j] /\ j \in 1 .. Len(built)
        BY <1>4, <1>7, <3>2
      <4>2. QED
        BY <2>1, <4>1
    <3>3. QED
      BY <1>7, <3>1, <3>2
  <2>4. ASSUME NEW h \in 1 .. n, NEW j \in 1 .. m + 1
        PROVE  ~(node.kids[h] <= built'[j] /\ built'[j] < new)
    <3>1. CASE j = m + 1
      BY <1>4, <1>9, <3>1
    <3>2. CASE j \in 1 .. m
      <4>1. built[j] < built[m + h] /\ built[j] \in Nat /\ built[m + h] \in Nat
        BY <1>7, <1>8, <2>1, <3>2
      <4>2. node.kids[h] = built[m + h] /\ built'[j] = built[j]
        BY <1>4, <1>6, <3>2
      <4>3. QED
        BY <4>1, <4>2
    <3>3. QED
      BY <1>7, <3>1, <3>2
  <2>5. ASSUME NEW i \in 1 .. Len(nodes'), NEW h \in 1 .. Len(nodes'[i].kids),
               NEW j \in 1 .. Len(built')
        PROVE  ~(nodes'[i].kids[h] <= built'[j] /\ built'[j] < i)
    <3>1. CASE i \in 1 .. Len(nodes)
      BY <1>3, <1>4, <2>3, <3>1
    <3>2. CASE i = new
      BY <1>3, <1>4, <1>6, <2>4, <3>2
    <3>3. QED
      BY <1>3, <1>9, <3>1, <3>2
  <2>6. QED
    BY <1>3, <1>4, <2>2, <2>5 DEF Separate
<1>15. work' \in Seq(ParserItem) /\ (\A i \in 1 .. Len(work) : Placed(work[i]))'
  <2>1. ASSUME NEW i \in 1 .. Len(rest) PROVE Placed(rest[i])
    <3>1. i + 1 \in 1 .. Len(work)
      BY <1>2, <1>5
    <3>2. QED
      BY <1>5, <3>1 DEF ParserInvariant
  <2>2. QED
    BY <1>1, <1>5, <2>1 DEF Placed
<1>16. ParametersClose'
  <2> SUFFICES ASSUME NEW j \in 1 .. Len(rest), MakesFunction(rest[j])
               PROVE  /\ rest[j].at <= pos + k
                      /\ \/ ClosedFrom(rest[j].at)
                         \/ \E i \in 1 .. j - 1 : ExpectsClose(rest[i])
    BY <1>1 DEF ParametersClose, ClosedFrom, MakesFunction, ExpectsClose
  <2>1. j + 1 \in 1 .. Len(work) /\ rest[j] = work[j + 1]
    BY <1>2, <1>5
  <2>2. /\ work[j + 1].at <= pos
        /\ ClosedFrom(work[j + 1].at) \/ \E i \in 1 .. j + 1 - 1 : ExpectsClose(work[i])
    BY <2>1 DEF ParserInvariant, ParametersClose
  <2>3. work[j + 1].at \in Nat
    BY <1>2, <2>1, ElementOfSeq, ItemFacts
  <2>4. ASSUME NEW i \in 1 .. j + 1 - 1, ExpectsClose(work[i])
        PROVE  i - 1 \in 1 .. j - 1 /\ ExpectsClose(rest[i - 1])
    <3>1. work[1] = Head(work)
      BY <1>2
    <3>2. i # 1
      BY <2>4, <3>1 DEF ExpectsClose
    <3>3. i - 1 \in 1 .. j - 1 /\ i - 1 \in 1 .. Len(rest) /\ (i - 1) + 1 = i
      BY <1>2, <1>5, <3>2
    <3>4. QED
      BY <1>5, <2>4, <3>3
  <2>5. QED
    BY <1>2, <2>1, <2>2, <2>3, <2>4, SMTT(30)
<1>17. WorkIsTyped'
  <2>1. PICK p \in Seq(Kinds) :
            /\ Len(p) = Len(built) - n
            /\ \A i \in 1 .. Len(p) : p[i] = KindOf(nodes[built[i]].type)
            /\ \E after : Typed(rest, p \o Gives(Head(work)), after)
    BY PartsAreBuilt DEF rest
  <2> DEFINE kind == KindOf(node.type)
             q == Append(p, kind)
  <2>2. /\ q \in Seq(Kinds) /\ Len(q) = Len(p) + 1 /\ q[Len(p) + 1] = kind
        /\ \A i \in 1 .. Len(p) : q[i] = p[i]
    <3>1. kind \in Kinds
      BY KindIsKind
    <3> HIDE DEF kind
    <3>2. QED
      BY <3>1, AppendProperties
  <2>3. q = p \o Gives(Head(work))
    BY AppendIsConcat, KindIsKind
  <2>4. Len(p) = m
    BY <2>1 DEF m
  <2> DEFINE Kind(i) == KindOf(nodes'[built'[i]].type)
  <2>5. \A i \in 1 .. m + 1 : q[i] = Kind(i)
    <3> TAKE i \in 1 .. m + 1
    <3>1. CASE i \in 1 .. m
      <4>1. built'[i] = built[i] /\ built[i] \in 1 .. Len(nodes)
        BY <1>4, <1>7, <1>8, <3>1
      <4>2. nodes'[built[i]] = nodes[built[i]]
        BY <1>3, <4>1
      <4>3. q[i] = KindOf(nodes[built[i]].type)
        BY <2>1, <2>2, <2>4, <3>1
      <4>4. QED
        BY <4>1, <4>2, <4>3
    <3>2. CASE i = m + 1
      <4>1. nodes'[built'[i]] = node
        BY <1>3, <1>4, <3>2
      <4>2. q[i] = kind
        BY <2>2, <2>4, <3>2
      <4>3. QED
        BY <4>1, <4>2
    <3>3. QED
      BY <1>7, <3>1, <3>2
  <2>6. KindsBuilt' = [i \in 1 .. m + 1 |-> Kind(i)]
    BY <1>4 DEF KindsBuilt
  <2>7. \A i \in 1 .. m + 1 : Kind(i) \in Kinds
    BY KindIsKind
  <2> HIDE DEF Kind, q
  <2>8. /\ KindsBuilt' \in Seq(Kinds) /\ Len(KindsBuilt') = m + 1
        /\ \A i \in 1 .. m + 1 : KindsBuilt'[i] = Kind(i)
    BY <1>4, <2>6, <2>7
  <2>9. KindsBuilt' = q
    BY <2>2, <2>4, <2>5, <2>8, SeqEqual
  <2>10. QED
    BY <1>1, <2>1, <2>3, <2>9 DEF WorkIsTyped
<1>18. parsed' = Running /\ Running # Finished
  BY <1>1 DEF Running, Finished, Verdict
<1>19. QED
  BY <1>12, <1>13, <1>14, <1>15, <1>16, <1>17, <1>18 DEF ParserInvariant

-----------------------------------------------------------------------------

(* The items a call leaves to run, except that of a declaration. *)
PlacedItem == {item \in ParserItem : Placed(item) /\ ~MakesFunction(item)}

LEMMA PlacedItems ==
    /\ \A items \in Seq(PlacedItem) : items \in Seq(ParserItem)
    /\ \A do \in Plain : P!CallTo(do) \in PlacedItem
    /\ \A type \in Expected, message \in Messages : P!Expect(type, message) \in PlacedItem
    /\ \A n \in 1 .. 4 : Level(n) \in PlacedItem
    /\ \A type \in Made \ {"Function"}, at \in 1 .. Len(tokens), n \in Nat :
           /\ n \in KidCounts(type) \ {0}
           /\ type = "BinOp" => tokens[at].type \in BinOpTokens
           => P!Make(type, at, n) \in PlacedItem
<1>1. PlacedItem \subseteq ParserItem
  BY DEF PlacedItem
<1>2. \A items \in Seq(PlacedItem) : items \in Seq(ParserItem)
  BY <1>1, SeqMonotonic
<1>3. \A do \in Plain : P!CallTo(do) \in PlacedItem
  <2> TAKE do \in Plain
  <2> DEFINE item == P!CallTo(do)
  <2>1. item \in ParserItem /\ item.do = do
    BY DEF P!CallTo, P!Item, ParserItem, Calls, Plain
  <2> HIDE DEF item
  <2>2. QED
    BY <2>1 DEF PlacedItem, Placed, MakesFunction, Plain, item
<1>4. \A type \in Expected, message \in Messages : P!Expect(type, message) \in PlacedItem
  <2> TAKE type \in Expected, message \in Messages
  <2> DEFINE item == P!Expect(type, message)
  <2>1. item \in ParserItem /\ item.do = "expect"
    BY DEF P!Expect, P!Item, ParserItem, Calls
  <2> HIDE DEF item
  <2>2. QED
    BY <2>1 DEF PlacedItem, Placed, MakesFunction, item
<1>5. \A n \in 1 .. 4 : Level(n) \in PlacedItem
  <2> TAKE n \in 1 .. 4
  <2> DEFINE item == Level(n)
  <2>1. item \in ParserItem /\ item.do = "operators" /\ item.n = n
    BY DEF Level, P!Item, ParserItem, Calls
  <2> HIDE DEF item
  <2>2. QED
    BY <2>1 DEF PlacedItem, Placed, MakesFunction, item
<1>6. ASSUME NEW type \in Made \ {"Function"}, NEW at \in 1 .. Len(tokens), NEW n \in Nat,
             n \in KidCounts(type) \ {0}, type = "BinOp" => tokens[at].type \in BinOpTokens
      PROVE  P!Make(type, at, n) \in PlacedItem
  <2> DEFINE item == P!Make(type, at, n)
  <2>1. /\ item \in ParserItem /\ item.do = "make" /\ item.arg = type /\ item.n = n
        /\ item.at = at
    BY MakeFacts
  <2> HIDE DEF item
  <2>2. QED
    BY <1>6, <2>1 DEF PlacedItem, Placed, MakesFunction, item
<1>7. QED
  BY <1>2, <1>3, <1>4, <1>5, <1>6

LEMMA DescendIsPlaced ==
    ASSUME NEW level \in 1 .. 5
    PROVE  P!Descend(level) \in Seq(PlacedItem)
<1> DEFINE call == P!CallTo("unary")
           n == P!TightestLevel + 1 - level
           Item(i) == Level(P!TightestLevel + 1 - i)
           loops == [i \in 1 .. n |-> Item(i)]
<1>1. P!TightestLevel = 4
  BY DEF P!TightestLevel, P!LevelOperators
<1>2. P!Descend(level) = <<call>> \o loops
  BY DEF P!Descend, Level
<1>3. <<call>> \in Seq(PlacedItem)
  <2>1. call \in PlacedItem
    BY PlacedItems DEF Plain
  <2> HIDE DEF call
  <2>2. QED
    BY <2>1
<1>4. n \in Nat /\ \A i \in 1 .. n : Item(i) \in PlacedItem
  <2>1. n \in Nat
    BY <1>1
  <2>2. ASSUME NEW i \in 1 .. n PROVE P!TightestLevel + 1 - i \in 1 .. 4
    BY <1>1
  <2>3. QED
    BY <2>1, <2>2, PlacedItems
<1> HIDE DEF call, n, Item
<1>5. loops \in Seq(PlacedItem)
  BY <1>4
<1> HIDE DEF loops
<1>6. QED
  BY <1>2, <1>3, <1>5, ConcatProperties

(* The input holds another token after one that does not end it. *)
LEMMA MoveOn ==
    ASSUME TokensAreWhole
    PROVE  /\ pos \in Nat /\ Len(tokens) \in Nat /\ tokens[pos] \in Token
           /\ tokens[pos].type # "END_OF_FILE" =>
                  /\ pos + 1 \in 1 .. Len(tokens) /\ tokens[pos + 1] \in Token
                  /\ tokens[pos + 1].type # "END_OF_FILE" =>
                         pos + 2 \in 1 .. Len(tokens)
BY LenProperties, ElementOfSeq DEF TokensAreWhole

LEMMA FailKeeps ==
    ASSUME TreesAreSound, ParserInvariant, NEW span, NEW message, P!Fail(span, message)
    PROVE  TreesAreSound' /\ ParserInvariant'
<1>1. /\ parsed' = CompileError(span, message)
      /\ UNCHANGED <<tokens, pos, nodes, built, work>>
  BY DEF P!Fail, P!CompileError, P!Verdict, CompileError, Verdict
<1>2. parsed' # Running /\ parsed' # Finished
  BY <1>1 DEF CompileError, Running, Finished, Verdict
<1>3. TreesAreSound'
  BY <1>1 DEF TreesAreSound, KidsAreSound, OperatorIsKnown
<1>4. QED
  BY <1>1, <1>2, <1>3
     DEF ParserInvariant, TokensAreWhole, Separate, Placed, ParametersClose, MakesFunction,
         ExpectsClose, ClosedFrom

(* Items in the place of the head, that do what it does. *)
LEMMA GoReplaces ==
    ASSUME TreesAreSound, ParserInvariant, parsed = Running, work # <<>>,
           Head(work).do # "program",
           ExpectsClose(Head(work)) => tokens[pos].type = "RIGHT_PAREN",
           NEW k \in Nat, pos + k <= Len(tokens), NEW items \in Seq(PlacedItem),
           Runs(items, Takes(Head(work)), Gives(Head(work))),
           P!Go(k, items)
    PROVE  TreesAreSound' /\ ParserInvariant'
<1>1. work \in Seq(ParserItem) /\ items \in Seq(ParserItem) /\ Tail(work) \in Seq(ParserItem)
  BY PlacedItems, HeadTailProperties DEF ParserInvariant
<1>2. PICK after : Typed(work, KindsBuilt, after)
  BY DEF ParserInvariant, WorkIsTyped
<1>3. PICK b \in Seq(Kinds) : Step(Head(work), KindsBuilt, b) /\ Typed(Tail(work), b, after)
  BY <1>1, <1>2, TypedHead
<1>4. PICK p \in Seq(Kinds) :
          KindsBuilt = p \o Takes(Head(work)) /\ b = p \o Gives(Head(work))
  BY <1>3 DEF Step
<1>5. Typed(items, KindsBuilt, b)
  BY <1>4 DEF Runs
<1>6. Typed(items \o Tail(work), KindsBuilt, after)
  BY <1>1, <1>3, <1>5, TypedConcat
<1>7. \A i \in 1 .. Len(items) : Placed(items[i]) /\ ~MakesFunction(items[i])
  BY ElementOfSeq DEF PlacedItem
<1>8. QED
  BY <1>1, <1>6, <1>7, GoKeeps

(* The calls by name. *)
LEMMA CallingFacts ==
    ASSUME NEW do, P!Calling(do)
    PROVE  parsed = Running /\ work # <<>> /\ Head(work).do = do
BY DEF P!Calling, P!Running, P!Verdict, P!NoSpan, P!MakeSpan,
       Running, Verdict, NoSpan, MakeSpan

LEMMA HeadFacts ==
    ASSUME ParserInvariant, work # <<>>
    PROVE  Head(work) \in ParserItem /\ Placed(Head(work))
<1>1. work \in Seq(ParserItem) /\ Len(work) \in Nat /\ Len(work) > 0
  BY LenProperties, EmptySeq DEF ParserInvariant
<1>2. 1 \in 1 .. Len(work) /\ Head(work) = work[1]
  BY <1>1
<1>3. QED
  BY <1>1, <1>2, ElementOfSeq DEF ParserInvariant

LEMMA EmptyIsPlaced == <<>> \in Seq(PlacedItem) /\ <<>> \in Seq(ParserItem)
OBVIOUS

LEMMA ExpectKeeps ==
    ASSUME TreesAreSound, ParserInvariant, P!ExpectToken
    PROVE  TreesAreSound' /\ ParserInvariant'
<1> DEFINE head == Head(work)
<1>1. parsed = Running /\ work # <<>> /\ head.do = "expect"
  BY CallingFacts DEF P!ExpectToken
<1>2. head \in ParserItem /\ TokensAreWhole
  BY <1>1, HeadFacts DEF ParserInvariant
<1>3. CASE P!Sees({head.arg})
  <2>1. P!Go(1, <<>>)
    BY <1>3 DEF P!ExpectToken
  <2>2. tokens[pos].type = head.arg
    BY <1>3 DEF P!Sees, P!Current
  <2>3. tokens[pos].type # "END_OF_FILE"
    BY <1>2, <2>2 DEF ParserItem, Expected, Made
  <2>4. 1 \in Nat /\ pos + 1 <= Len(tokens)
    BY <1>2, <2>3, MoveOn
  <2>5. head.do \in Plain
    BY <1>1 DEF Plain
  <2>6. Takes(head) = <<>> /\ Gives(head) = <<>>
    BY <1>1, <2>5, PlainRuns
  <2>7. Runs(<<>>, Takes(head), Gives(head))
    BY <2>6, RunsNone, KindSeqs
  <2>8. ExpectsClose(head) => tokens[pos].type = "RIGHT_PAREN"
    BY <2>2 DEF ExpectsClose
  <2>9. head.do # "program"
    BY <1>1
  <2> HIDE DEF head
  <2>10. QED
    BY <1>1, <2>1, <2>4, <2>7, <2>8, <2>9, GoReplaces, EmptyIsPlaced DEF head
<1>4. CASE ~P!Sees({head.arg})
  <2>1. P!Fail(P!Current.span, <<head.text>>)
    BY <1>4 DEF P!ExpectToken
  <2>2. QED
    BY <2>1, FailKeeps
<1>5. QED
  BY <1>3, <1>4

(* An action that calls a construct's parts: the head takes nothing and gives
   what the items give. *)
LEMMA PlainReplaces ==
    ASSUME TreesAreSound, ParserInvariant, parsed = Running, work # <<>>,
           Head(work).do \in Plain \ {"expect"},
           NEW k \in Nat, pos + k <= Len(tokens), NEW items \in Seq(PlacedItem),
           Runs(items, <<>>, Gives(Head(work))),
           P!Go(k, items)
    PROVE  TreesAreSound' /\ ParserInvariant'
<1>1. Takes(Head(work)) = <<>>
  BY PlainRuns
<1>2. Head(work).do # "program" /\ ~ExpectsClose(Head(work))
  BY DEF Plain, ExpectsClose
<1>3. QED
  BY <1>1, <1>2, GoReplaces

LEMMA CallRuns ==
    /\ \A do \in Plain : P!CallTo(do).do = do
    /\ \A type, message : P!Expect(type, message).do = "expect"
    /\ \A type, message : Runs(<<P!Expect(type, message)>>, <<>>, <<>>)
    /\ \A do \in {"parameters", "more parameters"} : Runs(<<P!CallTo(do)>>, <<>>, <<>>)
    /\ Runs(<<P!CallTo("unary")>>, <<>>, <<"E">>)
    /\ \A do \in {"statement", "if", "block"} : Runs(<<P!CallTo(do)>>, <<>>, <<"S">>)
<1>1. \A do : P!CallTo(do).do = do
  BY DEF P!CallTo, P!Item
<1>2. \A type, message : P!Expect(type, message).do = "expect"
  BY DEF P!Expect, P!Item
<1>3. \A type, message : Runs(<<P!Expect(type, message)>>, <<>>, <<>>)
  <2> TAKE type, message
  <2> DEFINE item == P!Expect(type, message)
  <2>1. item.do \in Plain /\ item.do \in {"expect", "parameters", "more parameters"}
    BY <1>2 DEF Plain
  <2> HIDE DEF item
  <2>2. QED
    BY <2>1, PlainRuns DEF item
<1>4. \A do \in {"parameters", "more parameters"} : Runs(<<P!CallTo(do)>>, <<>>, <<>>)
  <2> TAKE do \in {"parameters", "more parameters"}
  <2> DEFINE item == P!CallTo(do)
  <2>1. item.do \in Plain /\ item.do \in {"expect", "parameters", "more parameters"}
    BY <1>1 DEF Plain
  <2> HIDE DEF item
  <2>2. QED
    BY <2>1, PlainRuns DEF item
<1>5. Runs(<<P!CallTo("unary")>>, <<>>, <<"E">>)
  <2> DEFINE item == P!CallTo("unary")
  <2>1. item.do \in Plain /\ item.do = "unary"
    BY <1>1 DEF Plain
  <2> HIDE DEF item
  <2>2. QED
    BY <2>1, PlainRuns DEF item
<1>6. \A do \in {"statement", "if", "block"} : Runs(<<P!CallTo(do)>>, <<>>, <<"S">>)
  <2> TAKE do \in {"statement", "if", "block"}
  <2> DEFINE item == P!CallTo(do)
  <2>1. item.do \in Plain /\ item.do \in {"statement", "if", "block"}
    BY <1>1 DEF Plain
  <2> HIDE DEF item
  <2>2. QED
    BY <2>1, PlainRuns DEF item
<1>7. QED
  BY <1>1, <1>2, <1>3, <1>4, <1>5, <1>6

(* The value an item takes is parsed before it. *)
LEMMA ExpressionThen ==
    ASSUME NEW item \in PlacedItem, NEW c, Runs(<<item>>, <<"E">>, c)
    PROVE  /\ Append(P!ParseExpr, item) \in Seq(PlacedItem)
           /\ Runs(Append(P!ParseExpr, item), <<>>, c)
<1>1. P!ParseExpr \in Seq(PlacedItem) /\ Runs(P!ParseExpr, <<>>, <<"E">>)
  BY DescendIsPlaced, DescendRuns DEF P!ParseExpr
<1>2. P!ParseExpr \in Seq(ParserItem) /\ item \in ParserItem
  BY <1>1, PlacedItems DEF PlacedItem
<1>3. Append(P!ParseExpr, item) \in Seq(PlacedItem)
  BY <1>1, AppendProperties
<1>4. QED
  BY <1>1, <1>2, <1>3, RunsAppend

LEMMA ParametersKeep ==
    ASSUME TreesAreSound, ParserInvariant, P!ParseParameters
    PROVE  TreesAreSound' /\ ParserInvariant'
<1> DEFINE name == P!Expect("IDENTIFIER", "expected a parameter name")
           more == P!CallTo("more parameters")
           two == <<name, more>>
<1>1. two \in Seq(PlacedItem) /\ Runs(two, <<>>, <<>>)
  <2>1. name \in PlacedItem /\ more \in PlacedItem
    BY PlacedItems DEF Plain, Expected, Messages
  <2>2. Runs(<<name>>, <<>>, <<>>) /\ Runs(<<more>>, <<>>, <<>>)
    BY CallRuns
  <2> HIDE DEF name, more
  <2>3. two \in Seq(PlacedItem)
    BY <2>1
  <2>4. Runs(two, <<>>, <<>>)
    BY <2>1, <2>2, RunsTwo DEF PlacedItem
  <2>5. QED
    BY <2>3, <2>4
<1>2. P!ExpectParameter = two
  BY DEF P!ExpectParameter
<1>3. <<>> \in Seq(PlacedItem) /\ Runs(<<>>, <<>>, <<>>)
  BY RunsNone, KindSeqs, EmptyIsPlaced
<1> HIDE DEF two
<1>4. ASSUME NEW do \in {"parameters", "more parameters"}, P!Calling(do),
             NEW k \in Nat, pos + k <= Len(tokens), NEW items \in Seq(PlacedItem),
             Runs(items, <<>>, <<>>), P!Go(k, items)
      PROVE  TreesAreSound' /\ ParserInvariant'
  <2>1. parsed = Running /\ work # <<>> /\ Head(work).do = do
    BY <1>4, CallingFacts
  <2>2. Head(work).do \in Plain \ {"expect"} /\ Gives(Head(work)) = <<>>
    BY <2>1 DEF Plain, Gives
  <2>3. QED
    BY <1>4, <2>1, <2>2, PlainReplaces
<1>5. 0 \in Nat /\ pos + 0 <= Len(tokens)
  BY LenProperties DEF ParserInvariant, TokensAreWhole
<1>6. P!Sees({"COMMA"}) => 1 \in Nat /\ pos + 1 <= Len(tokens)
  BY MoveOn DEF ParserInvariant, P!Sees, P!Current
<1>7. CASE P!Calling("parameters") /\ P!Go(0, <<>>)
  BY <1>3, <1>4, <1>5, <1>7
<1>8. CASE P!Calling("parameters") /\ P!Go(0, two)
  BY <1>1, <1>4, <1>5, <1>8
<1>9. CASE P!Calling("more parameters") /\ P!Sees({"COMMA"}) /\ P!Go(1, two)
  BY <1>1, <1>4, <1>6, <1>9
<1>10. CASE P!Calling("more parameters") /\ P!Go(0, <<>>)
  BY <1>3, <1>4, <1>5, <1>10
<1>11. QED
  BY <1>2, <1>7, <1>8, <1>9, <1>10 DEF P!ParseParameters

LEMMA StatementKeeps ==
    ASSUME TreesAreSound, ParserInvariant, P!ParseStatement
    PROVE  TreesAreSound' /\ ParserInvariant'
<1>1. parsed = Running /\ work # <<>> /\ Head(work).do = "statement"
  BY CallingFacts DEF P!ParseStatement
<1>2. Head(work).do \in Plain \ {"expect"} /\ Gives(Head(work)) = <<"S">>
  BY <1>1 DEF Plain, Gives
<1>3. CASE P!Go(0, <<P!CallTo("block")>>)
  <2>1. P!CallTo("block") \in PlacedItem
    BY PlacedItems DEF Plain
  <2>2. <<P!CallTo("block")>> \in Seq(PlacedItem)
    BY <2>1
  <2>3. Runs(<<P!CallTo("block")>>, <<>>, <<"S">>)
    BY CallRuns
  <2>4. 0 \in Nat /\ pos + 0 <= Len(tokens)
    BY MoveOn DEF ParserInvariant, TokensAreWhole
  <2>5. QED
    BY <1>1, <1>2, <1>3, <2>2, <2>3, <2>4, PlainReplaces
<1>4. ASSUME NEW message, P!Fail(P!Current.span, message)
      PROVE  TreesAreSound' /\ ParserInvariant'
  BY <1>4, FailKeeps
<1>5. QED
  BY <1>3, <1>4 DEF P!ParseStatement

(* A statement that begins with a keyword or a name, all of it at once: what its
   items do is proved for each construct. *)
LEMMA StatementReplaces ==
    ASSUME TreesAreSound, ParserInvariant, P!Calling("statement"),
           P!Current.type # "END_OF_FILE",
           NEW items \in Seq(PlacedItem), Runs(items, <<>>, <<"S">>), P!Go(1, items)
    PROVE  TreesAreSound' /\ ParserInvariant'
<1>1. parsed = Running /\ work # <<>> /\ Head(work).do = "statement"
  BY CallingFacts
<1>2. Head(work).do \in Plain \ {"expect"} /\ Gives(Head(work)) = <<"S">>
  BY <1>1 DEF Plain, Gives
<1>3. 1 \in Nat /\ pos + 1 <= Len(tokens)
  BY MoveOn DEF ParserInvariant, P!Current
<1>4. QED
  BY <1>1, <1>2, <1>3, PlainReplaces

LEMMA HereIsPlaced ==
    ASSUME ParserInvariant
    PROVE  /\ P!Make("Print", pos, 1) \in PlacedItem
           /\ P!Make("Assign", pos, 1) \in PlacedItem
           /\ P!Make("Return", pos, 1) \in PlacedItem
           /\ P!Make("UnaryOp", pos, 1) \in PlacedItem
           /\ P!Make("While", pos, 2) \in PlacedItem
           /\ \A at \in 1 .. Len(tokens), n \in {2, 3} : P!Make("If", at, n) \in PlacedItem
           /\ tokens[pos].type \in BinOpTokens => P!Make("BinOp", pos, 2) \in PlacedItem
<1>1. pos \in 1 .. Len(tokens)
  BY DEF ParserInvariant, TokensAreWhole
<1>2. /\ \A type \in {"Print", "Assign", "Return", "UnaryOp"} : 1 \in KidCounts(type) \ {0}
      /\ 2 \in KidCounts("While") \ {0} /\ 2 \in KidCounts("BinOp") \ {0}
      /\ \A n \in {2, 3} : n \in KidCounts("If") \ {0}
  BY DEF KidCounts
<1>3. /\ {"Print", "Assign", "Return", "UnaryOp", "While", "If", "BinOp"} \subseteq Made
      /\ "Function" \notin {"Print", "Assign", "Return", "UnaryOp", "While", "If", "BinOp"}
  BY DEF Made
<1>4. QED
  BY <1>1, <1>2, <1>3, PlacedItems

LEMMA PrintKeeps ==
    ASSUME TreesAreSound, ParserInvariant, P!ParsePrint
    PROVE  TreesAreSound' /\ ParserInvariant'
<1> DEFINE make == P!Make("Print", pos, 1)
<1>1. P!Calling("statement") /\ P!Sees({"PRINT"}) /\ P!Go(1, Append(P!ParseExpr, make))
  BY DEF P!ParsePrint
<1>2. make \in PlacedItem /\ Runs(<<make>>, <<"E">>, <<"S">>)
  BY HereIsPlaced, Constructs
<1> HIDE DEF make
<1>3. P!Current.type # "END_OF_FILE"
  BY <1>1 DEF P!Sees
<1>4. QED
  BY <1>1, <1>2, <1>3, ExpressionThen, StatementReplaces

LEMMA AssignKeeps ==
    ASSUME TreesAreSound, ParserInvariant, P!ParseAssign
    PROVE  TreesAreSound' /\ ParserInvariant'
<1> DEFINE make == P!Make("Assign", pos, 1)
           equals == P!Expect("EQUALS", "expected '=' after variable name")
           value == Append(P!ParseExpr, make)
<1>1. P!Calling("statement") /\ P!Sees({"IDENTIFIER"}) /\ P!Go(1, <<equals>> \o value)
  BY DEF P!ParseAssign
<1>2. make \in PlacedItem /\ Runs(<<make>>, <<"E">>, <<"S">>)
  BY HereIsPlaced, Constructs
<1>3. equals \in PlacedItem /\ Runs(<<equals>>, <<>>, <<>>)
  BY PlacedItems, CallRuns DEF Expected, Messages
<1>4. P!Current.type # "END_OF_FILE"
  BY <1>1 DEF P!Sees
<1> HIDE DEF make, equals
<1>5. value \in Seq(PlacedItem) /\ Runs(value, <<>>, <<"S">>)
  BY <1>2, ExpressionThen
<1> HIDE DEF value
<1>6. <<equals>> \in Seq(PlacedItem)
  BY <1>3
<1>7. <<equals>> \o value \in Seq(PlacedItem)
  BY <1>5, <1>6, ConcatProperties
<1>8. Runs(<<equals>> \o value, <<>>, <<"S">>)
  BY <1>3, <1>5, <1>6, PlacedItems, RunsConcat
<1>9. QED
  BY <1>1, <1>4, <1>7, <1>8, StatementReplaces

(* A call on top of what is already taken. *)
LEMMA CallAbove ==
    /\ \A do \in {"statement", "if", "block"} :
           /\ Runs(<<P!CallTo(do)>>, <<"E">>, <<"E", "S">>)
           /\ Runs(<<P!CallTo(do)>>, <<"E", "S">>, <<"E", "S", "S">>)
    /\ \A level \in 1 .. 5 : Runs(P!Descend(level), <<"E">>, <<"E", "E">>)
<1> DEFINE none == <<>>
           e == <<"E">>
           s == <<"S">>
           es == <<"E", "S">>
           ess == <<"E", "S", "S">>
           ee == <<"E", "E">>
<1>1. /\ none \in Seq(Kinds) /\ e \in Seq(Kinds) /\ s \in Seq(Kinds) /\ es \in Seq(Kinds)
  BY KindSeqs
<1>2. e \o none = e /\ es \o none = es
  BY <1>1, ConcatEmptySeq
<1>3. e \o s = es /\ e \o e = ee
  <2>1. \A x, y \in Kinds : <<x>> \o <<y>> = <<x, y>>
    BY TupleOfTwo
  <2>2. QED
    BY <2>1 DEF Kinds
<1>4. es \o s = ess
  <2>1. /\ Len(es) = 2 /\ es[1] = "E" /\ es[2] = "S" /\ Len(s) = 1 /\ s[1] = "S"
        /\ Len(ess) = 3 /\ ess[1] = "E" /\ ess[2] = "S" /\ ess[3] = "S"
        /\ ess \in Seq(Kinds)
    BY KindSeqs
  <2> HIDE DEF es, s, ess
  <2>2. /\ es \o s \in Seq(Kinds) /\ Len(es \o s) = Len(es) + Len(s)
        /\ \A i \in 1 .. Len(es) + Len(s) :
               (es \o s)[i] = IF i <= Len(es) THEN es[i] ELSE s[i - Len(es)]
    BY <1>1, ConcatProperties
  <2>3. \A i \in 1 .. 3 : (es \o s)[i] = ess[i]
    BY <2>1, <2>2
  <2>4. QED
    BY <2>1, <2>2, <2>3, SeqEqual
<1>5. \A do \in {"statement", "if", "block"} : Runs(<<P!CallTo(do)>>, none, s)
  BY CallRuns
<1>6. \A level \in 1 .. 5 : Runs(P!Descend(level), none, e)
  BY DescendRuns
<1> HIDE DEF none, e, s, es, ess, ee
<1>7. \A do \in {"statement", "if", "block"} :
          Runs(<<P!CallTo(do)>>, e, es) /\ Runs(<<P!CallTo(do)>>, es, ess)
  <2> TAKE do \in {"statement", "if", "block"}
  <2>1. /\ Runs(<<P!CallTo(do)>>, e \o none, e \o s)
        /\ Runs(<<P!CallTo(do)>>, es \o none, es \o s)
    BY <1>1, <1>5, RunsAbove
  <2>2. QED
    BY <1>2, <1>3, <1>4, <2>1
<1>8. \A level \in 1 .. 5 : Runs(P!Descend(level), e, ee)
  <2> TAKE level \in 1 .. 5
  <2>1. Runs(P!Descend(level), e \o none, e \o e)
    BY <1>1, <1>6, RunsAbove
  <2>2. QED
    BY <1>2, <1>3, <2>1
<1>9. QED
  BY <1>7, <1>8 DEF none, e, s, es, ess, ee

(* A condition, a block, and what they are parts of. *)
LEMMA ConditionThen ==
    ASSUME NEW item \in PlacedItem, NEW c, Runs(<<item>>, <<"E", "S">>, c)
    PROVE  /\ P!ParseExpr \o <<P!CallTo("block"), item>> \in Seq(PlacedItem)
           /\ Runs(P!ParseExpr \o <<P!CallTo("block"), item>>, <<>>, c)
<1> DEFINE block == P!CallTo("block")
<1>1. P!ParseExpr \in Seq(PlacedItem) /\ Runs(P!ParseExpr, <<>>, <<"E">>)
  BY DescendIsPlaced, DescendRuns DEF P!ParseExpr
<1>2. block \in PlacedItem /\ Runs(<<block>>, <<"E">>, <<"E", "S">>)
  BY PlacedItems, CallAbove DEF Plain
<1> HIDE DEF block
<1>3. P!ParseExpr \in Seq(ParserItem) /\ item \in ParserItem /\ block \in ParserItem
  BY <1>1, <1>2, PlacedItems DEF PlacedItem
<1>4. Runs(P!ParseExpr \o <<block, item>>, <<>>, c)
  BY <1>1, <1>2, <1>3, RunsThenTwo
<1>5. <<block, item>> \in Seq(PlacedItem)
  BY <1>2
<1>6. P!ParseExpr \o <<block, item>> \in Seq(PlacedItem)
  BY <1>1, <1>5, ConcatProperties
<1>7. QED
  BY <1>4, <1>6 DEF block

LEMMA ElseRuns ==
    ASSUME NEW item, item.do = "else"
    PROVE  /\ Takes(item) = <<"E", "S">> /\ Gives(item) = <<"S">>
           /\ Runs(<<item>>, <<"E", "S">>, <<"S">>)
<1> DEFINE es == <<"E", "S">>
<1>1. PartsBuilt(item) = 2 /\ Builds(item) = "If" /\ Gives(item) = <<"S">>
  BY DEF PartsBuilt, Builds, Gives
<1>2. es \in Seq(Kinds) /\ Len(es) = 2 /\ es[1] = "E" /\ es[2] = "S"
  BY KindSeqs
<1> HIDE DEF es
<1>3. KidKind("If", 1) = "E" /\ KidKind("If", 2) = "S"
  BY DEF KidKind
<1>4. \A i \in 1 .. Len(es) : es[i] = KidKind(Builds(item), i)
  BY <1>1, <1>2, <1>3
<1>5. Takes(item) = es /\ Runs(<<item>>, es, Gives(item))
  BY <1>1, <1>2, <1>4, KindSeqs, ItemRuns
<1>6. QED
  BY <1>1, <1>5 DEF es

LEMMA IfKeeps ==
    ASSUME TreesAreSound, ParserInvariant, P!ParseIf
    PROVE  TreesAreSound' /\ ParserInvariant'
<1> DEFINE else == P!Item("else", "", "", pos, 0)
           items == P!ParseExpr \o <<P!CallTo("block"), else>>
<1>1. PICK do \in {"statement", "if"} : P!Calling(do)
  BY DEF P!ParseIf
<1>2. P!Sees({"IF"}) /\ P!Go(1, items)
  BY DEF P!ParseIf
<1>3. parsed = Running /\ work # <<>> /\ Head(work).do = do
  BY <1>1, CallingFacts
<1>4. Head(work).do \in Plain \ {"expect"} /\ Gives(Head(work)) = <<"S">>
  BY <1>3 DEF Plain, Gives
<1>5. 1 \in Nat /\ pos + 1 <= Len(tokens) /\ pos \in 1 .. Len(tokens)
  <2>1. TokensAreWhole /\ pos \in 1 .. Len(tokens)
    BY DEF ParserInvariant, TokensAreWhole
  <2>2. tokens[pos].type # "END_OF_FILE"
    BY <1>2 DEF P!Sees, P!Current
  <2>3. QED
    BY <2>1, <2>2, MoveOn
<1>6. else \in ParserItem /\ else.do = "else" /\ else.at = pos
  BY <1>5 DEF P!Item, ParserItem, Calls
<1> HIDE DEF else
<1>7. else \in PlacedItem
  BY <1>5, <1>6 DEF PlacedItem, Placed, MakesFunction
<1>8. items \in Seq(PlacedItem) /\ Runs(items, <<>>, <<"S">>)
  BY <1>6, <1>7, ElseRuns, ConditionThen
<1> HIDE DEF items
<1>9. QED
  BY <1>2, <1>3, <1>4, <1>5, <1>8, PlainReplaces

LEMMA WhileKeeps ==
    ASSUME TreesAreSound, ParserInvariant, P!ParseWhile
    PROVE  TreesAreSound' /\ ParserInvariant'
<1> DEFINE make == P!Make("While", pos, 2)
           items == P!ParseExpr \o <<P!CallTo("block"), make>>
<1>1. P!Calling("statement") /\ P!Sees({"WHILE"}) /\ P!Go(1, items)
  BY DEF P!ParseWhile
<1>2. make \in PlacedItem /\ Runs(<<make>>, <<"E", "S">>, <<"S">>)
  BY HereIsPlaced, Constructs
<1> HIDE DEF make
<1>3. P!Current.type # "END_OF_FILE"
  BY <1>1 DEF P!Sees
<1>4. items \in Seq(PlacedItem) /\ Runs(items, <<>>, <<"S">>)
  BY <1>2, ConditionThen
<1> HIDE DEF items
<1>5. QED
  BY <1>1, <1>3, <1>4, StatementReplaces

LEMMA ElseKeeps ==
    ASSUME TreesAreSound, ParserInvariant, P!ParseElse
    PROVE  TreesAreSound' /\ ParserInvariant'
<1> DEFINE head == Head(work)
           call == P!CallTo(IF tokens[pos + 1].type = "IF" THEN "if" ELSE "block")
           three == P!Make("If", head.at, 3)
           two == P!Make("If", head.at, 2)
<1>1. P!Calling("else")
  BY DEF P!ParseElse
<1>2. \/ P!Sees({"ELSE"}) /\ P!Go(1, <<call, three>>)
      \/ P!Go(0, <<two>>)
  BY DEF P!ParseElse
<1>3. parsed = Running /\ work # <<>> /\ head.do = "else"
  BY <1>1, CallingFacts
<1>4. /\ Takes(head) = <<"E", "S">> /\ Gives(head) = <<"S">> /\ head.at \in 1 .. Len(tokens)
      /\ head.do # "program" /\ ~ExpectsClose(head)
  BY <1>3, HeadFacts, ElseRuns DEF Placed, ExpectsClose
<1>5. three \in PlacedItem /\ two \in PlacedItem
  BY <1>4, HereIsPlaced
<1>6. Runs(<<two>>, <<"E", "S">>, <<"S">>) /\ Runs(<<three>>, <<"E", "S", "S">>, <<"S">>)
  BY Constructs
<1>7. call \in PlacedItem /\ Runs(<<call>>, <<"E", "S">>, <<"E", "S", "S">>)
  <2> DEFINE do == IF tokens[pos + 1].type = "IF" THEN "if" ELSE "block"
  <2>1. do \in Plain /\ do \in {"statement", "if", "block"}
    BY DEF Plain
  <2> HIDE DEF do
  <2>2. P!CallTo(do) \in PlacedItem /\ Runs(<<P!CallTo(do)>>, <<"E", "S">>, <<"E", "S", "S">>)
    BY <2>1, PlacedItems, CallAbove
  <2>3. QED
    BY <2>2 DEF do
<1> HIDE DEF call, three, two, head
<1>8. CASE P!Sees({"ELSE"}) /\ P!Go(1, <<call, three>>)
  <2>1. 1 \in Nat /\ pos + 1 <= Len(tokens)
    BY <1>8, MoveOn DEF ParserInvariant, P!Sees, P!Current
  <2>2. <<call, three>> \in Seq(PlacedItem)
    BY <1>5, <1>7
  <2>3. Runs(<<call, three>>, Takes(head), Gives(head))
    BY <1>4, <1>5, <1>6, <1>7, RunsTwo DEF PlacedItem
  <2>4. QED
    BY <1>3, <1>4, <1>8, <2>1, <2>2, <2>3, GoReplaces DEF head
<1>9. CASE P!Go(0, <<two>>)
  <2>1. 0 \in Nat /\ pos + 0 <= Len(tokens)
    BY LenProperties DEF ParserInvariant, TokensAreWhole
  <2>2. <<two>> \in Seq(PlacedItem)
    BY <1>5
  <2>3. QED
    BY <1>3, <1>4, <1>6, <1>9, <2>1, <2>2, GoReplaces DEF head
<1>10. QED
  BY <1>2, <1>8, <1>9

-----------------------------------------------------------------------------

(* One part more of the same construct. *)
LEMMA TakesMore ==
    ASSUME NEW item, NEW more, PartsBuilt(item) \in Nat,
           PartsBuilt(more) = PartsBuilt(item) + 1, Builds(more) = Builds(item)
    PROVE  Takes(more) = Takes(item) \o <<KidKind(Builds(item), PartsBuilt(item) + 1)>>
<1> DEFINE n == PartsBuilt(item)
           kind == KidKind(Builds(item), n + 1)
           t == Takes(item)
           m == Takes(more)
<1>1. /\ t \in Seq(Kinds) /\ Len(t) = n
      /\ \A i \in 1 .. n : t[i] = KidKind(Builds(item), i)
  BY TakesIsSeq
<1>2. /\ m \in Seq(Kinds) /\ Len(m) = n + 1
      /\ \A i \in 1 .. n + 1 : m[i] = KidKind(Builds(item), i)
  <2>1. PartsBuilt(more) \in Nat
    OBVIOUS
  <2>2. QED
    BY <2>1, TakesIsSeq
<1>3. kind \in Kinds /\ n \in Nat /\ m[n + 1] = kind
  BY <1>2, KindIsKind
<1> HIDE DEF n, kind, t, m
<1>4. /\ Append(t, kind) \in Seq(Kinds) /\ Len(Append(t, kind)) = Len(t) + 1
      /\ Append(t, kind)[Len(t) + 1] = kind
      /\ \A i \in 1 .. Len(t) : Append(t, kind)[i] = t[i]
  BY <1>1, <1>3, AppendProperties
<1>5. \A i \in 1 .. n + 1 : i \in 1 .. n \/ i = n + 1
  BY <1>3
<1>6. \A i \in 1 .. n + 1 : m[i] = Append(t, kind)[i]
  BY <1>1, <1>2, <1>3, <1>4, <1>5
<1>7. m = Append(t, kind)
  BY <1>1, <1>2, <1>4, <1>6, SeqEqual
<1>8. Append(t, kind) = t \o <<kind>>
  BY <1>1, <1>3, AppendIsConcat
<1>9. QED
  BY <1>7, <1>8 DEF n, kind, t, m

LEMMA ItemCounted ==
    ASSUME NEW item \in ParserItem, NEW n \in Nat
    PROVE  /\ [item EXCEPT !.n = n] \in ParserItem
           /\ [item EXCEPT !.n = n].do = item.do /\ [item EXCEPT !.n = n].at = item.at
           /\ [item EXCEPT !.n = n].n = n
BY DEF ParserItem

LEMMA ItemCalled ==
    ASSUME NEW item \in ParserItem, NEW do \in Calls
    PROVE  /\ [item EXCEPT !.do = do] \in ParserItem
           /\ [item EXCEPT !.do = do].do = do /\ [item EXCEPT !.do = do].at = item.at
           /\ [item EXCEPT !.do = do].n = item.n
BY DEF ParserItem

LEMMA StatementsKeep ==
    ASSUME TreesAreSound, ParserInvariant, P!Calling("statements"),
           P!Go(0, <<P!CallTo("statement"), [Head(work) EXCEPT !.n = @ + 1]>>)
    PROVE  TreesAreSound' /\ ParserInvariant'
<1> DEFINE block == Head(work)
           more == [block EXCEPT !.n = @ + 1]
           call == P!CallTo("statement")
<1>1. parsed = Running /\ work # <<>> /\ block.do = "statements"
  BY CallingFacts
<1>2. block \in ParserItem /\ Placed(block)
  BY <1>1, HeadFacts
<1>3. more \in ParserItem /\ more.do = "statements" /\ more.at = block.at
      /\ more.n = block.n + 1 /\ block.n \in Nat
  <2>1. block.n \in Nat /\ block.n + 1 \in Nat
    BY <1>2, ItemFacts
  <2> HIDE DEF block
  <2>2. QED
    BY <1>1, <1>2, <2>1, ItemCounted
<1>4. more \in PlacedItem
  BY <1>1, <1>2, <1>3 DEF PlacedItem, Placed, MakesFunction
<1>5. call \in PlacedItem /\ Runs(<<call>>, <<>>, <<"S">>)
  BY PlacedItems, CallRuns DEF Plain
<1>6. P!Go(0, <<call, more>>)
  OBVIOUS
<1> HIDE DEF block, more, call
<1>7. /\ PartsBuilt(block) = block.n /\ Builds(block) = "Block"
      /\ PartsBuilt(more) = more.n /\ Builds(more) = "Block"
      /\ Gives(block) = <<"S">> /\ Gives(more) = <<"S">>
      /\ block.do # "program" /\ more.do # "program" /\ ~ExpectsClose(block)
  BY <1>1, <1>3 DEF PartsBuilt, Builds, Gives, ExpectsClose
<1>8. Takes(more) = Takes(block) \o <<"S">>
  <2>1. KidKind("Block", block.n + 1) = "S"
    BY DEF KidKind
  <2>2. PartsBuilt(block) \in Nat /\ PartsBuilt(more) = PartsBuilt(block) + 1
    BY <1>3, <1>7
  <2>3. Takes(more) = Takes(block) \o <<KidKind(Builds(block), PartsBuilt(block) + 1)>>
    BY <1>7, <2>2, TakesMore
  <2>4. QED
    BY <1>7, <2>1, <2>3
<1>9. Takes(block) \in Seq(Kinds) /\ Takes(more) \in Seq(Kinds)
  <2>1. PartsBuilt(block) \in Nat /\ PartsBuilt(more) \in Nat
    BY <1>3, <1>7
  <2>2. QED
    BY <2>1, TakesIsSeq
<1>10. Runs(<<call>>, Takes(block), Takes(more))
  <2> DEFINE t == Takes(block)
             none == <<>>
  <2>1. t \in Seq(Kinds) /\ none \in Seq(Kinds) /\ <<"S">> \in Seq(Kinds)
        /\ Runs(<<call>>, none, <<"S">>)
    BY <1>5, <1>9, KindSeqs
  <2> HIDE DEF t, none
  <2>2. Runs(<<call>>, t \o none, t \o <<"S">>)
    BY <2>1, RunsAbove
  <2>3. t \o none = t
    BY <2>1, ConcatEmptySeq DEF none
  <2>4. QED
    BY <1>8, <2>2, <2>3 DEF t
<1>11. Runs(<<more>>, Takes(more), Gives(block))
  BY <1>7, <1>9, KindSeqs, RunsOne
<1>12. <<call, more>> \in Seq(PlacedItem)
  BY <1>4, <1>5
<1>13. Runs(<<call, more>>, Takes(block), Gives(block))
  BY <1>4, <1>5, <1>10, <1>11, RunsTwo DEF PlacedItem
<1>14. 0 \in Nat /\ pos + 0 <= Len(tokens)
  BY LenProperties DEF ParserInvariant, TokensAreWhole
<1>15. QED
  BY <1>1, <1>6, <1>7, <1>12, <1>13, <1>14, GoReplaces DEF block

LEMMA BlockKeeps ==
    ASSUME TreesAreSound, ParserInvariant, P!ParseBlock
    PROVE  TreesAreSound' /\ ParserInvariant'
<1> DEFINE body == P!Item("statements", "", "", pos, 0)
<1>1. parsed = Running /\ work # <<>> /\ Head(work).do = "block"
  BY CallingFacts DEF P!ParseBlock
<1>2. Head(work).do \in Plain \ {"expect"} /\ Gives(Head(work)) = <<"S">>
  BY <1>1 DEF Plain, Gives
<1>3. CASE P!Sees({"LEFT_BRACE"}) /\ P!Go(1, <<body>>)
  <2>1. TokensAreWhole /\ pos \in 1 .. Len(tokens) /\ pos \in Nat
    BY DEF ParserInvariant, TokensAreWhole
  <2>2. tokens[pos].type # "END_OF_FILE"
    BY <1>3 DEF P!Sees, P!Current
  <2>3. 1 \in Nat /\ pos + 1 <= Len(tokens)
    BY <2>1, <2>2, MoveOn
  <2>4. body \in ParserItem /\ body.do = "statements" /\ body.at = pos /\ body.n = 0
    BY <2>1 DEF P!Item, ParserItem, Calls
  <2> HIDE DEF body
  <2>5. body \in PlacedItem
    BY <2>1, <2>4 DEF PlacedItem, Placed, MakesFunction
  <2>6. PartsBuilt(body) = 0 /\ Gives(body) = <<"S">> /\ body.do # "program"
    BY <2>4 DEF PartsBuilt, Gives
  <2>7. Takes(body) = <<>>
    BY <2>6 DEF Takes
  <2>8. Runs(<<body>>, <<>>, <<"S">>)
    BY <2>6, <2>7, KindSeqs, RunsOne
  <2>9. <<body>> \in Seq(PlacedItem)
    BY <2>5
  <2>10. QED
    BY <1>1, <1>2, <1>3, <2>3, <2>8, <2>9, PlainReplaces
<1>4. ASSUME NEW message, P!Fail(P!Current.span, message)
      PROVE  TreesAreSound' /\ ParserInvariant'
  BY <1>4, FailKeeps
<1>5. QED
  BY <1>3, <1>4 DEF P!ParseBlock

LEMMA OperatorsKeep ==
    ASSUME TreesAreSound, ParserInvariant, P!ParseOperators
    PROVE  TreesAreSound' /\ ParserInvariant'
<1> DEFINE head == Head(work)
           level == head.n
           make == P!Make("BinOp", pos, 2)
           right == P!Descend(level + 1)
           items == right \o <<make, head>>
<1>1. P!Calling("operators")
  BY DEF P!ParseOperators
<1>2. parsed = Running /\ work # <<>> /\ head.do = "operators"
  BY <1>1, CallingFacts
<1>3. head \in ParserItem /\ Placed(head)
  BY <1>2, HeadFacts
<1>4. level \in 1 .. 4 /\ level + 1 \in 1 .. 5
  <2>1. level \in 1 .. 4
    BY <1>2, <1>3 DEF Placed
  <2>2. QED
    BY <2>1
<1>5. head \in PlacedItem /\ ~ExpectsClose(head) /\ head.do # "program"
  BY <1>2, <1>3 DEF PlacedItem, MakesFunction, ExpectsClose
<1>6. Takes(head) = <<"E">> /\ Gives(head) = <<"E">> /\ Runs(<<head>>, <<"E">>, <<"E">>)
  <2> DEFINE e == <<"E">>
  <2>1. PartsBuilt(head) = 1 /\ Builds(head) = "Print" /\ Gives(head) = e
    BY <1>2 DEF PartsBuilt, Builds, Gives
  <2>2. e \in Seq(Kinds) /\ Len(e) = 1 /\ e[1] = "E"
    BY KindSeqs
  <2> HIDE DEF e, head
  <2>3. \A i \in 1 .. Len(e) : e[i] = KidKind("Print", i)
    BY <2>2 DEF KidKind
  <2>4. Takes(head) = e /\ Runs(<<head>>, e, Gives(head))
    BY <1>5, <2>1, <2>2, <2>3, ItemRuns
  <2>5. QED
    BY <2>1, <2>4 DEF e
<1>7. CASE P!Sees(P!LevelOperators[level]) /\ P!Go(1, items)
  <2>1. tokens[pos].type \in BinOpTokens
    <3>1. \A l \in 1 .. 4 : P!LevelOperators[l] \subseteq BinOpTokens
      BY DEF P!LevelOperators, BinOpTokens
    <3>2. QED
      BY <1>4, <1>7, <3>1 DEF P!Sees, P!Current
  <2>2. 1 \in Nat /\ pos + 1 <= Len(tokens)
    <3>1. tokens[pos].type # "END_OF_FILE"
      BY <2>1 DEF BinOpTokens
    <3>2. QED
      BY <3>1, MoveOn DEF ParserInvariant
  <2>3. make \in PlacedItem /\ Runs(<<make>>, <<"E", "E">>, <<"E">>)
    BY <2>1, HereIsPlaced, Constructs
  <2>4. right \in Seq(PlacedItem) /\ Runs(right, <<"E">>, <<"E", "E">>)
    BY <1>4, DescendIsPlaced, CallAbove
  <2> HIDE DEF make, right, head
  <2>5. make \in ParserItem /\ head \in ParserItem /\ right \in Seq(ParserItem)
    BY <1>3, <2>3, <2>4, PlacedItems DEF PlacedItem
  <2>6. Runs(items, <<"E">>, <<"E">>)
    BY <1>6, <2>3, <2>4, <2>5, RunsThenTwo
  <2>7. <<make, head>> \in Seq(PlacedItem)
    BY <1>5, <2>3
  <2>8. items \in Seq(PlacedItem)
    BY <2>4, <2>7, ConcatProperties
  <2> HIDE DEF items
  <2>9. QED
    BY <1>2, <1>5, <1>6, <1>7, <2>2, <2>6, <2>8, GoReplaces DEF head
<1>8. CASE P!Go(0, <<>>)
  <2>1. 0 \in Nat /\ pos + 0 <= Len(tokens)
    BY LenProperties DEF ParserInvariant, TokensAreWhole
  <2>2. Runs(<<>>, <<"E">>, <<"E">>)
    BY RunsNone, KindSeqs
  <2> HIDE DEF head
  <2>3. QED
    BY <1>2, <1>5, <1>6, <1>8, <2>1, <2>2, GoReplaces, EmptyIsPlaced DEF head
<1>9. QED
  BY <1>7, <1>8 DEF P!ParseOperators

LEMMA UnaryKeeps ==
    ASSUME TreesAreSound, ParserInvariant, P!ParseUnary
    PROVE  TreesAreSound' /\ ParserInvariant'
<1> DEFINE call == P!CallTo("unary")
           make == P!Make("UnaryOp", pos, 1)
<1>1. P!Calling("unary") /\ P!Sees({"MINUS", "NOT"}) /\ P!Go(1, <<call, make>>)
  BY DEF P!ParseUnary
<1>2. parsed = Running /\ work # <<>> /\ Head(work).do = "unary"
  BY <1>1, CallingFacts
<1>3. Head(work).do \in Plain \ {"expect"} /\ Gives(Head(work)) = <<"E">>
  BY <1>2 DEF Plain, Gives
<1>4. make \in PlacedItem /\ Runs(<<make>>, <<"E">>, <<"E">>)
  BY HereIsPlaced, Constructs
<1>5. call \in PlacedItem /\ Runs(<<call>>, <<>>, <<"E">>)
  BY PlacedItems, CallRuns DEF Plain
<1> HIDE DEF call, make
<1>6. <<call, make>> \in Seq(PlacedItem) /\ Runs(<<call, make>>, <<>>, <<"E">>)
  <2>1. <<call, make>> \in Seq(PlacedItem)
    BY <1>4, <1>5
  <2>2. QED
    BY <1>4, <1>5, <2>1, RunsTwo DEF PlacedItem
<1>7. 1 \in Nat /\ pos + 1 <= Len(tokens)
  <2>1. tokens[pos].type # "END_OF_FILE"
    BY <1>1 DEF P!Sees, P!Current
  <2>2. QED
    BY <2>1, MoveOn DEF ParserInvariant
<1>8. QED
  BY <1>1, <1>2, <1>3, <1>6, <1>7, PlainReplaces

LEMMA ArgumentsKeep ==
    ASSUME TreesAreSound, ParserInvariant, P!ParseArguments
    PROVE  TreesAreSound' /\ ParserInvariant'
<1> DEFINE call == Head(work)
           more == [call EXCEPT !.n = @ + 1]
           close == [call EXCEPT !.do = "close call"]
           items == Append(P!ParseExpr, more)
<1>1. P!Calling("arguments")
  BY DEF P!ParseArguments
<1>2. parsed = Running /\ work # <<>> /\ call.do = "arguments"
  BY <1>1, CallingFacts
<1>3. call \in ParserItem /\ Placed(call) /\ call.n \in Nat /\ call.n + 1 \in Nat
  BY <1>2, HeadFacts, ItemFacts
<1>4. \/ P!Sees({"COMMA"}) /\ P!Go(1, items)
      \/ P!Go(0, <<close>>)
  BY DEF P!ParseArguments
<1> HIDE DEF call
<1>5. /\ more \in ParserItem /\ more.do = "arguments" /\ more.at = call.at
      /\ more.n = call.n + 1
  BY <1>2, <1>3, ItemCounted
<1>6. /\ close \in ParserItem /\ close.do = "close call" /\ close.at = call.at
      /\ close.n = call.n
  <2>1. "close call" \in Calls
    BY DEF Calls
  <2> DEFINE do == "close call"
  <2> HIDE DEF do
  <2>2. do \in Calls
    BY <2>1 DEF do
  <2>3. [call EXCEPT !.do = do] \in ParserItem /\ [call EXCEPT !.do = do].do = do
        /\ [call EXCEPT !.do = do].at = call.at /\ [call EXCEPT !.do = do].n = call.n
    BY <1>3, <2>2, ItemCalled
  <2>4. QED
    BY <2>3 DEF do
<1> HIDE DEF more, close
<1>7. more \in PlacedItem /\ close \in PlacedItem
  BY <1>2, <1>3, <1>5, <1>6 DEF PlacedItem, Placed, MakesFunction
<1>8. /\ PartsBuilt(call) = call.n /\ PartsBuilt(more) = call.n + 1
      /\ PartsBuilt(close) = call.n
      /\ Builds(call) = "Call" /\ Builds(more) = "Call" /\ Builds(close) = "Call"
      /\ Gives(call) = <<"E">> /\ Gives(more) = <<"E">> /\ Gives(close) = <<"E">>
      /\ call.do # "program" /\ more.do # "program" /\ close.do # "program"
      /\ ~ExpectsClose(call)
  BY <1>2, <1>5, <1>6 DEF PartsBuilt, Builds, Gives, ExpectsClose
<1>9. Takes(close) = Takes(call)
  BY <1>8 DEF Takes
<1>10. Takes(more) = Takes(call) \o <<"E">>
  <2>1. KidKind("Call", call.n + 1) = "E"
    BY DEF KidKind
  <2>2. PartsBuilt(call) \in Nat /\ PartsBuilt(more) = PartsBuilt(call) + 1
    BY <1>3, <1>8
  <2>3. Takes(more) = Takes(call) \o <<KidKind(Builds(call), PartsBuilt(call) + 1)>>
    BY <1>8, <2>2, TakesMore
  <2>4. QED
    BY <1>8, <2>1, <2>3
<1>11. Takes(call) \in Seq(Kinds) /\ Takes(more) \in Seq(Kinds)
  <2>1. PartsBuilt(call) \in Nat /\ PartsBuilt(more) \in Nat
    BY <1>3, <1>8
  <2>2. QED
    BY <2>1, TakesIsSeq
<1>12. /\ Runs(<<close>>, Takes(call), Gives(call))
       /\ Runs(<<more>>, Takes(more), Gives(call))
  BY <1>8, <1>9, <1>11, KindSeqs, RunsOne
<1>13. CASE P!Sees({"COMMA"}) /\ P!Go(1, items)
  <2>1. P!ParseExpr \in Seq(PlacedItem) /\ Runs(P!ParseExpr, <<>>, <<"E">>)
    BY DescendIsPlaced, DescendRuns DEF P!ParseExpr
  <2>2. Runs(P!ParseExpr, Takes(call), Takes(more))
    <3> DEFINE t == Takes(call)
               none == <<>>
    <3>1. t \in Seq(Kinds) /\ none \in Seq(Kinds) /\ <<"E">> \in Seq(Kinds)
          /\ Runs(P!ParseExpr, none, <<"E">>)
      BY <1>11, <2>1, KindSeqs
    <3> HIDE DEF t, none
    <3>2. Runs(P!ParseExpr, t \o none, t \o <<"E">>)
      BY <3>1, RunsAbove
    <3>3. t \o none = t
      BY <3>1, ConcatEmptySeq DEF none
    <3>4. QED
      BY <1>10, <3>2, <3>3 DEF t
  <2>3. P!ParseExpr \in Seq(ParserItem)
    BY <2>1, PlacedItems
  <2>4. Runs(items, Takes(call), Gives(call))
    BY <1>5, <1>12, <2>2, <2>3, RunsAppend
  <2>5. items \in Seq(PlacedItem)
    BY <1>7, <2>1, AppendProperties
  <2>6. 1 \in Nat /\ pos + 1 <= Len(tokens)
    <3>1. tokens[pos].type # "END_OF_FILE"
      BY <1>13 DEF P!Sees, P!Current
    <3>2. QED
      BY <3>1, MoveOn DEF ParserInvariant
  <2> HIDE DEF items
  <2>7. QED
    BY <1>2, <1>8, <1>13, <2>4, <2>5, <2>6, GoReplaces DEF call
<1>14. CASE P!Go(0, <<close>>)
  <2>1. 0 \in Nat /\ pos + 0 <= Len(tokens)
    BY LenProperties DEF ParserInvariant, TokensAreWhole
  <2>2. <<close>> \in Seq(PlacedItem)
    BY <1>7
  <2>3. QED
    BY <1>2, <1>8, <1>12, <1>14, <2>1, <2>2, GoReplaces DEF call
<1>15. QED
  BY <1>4, <1>13, <1>14

-----------------------------------------------------------------------------

(* The nodes the parser makes. *)
LEMMA SpansMerge ==
    ASSUME NEW a \in Span, NEW b \in Span
    PROVE  P!MergeSpans(a, b) \in Span
BY DEF P!MergeSpans, P!MakeSpan, Span

LEMMA PlainNodes ==
    ASSUME NEW type \in NodeTypes, NEW span \in Span, NEW name \in Names, NEW kids \in Seq(Nat)
    PROVE  /\ P!PlainNode(type, span, name, kids) \in TreeNode
           /\ P!PlainNode(type, span, name, kids).type = type
           /\ P!PlainNode(type, span, name, kids).kids = kids
<1>1. /\ P!Zero \in Value /\ P!NoSpan \in Span /\ P!UnresolvedSlot \in Int
      /\ <<>> \in Seq(Param) /\ 0 \in Nat
  BY MaxIntAssumption
     DEF P!Zero, P!IntValue, Value, MinInt, P!NoSpan, P!MakeSpan, Span, P!UnresolvedSlot
<1>2. QED
  BY <1>1 DEF P!PlainNode, TreeNode

LEMMA LiteralNodes ==
    ASSUME NEW type \in NodeTypes, NEW span \in Span, NEW text \in Names, NEW value \in Value
    PROVE  /\ P!LiteralNode(type, span, text, value) \in TreeNode
           /\ P!LiteralNode(type, span, text, value).type = type
           /\ P!LiteralNode(type, span, text, value).kids = <<>>
<1> DEFINE none == <<>>
           plain == P!PlainNode(type, span, text, none)
<1>0. none \in Seq(Nat)
  OBVIOUS
<1> HIDE DEF none
<1>1. plain \in TreeNode /\ plain.type = type /\ plain.kids = none
  BY <1>0, PlainNodes
<1> HIDE DEF plain
<1>2. [plain EXCEPT !.value = value] \in TreeNode
  BY <1>1 DEF TreeNode
<1>3. /\ [plain EXCEPT !.value = value].type = plain.type
      /\ [plain EXCEPT !.value = value].kids = plain.kids
  BY <1>1 DEF TreeNode
<1>4. QED
  BY <1>1, <1>2, <1>3 DEF P!LiteralNode, plain, none

LEMMA OperatorNodes ==
    ASSUME NEW type \in NodeTypes, NEW span \in Span, NEW text \in Names,
           NEW kind \in BinOpKinds \cup UnaryOpKinds, NEW kids \in Seq(Nat)
    PROVE  /\ P!OperatorNode(type, span, text, kind, kids) \in TreeNode
           /\ P!OperatorNode(type, span, text, kind, kids).type = type
           /\ P!OperatorNode(type, span, text, kind, kids).kids = kids
           /\ P!OperatorNode(type, span, text, kind, kids).kind = kind
<1> DEFINE plain == P!PlainNode(type, span, text, kids)
<1>1. plain \in TreeNode /\ plain.type = type /\ plain.kids = kids
  BY PlainNodes
<1> HIDE DEF plain
<1>2. [plain EXCEPT !.kind = kind] \in TreeNode
  BY <1>1 DEF TreeNode
<1>3. /\ [plain EXCEPT !.kind = kind].type = plain.type
      /\ [plain EXCEPT !.kind = kind].kids = plain.kids
      /\ [plain EXCEPT !.kind = kind].kind = kind
  BY <1>1 DEF TreeNode
<1>4. QED
  BY <1>1, <1>2, <1>3 DEF P!OperatorNode, plain

LEMMA FunctionNodes ==
    ASSUME NEW span \in Span, NEW name \in Names, NEW nameSpan \in Span,
           NEW parameters \in Seq(Param), NEW body \in Nat
    PROVE  /\ P!FunctionNode(span, name, nameSpan, parameters, body) \in TreeNode
           /\ P!FunctionNode(span, name, nameSpan, parameters, body).type = "Function"
           /\ P!FunctionNode(span, name, nameSpan, parameters, body).kids = <<body>>
           /\ P!FunctionNode(span, name, nameSpan, parameters, body).name = name
<1> DEFINE type == "Function"
           kids == <<body>>
           plain == P!PlainNode(type, span, name, kids)
           node == [plain EXCEPT !.nameSpan = nameSpan, !.parameters = parameters]
<1>1. type \in NodeTypes
  BY DEF NodeTypes, StatementTypes
<1>2. kids \in Seq(Nat)
  OBVIOUS
<1> HIDE DEF type, kids
<1>3. plain \in TreeNode /\ plain.type = type /\ plain.kids = kids
  BY <1>1, <1>2, PlainNodes
<1>4. plain.name = name
  BY DEF P!PlainNode
<1>5. P!FunctionNode(span, name, nameSpan, parameters, body) = node
  BY DEF P!FunctionNode, type, kids
<1> HIDE DEF plain
<1>6. node \in TreeNode /\ node.type = plain.type /\ node.kids = plain.kids
      /\ node.name = plain.name
  BY <1>3 DEF TreeNode
<1>7. QED
  BY <1>3, <1>4, <1>5, <1>6 DEF type, kids

(* A node without children. *)
LEMMA LeafKeeps ==
    ASSUME TreesAreSound, ParserInvariant, parsed = Running, work # <<>>,
           Head(work).do \in {"unary", "statement"}, P!Current.type # "END_OF_FILE",
           NEW node \in TreeNode, node.kids = <<>>, 0 \in KidCounts(node.type),
           node.type \notin {"BinOp", "UnaryOp"}, Gives(Head(work)) = <<KindOf(node.type)>>,
           P!Return(1, 0, node)
    PROVE  TreesAreSound' /\ ParserInvariant'
<1> DEFINE zero == 0
           one == 1
<1>1. zero = PartsBuilt(Head(work)) /\ zero \in Nat /\ one \in Nat
  BY DEF PartsBuilt
<1>2. Head(work).do \notin {"program", "expect"}
  OBVIOUS
<1>3. pos + one <= Len(tokens)
  BY MoveOn DEF ParserInvariant, P!Current
<1>4. node.kids = P!LastBuilt(zero)
  <2>1. P!LastBuilt(zero) \in Seq(1 .. Len(nodes)) /\ Len(P!LastBuilt(zero)) = 0
    BY <1>1, <1>2, PartsAreBuilt
  <2>2. QED
    BY <2>1, EmptySeq
<1>5. \A i \in 1 .. zero : KidKind(Builds(Head(work)), i) = KidKind(node.type, i)
  OBVIOUS
<1>6. zero \in KidCounts(node.type) /\ P!Return(one, zero, node)
  OBVIOUS
<1>7. /\ node.type = "BinOp" => node.kind \in BinOpKinds
      /\ node.type = "UnaryOp" => node.kind \in UnaryOpKinds
      /\ node.type # "Function"
  BY DEF KidCounts
<1> HIDE DEF zero, one
<1>8. QED
  BY <1>1, <1>2, <1>3, <1>4, <1>5, <1>6, <1>7, ReturnKeeps

LEMMA CurrentIsToken ==
    ASSUME ParserInvariant
    PROVE  /\ P!Current.type \in TokenTypes /\ P!Current.text \in Names
           /\ P!Current.digits \in Nat /\ P!Current.span \in Span
BY MoveOn DEF ParserInvariant, P!Current, Token, Names

LEMMA LiteralKeeps ==
    ASSUME TreesAreSound, ParserInvariant, P!ParseLiteral
    PROVE  TreesAreSound' /\ ParserInvariant'
<1> DEFINE number == P!LiteralNode("Number", P!Current.span, P!Current.text,
                                   P!IntValue(P!Current.digits))
           boolean == P!LiteralNode("Boolean", P!Current.span, P!Current.text,
                                    P!BoolValue(P!Current.text = "true"))
<1>1. parsed = Running /\ work # <<>> /\ Head(work).do = "unary"
  BY CallingFacts DEF P!ParseLiteral
<1>2. Gives(Head(work)) = <<"E">>
  BY <1>1 DEF Gives
<1>3. KindOf("Number") = "E" /\ KindOf("Boolean") = "E"
  BY DEF KindOf, ExpressionTypes
<1>4. 0 \in KidCounts("Number") /\ 0 \in KidCounts("Boolean")
  BY DEF KidCounts
<1>5. "Number" \in NodeTypes /\ "Boolean" \in NodeTypes
  BY DEF NodeTypes, ExpressionTypes
<1>6. P!Current.type # "END_OF_FILE" \/ \E message : P!Fail(P!Current.span, message)
  BY DEF P!ParseLiteral, P!Sees
<1>7. CASE P!Current.digits <= MaxInt /\ P!Current.type # "END_OF_FILE" /\ P!Return(1, 0, number)
  <2>1. P!IntValue(P!Current.digits) \in Value
    BY <1>7, CurrentIsToken, MaxIntAssumption DEF P!IntValue, Value, MinInt
  <2>2. number \in TreeNode /\ number.type = "Number" /\ number.kids = <<>>
    BY <1>5, <2>1, CurrentIsToken, LiteralNodes
  <2> HIDE DEF number
  <2>3. QED
    BY <1>1, <1>2, <1>3, <1>4, <1>7, <2>2, LeafKeeps
<1>8. CASE P!Current.type # "END_OF_FILE" /\ P!Return(1, 0, boolean)
  <2>1. P!BoolValue(P!Current.text = "true") \in Value
    BY DEF P!BoolValue, Value
  <2>2. boolean \in TreeNode /\ boolean.type = "Boolean" /\ boolean.kids = <<>>
    BY <1>5, <2>1, CurrentIsToken, LiteralNodes
  <2> HIDE DEF boolean
  <2>3. QED
    BY <1>1, <1>2, <1>3, <1>4, <1>8, <2>2, LeafKeeps
<1>9. ASSUME NEW message, P!Fail(P!Current.span, message)
      PROVE  TreesAreSound' /\ ParserInvariant'
  BY <1>9, FailKeeps
<1>10. P!Current.digits \in Nat /\ MaxInt \in Nat
  BY CurrentIsToken, MaxIntAssumption
<1>11. \/ P!Current.digits <= MaxInt /\ P!Current.type # "END_OF_FILE" /\ P!Return(1, 0, number)
       \/ P!Current.type # "END_OF_FILE" /\ P!Return(1, 0, boolean)
       \/ \E message : P!Fail(P!Current.span, message)
  <2> HIDE DEF number, boolean
  <2>1. \/ /\ P!Current.type = "NUMBER"
           /\ \/ P!Current.digits > MaxInt /\ \E message : P!Fail(P!Current.span, message)
              \/ ~(P!Current.digits > MaxInt) /\ P!Return(1, 0, number)
        \/ P!Current.type = "BOOLEAN" /\ P!Return(1, 0, boolean)
    BY DEF P!ParseLiteral, P!Sees, number, boolean
  <2>2. ~(P!Current.digits > MaxInt) => P!Current.digits <= MaxInt
    BY <1>10
  <2>3. QED
    BY <2>1, <2>2
<1>12. QED
  BY <1>7, <1>8, <1>9, <1>11

LEMMA ReturnStatementKeeps ==
    ASSUME TreesAreSound, ParserInvariant, P!ParseReturn
    PROVE  TreesAreSound' /\ ParserInvariant'
<1> DEFINE make == P!Make("Return", pos, 1)
           none == <<>>
           bare == P!PlainNode("Return", P!Current.span, "", none)
<1>1. P!Calling("statement") /\ P!Current.type # "END_OF_FILE"
  BY DEF P!ParseReturn, P!Sees
<1>2. parsed = Running /\ work # <<>> /\ Head(work).do = "statement"
  BY <1>1, CallingFacts
<1>3. CASE P!Go(1, Append(P!ParseExpr, make))
  <2>1. make \in PlacedItem /\ Runs(<<make>>, <<"E">>, <<"S">>)
    BY HereIsPlaced, Constructs
  <2> HIDE DEF make
  <2>2. QED
    BY <1>1, <1>3, <2>1, ExpressionThen, StatementReplaces
<1>4. CASE P!Return(1, 0, bare)
  <2>1. Gives(Head(work)) = <<"S">> /\ KindOf("Return") = "S" /\ 0 \in KidCounts("Return")
    BY <1>2 DEF Gives, KindOf, KidCounts, ExpressionTypes
  <2> DEFINE type == "Return"
             name == ""
             node == P!PlainNode(type, P!Current.span, name, none)
  <2>2. type \in NodeTypes /\ name \in Names /\ none \in Seq(Nat)
    BY DEF NodeTypes, StatementTypes, Names
  <2> HIDE DEF type, name, none
  <2>3. node \in TreeNode /\ node.type = type /\ node.kids = none
    BY <2>2, CurrentIsToken, PlainNodes
  <2>4. bare = node
    BY DEF type, name
  <2> HIDE DEF node, bare
  <2>5. QED
    BY <1>1, <1>2, <1>4, <2>1, <2>3, <2>4, LeafKeeps DEF type, none
<1>5. QED
  BY <1>3, <1>4 DEF P!ParseReturn

LEMMA NameKeeps ==
    ASSUME TreesAreSound, ParserInvariant, P!ParseName
    PROVE  TreesAreSound' /\ ParserInvariant'
<1> DEFINE type == "Identifier"
           none == <<>>
           node == P!PlainNode(type, P!Current.span, P!Current.text, none)
           close == P!Item("close call", "", "", pos, 0)
           more == P!Item("arguments", "", "", pos, 1)
           items == Append(P!ParseExpr, more)
<1>1. P!Calling("unary") /\ P!Current.type # "END_OF_FILE"
  BY DEF P!ParseName, P!Sees
<1>2. parsed = Running /\ work # <<>> /\ Head(work).do = "unary"
  BY <1>1, CallingFacts
<1>3. Gives(Head(work)) = <<"E">> /\ Head(work).do \in Plain \ {"expect"}
  BY <1>2 DEF Gives, Plain
<1>4. CASE P!Return(1, 0, node)
  <2>1. KindOf(type) = "E" /\ 0 \in KidCounts(type)
    BY DEF KindOf, KidCounts, ExpressionTypes
  <2>2. type \in NodeTypes /\ none \in Seq(Nat) /\ type \notin {"BinOp", "UnaryOp"}
    BY DEF NodeTypes, ExpressionTypes
  <2> HIDE DEF type, none
  <2>3. node \in TreeNode /\ node.type = type /\ node.kids = none
    BY <2>2, CurrentIsToken, PlainNodes
  <2> HIDE DEF node
  <2>4. QED
    BY <1>1, <1>2, <1>3, <1>4, <2>1, <2>2, <2>3, LeafKeeps DEF none
<1>5. CASE /\ tokens[pos + 1].type = "LEFT_PAREN"
           /\ P!Go(2, <<close>>) \/ P!Go(2, items)
  <2>1. 2 \in Nat /\ pos + 2 <= Len(tokens) /\ pos \in 1 .. Len(tokens) /\ pos \in Nat
    <3>1. TokensAreWhole /\ pos \in 1 .. Len(tokens) /\ pos \in Nat
      BY DEF ParserInvariant, TokensAreWhole
    <3>2. tokens[pos].type # "END_OF_FILE" /\ tokens[pos + 1].type # "END_OF_FILE"
      BY <1>1, <1>5 DEF P!Current
    <3>3. QED
      BY <3>1, <3>2, MoveOn
  <2>2. close \in ParserItem /\ close.do = "close call" /\ close.at = pos /\ close.n = 0
    BY <2>1 DEF P!Item, ParserItem, Calls
  <2>3. more \in ParserItem /\ more.do = "arguments" /\ more.at = pos /\ more.n = 1
    BY <2>1 DEF P!Item, ParserItem, Calls
  <2> HIDE DEF close, more
  <2>4. close \in PlacedItem /\ more \in PlacedItem
    BY <2>1, <2>2, <2>3 DEF PlacedItem, Placed, MakesFunction
  <2>5. /\ PartsBuilt(close) = 0 /\ PartsBuilt(more) = 1 /\ Builds(more) = "Call"
        /\ Gives(close) = <<"E">> /\ Gives(more) = <<"E">>
        /\ close.do # "program" /\ more.do # "program"
    BY <2>2, <2>3 DEF PartsBuilt, Builds, Gives
  <2>6. Takes(close) = <<>>
    BY <2>5 DEF Takes
  <2>7. Runs(<<close>>, <<>>, <<"E">>)
    BY <2>5, <2>6, KindSeqs, RunsOne
  <2>8. Runs(<<more>>, <<"E">>, <<"E">>)
    <3> DEFINE e == <<"E">>
    <3>1. e \in Seq(Kinds) /\ Len(e) = 1 /\ e[1] = "E" /\ Gives(more) = e
      BY <2>5, KindSeqs
    <3> HIDE DEF e
    <3>2. \A i \in 1 .. Len(e) : e[i] = KidKind("Call", i)
      BY <3>1 DEF KidKind
    <3>3. Runs(<<more>>, e, Gives(more))
      BY <2>5, <3>1, <3>2, ItemRuns
    <3>4. QED
      BY <3>1, <3>3 DEF e
  <2>9. items \in Seq(PlacedItem) /\ Runs(items, <<>>, <<"E">>)
    BY <2>4, <2>8, ExpressionThen
  <2>10. <<close>> \in Seq(PlacedItem)
    BY <2>4
  <2> HIDE DEF items
  <2>11. QED
    BY <1>2, <1>3, <1>5, <2>1, <2>7, <2>9, <2>10, PlainReplaces
<1>6. \/ P!Return(1, 0, node)
      \/ /\ tokens[pos + 1].type = "LEFT_PAREN"
         /\ P!Go(2, <<close>>) \/ P!Go(2, items)
  <2>1. \/ /\ tokens[pos + 1].type # "LEFT_PAREN"
           /\ P!Return(1, 0, P!PlainNode("Identifier", P!Current.span, P!Current.text, <<>>))
        \/ /\ tokens[pos + 1].type = "LEFT_PAREN"
           /\ P!Go(2, IF tokens[pos + 2].type = "RIGHT_PAREN" THEN <<close>> ELSE items)
    BY DEF P!ParseName
  <2>2. QED
    BY <2>1
<1>7. QED
  BY <1>4, <1>5, <1>6

(* The end of a block and of a call. *)
LEMMA BlockEndKeeps ==
    ASSUME TreesAreSound, ParserInvariant, P!ParseBlockStatements
    PROVE  TreesAreSound' /\ ParserInvariant'
<1> DEFINE block == Head(work)
           n == block.n
           kids == P!LastBuilt(n)
           span == P!MergeSpans(tokens[block.at].span, P!Current.span)
           type == "Block"
           name == ""
           node == P!PlainNode(type, span, name, kids)
           one == 1
<1>1. P!Calling("statements")
  BY DEF P!ParseBlockStatements
<1>2. parsed = Running /\ work # <<>> /\ block.do = "statements"
  BY <1>1, CallingFacts
<1>3. \/ P!Go(0, <<P!CallTo("statement"), [block EXCEPT !.n = @ + 1]>>)
      \/ \E message : P!Fail(P!Current.span, message)
      \/ P!Current.type # "END_OF_FILE" /\ P!Return(1, n, node)
  <2>1. \/ P!Go(0, <<P!CallTo("statement"), [block EXCEPT !.n = @ + 1]>>)
        \/ P!Fail(P!Current.span, <<"expected '}' to close this block">>)
        \/ ~P!Sees({"END_OF_FILE"}) /\ P!Return(1, n, node)
    BY DEF P!ParseBlockStatements
  <2> HIDE DEF node, n
  <2>2. QED
    BY <2>1 DEF P!Sees
<1>4. CASE P!Current.type # "END_OF_FILE" /\ P!Return(1, n, node)
  <2>1. block \in ParserItem /\ Placed(block) /\ n \in Nat
    BY <1>2, HeadFacts, ItemFacts
  <2>2. n = PartsBuilt(block) /\ Builds(block) = type /\ Gives(block) = <<"S">>
        /\ block.do \notin {"program", "expect"}
    BY <1>2 DEF PartsBuilt, Builds, Gives
  <2>3. kids \in Seq(1 .. Len(nodes))
    BY <1>2, <2>1, <2>2, PartsAreBuilt
  <2>4. kids \in Seq(Nat)
    <3>1. 1 .. Len(nodes) \subseteq Nat
      OBVIOUS
    <3> HIDE DEF kids
    <3>2. QED
      BY <2>3, <3>1, SeqMonotonic
  <2>5. span \in Span
    <3>1. block.at \in 1 .. Len(tokens)
      BY <1>2, <2>1 DEF Placed
    <3>2. tokens[block.at] \in Token
      BY <3>1, ElementOfSeq DEF ParserInvariant, TokensAreWhole
    <3>3. tokens[block.at].span \in Span
      BY <3>2 DEF Token
    <3>4. QED
      BY <3>3, CurrentIsToken, SpansMerge
  <2>6. type \in NodeTypes /\ name \in Names /\ type \notin {"BinOp", "UnaryOp", "Function"}
        /\ KindOf(type) = "S" /\ KidCounts(type) = Nat
    BY DEF NodeTypes, StatementTypes, Names, KindOf, ExpressionTypes, KidCounts
  <2> HIDE DEF type, name, kids, span
  <2>7. node \in TreeNode /\ node.type = type /\ node.kids = kids
    BY <2>4, <2>5, <2>6, PlainNodes
  <2>8. one \in Nat /\ pos + one <= Len(tokens) /\ P!Return(one, n, node)
    <3>1. pos + 1 <= Len(tokens)
      BY <1>4, MoveOn DEF ParserInvariant, P!Current
    <3>2. QED
      BY <1>4, <3>1
  <2> HIDE DEF node, one, n
  <2>9. /\ node.kids = P!LastBuilt(n) /\ n \in KidCounts(node.type)
        /\ \A i \in 1 .. n : KidKind(Builds(block), i) = KidKind(node.type, i)
        /\ node.type = "BinOp" => node.kind \in BinOpKinds
        /\ node.type = "UnaryOp" => node.kind \in UnaryOpKinds
        /\ node.type # "Function"
        /\ Gives(block) = <<KindOf(node.type)>>
    BY <2>1, <2>2, <2>6, <2>7 DEF kids
  <2> HIDE DEF block
  <2>10. QED
    BY <1>2, <2>1, <2>2, <2>7, <2>8, <2>9, ReturnKeeps DEF block
<1>5. ASSUME NEW message, P!Fail(P!Current.span, message)
      PROVE  TreesAreSound' /\ ParserInvariant'
  BY <1>5, FailKeeps
<1>6. QED
  BY <1>1, <1>3, <1>4, <1>5, StatementsKeep

LEMMA CallEndKeeps ==
    ASSUME TreesAreSound, ParserInvariant, P!ParseCloseCall
    PROVE  TreesAreSound' /\ ParserInvariant'
<1> DEFINE call == Head(work)
           n == call.n
           kids == P!LastBuilt(n)
           span == P!MergeSpans(tokens[call.at].span, P!Current.span)
           type == "Call"
           name == tokens[call.at].text
           node == P!PlainNode(type, span, name, kids)
           one == 1
<1>1. P!Calling("close call")
  BY DEF P!ParseCloseCall
<1>2. parsed = Running /\ work # <<>> /\ call.do = "close call"
  BY <1>1, CallingFacts
<1>3. \/ \E message : P!Fail(P!Current.span, message)
      \/ P!Current.type # "END_OF_FILE" /\ P!Return(1, n, node)
  <2>1. \/ P!Fail(P!Current.span, <<"expected ')' to close the argument list">>)
        \/ P!Sees({"RIGHT_PAREN"}) /\ P!Return(1, n, node)
    BY DEF P!ParseCloseCall
  <2> HIDE DEF node, n
  <2>2. QED
    BY <2>1 DEF P!Sees
<1>4. CASE P!Current.type # "END_OF_FILE" /\ P!Return(1, n, node)
  <2>1. call \in ParserItem /\ Placed(call) /\ n \in Nat
    BY <1>2, HeadFacts, ItemFacts
  <2>2. n = PartsBuilt(call) /\ Builds(call) = type /\ Gives(call) = <<"E">>
        /\ call.do \notin {"program", "expect"}
    BY <1>2 DEF PartsBuilt, Builds, Gives
  <2>3. kids \in Seq(1 .. Len(nodes))
    BY <1>2, <2>1, <2>2, PartsAreBuilt
  <2>4. kids \in Seq(Nat)
    <3>1. 1 .. Len(nodes) \subseteq Nat
      OBVIOUS
    <3> HIDE DEF kids
    <3>2. QED
      BY <2>3, <3>1, SeqMonotonic
  <2>5. span \in Span /\ name \in Names
    <3>1. call.at \in 1 .. Len(tokens)
      BY <1>2, <2>1 DEF Placed
    <3>2. tokens[call.at] \in Token
      BY <3>1, ElementOfSeq DEF ParserInvariant, TokensAreWhole
    <3>3. tokens[call.at].span \in Span /\ name \in Names
      BY <3>2 DEF Token, Names
    <3>4. QED
      BY <3>3, CurrentIsToken, SpansMerge
  <2>6. type \in NodeTypes /\ type \notin {"BinOp", "UnaryOp", "Function"}
        /\ KindOf(type) = "E" /\ KidCounts(type) = Nat
    BY DEF NodeTypes, StatementTypes, KindOf, ExpressionTypes, KidCounts
  <2> HIDE DEF type, name, kids, span
  <2>7. node \in TreeNode /\ node.type = type /\ node.kids = kids
    BY <2>4, <2>5, <2>6, PlainNodes
  <2>8. one \in Nat /\ pos + one <= Len(tokens) /\ P!Return(one, n, node)
    <3>1. pos + 1 <= Len(tokens)
      BY <1>4, MoveOn DEF ParserInvariant, P!Current
    <3>2. QED
      BY <1>4, <3>1
  <2> HIDE DEF node, one, n
  <2>9. /\ node.kids = P!LastBuilt(n) /\ n \in KidCounts(node.type)
        /\ \A i \in 1 .. n : KidKind(Builds(call), i) = KidKind(node.type, i)
        /\ node.type = "BinOp" => node.kind \in BinOpKinds
        /\ node.type = "UnaryOp" => node.kind \in UnaryOpKinds
        /\ node.type # "Function"
        /\ Gives(call) = <<KindOf(node.type)>>
    BY <2>1, <2>2, <2>6, <2>7 DEF kids
  <2> HIDE DEF call
  <2>10. QED
    BY <1>2, <2>1, <2>2, <2>7, <2>8, <2>9, ReturnKeeps DEF call
<1>5. ASSUME NEW message, P!Fail(P!Current.span, message)
      PROVE  TreesAreSound' /\ ParserInvariant'
  BY <1>5, FailKeeps
<1>6. QED
  BY <1>3, <1>4, <1>5

LEMMA NoExpressionKeeps ==
    ASSUME TreesAreSound, ParserInvariant, P!ParseNoExpression
    PROVE  TreesAreSound' /\ ParserInvariant'
BY FailKeeps DEF P!ParseNoExpression

-----------------------------------------------------------------------------

(* The parameters of a declaration whose list is closed. *)
LEMMA ParametersAreTyped ==
    ASSUME tokens \in Seq(Token), NEW at \in 1 .. Len(tokens), ClosedFrom(at)
    PROVE  P!ParametersOf(at) \in Seq(Param)
<1> DEFINE Closes(i) == /\ tokens[i].type = "RIGHT_PAREN"
                        /\ \A j \in at .. i - 1 : tokens[j].type # "RIGHT_PAREN"
           close == CHOOSE i \in at .. Len(tokens) : Closes(i)
           list == SubSeq(tokens, at + 3, close)
           chosen == {i \in DOMAIN list : list[i].type = "IDENTIFIER"}
           names == SubSequence(list, chosen)
<1>1. close \in at .. Len(tokens)
  <2> DEFINE T == {i \in at .. Len(tokens) : tokens[i].type = "RIGHT_PAREN"}
  <2>1. T \in SUBSET Nat /\ T # {}
    BY DEF ClosedFrom
  <2>2. PICK i \in T : \A j \in T : i <= j
    BY <2>1, LeastElement
  <2>3. \A j \in at .. i - 1 : j \notin T
    BY <2>1, <2>2
  <2>4. i \in at .. Len(tokens) /\ Closes(i)
    <3>1. Len(tokens) \in Nat
      BY LenProperties
    <3>2. \A j \in at .. i - 1 : j \in at .. Len(tokens)
      BY <2>2, <3>1
    <3>3. QED
      BY <2>2, <2>3, <3>2
  <2>5. QED
    BY <2>4
<1>2. list \in Seq(Token)
  <2>1. close \in Nat /\ close <= Len(tokens) /\ Len(tokens) \in Nat /\ at + 3 \in Nat
        /\ at + 3 >= 1
    BY <1>1, LenProperties
  <2> HIDE DEF close
  <2>2. \A i \in at + 3 .. close : tokens[i] \in Token
    BY <2>1, ElementOfSeq
  <2> DEFINE m == at + 3
  <2>3. m \in Nat /\ m >= 1 /\ \A i \in m .. close : tokens[i] \in Token
    BY <2>1, <2>2
  <2> HIDE DEF m
  <2>4. SubSeq(tokens, m, close) \in Seq(Token)
    BY <2>1, <2>3
  <2>5. QED
    BY <2>4 DEF m
<1> HIDE DEF list
<1>3. names \in Seq(Token)
  <2>1. names \in Seq({list[i] : i \in chosen \cap DOMAIN list})
    BY <1>2, SubSequenceIsSeq
  <2>2. {list[i] : i \in chosen \cap DOMAIN list} \subseteq Token
    BY <1>2, ElementOfSeq, LenProperties
  <2> HIDE DEF chosen, names
  <2>3. QED
    BY <2>1, <2>2, SeqMonotonic
<1>4. P!ParametersOf(at) = [i \in DOMAIN names |-> P!Parameter(names[i].text, names[i].span)]
  BY DEF P!ParametersOf, P!SubSequence, SubSequence, list
<1> HIDE DEF names
<1>5. DOMAIN names = 1 .. Len(names) /\ Len(names) \in Nat
  BY <1>3, LenProperties
<1>6. \A i \in 1 .. Len(names) : P!Parameter(names[i].text, names[i].span) \in Param
  <2> TAKE i \in 1 .. Len(names)
  <2>1. names[i] \in Token
    BY <1>3, ElementOfSeq
  <2>2. names[i].text \in STRING /\ names[i].span \in Span
    BY <2>1 DEF Token
  <2>3. QED
    BY <2>2 DEF P!Parameter, P!UnresolvedSlot, Param
<1>7. QED
  BY <1>4, <1>5, <1>6

(* The node of a construct whose parts are built. *)
LEMMA NodeIsMade ==
    ASSUME TreesAreSound, ParserInvariant, parsed = Running, work # <<>>,
           Head(work).do = "make"
    PROVE  LET item == Head(work)
               node == P!NodeFor(item)
           IN  /\ node \in TreeNode /\ node.type = item.arg
               /\ node.kids = P!LastBuilt(item.n)
               /\ node.type = "BinOp" => node.kind \in BinOpKinds
               /\ node.type = "UnaryOp" => node.kind \in UnaryOpKinds
               /\ node.type = "Function" => node.name \in STRING
<1> DEFINE item == Head(work)
           n == item.n
           first == tokens[item.at]
           kids == P!LastBuilt(n)
           start == IF item.arg = "BinOp" THEN nodes[Head(kids)].span ELSE first.span
           span == P!MergeSpans(start, nodes[kids[Len(kids)]].span)
           node == P!NodeFor(item)
<1>1. /\ item.do = "make" /\ item.arg \in Made /\ item.at \in 1 .. Len(tokens)
      /\ n \in KidCounts(item.arg) \ {0}
      /\ item.arg = "BinOp" => first.type \in BinOpTokens
      /\ item.arg = "Function" => item.at + 1 \in 1 .. Len(tokens)
      /\ item.n \in Nat
  BY HeadFacts, ItemFacts DEF Placed
<1>2. PartsBuilt(item) = n /\ item.do # "program"
  BY <1>1 DEF PartsBuilt
<1>3. kids \in Seq(1 .. Len(nodes)) /\ Len(kids) = n /\ n > 0
  BY <1>1, <1>2, PartsAreBuilt
<1>4. first \in Token /\ nodes \in Seq(TreeNode) /\ tokens \in Seq(Token)
  BY <1>1, ElementOfSeq DEF ParserInvariant, TokensAreWhole, TreesAreSound
<1>5. Head(kids) \in 1 .. Len(nodes) /\ kids[Len(kids)] \in 1 .. Len(nodes)
      /\ Head(kids) = kids[1]
  <2> DEFINE Ids == 1 .. Len(nodes)
  <2>1. kids \in Seq(Ids) /\ Len(kids) = n /\ n \in Nat /\ n > 0
    BY <1>1, <1>3
  <2> HIDE DEF Ids, kids, n
  <2>2. 1 \in 1 .. Len(kids) /\ Len(kids) \in 1 .. Len(kids)
    BY <2>1
  <2>3. kids[1] \in Ids /\ kids[Len(kids)] \in Ids
    BY <2>1, <2>2, ElementOfSeq
  <2>4. Head(kids) = kids[1]
    BY <2>1, EmptySeq
  <2>5. QED
    BY <2>3, <2>4 DEF Ids
<1>6. span \in Span
  <2>1. \A i \in 1 .. Len(nodes) : nodes[i].span \in Span
    <3>1. \A i \in 1 .. Len(nodes) : nodes[i] \in TreeNode
      BY <1>4, ElementOfSeq
    <3>2. QED
      BY <3>1 DEF TreeNode
  <2>2. first.span \in Span
    BY <1>4 DEF Token
  <2> HIDE DEF first, kids
  <2>3. start \in Span /\ nodes[kids[Len(kids)]].span \in Span
    BY <1>5, <2>1, <2>2
  <2> HIDE DEF start
  <2>4. QED
    BY <2>3, SpansMerge
<1>7. kids \in Seq(Nat)
  <2>1. 1 .. Len(nodes) \subseteq Nat
    OBVIOUS
  <2> HIDE DEF kids
  <2>2. QED
    BY <1>3, <2>1, SeqMonotonic
<1>8. first.text \in Names
  BY <1>4 DEF Token, Names
<1>9. item.arg \in NodeTypes
  BY <1>1 DEF Made, NodeTypes, ExpressionTypes, StatementTypes
<1>10. CASE item.arg = "BinOp"
  <2> DEFINE type == item.arg
             kind == P!BinOpKindOf(first.type)
  <2>1. node = P!OperatorNode(type, span, first.text, kind, kids)
    BY <1>10 DEF P!NodeFor
  <2>2. kind \in BinOpKinds
    BY <1>1, <1>10 DEF P!BinOpKindOf, BinOpTokens, BinOpKinds
  <2> HIDE DEF type, kind, span, kids, first, node
  <2>3. node \in TreeNode /\ node.type = type /\ node.kids = kids /\ node.kind = kind
    BY <1>6, <1>7, <1>8, <1>9, <2>1, <2>2, OperatorNodes DEF type
  <2>4. QED
    BY <1>10, <2>2, <2>3 DEF type, node, kids
<1>11. CASE item.arg = "UnaryOp"
  <2> DEFINE type == item.arg
             kind == P!UnaryOpKindOf(first.type)
  <2>1. node = P!OperatorNode(type, span, first.text, kind, kids)
    BY <1>11 DEF P!NodeFor
  <2>2. kind \in UnaryOpKinds
    BY DEF P!UnaryOpKindOf, UnaryOpKinds
  <2> HIDE DEF type, kind, span, kids, first, node
  <2>3. node \in TreeNode /\ node.type = type /\ node.kids = kids /\ node.kind = kind
    BY <1>6, <1>7, <1>8, <1>9, <2>1, <2>2, OperatorNodes DEF type
  <2>4. QED
    BY <1>11, <2>2, <2>3 DEF type, node, kids
<1>12. CASE item.arg = "Function"
  <2> DEFINE next == tokens[item.at + 1]
             parameters == P!ParametersOf(item.at)
             body == Head(kids)
  <2>1. node = P!FunctionNode(span, next.text, next.span, parameters, body)
    BY <1>12 DEF P!NodeFor
  <2>2. next.text \in Names /\ next.text \in STRING /\ next.span \in Span
    <3>1. next \in Token
      BY <1>1, <1>4, <1>12, ElementOfSeq
    <3>2. QED
      BY <3>1 DEF Token, Names
  <2>3. parameters \in Seq(Param)
    <3>1. ClosedFrom(item.at)
      <4>1. Len(work) \in Nat /\ Len(work) > 0
        BY LenProperties, EmptySeq DEF ParserInvariant
      <4>2. 1 \in 1 .. Len(work) /\ work[1] = item
        BY <4>1
      <4>3. MakesFunction(item)
        BY <1>1, <1>12 DEF MakesFunction
      <4>4. QED
        BY <4>2, <4>3 DEF ParserInvariant, ParametersClose
    <3>2. QED
      BY <1>1, <1>4, <3>1, ParametersAreTyped
  <2>4. body \in Nat
    BY <1>5
  <2>5. <<body>> = kids
    <3>1. n = 1
      BY <1>1, <1>12 DEF KidCounts
    <3>2. Len(kids) = 1 /\ kids[1] = body
      BY <1>3, <1>5, <3>1
    <3>3. <<body>> \in Seq(Nat) /\ Len(<<body>>) = 1 /\ <<body>>[1] = body
      BY <2>4
    <3> HIDE DEF kids, body
    <3>4. QED
      BY <1>7, <3>2, <3>3, SeqEqual
  <2> HIDE DEF next, parameters, body, node, span, kids
  <2>6. node \in TreeNode /\ node.type = "Function" /\ node.kids = <<body>>
        /\ node.name = next.text
    BY <1>6, <2>1, <2>2, <2>3, <2>4, FunctionNodes
  <2>7. QED
    BY <1>12, <2>2, <2>5, <2>6 DEF node, kids
<1>13. CASE item.arg \notin {"BinOp", "UnaryOp", "Function"}
  <2> DEFINE type == item.arg
             name == IF item.arg = "Assign" THEN first.text ELSE ""
  <2>1. node = P!PlainNode(type, span, name, kids)
    BY <1>13 DEF P!NodeFor
  <2>2. name \in Names
    BY <1>8 DEF Names
  <2> HIDE DEF type, name, span, kids, node
  <2>3. node \in TreeNode /\ node.type = type /\ node.kids = kids
    BY <1>6, <1>7, <1>9, <2>1, <2>2, PlainNodes DEF type
  <2>4. QED
    BY <1>13, <2>3 DEF type, node, kids
<1>14. QED
  BY <1>10, <1>11, <1>12, <1>13

LEMMA MakeKeeps ==
    ASSUME TreesAreSound, ParserInvariant, P!MakeTheNode
    PROVE  TreesAreSound' /\ ParserInvariant'
<1> DEFINE item == Head(work)
           n == item.n
           node == P!NodeFor(item)
           zero == 0
<1>1. P!Calling("make") /\ P!Return(zero, n, node)
  BY DEF P!MakeTheNode
<1>2. parsed = Running /\ work # <<>> /\ item.do = "make"
  BY <1>1, CallingFacts
<1>3. item.n \in Nat /\ item.n \in KidCounts(item.arg)
  BY <1>2, HeadFacts, ItemFacts DEF Placed
<1>4. /\ PartsBuilt(item) = n /\ Builds(item) = item.arg /\ Gives(item) = <<KindOf(item.arg)>>
      /\ item.do \notin {"program", "expect"}
  BY <1>2 DEF PartsBuilt, Builds, Gives
<1>5. /\ node \in TreeNode /\ node.type = item.arg /\ node.kids = P!LastBuilt(n)
      /\ node.type = "BinOp" => node.kind \in BinOpKinds
      /\ node.type = "UnaryOp" => node.kind \in UnaryOpKinds
      /\ node.type = "Function" => node.name \in STRING
  BY <1>2, NodeIsMade
<1>6. zero \in Nat /\ pos + zero <= Len(tokens)
  BY LenProperties DEF ParserInvariant, TokensAreWhole
<1> HIDE DEF node, zero
<1>7. /\ n \in KidCounts(node.type) /\ Gives(item) = <<KindOf(node.type)>>
      /\ \A i \in 1 .. n : KidKind(Builds(item), i) = KidKind(node.type, i)
  BY <1>3, <1>4, <1>5
<1> HIDE DEF item
<1>8. QED
  BY <1>1, <1>2, <1>3, <1>4, <1>5, <1>6, <1>7, ReturnKeeps DEF item

-----------------------------------------------------------------------------

(* The loop of the whole program. *)
LEMMA ProgramHeads ==
    ASSUME ParserInvariant, P!Calling("program")
    PROVE  /\ parsed = Running /\ work # <<>> /\ work \in Seq(ParserItem)
           /\ KindsBuilt \in Seq({"S", "F"})
           /\ \E after : Typed(Tail(work), <<>>, after)
<1>1. parsed = Running /\ work # <<>> /\ Head(work).do = "program"
  BY CallingFacts
<1>2. work \in Seq(ParserItem)
  BY DEF ParserInvariant
<1>3. PICK after : Typed(work, KindsBuilt, after)
  BY <1>1 DEF ParserInvariant, WorkIsTyped
<1>4. PICK b \in Seq(Kinds) : Step(Head(work), KindsBuilt, b) /\ Typed(Tail(work), b, after)
  BY <1>1, <1>2, <1>3, TypedHead
<1>5. KindsBuilt \in Seq({"S", "F"}) /\ b = <<>>
  BY <1>1, <1>4 DEF Step
<1>6. QED
  BY <1>1, <1>2, <1>4, <1>5

Again == P!CallTo("program")

LEMMA AgainFacts ==
    /\ Again \in ParserItem /\ Placed(Again) /\ ~MakesFunction(Again) /\ ~ExpectsClose(Again)
    /\ \A p \in Seq({"S", "F"}) : Typed(<<Again>>, p, <<>>)
<1>1. Again \in ParserItem /\ Again.do = "program"
  BY DEF Again, P!CallTo, P!Item, ParserItem, Calls
<1>2. Placed(Again) /\ ~MakesFunction(Again) /\ ~ExpectsClose(Again)
  BY <1>1 DEF Placed, MakesFunction, ExpectsClose
<1>3. \A p \in Seq({"S", "F"}) : Typed(<<Again>>, p, <<>>)
  <2> TAKE p \in Seq({"S", "F"})
  <2>1. p \in Seq(Kinds)
    <3>1. {"S", "F"} \subseteq Kinds
      BY DEF Kinds
    <3>2. QED
      BY <3>1, SeqMonotonic
  <2>2. Step(Again, p, <<>>)
    BY <1>1 DEF Step
  <2>3. QED
    BY <2>1, <2>2, KindSeqs, TypedOne
<1>4. QED
  BY <1>1, <1>2, <1>3

(* What gives a statement or a declaration, and the rest of the program. *)
LEMMA ProgramTyped ==
    ASSUME NEW p \in Seq({"S", "F"}), NEW kind \in {"S", "F"}, NEW items \in Seq(ParserItem),
           Runs(items, <<>>, <<kind>>)
    PROVE  Typed(items \o <<Again>>, p, <<>>)
<1>1. p \in Seq(Kinds)
  <2>1. {"S", "F"} \subseteq Kinds
    BY DEF Kinds
  <2>2. QED
    BY <2>1, SeqMonotonic
<1> DEFINE none == <<>>
           one == <<kind>>
           K == {"S", "F"}
<1>2. none \in Seq(Kinds) /\ one \in Seq(K) /\ p \in Seq(K) /\ Runs(items, none, one)
  OBVIOUS
<1>3. <<Again>> \in Seq(ParserItem)
  BY AgainFacts
<1> HIDE DEF none, one
<1>4. Typed(items, p \o none, p \o one)
  BY <1>1, <1>2 DEF Runs
<1>5. p \o none = p
  BY <1>1, ConcatEmptySeq DEF none
<1>6. p \o one \in Seq(K)
  <2> HIDE DEF K
  <2>1. QED
    BY <1>2, ConcatProperties
<1>7. Typed(<<Again>>, p \o one, <<>>)
  BY <1>6, AgainFacts
<1>8. QED
  BY <1>3, <1>4, <1>5, <1>7, TypedConcat

LEMMA ProgramKeeps ==
    ASSUME TreesAreSound, ParserInvariant, P!ParseProgram
    PROVE  TreesAreSound' /\ ParserInvariant'
<1> DEFINE call == P!CallTo("statement")
           items == <<call, Again>>
<1>1. P!Calling("program")
  BY DEF P!ParseProgram
<1>2. /\ parsed = Running /\ work # <<>> /\ work \in Seq(ParserItem)
      /\ KindsBuilt \in Seq({"S", "F"})
  BY <1>1, ProgramHeads
<1>3. PICK after : Typed(Tail(work), <<>>, after)
  BY <1>1, ProgramHeads
<1>4. CASE /\ parsed' = P!Finished
           /\ work' = <<>>
           /\ UNCHANGED <<tokens, pos, nodes, built>>
  <2>1. parsed' = Finished /\ parsed' # Running
    BY <1>4 DEF P!Finished, P!Verdict, P!NoSpan, P!MakeSpan, Finished, Running, Verdict,
                NoSpan, MakeSpan
  <2>2. TreesAreSound'
    BY <1>4 DEF TreesAreSound, KidsAreSound, OperatorIsKnown
  <2>3. TokensAreWhole' /\ Separate(built)'
    BY <1>4 DEF ParserInvariant, TokensAreWhole, Separate
  <2>4. work' \in Seq(ParserItem) /\ (\A i \in 1 .. Len(work) : Placed(work[i]))'
    BY <1>4
  <2>5. ParametersClose'
    BY <1>4 DEF ParametersClose
  <2>6. \A i \in 1 .. Len(built) : KindOf(nodes[built[i]].type) # "E"
    <3> TAKE i \in 1 .. Len(built)
    <3> DEFINE Kind(j) == KindOf(nodes[built[j]].type)
    <3>1. KindsBuilt = [j \in 1 .. Len(built) |-> Kind(j)]
      BY DEF KindsBuilt
    <3>2. Len(built) \in Nat
      BY LenProperties DEF ParserInvariant, Separate
    <3> HIDE DEF Kind
    <3>3. KindsBuilt[i] = Kind(i) /\ Len(KindsBuilt) = Len(built)
      BY <1>2, <3>1, <3>2, LenProperties
    <3>4. KindsBuilt[i] \in {"S", "F"}
      BY <1>2, <3>3, ElementOfSeq
    <3>5. QED
      BY <3>3, <3>4 DEF Kind
  <2>7. (\A i \in 1 .. Len(built) : KindOf(nodes[built[i]].type) # "E")'
    BY <1>4, <2>6
  <2>8. QED
    BY <2>1, <2>2, <2>3, <2>4, <2>5, <2>7 DEF ParserInvariant
<1>5. CASE P!Go(0, items)
  <2> DEFINE zero == 0
  <2>1. zero \in Nat /\ pos + zero <= Len(tokens)
    BY LenProperties DEF ParserInvariant, TokensAreWhole
  <2>2. call \in PlacedItem /\ Runs(<<call>>, <<>>, <<"S">>)
    BY PlacedItems, CallRuns DEF Plain
  <2>3. call \in ParserItem /\ Placed(call) /\ ~MakesFunction(call)
    BY <2>2 DEF PlacedItem
  <2> HIDE DEF call
  <2>4. items \in Seq(ParserItem) /\ <<call>> \o <<Again>> = items
    BY <2>3, AgainFacts, TupleOfTwo
  <2>5. Len(items) = 2 /\ items[1] = call /\ items[2] = Again
    OBVIOUS
  <2>6. \A i \in 1 .. Len(items) : Placed(items[i]) /\ ~MakesFunction(items[i])
    BY <2>3, <2>5, AgainFacts
  <2>7. Typed(items, KindsBuilt, <<>>)
    <3>1. <<call>> \in Seq(ParserItem)
      BY <2>3
    <3>2. QED
      BY <1>2, <2>2, <2>4, <3>1, ProgramTyped
  <2>8. P!Go(zero, items)
    BY <1>5
  <2> HIDE DEF items, zero
  <2>9. Tail(work) \in Seq(ParserItem)
    BY <1>2, HeadTailProperties
  <2>10. Typed(items \o Tail(work), KindsBuilt, after)
    BY <1>3, <2>4, <2>7, <2>9, TypedConcat
  <2>11. ~ExpectsClose(Head(work))
    BY <1>1, CallingFacts DEF ExpectsClose
  <2>12. QED
    BY <1>2, <2>1, <2>4, <2>6, <2>8, <2>10, <2>11, GoKeeps
<1>6. QED
  BY <1>4, <1>5 DEF P!ParseProgram, Again

(* A declaration: its parameter list is closed before its body, and its node is
   made last. *)
LEMMA FunctionKeeps ==
    ASSUME TreesAreSound, ParserInvariant, P!ParseFunction
    PROVE  TreesAreSound' /\ ParserInvariant'
<1> DEFINE name == P!Expect("IDENTIFIER", "expected a function name after 'fn'")
           open == P!Expect("LEFT_PAREN", "expected '(' after the function name")
           list == P!CallTo("parameters")
           close == P!Expect("RIGHT_PAREN", "expected ')' to close the parameter list")
           body == P!CallTo("block")
           make == P!Make("Function", pos, 1)
           items == <<name, open, list, close, body, make, Again>>
           one == 1
<1>1. P!Calling("program") /\ P!Sees({"FN"}) /\ P!Go(one, items)
  BY DEF P!ParseFunction, Again
<1>2. /\ parsed = Running /\ work # <<>> /\ work \in Seq(ParserItem)
      /\ KindsBuilt \in Seq({"S", "F"})
  BY <1>1, ProgramHeads
<1>3. PICK after : Typed(Tail(work), <<>>, after)
  BY <1>1, ProgramHeads
<1>4. /\ one \in Nat /\ pos + one <= Len(tokens) /\ pos \in 1 .. Len(tokens)
      /\ pos + 1 \in 1 .. Len(tokens) /\ pos \in Nat
  <2>1. TokensAreWhole /\ pos \in 1 .. Len(tokens) /\ pos \in Nat
    BY DEF ParserInvariant, TokensAreWhole
  <2>2. tokens[pos].type # "END_OF_FILE"
    BY <1>1 DEF P!Sees, P!Current
  <2>3. pos + 1 \in 1 .. Len(tokens)
    BY <2>1, <2>2, MoveOn
  <2>4. QED
    BY <2>1, <2>3
<1>5. /\ \A item \in {name, open, list, close, body} : item \in PlacedItem
      /\ \A item \in {name, open, list, close} :
             item.do # "program" /\ Takes(item) = <<>> /\ Gives(item) = <<>>
      /\ body.do # "program" /\ Takes(body) = <<>> /\ Gives(body) = <<"S">>
  <2>1. name \in PlacedItem /\ open \in PlacedItem /\ close \in PlacedItem
    BY PlacedItems DEF Expected, Messages
  <2>2. list \in PlacedItem /\ body \in PlacedItem
    BY PlacedItems DEF Plain
  <2>3. name.do = "expect" /\ open.do = "expect" /\ close.do = "expect"
    BY CallRuns
  <2>4. list.do = "parameters" /\ body.do = "block"
    BY CallRuns DEF Plain
  <2> HIDE DEF name, open, list, close, body
  <2>5. \A item \in {name, open, list, close, body} : item.do \in Plain /\ item.do # "program"
    BY <2>3, <2>4 DEF Plain
  <2>6. \A item \in {name, open, list, close} : Takes(item) = <<>> /\ Gives(item) = <<>>
    BY <2>3, <2>4, <2>5, PlainRuns
  <2>7. Takes(body) = <<>> /\ Gives(body) = <<"S">>
    BY <2>4, <2>5, PlainRuns
  <2>8. QED
    BY <2>1, <2>2, <2>5, <2>6, <2>7
<1>6. /\ make \in ParserItem /\ make.do = "make" /\ make.arg = "Function"
      /\ make.at = pos /\ make.n = 1
      /\ Takes(make) = <<"S">> /\ Gives(make) = <<"F">>
  <2>1. "Function" \in Made /\ 1 \in Nat
    BY DEF Made
  <2>2. /\ make \in ParserItem /\ make.do = "make" /\ make.arg = "Function"
        /\ make.at = pos /\ make.n = 1
        /\ PartsBuilt(make) = 1 /\ Builds(make) = "Function"
        /\ Gives(make) = <<KindOf("Function")>>
    BY <1>4, <2>1, MakeFacts
  <2> DEFINE s == <<"S">>
  <2>3. KindOf("Function") = "F" /\ KidKind("Function", 1) = "S"
    BY DEF KindOf, KidKind, ExpressionTypes
  <2>4. s \in Seq(Kinds) /\ Len(s) = 1 /\ s[1] = "S"
    BY KindSeqs
  <2> HIDE DEF make, s
  <2>5. \A i \in 1 .. Len(s) : s[i] = KidKind(Builds(make), i)
    BY <2>2, <2>3, <2>4
  <2>6. make.do # "program" /\ Gives(make) \in Seq(Kinds)
    BY <2>2, <2>3, KindSeqs
  <2>7. Takes(make) = s
    BY <2>2, <2>4, <2>5, <2>6, ItemRuns
  <2>8. QED
    BY <2>2, <2>3, <2>7 DEF s
<1>7. ExpectsClose(close)
  BY DEF ExpectsClose, P!Expect, P!Item
<1> HIDE DEF name, open, list, close, body, make, one
<1>8. Placed(make)
  <2>1. 1 \in KidCounts("Function") \ {0} /\ "Function" \in Made
    BY DEF KidCounts, Made
  <2>2. QED
    BY <1>4, <1>6, <2>1 DEF Placed
<1>9. /\ \A item \in {name, open, list, close, body, make, Again} :
             item \in ParserItem /\ Placed(item)
      /\ \A item \in {name, open, list, close, body, Again} : ~MakesFunction(item)
  BY <1>5, <1>6, <1>8, AgainFacts DEF PlacedItem
<1>10. /\ items \in Seq(ParserItem) /\ Len(items) = 7
       /\ items[1] = name /\ items[2] = open /\ items[3] = list /\ items[4] = close
       /\ items[5] = body /\ items[6] = make /\ items[7] = Again
  BY <1>9
<1>11. \A i \in 1 .. 7 : Placed(items[i])
  BY <1>9, <1>10
<1>12. \A j \in 1 .. 7 :
           MakesFunction(items[j]) =>
               items[j].at <= pos + one /\ \E i \in 1 .. j - 1 : ExpectsClose(items[i])
  <2> SUFFICES ASSUME NEW j \in 1 .. 7, MakesFunction(items[j])
               PROVE  items[j].at <= pos + one /\ \E i \in 1 .. j - 1 : ExpectsClose(items[i])
    OBVIOUS
  <2>1. j = 6
    BY <1>9, <1>10
  <2>2. items[j].at = pos /\ pos <= pos + one
    BY <1>4, <1>6, <1>10, <2>1
  <2>3. 4 \in 1 .. j - 1 /\ ExpectsClose(items[4])
    BY <1>7, <1>10, <2>1
  <2>4. QED
    BY <2>2, <2>3
<1>13. Typed(items, KindsBuilt, <<>>)
  <2> DEFINE none == <<>>
             s == <<"S">>
             f == <<"F">>
             p == KindsBuilt
             ps == p \o s
             pf == p \o f
             K == [i \in 1 .. 8 |-> IF i <= 5 THEN p ELSE IF i = 6 THEN ps
                                    ELSE IF i = 7 THEN pf ELSE none]
  <2>1. p \in Seq(Kinds) /\ none \in Seq(Kinds) /\ s \in Seq(Kinds) /\ f \in Seq(Kinds)
    <3>1. {"S", "F"} \subseteq Kinds
      BY DEF Kinds
    <3>2. KindsBuilt \in Seq(Kinds)
      BY <1>2, <3>1, SeqMonotonic
    <3>3. QED
      BY <3>2, KindSeqs
  <2>2. pf \in Seq({"S", "F"})
    <3>1. f \in Seq({"S", "F"})
      OBVIOUS
    <3> HIDE DEF f, p
    <3>2. QED
      BY <1>2, <3>1, ConcatProperties DEF p
  <2>3. /\ \A item \in {name, open, list, close} :
               item.do # "program" /\ Takes(item) = none /\ Gives(item) = none
        /\ body.do # "program" /\ Takes(body) = none /\ Gives(body) = s
        /\ make.do # "program" /\ Takes(make) = s /\ Gives(make) = f
    BY <1>5, <1>6
  <2>4. Again.do = "program"
    BY DEF Again, P!CallTo, P!Item
  <2> HIDE DEF none, s, f, p
  <2>5. ps \in Seq(Kinds) /\ pf \in Seq(Kinds) /\ p \o none = p
    BY <2>1, ConcatProperties, ConcatEmptySeq DEF none
  <2>6. \A item \in {name, open, list, close} : Step(item, p, p)
    BY <2>1, <2>3, <2>5 DEF Step
  <2>7. Step(body, p, ps)
    BY <2>1, <2>3, <2>5 DEF Step
  <2>8. Step(make, ps, pf)
    BY <2>1, <2>3 DEF Step
  <2>9. Step(Again, pf, none)
    BY <2>2, <2>4 DEF Step, none
  <2> HIDE DEF ps, pf
  <2>10. /\ K \in [1 .. 8 -> Seq(Kinds)]
         /\ K[1] = p /\ K[2] = p /\ K[3] = p /\ K[4] = p /\ K[5] = p /\ K[6] = ps /\ K[7] = pf
         /\ K[8] = none
    BY <2>1, <2>5
  <2> HIDE DEF K, items
  <2>11. ASSUME NEW i \in 1 .. 7 PROVE Step(items[i], K[i], K[i + 1])
    <3>1. i = 1 \/ i = 2 \/ i = 3 \/ i = 4 \/ i = 5 \/ i = 6 \/ i = 7
      OBVIOUS
    <3>2. CASE i = 1
      BY <1>10, <2>6, <2>10, <3>2
    <3>3. CASE i = 2
      BY <1>10, <2>6, <2>10, <3>3
    <3>4. CASE i = 3
      BY <1>10, <2>6, <2>10, <3>4
    <3>5. CASE i = 4
      BY <1>10, <2>6, <2>10, <3>5
    <3>6. CASE i = 5
      BY <1>10, <2>7, <2>10, <3>6
    <3>7. CASE i = 6
      BY <1>10, <2>8, <2>10, <3>7
    <3>8. CASE i = 7
      BY <1>10, <2>9, <2>10, <3>8
    <3>9. QED
      BY <3>1, <3>2, <3>3, <3>4, <3>5, <3>6, <3>7, <3>8
  <2>12. Typing(items, K) /\ K[1] = p /\ K[Len(items) + 1] = none
    BY <1>10, <2>10, <2>11 DEF Typing
  <2>13. QED
    BY <2>12 DEF Typed, none, p
<1>14. Typed(items \o Tail(work), KindsBuilt, after)
  <2> HIDE DEF items
  <2>1. Tail(work) \in Seq(ParserItem)
    BY <1>2, HeadTailProperties
  <2>2. QED
    BY <1>3, <1>10, <1>13, <2>1, TypedConcat
<1>15. ~ExpectsClose(Head(work))
  BY <1>1, CallingFacts DEF ExpectsClose
<1> HIDE DEF items
<1>16. QED
  BY <1>1, <1>2, <1>4, <1>10, <1>11, <1>12, <1>14, <1>15, GoKeeps
=============================================================================
