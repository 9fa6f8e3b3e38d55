--------------------------- MODULE ResolverProofs ---------------------------
(***************************************************************************)
(* What the resolver promises the engines, for every token vector it       *)
(* accepts (src/src/resolver.cpp): each variable has a slot within the     *)
(* frame its code runs in, and each call names a declared function and has *)
(* as many arguments as that has parameters.                               *)
(***************************************************************************)
EXTENDS TreeProofs

(* What the resolver has settled so far.  The roots of the
   program cut its nodes into runs, in the order the parser built them: the q-th
   root's tree lies after the root before it and up to the root itself. *)
LiesIn(n, q) ==
    /\ q \in 1 .. Len(program)
    /\ n <= program[q]
    /\ \A j \in 1 .. q - 1 : program[j] < n

IsFunction(q) == nodes[program[q]].type = "Function"

(* The slots given out so far in the frame of the q-th root, while the p-th is
   walked: a function's frame is gone once it is left, and has left its size. *)
Limit(q, p) ==
    IF ~IsFunction(q) THEN scopes[1].nextSlot
    ELSE IF Len(scopes) = 2 /\ q = p THEN scopes[2].nextSlot
    ELSE nodes[program[q]].frameSize

(* A name has a slot of its frame, a call a callee that takes as many arguments,
   and a return a function to return from. *)
FitsIn(n, q, limit) ==
    /\ nodes[n].type \in {"Identifier", "Assign"} => nodes[n].slot \in 0 .. limit - 1
    /\ nodes[n].type = "Call" =>
           /\ nodes[n].name \in DOMAIN functionArity
           /\ functionArity[nodes[n].name] = Len(nodes[n].kids)
    /\ nodes[n].type = "Return" => IsFunction(q)

Visits(item) == item.do \in {"expression", "statement"}
Binds(item) == item.do = "declare or bind"

Pending(n) == \E i \in 1 .. Len(work) : Visits(work[i]) /\ work[i].node = n
Binding(n) == \E i \in 1 .. Len(work) : Binds(work[i]) /\ work[i].node = n

(* Every function by its name: no two have the same, and the arity of each is the
   number of its parameters. *)
NameOf(i) == nodes[C!Functions[i]].name

Collected ==
    /\ \A i, j \in 1 .. Len(C!Functions) : i < j => NameOf(i) # NameOf(j)
    /\ functionArity = [f \in {NameOf(i) : i \in 1 .. Len(C!Functions)} |->
           Len(nodes[C!Functions[CHOOSE i \in 1 .. Len(C!Functions) : NameOf(i) = f]].parameters)]

(* An item of the tree of the p-th root. *)
OwnItem(item, p) ==
    /\ item.do \notin {"collect", "finish"}
    /\ Visits(item) \/ Binds(item) => LiesIn(item.node, p)
    /\ ~EntersFunction(item)
    /\ LeavesFunction(item) => item.node = program[p]

(* The walk is in the tree of the p-th root, with x items of it left; the roots
   after it come next. *)
WalkAt(p, x) ==
    /\ p \in 0 .. Len(program) /\ x \in Nat
    /\ Len(work) = x + (Len(program) - p) + 1
    /\ \A j \in 1 .. Len(program) - p : work[x + j] = R!Item("statement", program[p + j])
    /\ work[Len(work)].do = "finish"
    /\ \A i \in 1 .. x :
           OwnItem(work[i], p) \/ (work[i].do = "collect" /\ i = 1 /\ x = 1 /\ p = 0)

(* The frame of a function is open until the last item of its tree is done. *)
FramesAt(p, x) ==
    /\ Len(scopes) = 2 =>
           /\ p # 0 /\ x # 0 /\ IsFunction(p)
           /\ LeavesFunction(work[x]) /\ work[x].node = program[p]
    /\ Len(scopes) = 1 => x = 0 \/ p = 0 \/ ~IsFunction(p)

Settled(n, p) ==
    \E q \in 1 .. p :
        /\ LiesIn(n, q)
        /\ FitsIn(n, q, Limit(q, p)) \/ (nodes[n].type = "Assign" /\ Binding(n))

(* D is what has been visited: it is settled, what it points to is in it or is
   still to be visited, and the roots up to the p-th are in it. *)
DoneIs(D, p) ==
    /\ D \in SUBSET (1 .. Len(nodes))
    /\ \A n \in D : Settled(n, p)
    /\ \A n \in D : \A i \in 1 .. Len(nodes[n].kids) :
           nodes[n].kids[i] \in D \/ Pending(nodes[n].kids[i])
    /\ \A j \in 1 .. p : program[j] \in D

ParametersFit(p) ==
    \A q \in 1 .. p : IsFunction(q) => Len(nodes[program[q]].parameters) <= Limit(q, p)

Resolving(D, p, x) ==
    /\ WalkAt(p, x)
    /\ FramesAt(p, x)
    /\ DoneIs(D, p)
    /\ ParametersFit(p)
    /\ work[1].do # "collect" => Collected

Walking == \E D, p, x : Resolving(D, p, x)

(* The nodes a program is made of: no smaller set holds its roots and, with each
   node, its children. *)
Closed(D) ==
    /\ \A i \in 1 .. Len(program) : program[i] \in D
    /\ \A n \in D : \A i \in 1 .. Len(nodes[n].kids) : nodes[n].kids[i] \in D

Live ==
    {n \in 1 .. Len(nodes) : \A D \in SUBSET (1 .. Len(nodes)) : Closed(D) => n \in D}

SizeOf(q) == IF IsFunction(q) THEN nodes[program[q]].frameSize ELSE programFrameSize

(* What the resolver hands to the engines. *)
TreeIsResolved ==
    /\ \A n \in Live : \E q \in 1 .. Len(program) : LiesIn(n, q) /\ FitsIn(n, q, SizeOf(q))
    /\ \A q \in 1 .. Len(program) :
           IsFunction(q) => Len(nodes[program[q]].parameters) <= nodes[program[q]].frameSize
    /\ programFrameSize \in Nat
    /\ Collected

-----------------------------------------------------------------------------

LEMMA ProgramFacts ==
    ASSUME ProgramIsSound
    PROVE  /\ program \in Seq(1 .. Len(nodes)) /\ Len(program) \in Nat
           /\ \A i \in 1 .. Len(program) : program[i] \in 1 .. Len(nodes)
           /\ \A i, j \in 1 .. Len(program) : i < j => program[i] < program[j]
<1>1. program \in Seq(1 .. Len(nodes))
  BY DEF ProgramIsSound, Separate
<1>2. QED
  BY <1>1, ElementOfSeq, LenProperties DEF ProgramIsSound, Separate

(* The children of a node lie where it does, the root where its tree does, and
   no node lies in two trees. *)
LEMMA KidsLieIn ==
    ASSUME TreesAreSound, ProgramIsSound, NEW n \in 1 .. Len(nodes), NEW q, LiesIn(n, q),
           NEW i \in 1 .. Len(nodes[n].kids)
    PROVE  LiesIn(nodes[n].kids[i], q)
<1> DEFINE k == nodes[n].kids[i]
<1>1. k \in 1 .. Len(nodes) /\ k < n
  BY KidFacts DEF IsNode
<1>2. \A j \in 1 .. Len(program) : ~(k <= program[j] /\ program[j] < n)
  BY DEF ProgramIsSound, Separate
<1>3. q \in 1 .. Len(program) /\ n <= program[q] /\ \A j \in 1 .. q - 1 : program[j] < n
  BY DEF LiesIn
<1>4. program[q] \in Nat /\ \A j \in 1 .. Len(program) : program[j] \in Nat
  BY <1>3, ProgramFacts
<1> HIDE DEF k
<1>5. k <= program[q]
  BY <1>1, <1>3, <1>4
<1>6. \A j \in 1 .. q - 1 : program[j] < k
  <2> TAKE j \in 1 .. q - 1
  <2>1. j \in 1 .. Len(program)
    BY <1>3, ProgramFacts
  <2>2. program[j] < n /\ program[j] \in Nat
    BY <1>3, <1>4, <2>1
  <2>3. QED
    BY <1>1, <1>2, <2>1, <2>2
<1>7. QED
  BY <1>3, <1>5, <1>6 DEF LiesIn, k

LEMMA RootLiesIn ==
    ASSUME ProgramIsSound, NEW q \in 1 .. Len(program)
    PROVE  LiesIn(program[q], q)
<1>1. program[q] \in 1 .. Len(nodes) /\ Len(program) \in Nat
  BY ProgramFacts
<1>2. \A j \in 1 .. q - 1 : program[j] < program[q]
  <2> TAKE j \in 1 .. q - 1
  <2>1. j \in 1 .. Len(program) /\ j < q
    BY <1>1
  <2>2. QED
    BY <2>1, ProgramFacts
<1>3. QED
  BY <1>1, <1>2 DEF LiesIn

LEMMA LiesInOne ==
    ASSUME ProgramIsSound, NEW n \in Nat, NEW q, NEW r, LiesIn(n, q), LiesIn(n, r)
    PROVE  q = r
<1>1. q \in 1 .. Len(program) /\ r \in 1 .. Len(program) /\ Len(program) \in Nat
  BY ProgramFacts DEF LiesIn
<1>2. program[q] \in Nat /\ program[r] \in Nat
  BY <1>1, ProgramFacts
<1>3. ~(q < r)
  <2> SUFFICES ASSUME q < r PROVE FALSE
    OBVIOUS
  <2>1. q \in 1 .. r - 1
    BY <1>1
  <2>2. QED
    BY <1>2, <2>1 DEF LiesIn
<1>4. ~(r < q)
  <2> SUFFICES ASSUME r < q PROVE FALSE
    OBVIOUS
  <2>1. r \in 1 .. q - 1
    BY <1>1
  <2>2. QED
    BY <1>2, <2>1 DEF LiesIn
<1>5. QED
  BY <1>1, <1>3, <1>4

-----------------------------------------------------------------------------

(* The resolver changes no name and no number of parameters. *)
SameNames ==
    \A n \in 1 .. Len(nodes) :
        /\ nodes'[n].name = nodes[n].name
        /\ Len(nodes'[n].parameters) = Len(nodes[n].parameters)

LEMMA SameRoots ==
    ASSUME ProgramIsSound, SameShape, program' = program
    PROVE  /\ \A n, q : LiesIn(n, q)' <=> LiesIn(n, q)
           /\ \A q \in 1 .. Len(program) : IsFunction(q)' <=> IsFunction(q)
<1>1. \A q \in 1 .. Len(program) : program[q] \in 1 .. Len(nodes)
  BY ProgramFacts
<1>2. QED
  BY <1>1 DEF SameShape, LiesIn, IsFunction

LEMMA FunctionsKept ==
    ASSUME ProgramIsSound, SameShape, program' = program
    PROVE  C!Functions' = C!Functions
<1>1. program \in Seq(1 .. Len(nodes)) /\ DOMAIN program = 1 .. Len(program)
  BY ProgramFacts, LenProperties
<1>2. {i \in DOMAIN program : nodes'[program[i]].type = "Function"}
      = {i \in DOMAIN program : nodes[program[i]].type = "Function"}
  BY <1>1, ProgramFacts DEF SameShape
<1>3. QED
  BY <1>2 DEF C!Functions

(* The functions of a program are roots of it, declared as such. *)
LEMMA FunctionRoots ==
    ASSUME ProgramIsSound
    PROVE  /\ C!Functions \in Seq(1 .. Len(nodes)) /\ Len(C!Functions) \in Nat
           /\ \A i \in 1 .. Len(C!Functions) :
                  /\ C!Functions[i] \in 1 .. Len(nodes)
                  /\ nodes[C!Functions[i]].type = "Function"
                  /\ \E q \in 1 .. Len(program) : program[q] = C!Functions[i]
<1> DEFINE positions == {i \in DOMAIN program : nodes[program[i]].type = "Function"}
           roots == {program[i] : i \in positions \cap DOMAIN program}
<1>1. program \in Seq(1 .. Len(nodes)) /\ DOMAIN program = 1 .. Len(program)
  BY ProgramFacts, LenProperties
<1>2. C!Functions \in Seq(roots)
  <2>1. SubSequence(program, positions) \in Seq(roots)
    BY <1>1, SubSequenceIsSeq
  <2>2. QED
    BY <2>1 DEF C!Functions, C!SubSequence, SubSequence
<1>3. Len(C!Functions) \in Nat /\ \A i \in 1 .. Len(C!Functions) : C!Functions[i] \in roots
  <2> HIDE DEF roots
  <2>1. QED
    BY <1>2, ElementOfSeq, LenProperties
<1>4. ASSUME NEW i \in 1 .. Len(C!Functions)
      PROVE  /\ C!Functions[i] \in 1 .. Len(nodes)
             /\ nodes[C!Functions[i]].type = "Function"
             /\ \E q \in 1 .. Len(program) : program[q] = C!Functions[i]
  BY <1>1, <1>3, ProgramFacts
<1>5. C!Functions \in Seq(1 .. Len(nodes))
  <2>1. roots \subseteq 1 .. Len(nodes)
    BY <1>1, ProgramFacts
  <2> HIDE DEF roots
  <2>2. QED
    BY <1>2, <2>1, SeqMonotonic
<1>6. QED
  BY <1>3, <1>4, <1>5

LEMMA CollectedKept ==
    ASSUME ProgramIsSound, SameShape, SameNames, program' = program,
           functionArity' = functionArity, Collected
    PROVE  Collected'
<1> DEFINE F == C!Functions
<1>1. F' = F
  BY FunctionsKept
<1>2. \A i \in 1 .. Len(F) : F[i] \in 1 .. Len(nodes)
  BY FunctionRoots
<1> HIDE DEF F
<1>3. \A i \in 1 .. Len(F) : nodes'[F[i]].name = nodes[F[i]].name
  BY <1>2 DEF SameNames
<1>4. \A f : (CHOOSE i \in 1 .. Len(F) : nodes'[F[i]].name = f)
             = CHOOSE i \in 1 .. Len(F) : nodes[F[i]].name = f
  BY <1>3
<1>5. ASSUME NEW f \in {nodes[F[i]].name : i \in 1 .. Len(F)}
      PROVE  Len(nodes'[F[CHOOSE i \in 1 .. Len(F) : nodes[F[i]].name = f]].parameters)
             = Len(nodes[F[CHOOSE i \in 1 .. Len(F) : nodes[F[i]].name = f]].parameters)
  <2>1. (CHOOSE i \in 1 .. Len(F) : nodes[F[i]].name = f) \in 1 .. Len(F)
    BY <1>5
  <2>2. QED
    BY <1>2, <2>1 DEF SameNames
<1>6. /\ \A i, j \in 1 .. Len(F) : i < j => nodes[F[i]].name # nodes[F[j]].name
      /\ functionArity = [f \in {nodes[F[i]].name : i \in 1 .. Len(F)} |->
             Len(nodes[F[CHOOSE i \in 1 .. Len(F) : nodes[F[i]].name = f]].parameters)]
  BY DEF Collected, NameOf, F
<1>7. {nodes'[F[i]].name : i \in 1 .. Len(F)} = {nodes[F[i]].name : i \in 1 .. Len(F)}
  BY <1>3
<1>8. functionArity' = [f \in {nodes'[F[i]].name : i \in 1 .. Len(F)} |->
             Len(nodes'[F[CHOOSE i \in 1 .. Len(F) : nodes'[F[i]].name = f]].parameters)]
  BY <1>4, <1>5, <1>6, <1>7
<1>9. \A i, j \in 1 .. Len(F) : i < j => nodes'[F[i]].name # nodes'[F[j]].name
  BY <1>3, <1>6
<1>10. Collected' <=>
          /\ \A i, j \in 1 .. Len(F') : i < j => nodes'[F'[i]].name # nodes'[F'[j]].name
          /\ functionArity' = [f \in {nodes'[F'[i]].name : i \in 1 .. Len(F')} |->
                 Len(nodes'[F'[CHOOSE i \in 1 .. Len(F') : nodes'[F'[i]].name = f]].parameters)]
  BY DEF Collected, NameOf, F
<1>11. QED
  BY <1>1, <1>8, <1>9, <1>10
-----------------------------------------------------------------------------

(* Where the walk goes on: a statement of the program begins the next tree. *)
NextRoot(p, x) == IF x = 0 THEN p + 1 ELSE p
LeftOf(x, items) == IF x = 0 THEN Len(items) ELSE Len(items) + x - 1

LEMMA WalkHead ==
    ASSUME ProgramIsSound, ResolverInvariant, work # <<>>, NEW p, NEW x, WalkAt(p, x),
           Head(work).do \notin {"collect", "finish"}
    PROVE  /\ p \in Nat /\ x \in Nat /\ Len(program) \in Nat
           /\ NextRoot(p, x) \in 1 .. Len(program) \/ ~(Visits(Head(work)) \/ Binds(Head(work)))
           /\ NextRoot(p, x) \in 0 .. Len(program)
           /\ x = 0 => /\ p < Len(program)
                       /\ Head(work).do = "statement" /\ Head(work).node = program[p + 1]
           /\ x >= 1 => OwnItem(Head(work), p)
           /\ Visits(Head(work)) \/ Binds(Head(work)) =>
                  LiesIn(Head(work).node, NextRoot(p, x))
<1>1. p \in 0 .. Len(program) /\ x \in Nat /\ Len(work) = x + (Len(program) - p) + 1
  BY DEF WalkAt
<1>2. Len(program) \in Nat /\ Len(work) \in Nat /\ Len(work) >= 1 /\ Head(work) = work[1]
  BY ProgramFacts, LenProperties DEF ResolverInvariant
<1>3. ASSUME x = 0
      PROVE  /\ p < Len(program)
             /\ Head(work).do = "statement" /\ Head(work).node = program[p + 1]
  <2>1. p # Len(program)
    BY <1>1, <1>2, <1>3 DEF WalkAt
  <2>2. 1 \in 1 .. Len(program) - p
    BY <1>1, <1>2, <2>1
  <2>3. work[x + 1] = R!Item("statement", program[p + 1])
    BY <2>2 DEF WalkAt
  <2>4. Head(work) = R!Item("statement", program[p + 1])
    BY <1>2, <1>3, <2>3
  <2>5. Head(work).do = "statement" /\ Head(work).node = program[p + 1]
    BY ONLY <2>4 DEF R!Item
  <2>6. QED
    BY <1>1, <1>2, <2>1, <2>5
<1>4. ASSUME x >= 1
      PROVE  OwnItem(Head(work), p)
  <2>1. 1 \in 1 .. x
    BY <1>1, <1>4
  <2>2. QED
    BY <1>2, <2>1 DEF WalkAt
<1>5. ASSUME Visits(Head(work)) \/ Binds(Head(work))
      PROVE  LiesIn(Head(work).node, NextRoot(p, x))
  <2>1. CASE x = 0
    <3>1. p + 1 \in 1 .. Len(program)
      BY <1>1, <1>2, <1>3, <2>1
    <3>2. QED
      BY <1>3, <2>1, <3>1, RootLiesIn DEF NextRoot
  <2>2. CASE x >= 1
    BY <1>4, <1>5, <2>2 DEF OwnItem, NextRoot
  <2>3. QED
    BY <1>1, <2>1, <2>2
<1>6. NextRoot(p, x) \in 1 .. Len(program) \/ ~(Visits(Head(work)) \/ Binds(Head(work)))
  BY <1>5 DEF LiesIn
<1>7. NextRoot(p, x) \in 0 .. Len(program)
  BY <1>1, <1>2, <1>3 DEF NextRoot
<1>8. QED
  BY <1>1, <1>2, <1>3, <1>4, <1>5, <1>6, <1>7

LEMMA WalkAdvances ==
    ASSUME ProgramIsSound, ResolverInvariant, SameShape, work # <<>>, program' = program,
           NEW p, NEW x, WalkAt(p, x), Head(work).do \notin {"collect", "finish"},
           NEW items \in Seq(ResolverItem),
           \A i \in 1 .. Len(items) :
               Visitable(items[i]) /\ OwnItem(items[i], NextRoot(p, x)),
           work' = items \o Tail(work)
    PROVE  WalkAt(NextRoot(p, x), LeftOf(x, items))'
<1> DEFINE cur == NextRoot(p, x)
           y == LeftOf(x, items)
<1>1. p \in 0 .. Len(program) /\ x \in Nat /\ Len(work) = x + (Len(program) - p) + 1
      /\ Len(program) \in Nat /\ cur \in 0 .. Len(program)
      /\ (x = 0 => p < Len(program))
  BY WalkHead DEF WalkAt
<1>2. /\ Len(work) \in Nat /\ Len(items) \in Nat
      /\ Len(work') = Len(items) + Len(work) - 1
      /\ \A i \in 1 .. Len(items) : work'[i] = items[i]
      /\ \A i \in 2 .. Len(work) : work'[Len(items) + i - 1] = work[i]
  BY WorkReplaced
<1>0. x = 0 \/ x >= 1
  BY <1>1
<1>3. y \in Nat /\ Len(work') = y + (Len(program) - cur) + 1
  <2>1. CASE x = 0
    BY <1>1, <1>2, <2>1 DEF LeftOf, NextRoot
  <2>2. CASE x >= 1
    <3>1. x # 0 /\ y = Len(items) + x - 1 /\ cur = p
      BY <1>1, <2>2 DEF LeftOf, NextRoot
    <3>2. Len(items) + x - 1 \in Nat
          /\ Len(items) + (x + (Len(program) - p) + 1) - 1
             = (Len(items) + x - 1) + (Len(program) - p) + 1
      BY <1>1, <1>2, <2>2
    <3>3. QED
      BY <1>1, <1>2, <3>1, <3>2
  <2>3. QED
    BY <1>0, <2>1, <2>2
<1>4. ASSUME NEW j \in 1 .. Len(program) - cur
      PROVE  work'[y + j] = R!Item("statement", program[cur + j])
  <2>1. CASE x = 0
    <3>1. j + 1 \in 1 .. Len(program) - p /\ j + 1 \in 2 .. Len(work)
      BY <1>1, <1>2, <2>1 DEF NextRoot
    <3>2. work[x + (j + 1)] = R!Item("statement", program[p + (j + 1)])
      BY <3>1 DEF WalkAt
    <3>3. work'[Len(items) + (j + 1) - 1] = work[j + 1]
      BY <1>2, <3>1
    <3>4. x + (j + 1) = j + 1 /\ Len(items) + (j + 1) - 1 = y + j /\ p + (j + 1) = cur + j
      BY <1>1, <1>2, <2>1 DEF NextRoot, LeftOf
    <3>5. QED
      BY <3>2, <3>3, <3>4
  <2>2. CASE x >= 1
    <3>1. j \in 1 .. Len(program) - p /\ x + j \in 2 .. Len(work)
      BY <1>1, <1>2, <2>2 DEF NextRoot
    <3>2. work[x + j] = R!Item("statement", program[p + j])
      BY <3>1 DEF WalkAt
    <3>3. work'[Len(items) + (x + j) - 1] = work[x + j]
      BY <1>2, <3>1
    <3>4. Len(items) + (x + j) - 1 = y + j /\ p + j = cur + j
      BY <1>1, <1>2, <2>2 DEF NextRoot, LeftOf
    <3>5. QED
      BY <3>2, <3>3, <3>4
  <2>3. QED
    BY <1>0, <2>1, <2>2
<1>5. work'[Len(work')].do = "finish"
  <2>1. Len(work) >= 2
    <3>1. CASE x = 0
      BY <1>1, <3>1
    <3>2. CASE x >= 1
      BY <1>1, <3>2
    <3>3. QED
      BY <1>1, <3>1, <3>2
  <2>2. Len(work) \in 2 .. Len(work)
    BY <1>2, <2>1
  <2>3. work'[Len(items) + Len(work) - 1] = work[Len(work)]
    BY <1>2, <2>2
  <2>4. QED
    BY <1>2, <2>3 DEF WalkAt
<1>6. ASSUME NEW i \in 1 .. y
      PROVE  OwnItem(work'[i], cur)
  <2>1. CASE i \in 1 .. Len(items)
    BY <1>2, <2>1
  <2>2. CASE i \notin 1 .. Len(items)
    <3>1. x >= 1 /\ cur = p /\ i > Len(items) /\ i - Len(items) + 1 \in 2 .. x
      BY <1>1, <1>2, <2>2 DEF LeftOf, NextRoot
    <3>2. i - Len(items) + 1 \in 2 .. Len(work)
      BY <1>1, <1>2, <3>1
    <3>3. work'[Len(items) + (i - Len(items) + 1) - 1] = work[i - Len(items) + 1]
      BY <1>2, <3>2
    <3>4. Len(items) + (i - Len(items) + 1) - 1 = i
      BY <1>2
    <3>5. OwnItem(work[i - Len(items) + 1], p)
      BY <1>1, <3>1 DEF WalkAt
    <3>6. QED
      BY <3>1, <3>3, <3>4, <3>5
  <2>3. QED
    BY <2>1, <2>2
<1>7. ASSUME NEW i \in 1 .. y
      PROVE  /\ work'[i].do \notin {"collect", "finish"}
             /\ Visits(work'[i]) \/ Binds(work'[i]) => LiesIn(work'[i].node, cur)
             /\ ~(work'[i].do = "statement" /\ nodes'[work'[i].node].type = "Function")
             /\ work'[i].do = "end function" => work'[i].node = program[cur]
  <2> DEFINE w == work'[i]
  <2>1. Visitable(w)
    <3>1. CASE i \in 1 .. Len(items)
      BY <1>2, <3>1
    <3>2. CASE i \notin 1 .. Len(items)
      <4>1. i \in 1 .. Len(work')
        BY <1>1, <1>3
      <4>2. i - Len(items) + 1 \in 2 .. Len(work) /\ work'[i] = work[i - Len(items) + 1]
        BY <3>2, <4>1, WorkReplaced
      <4>3. i - Len(items) + 1 \in 1 .. Len(work)
        BY <1>2, <4>2
      <4>4. QED
        BY <4>2, <4>3 DEF ResolverInvariant
    <3>3. QED
      BY <3>1, <3>2
  <2>2. OwnItem(w, cur)
    BY <1>6
  <2> HIDE DEF w, cur
  <2>3. w.do = "statement" => nodes'[w.node].type = nodes[w.node].type
    BY <2>1 DEF Visitable, IsNode, SameShape
  <2>4. QED
    BY <2>2, <2>3 DEF OwnItem, EntersFunction, LeavesFunction, w, cur
<1>8. \A n, q : LiesIn(n, q)' <=> LiesIn(n, q)
  BY SameRoots
<1> HIDE DEF cur, y
<1>9. (\A i \in 1 .. y : OwnItem(work[i], cur))'
  BY <1>7, <1>8 DEF OwnItem, EntersFunction, LeavesFunction, Visits, Binds, LiesIn, cur, y
<1>10. QED
  BY <1>1, <1>3, <1>4, <1>5, <1>9 DEF WalkAt, cur, y
-----------------------------------------------------------------------------

(* Frames only grow, and nothing but the slots of a name is written. *)
FramesGrow ==
    /\ Len(scopes') = Len(scopes)
    /\ \A i \in 1 .. Len(scopes) :
           scopes'[i].nextSlot \in Nat /\ scopes'[i].nextSlot >= scopes[i].nextSlot
    /\ \A n \in 1 .. Len(nodes) : nodes'[n].frameSize = nodes[n].frameSize

LEMMA FrameCount ==
    ASSUME ResolverInvariant
    PROVE  /\ Len(scopes) = 1 \/ Len(scopes) = 2
           /\ \A i \in 1 .. Len(scopes) : scopes[i].nextSlot \in Nat
  BY FrameFacts DEF ResolverInvariant, FramesFollowWork

LEMMA LimitIsNat ==
    ASSUME TreesAreSound, ProgramIsSound, ResolverInvariant, NEW q \in 1 .. Len(program), NEW p
    PROVE  Limit(q, p) \in Nat
<1>1. program[q] \in 1 .. Len(nodes)
  BY ProgramFacts
<1>2. nodes[program[q]].frameSize \in Nat
  BY <1>1, KidFacts DEF TreeNode
<1>3. Len(scopes) = 1 \/ Len(scopes) = 2
  BY FrameCount
<1>4. scopes[1].nextSlot \in Nat /\ (Len(scopes) = 2 => scopes[2].nextSlot \in Nat)
  BY <1>3, FrameCount
<1>5. QED
  BY <1>2, <1>4 DEF Limit

LEMMA LimitsGrow ==
    ASSUME TreesAreSound, ProgramIsSound, ResolverInvariant, SameShape, program' = program,
           FramesGrow, NEW p \in Nat, NEW x \in Nat, p <= Len(program), FramesAt(p, x)
    PROVE  \A q \in 1 .. p :
               /\ Limit(q, p) \in Nat /\ Limit(q, NextRoot(p, x))' \in Nat
               /\ Limit(q, p) <= Limit(q, NextRoot(p, x))'
<1> TAKE q \in 1 .. p
<1>1. q \in 1 .. Len(program)
  BY ProgramFacts
<1>2. Limit(q, p) \in Nat /\ program[q] \in 1 .. Len(nodes)
  BY <1>1, LimitIsNat, ProgramFacts
<1>3. Len(scopes) = 1 \/ Len(scopes) = 2
  BY FrameCount
<1>4. nodes'[program[q]].frameSize = nodes[program[q]].frameSize
      /\ nodes'[program[q]].type = nodes[program[q]].type
  BY <1>2 DEF FramesGrow, SameShape
<1>5. /\ scopes'[1].nextSlot \in Nat /\ scopes'[1].nextSlot >= scopes[1].nextSlot
      /\ Len(scopes) = 2 =>
             scopes'[2].nextSlot \in Nat /\ scopes'[2].nextSlot >= scopes[2].nextSlot
  BY <1>3 DEF FramesGrow
<1>6. Len(scopes) = 2 => NextRoot(p, x) = p
  BY DEF FramesAt, NextRoot
<1>7. Len(scopes) # 2 => Len(scopes') # 2
  BY DEF FramesGrow
<1> DEFINE r == NextRoot(p, x)
<1>8. Limit(q, r)' = IF ~(nodes'[program[q]].type = "Function") THEN scopes'[1].nextSlot
                     ELSE IF Len(scopes') = 2 /\ q = r THEN scopes'[2].nextSlot
                     ELSE nodes'[program[q]].frameSize
  BY DEF Limit, IsFunction
<1>9. Limit(q, p) = IF ~(nodes[program[q]].type = "Function") THEN scopes[1].nextSlot
                    ELSE IF Len(scopes) = 2 /\ q = p THEN scopes[2].nextSlot
                    ELSE nodes[program[q]].frameSize
  BY DEF Limit, IsFunction
<1>10. CASE Len(scopes) = 2
  <2>1. Len(scopes') = 2 /\ r = p
    BY <1>6, <1>10 DEF FramesGrow
  <2> HIDE DEF r
  <2>2. QED
    BY <1>2, <1>4, <1>5, <1>8, <1>9, <1>10, <2>1 DEF r
<1>11. CASE Len(scopes) # 2
  <2>1. Len(scopes') # 2
    BY <1>7, <1>11
  <2> HIDE DEF r
  <2>2. QED
    BY <1>2, <1>4, <1>5, <1>8, <1>9, <1>11, <2>1 DEF r
<1>12. QED
  BY <1>10, <1>11

(* Where a handler that enters or leaves no function is: in the frame of a
   function, its tree is that function's. *)
LEMMA HereIn ==
    ASSUME ProgramIsSound, ResolverInvariant, work # <<>>, NEW p, NEW x,
           WalkAt(p, x), FramesAt(p, x), Visits(Head(work)) \/ Binds(Head(work)),
           ~EntersFunction(Head(work))
    PROVE  /\ LiesIn(R!Here, NextRoot(p, x)) /\ NextRoot(p, x) \in 1 .. Len(program)
           /\ Len(scopes) = 2 <=> IsFunction(NextRoot(p, x))
           /\ Len(scopes) = 2 => NextRoot(p, x) = p
<1>0. Head(work).do \notin {"collect", "finish"}
  BY DEF Visits, Binds
<1>1. LiesIn(R!Here, NextRoot(p, x)) /\ NextRoot(p, x) \in 1 .. Len(program)
  BY <1>0, WalkHead DEF R!Here
<1>2. Len(scopes) = 2 => IsFunction(NextRoot(p, x)) /\ NextRoot(p, x) = p
  BY DEF FramesAt, NextRoot
<1>3. ASSUME Len(scopes) # 2
      PROVE  ~IsFunction(NextRoot(p, x))
  <2>1. Len(scopes) = 1
    BY <1>3, FrameCount
  <2>2. CASE x = 0
    <3>1. Head(work).do = "statement" /\ Head(work).node = program[p + 1]
      BY <1>0, <2>2, WalkHead
    <3>2. nodes[program[p + 1]].type # "Function"
      BY <3>1 DEF EntersFunction
    <3>3. QED
      BY <2>2, <3>2 DEF IsFunction, NextRoot
  <2>3. CASE x # 0
    BY <1>1, <2>1, <2>3 DEF FramesAt, NextRoot
  <2>4. QED
    BY <2>2, <2>3
<1>4. QED
  BY <1>1, <1>2, <1>3

LEMMA PlainFrames ==
    ASSUME ProgramIsSound, ResolverInvariant, SameShape, work # <<>>, program' = program,
           Len(scopes') = Len(scopes), NEW p, NEW x, WalkAt(p, x), FramesAt(p, x),
           Head(work).do \notin {"collect", "finish"},
           ~EntersFunction(Head(work)), ~LeavesFunction(Head(work)),
           NEW items \in Seq(ResolverItem), \A i \in 1 .. Len(items) : Visitable(items[i]),
           work' = items \o Tail(work)
    PROVE  FramesAt(NextRoot(p, x), LeftOf(x, items))'
<1>1. /\ p \in Nat /\ x \in Nat /\ Len(program) \in Nat
      /\ x = 0 => /\ p < Len(program)
                  /\ Head(work).do = "statement" /\ Head(work).node = program[p + 1]
  BY WalkHead
<1>2. /\ Len(work) \in Nat /\ Len(items) \in Nat /\ Head(work) = work[1]
      /\ \A i \in 2 .. Len(work) : work'[Len(items) + i - 1] = work[i]
  BY WorkReplaced, LenProperties DEF ResolverInvariant
<1>3. ASSUME Len(scopes) = 2
      PROVE  /\ NextRoot(p, x) = p /\ p # 0 /\ IsFunction(p)'
             /\ LeftOf(x, items) # 0
             /\ work'[LeftOf(x, items)].do = "end function"
             /\ work'[LeftOf(x, items)].node = program[p]
  <2>0. IsFunction(p)
    BY <1>3 DEF FramesAt
  <2>9. LeavesFunction(work[x]) /\ work[x].node = program[p]
    BY <1>3 DEF FramesAt
  <2>1. p # 0 /\ x # 0
    BY <1>3 DEF FramesAt
  <2>2. x # 1
    BY <1>2, <2>9
  <2>3. x \in 2 .. Len(work)
    <3>1. Len(work) = x + (Len(program) - p) + 1 /\ p \in 0 .. Len(program)
      BY DEF WalkAt
    <3>2. QED
      BY <1>1, <1>2, <2>1, <2>2, <3>1
  <2>4. work'[Len(items) + x - 1] = work[x] /\ x # 0
    BY <1>2, <2>3
  <2>5. Len(items) + x - 1 # 0
    BY <1>2, <2>3
  <2>6. p \in 1 .. Len(program)
    <3>1. p \in 0 .. Len(program)
      BY DEF WalkAt
    <3>2. QED
      BY <1>1, <2>1, <3>1
  <2>7. QED
    BY <2>0, <2>1, <2>9, <2>4, <2>5, <2>6, SameRoots DEF NextRoot, LeftOf, LeavesFunction
<1>4. ASSUME Len(scopes) = 1
      PROVE  NextRoot(p, x) = 0 \/ ~IsFunction(NextRoot(p, x))'
  <2>1. CASE x = 0
    <3>1. nodes[program[p + 1]].type # "Function"
      BY <1>1, <2>1 DEF EntersFunction
    <3>2. ~IsFunction(p + 1) /\ p + 1 \in 1 .. Len(program)
      BY <1>1, <2>1, <3>1 DEF IsFunction
    <3>3. QED
      BY <2>1, <3>2, SameRoots DEF NextRoot
  <2>2. CASE x # 0 /\ p = 0
    BY <2>2 DEF NextRoot
  <2>3. CASE x # 0 /\ p # 0
    <3>1. ~IsFunction(p) /\ p \in 1 .. Len(program)
      BY <1>1, <1>4, <2>3 DEF FramesAt, WalkAt
    <3>2. QED
      BY <2>3, <3>1, SameRoots DEF NextRoot
  <2>4. QED
    BY <2>1, <2>2, <2>3
<1> DEFINE r == NextRoot(p, x)
           y == LeftOf(x, items)
<1>5. /\ Len(scopes') = 2 =>
             /\ r # 0 /\ y # 0 /\ IsFunction(r)'
             /\ work'[y].do = "end function" /\ work'[y].node = program[r]
      /\ Len(scopes') = 1 => y = 0 \/ r = 0 \/ ~IsFunction(r)'
  BY <1>3, <1>4
<1> HIDE DEF r, y
<1>6. QED
  BY <1>5 DEF FramesAt, IsFunction, LeavesFunction, r, y
-----------------------------------------------------------------------------

(* What is still to be visited or bound stays so, but for the item at the head. *)
LEMMA PendingKept ==
    ASSUME ResolverInvariant, SameShape, work # <<>>, NEW items \in Seq(ResolverItem),
           \A i \in 1 .. Len(items) : Visitable(items[i]), work' = items \o Tail(work)
    PROVE  /\ \A n : Pending(n) => Pending(n)' \/ (Visits(Head(work)) /\ Head(work).node = n)
           /\ \A n : Binding(n) => Binding(n)' \/ (Binds(Head(work)) /\ Head(work).node = n)
           /\ \A j \in 1 .. Len(items) : \A n :
                  /\ Visits(items[j]) /\ items[j].node = n => Pending(n)'
                  /\ Binds(items[j]) /\ items[j].node = n => Binding(n)'
<1>1. /\ Len(work) \in Nat /\ Len(items) \in Nat /\ Head(work) = work[1]
      /\ Len(work') = Len(items) + Len(work) - 1
      /\ \A i \in 1 .. Len(items) : work'[i] = items[i]
      /\ \A i \in 2 .. Len(work) : work'[Len(items) + i - 1] = work[i]
  BY WorkReplaced, LenProperties DEF ResolverInvariant
<1>2. ASSUME NEW i \in 1 .. Len(work), i # 1
      PROVE  \E j \in 1 .. Len(work') : work'[j] = work[i]
  <2>1. i \in 2 .. Len(work) /\ Len(items) + i - 1 \in 1 .. Len(work')
    BY <1>1, <1>2
  <2>2. work'[Len(items) + i - 1] = work[i]
    BY <1>1, <2>1
  <2>3. QED
    BY <2>1, <2>2
<1>3. ASSUME NEW n, Pending(n)
      PROVE  Pending(n)' \/ (Visits(Head(work)) /\ Head(work).node = n)
  <2>1. PICK i \in 1 .. Len(work) : Visits(work[i]) /\ work[i].node = n
    BY <1>3 DEF Pending
  <2>2. CASE i = 1
    BY <1>1, <2>1, <2>2
  <2>3. CASE i # 1
    <3>1. PICK j \in 1 .. Len(work') : work'[j] = work[i]
      BY <1>2, <2>3
    <3>2. QED
      BY <2>1, <3>1 DEF Pending, Visits
  <2>4. QED
    BY <2>2, <2>3
<1>4. ASSUME NEW n, Binding(n)
      PROVE  Binding(n)' \/ (Binds(Head(work)) /\ Head(work).node = n)
  <2>1. PICK i \in 1 .. Len(work) : Binds(work[i]) /\ work[i].node = n
    BY <1>4 DEF Binding
  <2>2. CASE i = 1
    BY <1>1, <2>1, <2>2
  <2>3. CASE i # 1
    <3>1. PICK j \in 1 .. Len(work') : work'[j] = work[i]
      BY <1>2, <2>3
    <3>2. QED
      BY <2>1, <3>1 DEF Binding, Binds
  <2>4. QED
    BY <2>2, <2>3
<1>5. ASSUME NEW j \in 1 .. Len(items), NEW n, items[j].node = n
      PROVE  /\ Visits(items[j]) => Pending(n)'
             /\ Binds(items[j]) => Binding(n)'
  <2>1. j \in 1 .. Len(work') /\ work'[j] = items[j]
    <3>1. Len(work) >= 1
      BY <1>1, EmptySeq DEF ResolverInvariant
    <3>2. QED
      BY <1>1, <3>1
  <2>2. QED
    BY <1>5, <2>1 DEF Pending, Binding, Visits, Binds
<1>6. QED
  BY <1>3, <1>4, <1>5

(* A step of the walk, whichever: what it has visited is settled, what it points to
   is visited next, and no frame it has settled a name in gets smaller. *)
StepFits(p, r, items, here) ==
    /\ \A q \in 1 .. p :
           Limit(q, p) \in Nat /\ Limit(q, r)' \in Nat /\ Limit(q, p) <= Limit(q, r)'
    /\ \A n \in 1 .. Len(nodes) :
           n # here \/ ~(Visits(Head(work)) \/ Binds(Head(work))) =>
               nodes'[n].slot = nodes[n].slot
    /\ Visits(Head(work)) =>
           \A i \in 1 .. Len(nodes[here].kids) : \E j \in 1 .. Len(items) :
               Visits(items[j]) /\ items[j].node = nodes[here].kids[i]
    /\ Visits(Head(work)) \/ Binds(Head(work)) =>
           \/ FitsIn(here, r, Limit(r, r))'
           \/ nodes[here].type = "Assign" /\ \E j \in 1 .. Len(items) :
                  Binds(items[j]) /\ items[j].node = here
    /\ EntersFunction(Head(work)) => Len(nodes[here].parameters) <= Limit(r, r)'

LEMMA StepResolves ==
    ASSUME TreesAreSound, ProgramIsSound, ResolverInvariant, SameShape, SameNames,
           work # <<>>, program' = program, functionArity' = functionArity,
           NEW D, NEW p, NEW x, Resolving(D, p, x),
           Head(work).do \notin {"collect", "finish"},
           NEW items \in Seq(ResolverItem),
           \A i \in 1 .. Len(items) : Visitable(items[i]) /\ OwnItem(items[i], NextRoot(p, x)),
           work' = items \o Tail(work),
           FramesAt(NextRoot(p, x), LeftOf(x, items))',
           NEW here, here = Head(work).node, StepFits(p, NextRoot(p, x), items, here)
    PROVE  Walking'
<1> DEFINE r == NextRoot(p, x)
           y == LeftOf(x, items)
<1>0. PICK E : E = D \cup (IF Visits(Head(work)) THEN {here} ELSE {})
  OBVIOUS
<1>1. WalkAt(p, x) /\ FramesAt(p, x) /\ DoneIs(D, p) /\ ParametersFit(p)
  BY DEF Resolving
<1>2. Head(work).do # "collect" /\ Head(work) = work[1]
  BY LenProperties DEF ResolverInvariant
<1>3. Collected'
  BY <1>2, CollectedKept DEF Resolving
<1>4. WalkAt(r, y)'
  BY <1>1, WalkAdvances
<1>5. /\ p \in Nat /\ x \in Nat /\ Len(program) \in Nat
      /\ r \in 0 .. Len(program)
      /\ Visits(Head(work)) \/ Binds(Head(work)) => LiesIn(here, r) /\ r \in 1 .. Len(program)
      /\ x = 0 => /\ p < Len(program)
                  /\ Head(work).do = "statement" /\ Head(work).node = program[p + 1]
  BY <1>1, WalkHead
<1>6. 1 .. p \subseteq 1 .. r /\ r \in Nat /\ (1 .. r) \ (1 .. p) \subseteq {p + 1}
      /\ (x # 0 => r = p) /\ (x = 0 => r = p + 1)
  BY <1>5 DEF NextRoot
<1>7. Visits(Head(work)) => here \in 1 .. Len(nodes)
  <2>1. Visitable(Head(work))
    BY <1>2, EmptySeq, LenProperties DEF ResolverInvariant
  <2>2. QED
    BY <2>1 DEF Visits, Visitable, IsNode
<1>8. \A n, q : LiesIn(n, q)' <=> LiesIn(n, q)
  BY SameRoots
<1>9. \A q \in 1 .. Len(program) : IsFunction(q)' <=> IsFunction(q)
  BY SameRoots
<1> HIDE DEF r, y
<1>10. ASSUME Visits(Head(work)) \/ Binds(Head(work))
       PROVE  Settled(here, r)'
  <2>1. r \in 1 .. r /\ LiesIn(here, r)'
    BY <1>5, <1>6, <1>8, <1>10
  <2>2. \/ FitsIn(here, r, Limit(r, r))'
        \/ nodes[here].type = "Assign" /\ \E j \in 1 .. Len(items) :
               Binds(items[j]) /\ items[j].node = here
    BY <1>10 DEF StepFits, r
  <2>3. ASSUME nodes[here].type = "Assign",
               NEW j \in 1 .. Len(items), Binds(items[j]), items[j].node = here
        PROVE  nodes'[here].type = "Assign" /\ Binding(here)'
    <3>1. here \in 1 .. Len(nodes)
      BY <2>3 DEF Visitable, Binds, IsNode
    <3>2. Binding(here)'
      BY <2>3, PendingKept
    <3>3. QED
      BY <2>3, <3>1, <3>2 DEF SameShape
  <2>4. QED
    BY <2>1, <2>2, <2>3 DEF Settled
<1>11. ASSUME NEW n \in D
       PROVE  Settled(n, r)'
  <2>0. n \in 1 .. Len(nodes)
    BY <1>1 DEF DoneIs
  <2>1. CASE n = here /\ (Visits(Head(work)) \/ Binds(Head(work)))
    BY <1>10, <2>1
  <2>2. CASE ~(n = here /\ (Visits(Head(work)) \/ Binds(Head(work))))
    <3>1. nodes'[n].slot = nodes[n].slot /\ nodes'[n].type = nodes[n].type
          /\ nodes'[n].kids = nodes[n].kids /\ nodes'[n].name = nodes[n].name
      BY <2>0, <2>2 DEF SameShape, SameNames, StepFits
    <3>2. PICK q \in 1 .. p :
              /\ LiesIn(n, q)
              /\ FitsIn(n, q, Limit(q, p)) \/ (nodes[n].type = "Assign" /\ Binding(n))
      BY <1>1 DEF DoneIs, Settled
    <3>3. q \in 1 .. r /\ LiesIn(n, q)' /\ q \in 1 .. Len(program)
      BY <1>5, <1>6, <1>8, <3>2 DEF LiesIn
    <3>4. CASE FitsIn(n, q, Limit(q, p))
      <4> DEFINE a == Limit(q, p)
                 b == Limit(q, r)'
      <4>1. a \in Nat /\ b \in Nat /\ a <= b
        BY DEF StepFits, r
      <4>2. nodes[n].type \in {"Identifier", "Assign"} => nodes[n].slot \in 0 .. a - 1
        BY <3>4 DEF FitsIn
      <4> HIDE DEF a, b
      <4>3. nodes[n].type \in {"Identifier", "Assign"} => nodes[n].slot \in 0 .. b - 1
        BY <4>1, <4>2
      <4>4. nodes[n].type = "Call" =>
                /\ nodes[n].name \in DOMAIN functionArity
                /\ functionArity[nodes[n].name] = Len(nodes[n].kids)
        BY <3>4 DEF FitsIn
      <4>5. nodes[n].type = "Return" => IsFunction(q)'
        BY <1>9, <3>3, <3>4 DEF FitsIn
      <4>6. FitsIn(n, q, Limit(q, r))'
        BY <3>1, <4>3, <4>4, <4>5 DEF FitsIn, b
      <4>7. QED
        BY <3>3, <4>6 DEF Settled
    <3>5. CASE nodes[n].type = "Assign" /\ Binding(n)
      <4>1. Binding(n)'
        BY <2>2, <3>5, PendingKept
      <4>2. QED
        BY <3>1, <3>3, <3>5, <4>1 DEF Settled
    <3>6. QED
      BY <3>2, <3>4, <3>5
  <2>3. QED
    BY <2>1, <2>2
<1>12. E \in SUBSET (1 .. Len(nodes')) /\ \A n \in E : n \in D \/ (n = here /\ Visits(Head(work)))
  BY <1>0, <1>1, <1>7 DEF DoneIs, SameShape
<1>13. D \subseteq E /\ (Visits(Head(work)) => here \in E)
  BY <1>0
<1>14. ASSUME NEW n \in E, NEW i \in 1 .. Len(nodes'[n].kids)
       PROVE  nodes'[n].kids[i] \in E \/ (\E k : k = nodes'[n].kids[i] /\ Pending(k)')
  <2>1. n \in 1 .. Len(nodes) /\ nodes'[n].kids = nodes[n].kids
    BY <1>12 DEF SameShape
  <2>2. CASE n \in D
    <3>1. nodes[n].kids[i] \in D \/ Pending(nodes[n].kids[i])
      BY <1>1, <2>1, <2>2 DEF DoneIs
    <3>2. CASE nodes[n].kids[i] \in D
      BY <1>13, <2>1, <3>2
    <3>3. CASE Pending(nodes[n].kids[i])
      <4>1. PICK k : k = nodes[n].kids[i]
        OBVIOUS
      <4>2. Pending(k)' \/ (Visits(Head(work)) /\ k = here)
        BY <3>3, <4>1, PendingKept
      <4>3. QED
        BY <1>13, <2>1, <4>1, <4>2
    <3>4. QED
      BY <3>1, <3>2, <3>3
  <2>3. CASE n = here /\ Visits(Head(work))
    <3>1. PICK j \in 1 .. Len(items) : Visits(items[j]) /\ items[j].node = nodes[here].kids[i]
      BY <2>1, <2>3 DEF StepFits
    <3>2. \E k : k = nodes[n].kids[i] /\ Pending(k)'
      BY <2>3, <3>1, PendingKept
    <3>3. QED
      BY <2>1, <3>2
  <2>4. QED
    BY <1>12, <2>2, <2>3
<1>15. ASSUME NEW j \in 1 .. r
       PROVE  program'[j] \in E
  <2>1. CASE j \in 1 .. p
    BY <1>1, <1>13, <2>1 DEF DoneIs
  <2>2. CASE j \notin 1 .. p
    <3>1. x = 0 /\ j = p + 1
      BY <1>5, <1>6, <2>2
    <3>2. Visits(Head(work)) /\ here = program[j]
      BY <1>5, <3>1 DEF Visits
    <3>3. QED
      BY <1>13, <3>2
  <2>3. QED
    BY <2>1, <2>2
<1>16. DoneIs(E, r)'
  <2>1. \A n \in E : Settled(n, r)'
    BY <1>10, <1>11, <1>12
  <2>2. \A n \in E : \A i \in 1 .. Len(nodes'[n].kids) :
            nodes'[n].kids[i] \in E
            \/ \E l \in 1 .. Len(work') :
                   Visits(work'[l]) /\ work'[l].node = nodes'[n].kids[i]
    <3> SUFFICES ASSUME NEW n \in E, NEW i \in 1 .. Len(nodes'[n].kids),
                        nodes'[n].kids[i] \notin E
                 PROVE  \E l \in 1 .. Len(work') :
                            Visits(work'[l]) /\ work'[l].node = nodes'[n].kids[i]
      OBVIOUS
    <3>1. PICK m : m = nodes'[n].kids[i] /\ Pending(m)'
      BY <1>14
    <3>2. \E l \in 1 .. Len(work') : Visits(work'[l]) /\ work'[l].node = m
      BY <3>1 DEF Pending, Visits
    <3>3. QED
      BY <3>1, <3>2
  <2>3. QED
    BY <1>12, <1>15, <2>1, <2>2 DEF DoneIs, Pending
<1>17. ParametersFit(r)'
  <2> SUFFICES ASSUME NEW q \in 1 .. r, IsFunction(q)'
               PROVE  Len(nodes'[program'[q]].parameters) <= Limit(q, r)'
    BY DEF ParametersFit
  <2>0. q \in 1 .. Len(program)
    BY <1>5, <1>6
  <2>1. q \in 1 .. Len(program) /\ program[q] \in 1 .. Len(nodes)
    BY <2>0, ProgramFacts
  <2>2. Len(nodes'[program'[q]].parameters) = Len(nodes[program[q]].parameters)
        /\ IsFunction(q)
    BY <1>9, <2>1 DEF SameNames
  <2>3. CASE q \in 1 .. p
    <3> DEFINE a == Limit(q, p)
               b == Limit(q, r)'
               c == Len(nodes[program[q]].parameters)
    <3>1. c <= a
      BY <1>1, <2>2, <2>3 DEF ParametersFit
    <3>2. a \in Nat /\ b \in Nat /\ a <= b
      BY <2>3 DEF StepFits, r
    <3>3. c \in Nat
      <4>1. nodes[program[q]].parameters \in Seq(Param)
        BY <2>1, KidFacts DEF TreeNode
      <4>2. QED
        BY <4>1, LenProperties
    <3> HIDE DEF a, b, c
    <3>4. c <= b
      BY <3>1, <3>2, <3>3
    <3>5. QED
      BY <2>2, <3>4 DEF b, c
  <2>4. CASE q \notin 1 .. p
    <3>1. x = 0 /\ q = r /\ q = p + 1
      BY <1>5, <1>6, <2>4
    <3>2. EntersFunction(Head(work)) /\ here = program[q]
      BY <1>5, <2>2, <3>1 DEF EntersFunction, IsFunction
    <3>3. QED
      BY <2>2, <3>1, <3>2 DEF StepFits, r
  <2>5. QED
    BY <2>3, <2>4
<1>18. Resolving(E, r, y)'
  BY <1>3, <1>4, <1>16, <1>17 DEF Resolving, r, y
<1>19. QED
  BY <1>18 DEF Walking
-----------------------------------------------------------------------------

(* What the name at the head needs of the frame that is open. *)
FitsHere ==
    /\ R!This.type \in {"Identifier", "Assign"} =>
           nodes'[R!Here].slot \in 0 .. scopes'[Len(scopes)].nextSlot - 1
    /\ R!This.type = "Call" =>
           /\ R!This.name \in DOMAIN functionArity
           /\ functionArity[R!This.name] = Len(R!This.kids)
    /\ R!This.type = "Return" => Len(scopes) = 2

(* What a handler visits next are children of the node it is at. *)
VisitsKids(items) ==
    /\ \A i \in 1 .. Len(items) :
           /\ Visitable(items[i]) /\ ~EntersFunction(items[i]) /\ ~LeavesFunction(items[i])
           /\ items[i].do \notin {"collect", "finish"}
           /\ Visits(items[i]) =>
                  Visits(Head(work)) /\ \E k \in 1 .. Len(R!This.kids) : items[i].node = R!This.kids[k]
           /\ Binds(items[i]) => Visits(Head(work)) /\ items[i].node = R!Here
    /\ Visits(Head(work)) =>
           \A k \in 1 .. Len(R!This.kids) : \E i \in 1 .. Len(items) :
               Visits(items[i]) /\ items[i].node = R!This.kids[k]

(* A step that enters and leaves no function. *)
LEMMA PlainResolves ==
    ASSUME TreesAreSound, ProgramIsSound, ResolverInvariant, SameShape, SameNames, FramesGrow,
           work # <<>>, program' = program, functionArity' = functionArity, Walking,
           Head(work).do \notin {"collect", "finish"},
           ~EntersFunction(Head(work)), ~LeavesFunction(Head(work)),
           NEW items \in Seq(ResolverItem), VisitsKids(items), work' = items \o Tail(work),
           \A n \in 1 .. Len(nodes) :
               n # R!Here \/ ~(Visits(Head(work)) \/ Binds(Head(work))) =>
                   nodes'[n].slot = nodes[n].slot,
           Visits(Head(work)) \/ Binds(Head(work)) =>
               \/ FitsHere
               \/ R!This.type = "Assign" /\ \E j \in 1 .. Len(items) :
                      Binds(items[j]) /\ items[j].node = R!Here
    PROVE  Walking'
<1>1. PICK D, p, x : Resolving(D, p, x)
  BY DEF Walking
<1>2. PICK here : here = Head(work).node
  OBVIOUS
<1>3. R!Here = here /\ R!This = nodes[here]
  BY <1>2 DEF R!This, R!Here
<1> DEFINE r == NextRoot(p, x)
<1>4. WalkAt(p, x) /\ FramesAt(p, x)
  BY <1>1 DEF Resolving
<1>5. p \in Nat /\ x \in Nat /\ p <= Len(program)
  BY <1>4 DEF WalkAt
<1>6. Visits(Head(work)) \/ Binds(Head(work)) =>
          /\ LiesIn(here, r) /\ r \in 1 .. Len(program)
          /\ Len(scopes) = 2 <=> IsFunction(r)
          /\ Len(scopes) = 2 => r = p
  BY <1>3, <1>4, HereIn
<1>7. \A q \in 1 .. p :
          Limit(q, p) \in Nat /\ Limit(q, r)' \in Nat /\ Limit(q, p) <= Limit(q, r)'
  BY <1>4, <1>5, LimitsGrow
<1>8. \A i \in 1 .. Len(items) : Visitable(items[i])
  BY DEF VisitsKids
<1>9. FramesAt(r, LeftOf(x, items))'
  BY <1>4, <1>8, PlainFrames DEF FramesGrow
<1>10. ASSUME Visits(Head(work)) \/ Binds(Head(work)), FitsHere
       PROVE  FitsIn(here, r, Limit(r, r))'
  <2>1. here \in 1 .. Len(nodes)
    <3>1. Visitable(Head(work))
      BY EmptySeq, LenProperties DEF ResolverInvariant
    <3>2. QED
      BY <1>2, <1>10, <3>1 DEF Visits, Binds, Visitable, IsNode
  <2>2. /\ nodes'[here].type = nodes[here].type /\ nodes'[here].kids = nodes[here].kids
        /\ nodes'[here].name = nodes[here].name
    BY <2>1 DEF SameShape, SameNames
  <2>3. r \in 1 .. Len(program) /\ (IsFunction(r)' <=> Len(scopes) = 2)
    BY <1>6, <1>10, SameRoots
  <2>4. Limit(r, r)' = scopes'[Len(scopes)].nextSlot
    <3>1. Len(scopes') = Len(scopes) /\ (Len(scopes) = 1 \/ Len(scopes) = 2)
      BY FrameCount DEF FramesGrow
    <3> HIDE DEF r
    <3>2. QED
      BY <2>3, <3>1 DEF Limit
  <2> HIDE DEF r
  <2>5. QED
    BY <1>3, <1>10, <2>2, <2>3, <2>4 DEF FitsHere, FitsIn
<1>11. \A i \in 1 .. Len(items) : OwnItem(items[i], r)
  <2> TAKE i \in 1 .. Len(items)
  <2>1. ASSUME Visits(items[i])
        PROVE  LiesIn(items[i].node, r)
    <3>1. Visits(Head(work)) /\ \E k \in 1 .. Len(nodes[here].kids) :
              items[i].node = nodes[here].kids[k]
      BY <1>3, <2>1 DEF VisitsKids
    <3>2. LiesIn(here, r)
      BY <1>6, <3>1
    <3>3. here \in 1 .. Len(nodes)
      <4>1. Visitable(Head(work))
        BY EmptySeq, LenProperties DEF ResolverInvariant
      <4>2. QED
        BY <1>2, <3>1, <4>1 DEF Visits, Visitable, IsNode
    <3>4. QED
      BY <3>1, <3>2, <3>3, KidsLieIn
  <2>2. ASSUME Binds(items[i])
        PROVE  LiesIn(items[i].node, r)
    BY <1>3, <1>6, <2>2 DEF VisitsKids
  <2>3. QED
    BY <2>1, <2>2 DEF OwnItem, VisitsKids
<1>12. Visits(Head(work)) \/ Binds(Head(work)) =>
           \/ FitsIn(here, r, Limit(r, r))'
           \/ nodes[here].type = "Assign" /\ \E j \in 1 .. Len(items) :
                  Binds(items[j]) /\ items[j].node = here
  BY <1>3, <1>10
<1>13. \A n \in 1 .. Len(nodes) :
           n # here \/ ~(Visits(Head(work)) \/ Binds(Head(work))) =>
               nodes'[n].slot = nodes[n].slot
  BY <1>3
<1>14. Visits(Head(work)) =>
           \A i \in 1 .. Len(nodes[here].kids) : \E j \in 1 .. Len(items) :
               Visits(items[j]) /\ items[j].node = nodes[here].kids[i]
  BY <1>3 DEF VisitsKids
<1>15. \A i \in 1 .. Len(items) : Visitable(items[i]) /\ OwnItem(items[i], r)
  BY <1>8, <1>11
<1>16. StepFits(p, r, items, here)
  BY <1>7, <1>12, <1>13, <1>14 DEF StepFits
<1>17. QED
  BY <1>1, <1>2, <1>9, <1>15, <1>16, StepResolves

LEMMA VisitResolves ==
    ASSUME TreesAreSound, ProgramIsSound, ResolverInvariant, work # <<>>, Walking,
           Visits(Head(work)), ~EntersFunction(Head(work)),
           NEW items \in Seq(ResolverItem), VisitsKids(items), R!Visit(items),
           \/ FitsHere
           \/ R!This.type = "Assign" /\ \E j \in 1 .. Len(items) :
                  Binds(items[j]) /\ items[j].node = R!Here
    PROVE  Walking'
<1>1. /\ work' = items \o Tail(work) /\ nodes' = nodes /\ scopes' = scopes
      /\ program' = program /\ functionArity' = functionArity
  BY DEF R!Visit, R!Become
<1>2. SameShape /\ SameNames
  BY <1>1 DEF SameShape, SameNames
<1>3. FramesGrow
  BY <1>1, FrameCount DEF FramesGrow
<1>4. Head(work).do \notin {"collect", "finish"} /\ ~LeavesFunction(Head(work))
  BY DEF Visits, LeavesFunction
<1>5. \A n \in 1 .. Len(nodes) : nodes'[n].slot = nodes[n].slot
  BY <1>1
<1>6. QED
  BY <1>1, <1>2, <1>3, <1>4, <1>5, PlainResolves

LEMMA SameNodesSameNames ==
    ASSUME nodes' = nodes
    PROVE  SameShape /\ SameNames
  BY DEF SameShape, SameNames
-----------------------------------------------------------------------------

LEMMA RefusalEnds ==
    ASSUME NEW span, NEW message, R!Fail(span, message)
    PROVE  resolved' # R!Running /\ resolved' # R!Finished
  BY DEF R!Fail, R!CompileError, R!Verdict, R!Running, R!Finished

(* Items for all the children of the node. *)
LEMMA AllKidsVisited ==
    ASSUME Visits(Head(work)), NEW do \in {"expression", "statement"}, NEW ids \in Seq(Nat),
           ids = R!This.kids, NEW items, items = R!Items(do, ids),
           \A i \in 1 .. Len(items) :
               Visitable(items[i]) /\ ~EntersFunction(items[i]) /\ ~LeavesFunction(items[i])
    PROVE  VisitsKids(items)
<1>1. /\ DOMAIN ids = 1 .. Len(ids) /\ Len(ids) \in Nat
      /\ items = [i \in DOMAIN ids |-> R!Item(do, ids[i])]
  BY LenProperties DEF R!Items
<1>2. Len(items) = Len(ids) /\ \A i \in 1 .. Len(ids) : items[i] = R!Item(do, ids[i])
  <2>1. Len([i \in 1 .. Len(ids) |-> R!Item(do, ids[i])]) = Len(ids)
    BY <1>1, LenProperties
  <2>2. QED
    BY <1>1, <2>1
<1>3. \A i \in 1 .. Len(ids) :
          items[i].do = do /\ items[i].node = ids[i] /\ Visits(items[i]) /\ ~Binds(items[i])
          /\ items[i].do \notin {"collect", "finish"}
  <2>1. \A v : R!Item(do, v).do = do /\ R!Item(do, v).node = v
    BY DEF R!Item
  <2>2. \A i \in 1 .. Len(ids) : items[i].do = do /\ items[i].node = ids[i]
    BY <1>2, <2>1
  <2>3. QED
    BY <2>2 DEF Visits, Binds
<1>4. QED
  BY <1>2, <1>3 DEF VisitsKids

LEMMA ResolveOperandsResolves ==
    ASSUME TreesAreSound, ProgramIsSound, ResolverInvariant, Walking, R!ResolveOperands
    PROVE  Walking'
<1>1. /\ R!Visiting("expression") /\ R!This.type \in ExpressionTypes
      /\ R!This.type \notin {"Identifier", "Assign", "Call", "Return"}
      /\ R!Visit(R!Items("expression", R!This.kids))
  BY DEF R!ResolveOperands, R!VisitingA, R!This, R!Here, ExpressionTypes
<1> DEFINE n == R!Here
<1>2. /\ work # <<>> /\ Head(work).do = "expression" /\ n \in 1 .. Len(nodes)
      /\ R!This = nodes[n]
  BY <1>1, VisitingFacts DEF Visitable, IsNode
<1> HIDE DEF n
<1>3. Visits(Head(work)) /\ ~EntersFunction(Head(work))
  BY <1>2 DEF Visits, EntersFunction
<1> DEFINE items == R!Items("expression", nodes[n].kids)
<1>4. /\ items \in Seq(ResolverItem)
      /\ \A i \in 1 .. Len(items) :
             Visitable(items[i]) /\ ~EntersFunction(items[i]) /\ ~LeavesFunction(items[i])
  BY <1>1, <1>2, KidItems
<1>5. R!Visit(items)
  BY <1>1, <1>2
<1>6. VisitsKids(items)
  <2>1. nodes[n].kids \in Seq(Nat) /\ nodes[n].kids = R!This.kids
    BY <1>2, KidFacts
  <2>2. QED
    BY <1>3, <1>4, <2>1, AllKidsVisited
<1>7. FitsHere
  BY <1>1 DEF FitsHere
<1> HIDE DEF items
<1>8. QED
  BY <1>2, <1>3, <1>4, <1>5, <1>6, <1>7, VisitResolves

LEMMA ResolveCallResolves ==
    ASSUME TreesAreSound, ProgramIsSound, ResolverInvariant, Walking, R!ResolveCall,
           resolved' = R!Running
    PROVE  Walking'
<1>1. /\ R!Visiting("expression") /\ R!This.type = "Call"
      /\ \/ \E span, message : R!Fail(span, message)
         \/ /\ R!Visit(R!Items("expression", R!This.kids))
            /\ R!This.name \in DOMAIN functionArity
            /\ Len(R!This.kids) = functionArity[R!This.name]
  BY DEF R!ResolveCall, R!VisitingA, R!This, R!Here
<1>0. ~\E span, message : R!Fail(span, message)
  BY RefusalEnds
<1> DEFINE n == R!Here
<1>2. /\ work # <<>> /\ Head(work).do = "expression" /\ n \in 1 .. Len(nodes)
      /\ R!This = nodes[n]
  BY <1>1, VisitingFacts DEF Visitable, IsNode
<1> HIDE DEF n
<1>3. Visits(Head(work)) /\ ~EntersFunction(Head(work))
  BY <1>2 DEF Visits, EntersFunction
<1> DEFINE items == R!Items("expression", nodes[n].kids)
<1>4. /\ items \in Seq(ResolverItem)
      /\ \A i \in 1 .. Len(items) :
             Visitable(items[i]) /\ ~EntersFunction(items[i]) /\ ~LeavesFunction(items[i])
  BY <1>1, <1>2, KidItems DEF ExpressionTypes
<1>5. R!Visit(items)
  BY <1>0, <1>1, <1>2
<1>6. VisitsKids(items)
  <2>1. nodes[n].kids \in Seq(Nat) /\ nodes[n].kids = R!This.kids
    BY <1>2, KidFacts
  <2>2. QED
    BY <1>3, <1>4, <2>1, AllKidsVisited
<1>7. FitsHere
  BY <1>0, <1>1 DEF FitsHere
<1> HIDE DEF items
<1>8. QED
  BY <1>2, <1>3, <1>4, <1>5, <1>6, <1>7, VisitResolves

LEMMA ResolvePrintResolves ==
    ASSUME TreesAreSound, ProgramIsSound, ResolverInvariant, Walking, R!ResolvePrint
    PROVE  Walking'
<1>1. /\ R!Visiting("statement") /\ R!This.type = "Print"
      /\ R!Visit(R!Items("expression", R!This.kids))
  BY DEF R!ResolvePrint, R!VisitingA, R!This, R!Here
<1> DEFINE n == R!Here
<1>2. /\ work # <<>> /\ Head(work).do = "statement" /\ n \in 1 .. Len(nodes)
      /\ R!This = nodes[n] /\ n = Head(work).node
  BY <1>1, VisitingFacts DEF Visitable, IsNode
<1> HIDE DEF n
<1>3. Visits(Head(work)) /\ ~EntersFunction(Head(work))
  BY <1>1, <1>2 DEF Visits, EntersFunction
<1> DEFINE items == R!Items("expression", nodes[n].kids)
<1>4. /\ items \in Seq(ResolverItem)
      /\ \A i \in 1 .. Len(items) :
             Visitable(items[i]) /\ ~EntersFunction(items[i]) /\ ~LeavesFunction(items[i])
  BY <1>1, <1>2, KidItems
<1>5. R!Visit(items)
  BY <1>1, <1>2
<1>6. VisitsKids(items)
  <2>1. nodes[n].kids \in Seq(Nat) /\ nodes[n].kids = R!This.kids
    BY <1>2, KidFacts
  <2>2. QED
    BY <1>3, <1>4, <2>1, AllKidsVisited
<1>7. FitsHere
  BY <1>1 DEF FitsHere
<1> HIDE DEF items
<1>8. QED
  BY <1>2, <1>3, <1>4, <1>5, <1>6, <1>7, VisitResolves

LEMMA ResolveReturnResolves ==
    ASSUME TreesAreSound, ProgramIsSound, ResolverInvariant, Walking, R!ResolveReturn,
           resolved' = R!Running
    PROVE  Walking'
<1>1. /\ R!Visiting("statement") /\ R!This.type = "Return"
      /\ \/ \E span, message : R!Fail(span, message)
         \/ Len(scopes) # 1 /\ R!Visit(R!Items("expression", R!This.kids))
  BY DEF R!ResolveReturn, R!VisitingA, R!This, R!Here
<1>0. ~\E span, message : R!Fail(span, message)
  BY RefusalEnds
<1> DEFINE n == R!Here
<1>2. /\ work # <<>> /\ Head(work).do = "statement" /\ n \in 1 .. Len(nodes)
      /\ R!This = nodes[n] /\ n = Head(work).node
  BY <1>1, VisitingFacts DEF Visitable, IsNode
<1> HIDE DEF n
<1>3. Visits(Head(work)) /\ ~EntersFunction(Head(work))
  BY <1>1, <1>2 DEF Visits, EntersFunction
<1> DEFINE items == R!Items("expression", nodes[n].kids)
<1>4. /\ items \in Seq(ResolverItem)
      /\ \A i \in 1 .. Len(items) :
             Visitable(items[i]) /\ ~EntersFunction(items[i]) /\ ~LeavesFunction(items[i])
  BY <1>1, <1>2, KidItems
<1>5. R!Visit(items)
  BY <1>0, <1>1, <1>2
<1>6. VisitsKids(items)
  <2>1. nodes[n].kids \in Seq(Nat) /\ nodes[n].kids = R!This.kids
    BY <1>2, KidFacts
  <2>2. QED
    BY <1>3, <1>4, <2>1, AllKidsVisited
<1>7. FitsHere
  BY <1>0, <1>1, FrameCount DEF FitsHere
<1> HIDE DEF items
<1>8. QED
  BY <1>2, <1>3, <1>4, <1>5, <1>6, <1>7, VisitResolves
-----------------------------------------------------------------------------

(* What each handler writes onto a node, and that it writes nothing else. *)
LEMMA SlotFacts ==
    ASSUME TreesAreSound, NEW n \in 1 .. Len(nodes), NEW slot \in Int,
           nodes' = [nodes EXCEPT ![n].slot = slot]
    PROVE  /\ SameNames /\ nodes'[n].slot = slot
           /\ \A m \in 1 .. Len(nodes) :
                  /\ m # n => nodes'[m].slot = nodes[m].slot
                  /\ nodes'[m].frameSize = nodes[m].frameSize
<1> DEFINE node == [nodes[n] EXCEPT !.slot = slot]
<1>1. nodes[n] \in TreeNode /\ nodes \in Seq(TreeNode)
  BY ElementOfSeq DEF TreesAreSound
<1>2. /\ node \in TreeNode /\ node.name = nodes[n].name /\ node.slot = slot
      /\ node.parameters = nodes[n].parameters /\ node.frameSize = nodes[n].frameSize
  BY <1>1 DEF TreeNode
<1>3. nodes' = [nodes EXCEPT ![n] = node]
  OBVIOUS
<1> HIDE DEF node
<1>4. \A j \in 1 .. Len(nodes) : nodes'[j] = IF j = n THEN node ELSE nodes[j]
  BY <1>1, <1>2, <1>3, ExceptSeq
<1>5. QED
  BY <1>2, <1>4 DEF SameNames

LEMMA SizeFacts ==
    ASSUME TreesAreSound, NEW n \in 1 .. Len(nodes), NEW size \in Nat,
           nodes' = [nodes EXCEPT ![n].frameSize = size]
    PROVE  /\ SameNames /\ nodes'[n].frameSize = size
           /\ \A m \in 1 .. Len(nodes) :
                  /\ nodes'[m].slot = nodes[m].slot
                  /\ m # n => nodes'[m].frameSize = nodes[m].frameSize
<1> DEFINE node == [nodes[n] EXCEPT !.frameSize = size]
<1>1. nodes[n] \in TreeNode /\ nodes \in Seq(TreeNode)
  BY ElementOfSeq DEF TreesAreSound
<1>2. /\ node \in TreeNode /\ node.name = nodes[n].name /\ node.slot = nodes[n].slot
      /\ node.parameters = nodes[n].parameters /\ node.frameSize = size
  BY <1>1 DEF TreeNode
<1>3. nodes' = [nodes EXCEPT ![n] = node]
  OBVIOUS
<1> HIDE DEF node
<1>4. \A j \in 1 .. Len(nodes) : nodes'[j] = IF j = n THEN node ELSE nodes[j]
  BY <1>1, <1>2, <1>3, ExceptSeq
<1>5. QED
  BY <1>2, <1>4 DEF SameNames

LEMMA ParameterFacts ==
    ASSUME TreesAreSound, NEW n \in 1 .. Len(nodes),
           nodes' = [nodes EXCEPT ![n].parameters =
                        [i \in DOMAIN @ |-> [@[i] EXCEPT !.slot = i - 1]]]
    PROVE  /\ SameNames
           /\ \A m \in 1 .. Len(nodes) :
                  nodes'[m].slot = nodes[m].slot /\ nodes'[m].frameSize = nodes[m].frameSize
<1> DEFINE old == nodes[n].parameters
           Numbered(i) == [old[i] EXCEPT !.slot = i - 1]
           new == [i \in DOMAIN old |-> Numbered(i)]
           node == [nodes[n] EXCEPT !.parameters = new]
<1>1. nodes[n] \in TreeNode /\ nodes \in Seq(TreeNode)
  BY ElementOfSeq DEF TreesAreSound
<1>2. old \in Seq(Param)
  BY <1>1 DEF TreeNode
<1>3. new \in Seq(Param) /\ Len(new) = Len(old)
  <2>1. DOMAIN old = 1 .. Len(old) /\ Len(old) \in Nat
    BY <1>2, LenProperties
  <2>2. ASSUME NEW i \in 1 .. Len(old) PROVE Numbered(i) \in Param
    <3>1. old[i] \in Param
      BY <1>2, ElementOfSeq
    <3> HIDE DEF old
    <3>2. QED
      BY <3>1, SMTT(30) DEF Param
  <2> HIDE DEF Numbered, old
  <2>3. [i \in 1 .. Len(old) |-> Numbered(i)] \in Seq(Param)
    BY <2>1, <2>2, IsASeq
  <2>4. Len([i \in 1 .. Len(old) |-> Numbered(i)]) = Len(old)
    BY <2>1, <2>3, LenProperties
  <2>5. QED
    BY <2>1, <2>3, <2>4
<1>4. nodes' = [nodes EXCEPT ![n] = node]
  OBVIOUS
<1> HIDE DEF new
<1>5. /\ node \in TreeNode /\ node.name = nodes[n].name /\ node.slot = nodes[n].slot
      /\ node.parameters = new /\ node.frameSize = nodes[n].frameSize
  BY <1>1, <1>3 DEF TreeNode
<1> HIDE DEF node, old
<1>6. \A j \in 1 .. Len(nodes) : nodes'[j] = IF j = n THEN node ELSE nodes[j]
  BY <1>1, <1>4, <1>5, ExceptSeq
<1>7. Len(node.parameters) = Len(nodes[n].parameters)
  BY <1>3, <1>5 DEF old
<1>8. QED
  BY <1>5, <1>6, <1>7 DEF SameNames

(* The innermost frame replaced by one that is as large or larger. *)
LEMMA FrameReplacedGrows ==
    ASSUME ResolverInvariant, NEW f, IsFrame(f), f.nextSlot >= R!Frame.nextSlot,
           scopes' = Append(R!Front(scopes), f),
           \A n \in 1 .. Len(nodes) : nodes'[n].frameSize = nodes[n].frameSize
    PROVE  FramesGrow /\ scopes'[Len(scopes)].nextSlot = f.nextSlot
<1>1. PICK S : scopes \in Seq(S)
  BY DEF ResolverInvariant
<1>2. \A i \in 1 .. Len(scopes) : IsFrame(scopes[i])
  BY DEF ResolverInvariant
<1>3. /\ Len(scopes') = Len(scopes) /\ scopes'[Len(scopes)] = f
      /\ \A i \in 1 .. Len(scopes) - 1 : scopes'[i] = scopes[i]
  BY <1>1, <1>2, LastFrame, FrameReplaced
<1>4. f.nextSlot \in Nat
  BY FrameFacts
<1>5. /\ Len(scopes) = 1 \/ Len(scopes) = 2
      /\ \A i \in 1 .. Len(scopes) : scopes[i].nextSlot \in Nat
  BY FrameCount
<1>6. R!Frame = scopes[Len(scopes)]
  BY LastFrame
<1>7. ASSUME NEW i \in 1 .. Len(scopes)
      PROVE  scopes'[i].nextSlot \in Nat /\ scopes'[i].nextSlot >= scopes[i].nextSlot
  <2>1. CASE i = Len(scopes)
    BY <1>3, <1>4, <1>6, <2>1
  <2>2. CASE i # Len(scopes)
    <3>1. i \in 1 .. Len(scopes) - 1
      BY <1>5, <2>2
    <3>2. QED
      BY <1>3, <1>5, <3>1
  <2>3. QED
    BY <2>1, <2>2
<1>8. QED
  BY <1>3, <1>7 DEF FramesGrow

LEMMA ResolveAssignResolves ==
    ASSUME TreesAreSound, ProgramIsSound, ResolverInvariant, Walking, R!ResolveAssign
    PROVE  Walking'
<1> DEFINE n == R!Here
           value == nodes[n].kids[1]
           first == R!Item("expression", value)
           second == R!Item("declare or bind", n)
           items == <<first, second>>
<1>1. /\ R!Visiting("statement") /\ nodes[n].type = "Assign" /\ R!Visit(items)
  BY DEF R!ResolveAssign, R!VisitingA, R!This, R!Here
<1>2. /\ work # <<>> /\ Head(work).do = "statement" /\ n \in 1 .. Len(nodes)
      /\ R!This = nodes[n] /\ n = Head(work).node
  BY <1>1, VisitingFacts DEF Visitable, IsNode
<1>20. n = R!Here
  OBVIOUS
<1> HIDE DEF n
<1>3. Visits(Head(work)) /\ ~EntersFunction(Head(work))
  BY <1>1, <1>2 DEF Visits, EntersFunction
<1>4. value \in 1 .. Len(nodes) /\ KindOf(nodes[value].type) = "E" /\ Len(nodes[n].kids) = 1
  <2>0. KidCounts("Assign") = {1} /\ KidKind("Assign", 1) = "E"
    BY DEF KidCounts, KidKind
  <2>1. Len(nodes[n].kids) = 1
    <3>1. Len(nodes[n].kids) \in KidCounts(nodes[n].type)
      BY <1>2, KidFacts
    <3>2. QED
      BY <1>1, <2>0, <3>1
  <2>2. 1 \in 1 .. Len(nodes[n].kids)
    BY <2>1
  <2>3. QED
    BY <1>1, <1>2, <2>0, <2>1, <2>2, KidFacts DEF IsNode
<1>5. /\ first \in ResolverItem /\ Visitable(first)
      /\ ~EntersFunction(first) /\ ~LeavesFunction(first)
  BY <1>4, SingleItems
<1>6. /\ second \in ResolverItem /\ Visitable(second)
      /\ ~EntersFunction(second) /\ ~LeavesFunction(second)
  BY <1>1, <1>2, SingleItems
<1>7. /\ first.do = "expression" /\ first.node = value
      /\ second.do = "declare or bind" /\ second.node = n
  BY DEF R!Item
<1>8. R!Visit(items)
  BY <1>1
<1>9. value = nodes[n].kids[1]
  OBVIOUS
<1> HIDE DEF first, second, value
<1>10. /\ items \in Seq(ResolverItem) /\ Len(items) = 2 /\ items[1] = first /\ items[2] = second
  BY <1>5, <1>6
<1> HIDE DEF items
<1>11. VisitsKids(items)
  <2>1. \A i \in 1 .. Len(items) : i = 1 \/ i = 2
    BY <1>10
  <2>2. 1 \in 1 .. Len(R!This.kids) /\ R!This.kids[1] = value
        /\ \A k \in 1 .. Len(R!This.kids) : k = 1
    BY <1>2, <1>4, <1>9
  <2>3. /\ Visits(first) /\ ~Binds(first) /\ ~Visits(second)
        /\ first.do \notin {"collect", "finish"} /\ second.do \notin {"collect", "finish"}
    BY <1>7 DEF Visits, Binds
  <2>4. ASSUME NEW i \in 1 .. Len(items)
        PROVE  /\ Visitable(items[i]) /\ ~EntersFunction(items[i]) /\ ~LeavesFunction(items[i])
               /\ items[i].do \notin {"collect", "finish"}
               /\ Visits(items[i]) => items[i].node = R!This.kids[1]
               /\ Binds(items[i]) => items[i].node = R!Here
    <3>1. CASE i = 1
      BY <1>5, <1>7, <1>10, <2>2, <2>3, <3>1
    <3>2. CASE i = 2
      BY <1>6, <1>7, <1>10, <1>20, <2>3, <3>2
    <3>3. QED
      BY <2>1, <3>1, <3>2
  <2>5. 1 \in 1 .. Len(items) /\ Visits(items[1]) /\ items[1].node = R!This.kids[1]
    <3>1. 1 \in 1 .. Len(items)
      BY <1>10
    <3>2. items[1] = first /\ first.node = value /\ Visits(first)
      BY <1>7, <1>10, <2>3
    <3>3. Visits(items[1]) /\ items[1].node = value
      BY ONLY <3>2
    <3>4. QED
      BY <2>2, <3>1, <3>3
  <2>6. QED
    BY <1>3, <2>2, <2>4, <2>5 DEF VisitsKids
<1>12. R!This.type = "Assign" /\ \E j \in 1 .. Len(items) :
           Binds(items[j]) /\ items[j].node = R!Here
  <2>0. 2 \in 1 .. Len(items)
    BY <1>10
  <2>3. items[2] = second /\ Binds(second) /\ second.node = n
    BY <1>7, <1>10 DEF Binds
  <2>4. Binds(items[2]) /\ items[2].node = n
    BY ONLY <2>3
  <2>1. 2 \in 1 .. Len(items) /\ Binds(items[2]) /\ items[2].node = R!Here
    BY <1>20, <2>0, <2>4
  <2>2. QED
    BY <1>1, <1>2, <2>1
<1>13. QED
  BY <1>2, <1>3, <1>8, <1>10, <1>11, <1>12, VisitResolves

(* A name that is written, a scope that is closed: nothing more to visit. *)
LEMMA NothingVisited ==
    ASSUME ~Visits(Head(work)) \/ Len(R!This.kids) = 0
    PROVE  VisitsKids(<<>>)
<1> DEFINE none == <<>>
<1>1. Len(none) = 0
  OBVIOUS
<1> HIDE DEF none
<1>2. VisitsKids(none)
  BY <1>1 DEF VisitsKids
<1>3. QED
  BY <1>2 DEF none

LEMMA ResolveIdentifierResolves ==
    ASSUME TreesAreSound, ProgramIsSound, ResolverInvariant, Walking, R!ResolveIdentifier,
           resolved' = R!Running
    PROVE  Walking'
<1> DEFINE n == R!Here
           slot == R!Lookup(nodes[n].name)
           none == <<>>
<1>1. /\ R!Visiting("expression") /\ nodes[n].type = "Identifier"
      /\ \/ \E span, message : R!Fail(span, message)
         \/ /\ slot # R!UnresolvedSlot
            /\ nodes' = [nodes EXCEPT ![n].slot = slot]
            /\ work' = none \o Tail(work)
            /\ scopes' = scopes /\ program' = program /\ functionArity' = functionArity
  BY DEF R!ResolveIdentifier, R!VisitingA, R!This, R!Become, R!Here
<1>2. /\ work # <<>> /\ Head(work).do = "expression" /\ n \in 1 .. Len(nodes)
      /\ R!This = nodes[n]
  BY <1>1, VisitingFacts DEF Visitable, IsNode
<1>3. ~(\E span, message : R!Fail(span, message))
  BY RefusalEnds
<1>4. slot \in {-1} \cup 0 .. R!Frame.nextSlot - 1 /\ R!Frame = scopes[Len(scopes)]
      /\ R!Frame.nextSlot \in Nat
  BY LookupFits, LastFrame
<1>5. none \in Seq(ResolverItem)
  OBVIOUS
<1>6. Len(R!This.kids) = 0
  <2>1. KidCounts("Identifier") = {0}
    BY DEF KidCounts
  <2>2. QED
    BY <1>1, <1>2, <2>1, KidFacts
<1>7. VisitsKids(none)
  BY <1>6, NothingVisited
<1>8. n = R!Here
  OBVIOUS
<1> HIDE DEF n, slot, none
<1>9. /\ slot \in 0 .. scopes[Len(scopes)].nextSlot - 1 /\ slot \in Int
  BY <1>1, <1>3, <1>4 DEF R!UnresolvedSlot
<1>10. SameShape /\ SameNames /\ nodes'[n].slot = slot
       /\ \A m \in 1 .. Len(nodes) :
              /\ m # n => nodes'[m].slot = nodes[m].slot
              /\ nodes'[m].frameSize = nodes[m].frameSize
  BY <1>1, <1>2, <1>3, <1>9, SlotWritten, SlotFacts
<1>11. FramesGrow
  BY <1>1, <1>3, <1>10, FrameCount DEF FramesGrow
<1>12. FitsHere
  BY <1>1, <1>2, <1>3, <1>8, <1>9, <1>10 DEF FitsHere
<1>13. /\ Head(work).do \notin {"collect", "finish"}
       /\ ~EntersFunction(Head(work)) /\ ~LeavesFunction(Head(work))
  BY <1>2 DEF EntersFunction, LeavesFunction
<1>14. \A m \in 1 .. Len(nodes) :
           m # R!Here \/ ~(Visits(Head(work)) \/ Binds(Head(work))) =>
               nodes'[m].slot = nodes[m].slot
  BY <1>2, <1>8, <1>10 DEF Visits
<1>15. QED
  BY <1>1, <1>2, <1>3, <1>5, <1>7, <1>10, <1>11, <1>12, <1>13, <1>14, PlainResolves

LEMMA DeclareOrBindResolves ==
    ASSUME TreesAreSound, ProgramIsSound, ResolverInvariant, Walking, R!DeclareOrBind
    PROVE  Walking'
<1> DEFINE n == R!Here
           name == nodes[n].name
           existing == R!Lookup(name)
           slot == IF existing # R!UnresolvedSlot THEN existing ELSE R!Frame.nextSlot
           none == <<>>
<1>1. /\ R!Visiting("declare or bind")
      /\ nodes' = [nodes EXCEPT ![n].slot = slot]
      /\ work' = none \o Tail(work) /\ program' = program /\ functionArity' = functionArity
      /\ \/ scopes' = scopes /\ existing # R!UnresolvedSlot
         \/ /\ scopes' = Append(R!Front(scopes), R!Declare(R!Frame, name))
            /\ existing = R!UnresolvedSlot
  BY DEF R!DeclareOrBind, R!This, R!Become, R!WithFrame
<1>2. /\ work # <<>> /\ Head(work).do = "declare or bind" /\ n \in 1 .. Len(nodes)
      /\ R!This = nodes[n] /\ nodes[n].type = "Assign"
  BY <1>1, VisitingFacts DEF Visitable, IsNode
<1>3. existing \in {-1} \cup 0 .. R!Frame.nextSlot - 1 /\ R!Frame = scopes[Len(scopes)]
      /\ R!Frame.nextSlot \in Nat /\ IsFrame(R!Frame)
  BY LookupFits, LastFrame
<1>4. name \in Names
  BY <1>2, KidFacts
<1>5. none \in Seq(ResolverItem)
  OBVIOUS
<1>6. slot = (IF existing # -1 THEN existing ELSE R!Frame.nextSlot) /\ n = R!Here
  BY DEF R!UnresolvedSlot
<1>7. ~Visits(Head(work)) /\ VisitsKids(none)
  <2>1. ~Visits(Head(work))
    BY <1>2 DEF Visits
  <2>2. QED
    BY <2>1, NothingVisited
<1> HIDE DEF n, slot, none, name, existing
<1>8. slot \in Int
  BY <1>3, <1>6
<1>9. SameShape /\ SameNames /\ nodes'[n].slot = slot
      /\ \A m \in 1 .. Len(nodes) :
             /\ m # n => nodes'[m].slot = nodes[m].slot
             /\ nodes'[m].frameSize = nodes[m].frameSize
  BY <1>1, <1>2, <1>8, SlotWritten, SlotFacts
<1>10. FramesGrow /\ slot \in 0 .. scopes'[Len(scopes)].nextSlot - 1
  <2>1. CASE scopes' = scopes /\ existing # R!UnresolvedSlot
    <3>1. FramesGrow
      BY <1>9, <2>1, FrameCount DEF FramesGrow
    <3>2. QED
      BY <1>3, <1>6, <2>1, <3>1 DEF R!UnresolvedSlot
  <2>2. CASE /\ scopes' = Append(R!Front(scopes), R!Declare(R!Frame, name))
             /\ existing = R!UnresolvedSlot
    <3> DEFINE f == R!Declare(R!Frame, name)
    <3>1. IsFrame(f) /\ f.nextSlot = R!Frame.nextSlot + 1
      BY <1>3, <1>4, DeclaredFrame
    <3> HIDE DEF f
    <3>2. FramesGrow /\ scopes'[Len(scopes)].nextSlot = f.nextSlot
      <4>1. f.nextSlot >= R!Frame.nextSlot
        BY <1>3, <3>1
      <4>2. scopes' = Append(R!Front(scopes), f)
        BY <2>2 DEF f
      <4>3. QED
        BY <1>9, <3>1, <4>1, <4>2, FrameReplacedGrows
    <3>3. slot = R!Frame.nextSlot
      BY <1>6, <2>2 DEF R!UnresolvedSlot
    <3>4. QED
      BY <1>3, <3>1, <3>2, <3>3
  <2>3. QED
    BY <1>1, <2>1, <2>2
<1>11. FitsHere
  BY <1>2, <1>6, <1>9, <1>10 DEF FitsHere
<1>12. /\ Head(work).do \notin {"collect", "finish"}
       /\ ~EntersFunction(Head(work)) /\ ~LeavesFunction(Head(work))
  BY <1>2 DEF EntersFunction, LeavesFunction
<1>13. \A m \in 1 .. Len(nodes) :
           m # R!Here \/ ~(Visits(Head(work)) \/ Binds(Head(work))) =>
               nodes'[m].slot = nodes[m].slot
  BY <1>2, <1>6, <1>9 DEF Binds
<1>14. QED
  BY <1>1, <1>2, <1>5, <1>7, <1>9, <1>10, <1>11, <1>12, <1>13, PlainResolves
LEMMA ResolveBlockResolves ==
    ASSUME TreesAreSound, ProgramIsSound, ResolverInvariant, Walking, R!ResolveBlock
    PROVE  Walking'
<1> DEFINE n == R!Here
           frame == [R!Frame EXCEPT !.scopes = Append(@, R!EmptyScope)]
           first == R!Items("statement", nodes[n].kids)
           last == R!Item("pop scope", n)
           items == Append(first, last)
<1>1. /\ R!Visiting("statement") /\ nodes[n].type = "Block"
      /\ scopes' = Append(R!Front(scopes), frame)
      /\ work' = items \o Tail(work) /\ nodes' = nodes /\ program' = program
      /\ functionArity' = functionArity
  BY DEF R!ResolveBlock, R!VisitingA, R!This, R!Here, R!Become, R!WithFrame
<1>2. /\ work # <<>> /\ Head(work).do = "statement" /\ n \in 1 .. Len(nodes)
      /\ R!This = nodes[n] /\ n = Head(work).node
  BY <1>1, VisitingFacts DEF Visitable, IsNode
<1>3. Visits(Head(work)) /\ ~EntersFunction(Head(work)) /\ ~LeavesFunction(Head(work))
      /\ Head(work).do \notin {"collect", "finish"}
  BY <1>1, <1>2 DEF Visits, EntersFunction, LeavesFunction
<1>4. IsFrame(frame) /\ frame.nextSlot = R!Frame.nextSlot /\ R!Frame.nextSlot \in Nat
  BY LastFrame, OpenedFrame
<1> HIDE DEF n, frame
<1>5. /\ first \in Seq(ResolverItem)
      /\ \A i \in 1 .. Len(first) :
             Visitable(first[i]) /\ ~EntersFunction(first[i]) /\ ~LeavesFunction(first[i])
  BY <1>1, <1>2, KidItems
<1>6. /\ last \in ResolverItem /\ Visitable(last)
      /\ ~EntersFunction(last) /\ ~LeavesFunction(last)
  BY <1>2, SingleItems
<1>7. ~Visits(last) /\ ~Binds(last) /\ last.do \notin {"collect", "finish"}
  BY DEF R!Item, Visits, Binds
<1>8. VisitsKids(first)
  <2>1. nodes[n].kids \in Seq(Nat) /\ nodes[n].kids = R!This.kids
    BY <1>2, KidFacts
  <2>2. QED
    BY <1>3, <1>5, <2>1, AllKidsVisited
<1> HIDE DEF first, last
<1>9. /\ items \in Seq(ResolverItem) /\ Len(items) = Len(first) + 1
      /\ \A i \in 1 .. Len(first) : items[i] = first[i]
      /\ items[Len(first) + 1] = last /\ Len(first) \in Nat
  BY <1>5, <1>6, AppendProperties, LenProperties
<1> HIDE DEF items
<1>10. VisitsKids(items)
  <2>1. \A i \in 1 .. Len(items) :
            (i \in 1 .. Len(first) /\ items[i] = first[i]) \/ items[i] = last
    BY <1>9
  <2>2. \A i \in 1 .. Len(first) : i \in 1 .. Len(items) /\ items[i] = first[i]
    BY <1>9
  <2>3. ASSUME NEW i \in 1 .. Len(items)
        PROVE  /\ Visitable(items[i]) /\ ~EntersFunction(items[i]) /\ ~LeavesFunction(items[i])
               /\ items[i].do \notin {"collect", "finish"}
               /\ Visits(items[i]) =>
                      \E k \in 1 .. Len(R!This.kids) : items[i].node = R!This.kids[k]
               /\ Binds(items[i]) => items[i].node = R!Here
    <3>1. CASE i \in 1 .. Len(first) /\ items[i] = first[i]
      <4> DEFINE w == items[i]
      <4>1. w = first[i]
        BY <3>1
      <4> HIDE DEF w
      <4>2. QED
        BY <1>8, <3>1, <4>1 DEF VisitsKids, w
    <3>2. CASE items[i] = last
      BY <1>6, <1>7, <3>2
    <3>3. QED
      BY <2>1, <3>1, <3>2
  <2>4. ASSUME NEW k \in 1 .. Len(R!This.kids)
        PROVE  \E i \in 1 .. Len(items) : Visits(items[i]) /\ items[i].node = R!This.kids[k]
    <3>1. PICK i \in 1 .. Len(first) : Visits(first[i]) /\ first[i].node = R!This.kids[k]
      BY <1>3, <1>8 DEF VisitsKids
    <3>2. i \in 1 .. Len(items) /\ items[i] = first[i]
      BY <2>2
    <3>3. QED
      BY <3>1, <3>2
  <2>5. QED
    BY <1>3, <2>3, <2>4 DEF VisitsKids
<1>11. SameShape /\ SameNames
  BY <1>1, SameNodesSameNames
<1>12. FramesGrow
  <2>1. frame.nextSlot >= R!Frame.nextSlot
    BY <1>4
  <2>2. QED
    BY <1>1, <1>4, <2>1, FrameReplacedGrows
<1>13. FitsHere
  BY <1>1, <1>2 DEF FitsHere
<1>14. \A m \in 1 .. Len(nodes) : nodes'[m].slot = nodes[m].slot
  BY <1>1
<1>15. QED
  BY <1>1, <1>2, <1>3, <1>9, <1>10, <1>11, <1>12, <1>13, <1>14, PlainResolves

LEMMA PopScopeResolves ==
    ASSUME TreesAreSound, ProgramIsSound, ResolverInvariant, Walking, R!PopScope
    PROVE  Walking'
<1> DEFINE frame == R!CloseScope(R!Frame)
           none == <<>>
<1>1. /\ R!Visiting("pop scope")
      /\ scopes' = Append(R!Front(scopes), frame)
      /\ work' = none \o Tail(work) /\ nodes' = nodes /\ program' = program
      /\ functionArity' = functionArity
  BY DEF R!PopScope, R!Become, R!WithFrame
<1>2. work # <<>> /\ Head(work).do = "pop scope"
  BY <1>1, VisitingFacts
<1>3. /\ ~Visits(Head(work)) /\ ~Binds(Head(work))
      /\ ~EntersFunction(Head(work)) /\ ~LeavesFunction(Head(work))
      /\ Head(work).do \notin {"collect", "finish"}
  BY <1>2 DEF Visits, Binds, EntersFunction, LeavesFunction
<1>4. IsFrame(frame) /\ frame.nextSlot = R!Frame.nextSlot /\ R!Frame.nextSlot \in Nat
  BY LastFrame, ClosedFrame
<1>5. none \in Seq(ResolverItem) /\ VisitsKids(none)
  BY <1>3, NothingVisited
<1> HIDE DEF frame, none
<1>6. SameShape /\ SameNames
  BY <1>1, SameNodesSameNames
<1>7. FramesGrow
  <2>1. frame.nextSlot >= R!Frame.nextSlot
    BY <1>4
  <2>2. QED
    BY <1>1, <1>4, <2>1, FrameReplacedGrows
<1>8. \A m \in 1 .. Len(nodes) : nodes'[m].slot = nodes[m].slot
  BY <1>1
<1>9. QED
  BY <1>1, <1>2, <1>3, <1>5, <1>6, <1>7, <1>8, PlainResolves

LEMMA ResolveConditionalResolves ==
    ASSUME TreesAreSound, ProgramIsSound, ResolverInvariant, Walking, R!ResolveConditional
    PROVE  Walking'
<1> DEFINE n == R!Here
           kids == nodes[n].kids
           head == Head(kids)
           tail == Tail(kids)
           first == R!Item("expression", head)
           rest == R!Items("statement", tail)
           items == <<first>> \o rest
<1>1. R!Visiting("statement") /\ nodes[n].type \in {"If", "While"} /\ R!Visit(items)
  BY DEF R!ResolveConditional, R!VisitingA, R!This, R!Here
<1>2. /\ work # <<>> /\ Head(work).do = "statement" /\ n \in 1 .. Len(nodes)
      /\ R!This = nodes[n] /\ n = Head(work).node
  BY <1>1, VisitingFacts DEF Visitable, IsNode
<1> HIDE DEF n
<1>3. Visits(Head(work)) /\ ~EntersFunction(Head(work))
  BY <1>1, <1>2 DEF Visits, EntersFunction
<1>4. /\ kids \in Seq(Nat) /\ Len(kids) \in KidCounts(nodes[n].type)
      /\ \A i \in 1 .. Len(kids) :
             IsNode(kids[i]) /\ KindOf(nodes[kids[i]].type) = KidKind(nodes[n].type, i)
  BY <1>2, KidFacts
<1>5. /\ \A type \in {"If", "While"} : KidKind(type, 1) = "E"
      /\ \A type \in {"If", "While"} : \A i \in Nat : i > 1 => KidKind(type, i) = "S"
  BY DEF KidKind
<1>6. KidCounts("If") = {2, 3} /\ KidCounts("While") = {2}
  BY DEF KidCounts
<1>7. Len(kids) \in Nat /\ Len(kids) >= 2 /\ R!This.kids = kids
  BY <1>1, <1>2, <1>4, <1>6
<1> HIDE DEF kids
<1>8. /\ head = kids[1] /\ tail \in Seq(Nat) /\ Len(tail) = Len(kids) - 1
      /\ \A i \in 1 .. Len(tail) : tail[i] = kids[i + 1]
  BY <1>4, <1>7, HeadTailProperties, EmptySeq
<1>9. head \in 1 .. Len(nodes) /\ KindOf(nodes[head].type) = "E"
  BY <1>1, <1>4, <1>5, <1>7, <1>8 DEF IsNode
<1> HIDE DEF head, tail
<1>10. \A i \in 1 .. Len(tail) : IsNode(tail[i]) /\ KindOf(nodes[tail[i]].type) = "S"
  <2> TAKE i \in 1 .. Len(tail)
  <2>1. i + 1 \in 1 .. Len(kids) /\ i + 1 \in Nat /\ i + 1 > 1 /\ tail[i] = kids[i + 1]
    BY <1>7, <1>8
  <2>2. QED
    BY <1>1, <1>4, <1>5, <2>1
<1>11. /\ first \in ResolverItem /\ Visitable(first)
       /\ ~EntersFunction(first) /\ ~LeavesFunction(first)
  BY <1>9, SingleItems
<1>21. first.do = "expression" /\ first.node = head
  BY DEF R!Item
<1> DEFINE s == "statement"
<1>12. /\ s \in {"expression", "statement"}
       /\ \A i \in 1 .. Len(tail) :
              /\ IsNode(tail[i])
              /\ KindOf(nodes[tail[i]].type) = IF s = "expression" THEN "E" ELSE "S"
  BY <1>10
<1>13. rest = R!Items(s, tail) /\ s = "statement"
  OBVIOUS
<1> HIDE DEF s, first, rest
<1>14. /\ rest \in Seq(ResolverItem) /\ Len(rest) = Len(tail)
       /\ \A i \in 1 .. Len(tail) : rest[i] = R!Item(s, tail[i])
       /\ \A i \in 1 .. Len(rest) :
              Visitable(rest[i]) /\ ~EntersFunction(rest[i]) /\ ~LeavesFunction(rest[i])
  BY <1>8, <1>12, <1>13, ItemsFacts
<1>22. \A i \in 1 .. Len(rest) : rest[i].do = "statement" /\ rest[i].node = kids[i + 1]
  <2>1. \A v : R!Item(s, v).do = "statement" /\ R!Item(s, v).node = v
    BY <1>13 DEF R!Item
  <2>2. QED
    BY <1>8, <1>14, <2>1
<1> DEFINE one == <<first>>
<1>15. one \in Seq(ResolverItem) /\ Len(one) = 1 /\ one[1] = first
  BY <1>11
<1> HIDE DEF one
<1>16. items = one \o rest
  BY DEF one
<1>17. /\ items \in Seq(ResolverItem) /\ Len(items) = Len(one) + Len(rest)
       /\ Len(one) \in Nat /\ Len(rest) \in Nat
       /\ \A i \in 1 .. Len(one) + Len(rest) :
              items[i] = IF i <= Len(one) THEN one[i] ELSE rest[i - Len(one)]
  BY <1>14, <1>15, <1>16, ConcatProperties, LenProperties
<1>18. R!Visit(items)
  BY <1>1 DEF first, rest, tail, head, kids
<1> HIDE DEF items
<1>23. /\ Len(items) = Len(kids) /\ items[1] = first
       /\ \A i \in 2 .. Len(kids) : i - 1 \in 1 .. Len(rest) /\ items[i] = rest[i - 1]
  BY <1>7, <1>8, <1>14, <1>15, <1>17
<1>24. ASSUME NEW i \in 1 .. Len(kids)
       PROVE  /\ Visitable(items[i]) /\ ~EntersFunction(items[i]) /\ ~LeavesFunction(items[i])
              /\ items[i].do \in {"expression", "statement"} /\ items[i].node = kids[i]
  <2>1. CASE i = 1
    <3>1. items[i] = first /\ first.node = kids[i]
      BY <1>8, <1>21, <1>23, <2>1
    <3>2. QED
      BY <1>11, <1>21, <3>1
  <2>2. CASE i # 1
    <3>1. i \in 2 .. Len(kids) /\ (i - 1) + 1 = i
      BY <2>2
    <3>2. i - 1 \in 1 .. Len(rest) /\ items[i] = rest[i - 1]
      BY <1>23, <3>1
    <3>3. QED
      BY <1>14, <1>22, <3>1, <3>2
  <2>3. QED
    BY <2>1, <2>2
<1>19. VisitsKids(items)
  BY <1>3, <1>7, <1>23, <1>24 DEF VisitsKids, Visits, Binds
<1>25. FitsHere
  BY <1>1, <1>2 DEF FitsHere
<1>20. QED
  BY <1>2, <1>3, <1>17, <1>18, <1>19, <1>25, VisitResolves
-----------------------------------------------------------------------------

(* A declaration opens its frame as the walk reaches it, and its parameters are the
   first variables of that frame. *)
LEMMA ResolveFunctionResolves ==
    ASSUME TreesAreSound, ProgramIsSound, ResolverInvariant, Walking, R!ResolveFunction,
           resolved' = R!Running
    PROVE  Walking'
<1> DEFINE Parameters(h) == nodes[h].parameters
           Scope(h) == [p \in {Parameters(h)[i].name : i \in DOMAIN Parameters(h)} |->
                           (CHOOSE i \in DOMAIN Parameters(h) : Parameters(h)[i].name = p) - 1]
           Frame(h) == [nextSlot |-> Len(Parameters(h)), scopes |-> <<Scope(h)>>,
                        retired |-> {}]
           Items(h) == <<R!Item("statement", nodes[h].kids[1]), R!Item("end function", h)>>
           Entered(h) ==
               /\ R!Visiting("statement") /\ nodes[h].type = "Function"
               /\ \/ \E span, message : R!Fail(span, message)
                  \/ /\ scopes' = Append(scopes, Frame(h))
                     /\ nodes' = [nodes EXCEPT ![h].parameters =
                                     [i \in DOMAIN @ |-> [@[i] EXCEPT !.slot = i - 1]]]
                     /\ work' = Items(h) \o Tail(work) /\ program' = program
                     /\ functionArity' = functionArity
<1>32. Entered(R!Here)
  <2>1. R!Visiting("statement") /\ nodes[R!Here].type = "Function"
    BY DEF R!ResolveFunction, R!VisitingA, R!Here
  <2>2. \/ \E span, message : R!Fail(span, message)
        \/ /\ scopes' = Append(scopes, Frame(R!Here))
           /\ nodes' = [nodes EXCEPT ![R!Here].parameters =
                           [i \in DOMAIN @ |-> [@[i] EXCEPT !.slot = i - 1]]]
           /\ work' = Items(R!Here) \o Tail(work) /\ program' = program
           /\ functionArity' = functionArity
    BY DEF R!ResolveFunction, R!This, R!Become
  <2>3. QED
    BY <2>1, <2>2
<1> HIDE DEF Entered
<1>30. PICK n : n = R!Here /\ Entered(n)
  BY <1>32
<1> USE DEF Entered
<1> DEFINE parameters == nodes[n].parameters
           frame == Frame(n)
           body == nodes[n].kids[1]
           first == R!Item("statement", body)
           second == R!Item("end function", n)
           entries == <<first, second>>
<1>33. PICK items : items = entries
  OBVIOUS
<1>1. /\ R!Visiting("statement") /\ nodes[n].type = "Function"
      /\ \/ \E span, message : R!Fail(span, message)
         \/ /\ scopes' = Append(scopes, frame)
            /\ nodes' = [nodes EXCEPT ![n].parameters =
                            [i \in DOMAIN @ |-> [@[i] EXCEPT !.slot = i - 1]]]
            /\ work' = entries \o Tail(work) /\ program' = program
            /\ functionArity' = functionArity
  BY <1>30
<1> HIDE DEF Entered
<1>0. ~(\E span, message : R!Fail(span, message))
  BY RefusalEnds
<1>2. /\ work # <<>> /\ Head(work).do = "statement" /\ n \in 1 .. Len(nodes)
      /\ Head(work) = work[1] /\ Head(work).node = n /\ Len(work) \in Nat /\ Len(work) >= 1
  BY <1>1, <1>30, VisitingFacts DEF Visitable, IsNode
<1>3. frame.nextSlot = Len(parameters) /\ Len(parameters) \in Nat
  <2>1. parameters \in Seq(Param)
    BY <1>2, KidFacts DEF TreeNode
  <2>2. QED
    BY <2>1, LenProperties
<1>4. /\ scopes' = Append(scopes, frame) /\ work' = items \o Tail(work)
      /\ program' = program /\ functionArity' = functionArity
  BY <1>0, <1>1, <1>33
<1>5. SameShape /\ SameNames
      /\ \A m \in 1 .. Len(nodes) :
             nodes'[m].slot = nodes[m].slot /\ nodes'[m].frameSize = nodes[m].frameSize
  BY <1>0, <1>1, <1>2, ParametersWritten, ParameterFacts
<1> HIDE DEF frame, Frame, Scope
<1>6. /\ IsNode(body) /\ KindOf(nodes[body].type) = "S" /\ Len(nodes[n].kids) = 1
  <2>1. KidCounts("Function") = {1} /\ KidKind("Function", 1) = "S"
    BY DEF KidCounts, KidKind
  <2>2. Len(nodes[n].kids) = 1
    BY <1>1, <1>2, <2>1, KidFacts
  <2>3. 1 \in 1 .. Len(nodes[n].kids)
    BY <2>2
  <2>4. QED
    BY <1>1, <1>2, <2>1, <2>2, <2>3, KidFacts
<1>7. /\ first \in ResolverItem /\ Visitable(first)
      /\ ~EntersFunction(first) /\ ~LeavesFunction(first)
  BY <1>6, SingleItems DEF IsNode
<1>8. /\ second \in ResolverItem /\ Visitable(second)
      /\ ~EntersFunction(second) /\ LeavesFunction(second)
  <2>1. n \in Nat
    BY <1>2
  <2>2. QED
    BY <1>1, <1>2, <2>1 DEF R!Item, ResolverItem, Walks, Visitable, IsNode, EntersFunction,
                      LeavesFunction
<1>9. /\ first.do = "statement" /\ first.node = body /\ Visits(first) /\ ~Binds(first)
      /\ second.do = "end function" /\ second.node = n /\ ~Visits(second) /\ ~Binds(second)
  BY DEF R!Item, Visits, Binds
<1>10. body = nodes[n].kids[1]
  OBVIOUS
<1> HIDE DEF first, second, body
<1>11. /\ items \in Seq(ResolverItem) /\ Len(items) = 2 /\ items[1] = first /\ items[2] = second
       /\ \A i \in 1 .. Len(items) : i = 1 \/ i = 2
  BY <1>7, <1>8, <1>33
<1> HIDE DEF entries
<1>12. PICK D, p, x : Resolving(D, p, x)
  BY DEF Walking
<1>13. Visits(Head(work)) /\ EntersFunction(Head(work))
       /\ Head(work).do \notin {"collect", "finish"}
  BY <1>1, <1>2 DEF Visits, EntersFunction
<1>14. WalkAt(p, x) /\ FramesAt(p, x)
  BY <1>12 DEF Resolving
<1>15. /\ p \in Nat /\ x \in Nat /\ Len(program) \in Nat
       /\ x = 0 => /\ p < Len(program)
                  /\ Head(work).do = "statement" /\ Head(work).node = program[p + 1]
       /\ x >= 1 => OwnItem(Head(work), p)
  BY <1>2, <1>13, <1>14, WalkHead
<1>16. x = 0
  BY <1>13, <1>15 DEF OwnItem
<1>17. p < Len(program) /\ n = program[p + 1] /\ p + 1 \in 1 .. Len(program)
  BY <1>2, <1>15, <1>16
<1>18. NextRoot(p, x) = p + 1 /\ LeftOf(x, items) = 2
  BY <1>11, <1>16 DEF NextRoot, LeftOf
<1>19. Len(scopes) = 1
  BY <1>14, <1>16, FrameCount DEF FramesAt
<1>20. /\ Len(scopes') = 2 /\ scopes'[1] = scopes[1] /\ scopes'[2].nextSlot = Len(parameters)
  <2>1. PICK S : scopes \in Seq(S)
    BY DEF ResolverInvariant
  <2> DEFINE T == S \cup {frame}
  <2>2. scopes \in Seq(T) /\ frame \in T
    BY <2>1, SeqMonotonic
  <2> HIDE DEF T
  <2> DEFINE t == Append(scopes, frame)
  <2>3. /\ Len(t) = Len(scopes) + 1
        /\ \A i \in 1 .. Len(scopes) : t[i] = scopes[i]
        /\ t[Len(scopes) + 1] = frame
    BY <2>2, AppendProperties
  <2>4. scopes' = t
    BY <1>4
  <2> HIDE DEF t
  <2>5. QED
    BY <1>3, <1>19, <2>3, <2>4
<1>21. \A i \in 1 .. Len(items) : Visitable(items[i]) /\ OwnItem(items[i], p + 1)
  <2>1. LiesIn(body, p + 1)
    <3>1. LiesIn(n, p + 1)
      BY <1>17, RootLiesIn
    <3>2. 1 \in 1 .. Len(nodes[n].kids)
      BY <1>6
    <3>3. QED
      BY <1>2, <1>10, <3>1, <3>2, KidsLieIn
  <2>2. OwnItem(first, p + 1)
    BY <1>7, <1>9, <2>1 DEF OwnItem
  <2>3. OwnItem(second, p + 1)
    BY <1>8, <1>9, <1>17 DEF OwnItem
  <2>4. QED
    BY <1>7, <1>8, <1>11, <2>2, <2>3
<1>22. FramesAt(p + 1, 2)'
  <2>1. IsFunction(p + 1)'
    BY <1>1, <1>2, <1>4, <1>5, <1>17 DEF IsFunction, SameShape
  <2>2. work'[2] = second
    <3>1. \A i \in 1 .. Len(items) : Visitable(items[i])
      BY <1>21
    <3>2. \A i \in 1 .. Len(items) : work'[i] = items[i]
      BY <1>2, <1>4, <1>5, <1>11, <3>1, WorkReplaced
    <3>3. 2 \in 1 .. Len(items)
      BY <1>11
    <3>4. QED
      BY <1>11, <3>2, <3>3
  <2>3. work'[2].do = "end function" /\ work'[2].node = program'[p + 1]
    BY <1>4, <1>9, <1>17, <2>2
  <2>4. p + 1 # 0 /\ Len(scopes') # 1
    BY <1>15, <1>20
  <2> DEFINE y == 2
  <2>8. y # 0
    OBVIOUS
  <2>5. work'[y].do = "end function" /\ work'[y].node = program'[p + 1]
    BY <2>3
  <2> HIDE DEF y
  <2>6. FramesAt(p + 1, y)'
    BY <2>1, <2>4, <2>5, <2>8 DEF FramesAt, LeavesFunction
  <2>7. QED
    BY <2>6 DEF y
<1>23. \A q \in 1 .. p :
           Limit(q, p) \in Nat /\ Limit(q, p + 1)' \in Nat /\ Limit(q, p) <= Limit(q, p + 1)'
  <2> TAKE q \in 1 .. p
  <2>1. q \in 1 .. Len(program) /\ q # p + 1
    BY <1>15, <1>17
  <2>2. program[q] \in 1 .. Len(nodes) /\ Limit(q, p) \in Nat
    BY <2>1, ProgramFacts, LimitIsNat
  <2>3. Limit(q, p + 1)' = Limit(q, p)
    BY <1>4, <1>5, <1>19, <1>20, <2>1, <2>2 DEF Limit, IsFunction, SameShape
  <2> DEFINE a == Limit(q, p)
             b == Limit(q, p + 1)'
  <2>4. a \in Nat /\ b = a
    BY <2>2, <2>3
  <2> HIDE DEF a, b
  <2>5. a \in Nat /\ b \in Nat /\ a <= b
    BY <2>4
  <2>6. QED
    BY <2>5 DEF a, b
<1>24. Len(nodes[n].parameters) <= Limit(p + 1, p + 1)'
  <2>1. IsFunction(p + 1)'
    BY <1>1, <1>2, <1>4, <1>5, <1>17 DEF IsFunction, SameShape
  <2>2. Limit(p + 1, p + 1)' = Len(parameters)
    BY <1>20, <2>1 DEF Limit
  <2>3. QED
    BY <1>3, <2>2
<1>25. FitsIn(n, p + 1, Limit(p + 1, p + 1))'
  <2>1. nodes'[n].type = "Function"
    BY <1>1, <1>2, <1>5 DEF SameShape
  <2>2. QED
    BY <2>1 DEF FitsIn
<1>26. \A i \in 1 .. Len(nodes[n].kids) : \E j \in 1 .. Len(items) :
           Visits(items[j]) /\ items[j].node = nodes[n].kids[i]
  <2>1. \A i \in 1 .. Len(nodes[n].kids) : i = 1
    BY <1>6
  <2>2. 1 \in 1 .. Len(items)
    BY <1>11
  <2>3. Visits(items[1]) /\ items[1].node = nodes[n].kids[1]
    BY <1>9, <1>10, <1>11
  <2>4. QED
    BY <2>1, <2>2, <2>3
<1>27. StepFits(p, p + 1, items, n)
  BY <1>5, <1>23, <1>24, <1>25, <1>26 DEF StepFits
<1> DEFINE r == NextRoot(p, x)
           y == LeftOf(x, items)
<1>28. r = p + 1 /\ y = 2
  BY <1>18
<1> HIDE DEF r, y
<1>29. /\ \A i \in 1 .. Len(items) : Visitable(items[i]) /\ OwnItem(items[i], r)
       /\ FramesAt(r, y)' /\ StepFits(p, r, items, n)
  <2>1. \A i \in 1 .. Len(items) : Visitable(items[i]) /\ OwnItem(items[i], r)
    BY <1>21, <1>28
  <2>2. FramesAt(r, y)'
    BY <1>22, <1>28
  <2>3. StepFits(p, r, items, n)
    BY <1>27, <1>28
  <2>4. QED
    BY <2>1, <2>2, <2>3
<1>31. QED
  BY <1>2, <1>4, <1>5, <1>11, <1>12, <1>13, <1>29, StepResolves DEF r, y

(* Leaving a function, its frame has the size of what was given out in it. *)
LEMMA EndFunctionResolves ==
    ASSUME TreesAreSound, ProgramIsSound, ResolverInvariant, Walking, R!EndFunction
    PROVE  Walking'
<1>24. PICK n : n = R!Here
  OBVIOUS
<1> DEFINE size == R!Frame.nextSlot
           none == <<>>
<1>1. /\ R!Visiting("end function")
      /\ nodes' = [nodes EXCEPT ![n].frameSize = size]
      /\ scopes' = R!Front(scopes)
      /\ work' = none \o Tail(work) /\ program' = program /\ functionArity' = functionArity
  BY <1>24 DEF R!EndFunction, R!Become
<1>2. /\ work # <<>> /\ Head(work).do = "end function" /\ n \in 1 .. Len(nodes)
      /\ Head(work) = work[1] /\ Len(work) \in Nat /\ Len(work) >= 1 /\ n = Head(work).node
  BY <1>1, <1>24, VisitingFacts DEF Visitable, IsNode
<1>3. size \in Nat /\ size = scopes[Len(scopes)].nextSlot
  BY LastFrame
<1>4. none \in Seq(ResolverItem) /\ Len(none) = 0
  BY NoItems
<1> HIDE DEF size, none
<1>5. SameShape /\ SameNames /\ nodes'[n].frameSize = size
      /\ \A m \in 1 .. Len(nodes) :
             /\ nodes'[m].slot = nodes[m].slot
             /\ m # n => nodes'[m].frameSize = nodes[m].frameSize
  BY <1>1, <1>2, <1>3, FrameSizeWritten, SizeFacts
<1>6. PICK D, p, x : Resolving(D, p, x)
  BY DEF Walking
<1>7. /\ LeavesFunction(Head(work)) /\ ~Visits(Head(work)) /\ ~Binds(Head(work))
      /\ ~EntersFunction(Head(work)) /\ Head(work).do \notin {"collect", "finish"}
  BY <1>2 DEF LeavesFunction, Visits, Binds, EntersFunction
<1>8. WalkAt(p, x) /\ FramesAt(p, x)
  BY <1>6 DEF Resolving
<1>9. /\ p \in Nat /\ x \in Nat /\ Len(program) \in Nat
      /\ x = 0 => Head(work).do = "statement"
      /\ x >= 1 => OwnItem(Head(work), p)
  BY <1>2, <1>7, <1>8, WalkHead
<1>10. x # 0
  BY <1>2, <1>9
<1>11. n = program[p]
  <2>1. x >= 1
    BY <1>9, <1>10
  <2>2. QED
    BY <1>2, <1>7, <1>9, <2>1 DEF OwnItem
<1>12. Len(scopes) = 2
       /\ \E e \in 1 .. Len(work) :
              \A i \in 1 .. Len(work) : i # e => ~LeavesFunction(work[i])
  <2>1. 1 \in 1 .. Len(work)
    <3>1. Len(work) \in Nat /\ Len(work) >= 1
      BY <1>2
    <3>2. QED
      BY ONLY <3>1
  <2>2. LeavesFunction(work[1])
    BY <1>2, <1>7
  <2>3. QED
    BY <2>1, <2>2 DEF ResolverInvariant, FramesFollowWork
<1>13. p # 0 /\ IsFunction(p) /\ LeavesFunction(work[x])
  BY <1>8, <1>12 DEF FramesAt
<1>14. p \in 1 .. Len(program)
  <2>1. p \in 0 .. Len(program)
    BY <1>8 DEF WalkAt
  <2>2. QED
    BY <1>9, <1>13, <2>1
<1>15. x = 1
  <2>1. PICK e \in 1 .. Len(work) :
            \A i \in 1 .. Len(work) : i # e => ~LeavesFunction(work[i])
    BY <1>12
  <2>2. x \in 1 .. Len(work) /\ 1 \in 1 .. Len(work)
    <3>1. Len(work) = x + (Len(program) - p) + 1
      BY <1>8 DEF WalkAt
    <3>2. Len(work) \in Nat /\ Len(work) >= 1 /\ x \in Nat /\ Len(program) \in Nat
      BY <1>2, <1>9
    <3>3. QED
      BY ONLY <1>10, <1>14, <3>1, <3>2
  <2>3. x = e
    BY <1>13, <2>1, <2>2
  <2>4. 1 = e
    BY <1>2, <1>7, <2>1, <2>2
  <2>5. QED
    BY <2>3, <2>4
<1>16. NextRoot(p, x) = p /\ LeftOf(x, none) = 0
  BY <1>4, <1>15 DEF NextRoot, LeftOf
<1>17. Len(scopes') = 1 /\ scopes'[1] = scopes[1]
  <2>1. PICK S : scopes \in Seq(S)
    BY DEF ResolverInvariant
  <2>2. \A i \in 1 .. 1 : scopes[i] \in S
    BY <1>12, <2>1, ElementOfSeq
  <2> DEFINE a == 1
             b == Len(scopes) - 1
  <2>3. scopes' = SubSeq(scopes, a, b) /\ b = 1 /\ a = 1
    <3>1. scopes' = SubSeq(scopes, a, b)
      BY <1>1 DEF R!Front
    <3>2. b = 1
      BY <1>12
    <3>3. QED
      BY <3>1, <3>2
  <2> HIDE DEF a, b
  <2>4. a \in Int /\ b \in Int /\ (\A i \in a .. b : scopes[i] \in S) /\ a <= b /\ b - a + 1 = 1
    BY <2>2, <2>3
  <2>5. /\ Len(scopes') = 1
        /\ \A i \in 1 .. b - a + 1 : scopes'[i] = scopes[a + i - 1]
    BY <2>3, <2>4, SubSeqProperties
  <2>6. QED
    BY <2>3, <2>5
<1>18. FramesAt(p, 0)'
  BY <1>17 DEF FramesAt
<1>19. \A q \in 1 .. p :
           Limit(q, p) \in Nat /\ Limit(q, p)' \in Nat /\ Limit(q, p) <= Limit(q, p)'
  <2> TAKE q \in 1 .. p
  <2>1. q \in 1 .. Len(program)
    BY <1>9, <1>14
  <2>2. program[q] \in 1 .. Len(nodes) /\ Limit(q, p) \in Nat
    BY <2>1, ProgramFacts, LimitIsNat
  <2>3. q # p => program[q] # n
    <3>1. ASSUME q # p
          PROVE  program[q] < program[p] /\ program[q] \in Nat
      <4>1. q < p
        BY <1>9, <3>1
      <4>2. QED
        BY <1>14, <2>1, <2>2, <4>1, ProgramFacts
    <3>2. QED
      BY <1>11, <3>1
  <2>4. Limit(q, p)' = Limit(q, p)
    <3>1. CASE q = p
      <4>1. Limit(q, p) = size
        BY <1>3, <1>12, <1>13, <3>1 DEF Limit
      <4>2. IsFunction(p)' /\ nodes'[program'[p]].frameSize = size
        BY <1>1, <1>2, <1>5, <1>11, <1>13 DEF IsFunction, SameShape
      <4>3. QED
        BY <1>17, <3>1, <4>1, <4>2 DEF Limit
    <3>2. CASE q # p
      BY <1>1, <1>5, <1>17, <2>2, <2>3, <3>2 DEF Limit, IsFunction, SameShape
    <3>3. QED
      BY <3>1, <3>2
  <2> DEFINE a == Limit(q, p)
             b == Limit(q, p)'
  <2>5. a \in Nat /\ b = a
    BY <2>2, <2>4
  <2> HIDE DEF a, b
  <2>6. a \in Nat /\ b \in Nat /\ a <= b
    BY <2>5
  <2>7. QED
    BY <2>6 DEF a, b
<1>20. StepFits(p, p, none, n)
  BY <1>5, <1>7, <1>19 DEF StepFits
<1>21. \A i \in 1 .. Len(none) : Visitable(none[i]) /\ OwnItem(none[i], p)
  BY <1>4
<1> DEFINE r == NextRoot(p, x)
           y == LeftOf(x, none)
<1>22. r = p /\ y = 0
  BY <1>16
<1> HIDE DEF r, y
<1>23. /\ \A i \in 1 .. Len(none) : Visitable(none[i]) /\ OwnItem(none[i], r)
       /\ FramesAt(r, y)' /\ StepFits(p, r, none, n)
  BY <1>18, <1>20, <1>21, <1>22
<1>25. QED
  BY <1>1, <1>2, <1>4, <1>5, <1>6, <1>7, <1>23, StepResolves DEF r, y
-----------------------------------------------------------------------------

(* Before the functions are collected nothing is walked; after, no two have a name
   in common. *)
LEMMA CollectFunctionsResolves ==
    ASSUME TreesAreSound, ProgramIsSound, ResolverInvariant, Walking, R!CollectFunctions,
           resolved' = R!Running
    PROVE  Walking'
<1> DEFINE none == <<>>
           F == C!Functions
           Collects(G) ==
               /\ {i \in DOMAIN G : \E j \in 1 .. i - 1 :
                       nodes[G[j]].name = nodes[G[i]].name} = {}
               /\ functionArity' = [f \in {nodes[G[i]].name : i \in DOMAIN G} |->
                      Len(nodes[G[CHOOSE i \in DOMAIN G : nodes[G[i]].name = f]].parameters)]
<1>0. ~(\E span, message : R!Fail(span, message))
  BY RefusalEnds
<1>1. R!Functions = F
  BY DEF R!Functions, C!Functions, R!SubSequence, C!SubSequence
<1>17. R!Visiting("collect") /\ Collects(R!Functions)
       /\ work' = none \o Tail(work) /\ nodes' = nodes
       /\ scopes' = scopes /\ program' = program
  BY <1>0 DEF R!CollectFunctions, R!Become
<1> HIDE DEF Collects
<1>2. R!Visiting("collect") /\ Collects(F)
      /\ work' = none \o Tail(work) /\ nodes' = nodes
      /\ scopes' = scopes /\ program' = program
  BY <1>1, <1>17
<1>3. /\ work # <<>> /\ Head(work).do = "collect" /\ Head(work) = work[1]
      /\ Len(work) \in Nat /\ Len(work) >= 1
  BY <1>2, VisitingFacts
<1>4. none \in Seq(ResolverItem) /\ Len(none) = 0
  BY NoItems
<1>5. PICK D, p, x : Resolving(D, p, x)
  BY DEF Walking
<1>6. /\ p \in 0 .. Len(program) /\ x \in Nat /\ Len(program) \in Nat
      /\ Len(work) = x + (Len(program) - p) + 1
  BY <1>5, ProgramFacts DEF Resolving, WalkAt
<1>7. x # 0
  <2> SUFFICES ASSUME x = 0 PROVE FALSE
    OBVIOUS
  <2>1. CASE p < Len(program)
    <3>1. 1 \in 1 .. Len(program) - p
      BY <1>6, <2>1
    <3>2. work[x + 1] = R!Item("statement", program[p + 1])
      BY <1>5, <3>1 DEF Resolving, WalkAt
    <3>3. work[1] = R!Item("statement", program[p + 1])
      BY <3>2
    <3>4. work[1].do = "statement"
      BY ONLY <3>3 DEF R!Item
    <3>5. QED
      BY <1>3, <3>4
  <2>2. CASE ~(p < Len(program))
    <3>1. Len(work) = 1
      BY <1>6, <2>2
    <3>2. work[Len(work)].do = "finish"
      BY <1>5 DEF Resolving, WalkAt
    <3>3. QED
      BY <1>3, <3>1, <3>2
  <2>3. QED
    BY <2>1, <2>2
<1>8. x = 1 /\ p = 0
  <2>1. 1 \in 1 .. x
    BY <1>6, <1>7
  <2>2. OwnItem(work[1], p) \/ (work[1].do = "collect" /\ 1 = 1 /\ x = 1 /\ p = 0)
    BY <1>5, <2>1 DEF Resolving, WalkAt
  <2>3. QED
    BY <1>3, <2>2 DEF OwnItem
<1>9. Len(scopes) = 1
  BY <1>5, <1>8, FrameCount DEF Resolving, FramesAt
<1> HIDE DEF none
<1>10. /\ Len(work') = Len(work) - 1
       /\ \A i \in 1 .. Len(work) - 1 : work'[i] = work[i + 1]
  <2>1. work \in Seq(ResolverItem)
    BY DEF ResolverInvariant
  <2>2. Tail(work) \in Seq(ResolverItem) /\ Len(Tail(work)) = Len(work) - 1
        /\ \A i \in 1 .. Len(work) - 1 : Tail(work)[i] = work[i + 1]
    BY <1>3, <2>1, HeadTailProperties
  <2>3. none \o Tail(work) = Tail(work)
    BY <2>2 DEF none
  <2>4. QED
    BY <1>2, <2>2, <2>3
<1>11. WalkAt(0, 0)'
  <2>1. Len(work') = Len(program) + 1 /\ Len(work) = Len(program) + 2
    BY <1>6, <1>8, <1>10
  <2>2. work'[Len(work')].do = "finish"
    <3>1. work[Len(work)].do = "finish"
      BY <1>5 DEF Resolving, WalkAt
    <3>2. Len(work') \in 1 .. Len(work) - 1 /\ Len(work') + 1 = Len(work)
      BY <1>6, <2>1
    <3>3. QED
      BY <1>10, <3>1, <3>2
  <2>3. ASSUME NEW j \in 1 .. Len(program)
        PROVE  work'[j] = R!Item("statement", program[j])
    <3>1. j \in 1 .. Len(program) - p /\ x + j = j + 1 /\ p + j = j
      BY <1>6, <1>8
    <3>2. work[x + j] = R!Item("statement", program[p + j])
      BY <1>5, <3>1 DEF Resolving, WalkAt
    <3>3. work[j + 1] = R!Item("statement", program[j])
      BY <3>1, <3>2
    <3>4. j \in 1 .. Len(work) - 1
      BY <1>6, <2>1
    <3>5. QED
      BY <1>10, <3>3, <3>4
  <2> DEFINE a == 0
  <2>4. /\ a \in 0 .. Len(program') /\ a \in Nat
        /\ Len(work') = a + (Len(program') - a) + 1
        /\ \A i \in 1 .. a : FALSE
    BY <1>2, <1>6, <2>1
  <2>5. \A j \in 1 .. Len(program') - a : work'[a + j] = R!Item("statement", program'[a + j])
    <3>1. Len(program') - a = Len(program)
      BY <1>2, <1>6
    <3>2. \A j \in 1 .. Len(program) : a + j = j
      BY <1>6
    <3> HIDE DEF a
    <3>3. QED
      BY <1>2, <2>3, <3>1, <3>2
  <2> HIDE DEF a
  <2>6. WalkAt(a, a)'
    BY <2>2, <2>4, <2>5 DEF WalkAt, R!Item
  <2>7. QED
    BY <2>6 DEF a
<1>12. FramesAt(0, 0)'
  BY <1>2, <1>9 DEF FramesAt
<1>13. DoneIs({}, 0)' /\ ParametersFit(0)'
  <2>1. \A j \in 1 .. 0 : FALSE
    OBVIOUS
  <2>2. QED
    BY <2>1 DEF DoneIs, ParametersFit
<1>14. Collected'
  <2>1. DOMAIN F = 1 .. Len(F) /\ Len(F) \in Nat
    <3>1. F \in Seq(1 .. Len(nodes))
      BY FunctionRoots
    <3> HIDE DEF F
    <3>2. QED
      BY <3>1, LenProperties
  <2> HIDE DEF F
  <2>2. ASSUME NEW i \in 1 .. Len(F), NEW j \in 1 .. Len(F), i < j
        PROVE  nodes[F[i]].name # nodes[F[j]].name
    <3>1. i \in 1 .. j - 1
      BY <2>1, <2>2
    <3>2. j \notin {k \in DOMAIN F : \E l \in 1 .. k - 1 : nodes[F[l]].name = nodes[F[k]].name}
      BY <1>2 DEF Collects
    <3>3. QED
      BY <2>1, <3>1, <3>2
  <2>3. functionArity' = [f \in {nodes[F[i]].name : i \in 1 .. Len(F)} |->
            Len(nodes[F[CHOOSE i \in 1 .. Len(F) : nodes[F[i]].name = f]].parameters)]
    BY <1>2, <2>1 DEF Collects
  <2>4. F' = F
    BY <1>2, FunctionsKept, SameNodesSameNames DEF F
  <2> DEFINE Named(G, N) ==
                 /\ \A i, j \in 1 .. Len(G) : i < j => N[G[i]].name # N[G[j]].name
                 /\ functionArity' = [f \in {N[G[i]].name : i \in 1 .. Len(G)} |->
                        Len(N[G[CHOOSE i \in 1 .. Len(G) : N[G[i]].name = f]].parameters)]
  <2>5. Collected' <=> Named(F', nodes')
    BY DEF Collected, NameOf, F
  <2>6. Named(F, nodes)
    BY <2>2, <2>3
  <2> HIDE DEF Named
  <2>7. QED
    BY <1>2, <2>4, <2>5, <2>6
<1>15. Resolving({}, 0, 0)'
  BY <1>11, <1>12, <1>13, <1>14 DEF Resolving
<1>16. QED
  BY <1>15 DEF Walking
(* When nothing is left, the whole of the program is settled. *)
LEMMA FinishResolves ==
    ASSUME TreesAreSound, ProgramIsSound, ResolverInvariant, Walking, R!Finish
    PROVE  TreeIsResolved'
<1>1. /\ R!Visiting("finish") /\ programFrameSize' = R!Frame.nextSlot
      /\ nodes' = nodes /\ scopes' = scopes /\ program' = program
      /\ functionArity' = functionArity
  BY DEF R!Finish
<1>2. /\ work # <<>> /\ Head(work).do = "finish" /\ Head(work) = work[1]
      /\ Len(work) \in Nat /\ Len(work) >= 1
  BY <1>1, VisitingFacts
<1>3. PICK D, p, x : Resolving(D, p, x)
  BY DEF Walking
<1>4. /\ p \in 0 .. Len(program) /\ x \in Nat /\ Len(program) \in Nat
      /\ Len(work) = x + (Len(program) - p) + 1
  BY <1>3, ProgramFacts DEF Resolving, WalkAt
<1>5. x = 0
  <2> SUFFICES ASSUME x # 0 PROVE FALSE
    OBVIOUS
  <2>1. 1 \in 1 .. x
    BY <1>4
  <2>2. OwnItem(work[1], p) \/ work[1].do = "collect"
    BY <1>3, <2>1 DEF Resolving, WalkAt
  <2>3. QED
    BY <1>2, <2>2 DEF OwnItem
<1>6. p = Len(program) /\ Len(work) = 1
  <2>1. ~(p < Len(program))
    <3> SUFFICES ASSUME p < Len(program) PROVE FALSE
      OBVIOUS
    <3>1. 1 \in 1 .. Len(program) - p
      BY <1>4
    <3>2. work[x + 1] = R!Item("statement", program[p + 1])
      BY <1>3, <3>1 DEF Resolving, WalkAt
    <3>3. work[1] = R!Item("statement", program[p + 1])
      BY <1>5, <3>2
    <3>4. work[1].do = "statement"
      BY ONLY <3>3 DEF R!Item
    <3>5. QED
      BY <1>2, <3>4
  <2>2. QED
    BY <1>4, <1>5, <2>1
<1>7. Len(scopes) = 1
  BY <1>3, <1>5, FrameCount DEF Resolving, FramesAt
<1>8. programFrameSize' = scopes[1].nextSlot /\ scopes[1].nextSlot \in Nat
  BY <1>1, <1>7, LastFrame
<1>9. \A n : ~Pending(n) /\ ~Binding(n)
  <2>1. \A i \in 1 .. Len(work) : work[i].do = "finish"
    BY <1>2, <1>6
  <2>2. QED
    BY <2>1 DEF Pending, Binding, Visits, Binds
<1>10. Collected /\ Collected'
  <2>1. Collected
    BY <1>2, <1>3 DEF Resolving
  <2>2. QED
    BY <1>1, <2>1, CollectedKept, SameNodesSameNames
<1>11. D \in SUBSET (1 .. Len(nodes)) /\ Closed(D)
  BY <1>3, <1>6, <1>9 DEF Resolving, DoneIs, Closed
<1>12. \A q \in 1 .. Len(program) : Limit(q, p) = SizeOf(q)'
  BY <1>1, <1>7, <1>8 DEF Limit, SizeOf, IsFunction
<1>13. ASSUME NEW n \in Live'
       PROVE  \E q \in 1 .. Len(program) : LiesIn(n, q)' /\ FitsIn(n, q, SizeOf(q))'
  <2>1. n \in Live
    BY <1>1 DEF Live, Closed
  <2>2. n \in D
    BY <1>11, <2>1 DEF Live
  <2>3. PICK q \in 1 .. Len(program) : LiesIn(n, q) /\ FitsIn(n, q, Limit(q, p))
    BY <1>3, <1>6, <1>9, <2>2 DEF Resolving, DoneIs, Settled
  <2>4. LiesIn(n, q)'
    BY <1>1, <2>3 DEF LiesIn
  <2>5. PICK l : l = Limit(q, p)
    OBVIOUS
  <2>6. FitsIn(n, q, l) /\ l = SizeOf(q)'
    BY <1>12, <2>3, <2>5
  <2>7. FitsIn(n, q, l)'
    BY <1>1, <2>6 DEF FitsIn, IsFunction
  <2>8. FitsIn(n, q, SizeOf(q))'
    BY <2>6, <2>7
  <2>9. QED
    BY <2>4, <2>8
<1>14. ASSUME NEW q \in 1 .. Len(program), IsFunction(q)
       PROVE  Len(nodes[program[q]].parameters) <= nodes[program[q]].frameSize
  <2>1. Len(nodes[program[q]].parameters) <= Limit(q, p)
    BY <1>3, <1>6, <1>14 DEF Resolving, ParametersFit
  <2>2. Limit(q, p) = nodes[program[q]].frameSize
    BY <1>7, <1>14 DEF Limit
  <2>3. QED
    BY <2>1, <2>2
<1>15. \A n \in Live' : \E q \in 1 .. Len(program') : LiesIn(n, q)' /\ FitsIn(n, q, SizeOf(q))'
  BY <1>1, <1>13
<1>16. \A q \in 1 .. Len(program') :
           IsFunction(q)' => Len(nodes'[program'[q]].parameters) <= nodes'[program'[q]].frameSize
  BY <1>1, <1>14 DEF IsFunction
<1>17. QED
  BY <1>8, <1>10, <1>15, <1>16 DEF TreeIsResolved
-----------------------------------------------------------------------------

(* The end of the resolver is the end of its walk: no other handler says so. *)
LEMMA OnlyFinishEnds ==
    ASSUME R!Next, ~R!Finish
    PROVE  resolved = R!Running /\ resolved' # R!Finished
<1>1. R!Running # R!Finished
  BY DEF R!Running, R!Finished, R!Verdict
<1>2. resolved = R!Running
  BY DEF R!Next, R!CollectFunctions, R!ResolveIdentifier, R!ResolveOperands, R!ResolveCall,
         R!ResolveAssign, R!DeclareOrBind, R!ResolvePrint, R!ResolveBlock, R!PopScope,
         R!ResolveConditional, R!ResolveReturn, R!ResolveFunction, R!EndFunction, R!VisitingA,
         R!Visiting
<1>3. \/ resolved' = resolved
      \/ \E span, message : R!Fail(span, message)
  <2>1. CASE R!CollectFunctions \/ R!ResolveIdentifier \/ R!ResolveCall \/ R!ResolveReturn
             \/ R!ResolveFunction
    BY <2>1 DEF R!CollectFunctions, R!ResolveIdentifier, R!ResolveCall, R!ResolveReturn,
                R!ResolveFunction, R!Visit
  <2>2. CASE R!ResolveOperands \/ R!ResolveAssign \/ R!DeclareOrBind \/ R!ResolvePrint
             \/ R!ResolveBlock \/ R!PopScope \/ R!ResolveConditional \/ R!EndFunction
    BY <2>2 DEF R!ResolveOperands, R!ResolveAssign, R!DeclareOrBind, R!ResolvePrint,
                R!ResolveBlock, R!PopScope, R!ResolveConditional, R!EndFunction, R!Visit
  <2>3. QED
    BY <2>1, <2>2 DEF R!Next
<1>4. QED
  BY <1>1, <1>2, <1>3, RefusalEnds

LEMMA ResolverResolves ==
    ASSUME TreesAreSound, ProgramIsSound, ResolverInvariant, R!Next,
           resolved = R!Running => Walking
    PROVE  /\ resolved' = R!Running => Walking'
           /\ resolved' = R!Finished => TreeIsResolved'
<1>1. CASE R!Finish
  <2>1. resolved = R!Running /\ resolved' = R!Finished
    BY <1>1 DEF R!Finish, R!Visiting
  <2>2. R!Running # R!Finished
    BY DEF R!Running, R!Finished, R!Verdict
  <2>3. QED
    BY <1>1, <2>1, <2>2, FinishResolves
<1>2. CASE ~R!Finish
  <2>1. Walking /\ resolved' # R!Finished
    BY <1>2, OnlyFinishEnds
  <2>2. ASSUME resolved' = R!Running
        PROVE  Walking'
    <3>1. CASE R!CollectFunctions \/ R!ResolveIdentifier \/ R!ResolveOperands \/ R!ResolveCall
               \/ R!ResolveAssign \/ R!DeclareOrBind \/ R!ResolvePrint
      BY <2>1, <2>2, <3>1, CollectFunctionsResolves, ResolveIdentifierResolves,
         ResolveOperandsResolves, ResolveCallResolves, ResolveAssignResolves,
         DeclareOrBindResolves, ResolvePrintResolves
    <3>2. CASE R!ResolveBlock \/ R!PopScope \/ R!ResolveConditional \/ R!ResolveReturn
               \/ R!ResolveFunction \/ R!EndFunction
      BY <2>1, <2>2, <3>2, ResolveBlockResolves, PopScopeResolves, ResolveConditionalResolves,
         ResolveReturnResolves, ResolveFunctionResolves, EndFunctionResolves
    <3>3. QED
      BY <1>2, <3>1, <3>2 DEF R!Next
  <2>3. QED
    BY <2>1, <2>2
<1>3. QED
  BY <1>1, <1>2

(* Where the items of a walk stand in it. *)
LEMMA WalkPlaces ==
    ASSUME NEW S, NEW first \in S, NEW last \in S, NEW middle \in Seq(S)
    PROVE  LET walk == <<first>> \o middle \o <<last>>
           IN  /\ Len(walk) = Len(middle) + 2 /\ Len(middle) \in Nat
               /\ walk[1] = first /\ walk[Len(walk)] = last
               /\ \A j \in 1 .. Len(middle) : walk[1 + j] = middle[j]
<1> DEFINE a == <<first>>
           b == <<last>>
           c == a \o middle
           walk == c \o b
<1>1. /\ a \in Seq(S) /\ Len(a) = 1 /\ a[1] = first
      /\ b \in Seq(S) /\ Len(b) = 1 /\ b[1] = last
      /\ Len(middle) \in Nat
  BY LenProperties
<1> HIDE DEF a, b
<1>2. /\ c \in Seq(S) /\ Len(c) = Len(a) + Len(middle)
      /\ \A i \in 1 .. Len(a) + Len(middle) :
             c[i] = IF i <= Len(a) THEN a[i] ELSE middle[i - Len(a)]
  BY ONLY <1>1, ConcatProperties
<1> HIDE DEF c
<1>3. /\ Len(walk) = Len(c) + Len(b)
      /\ \A i \in 1 .. Len(c) + Len(b) :
             walk[i] = IF i <= Len(c) THEN c[i] ELSE b[i - Len(c)]
  <2>1. c \in Seq(S) /\ b \in Seq(S)
    BY <1>1, <1>2
  <2>2. /\ Len(c \o b) = Len(c) + Len(b)
        /\ \A i \in 1 .. Len(c) + Len(b) :
               (c \o b)[i] = IF i <= Len(c) THEN c[i] ELSE b[i - Len(c)]
    BY ONLY <2>1, ConcatProperties
  <2>3. QED
    BY ONLY <2>2
<1> HIDE DEF walk
<1>4. Len(c) = Len(middle) + 1 /\ Len(walk) = Len(middle) + 2
  BY <1>1, <1>2, <1>3
<1>5. walk[1] = first
  <2>1. 1 \in 1 .. Len(c) + Len(b) /\ 1 <= Len(c) /\ 1 <= Len(a) /\ 1 \in 1 .. Len(a) + Len(middle)
    BY <1>1, <1>4
  <2>2. QED
    BY <1>1, <1>2, <1>3, <2>1
<1>6. walk[Len(walk)] = last
  <2>1. /\ Len(walk) \in 1 .. Len(c) + Len(b) /\ ~(Len(walk) <= Len(c))
        /\ Len(walk) - Len(c) = 1
    BY <1>1, <1>4
  <2>2. QED
    BY <1>1, <1>3, <2>1
<1>7. ASSUME NEW j \in 1 .. Len(middle)
      PROVE  walk[1 + j] = middle[j]
  <2>1. /\ 1 + j \in 1 .. Len(c) + Len(b) /\ 1 + j <= Len(c) /\ ~(1 + j <= Len(a))
        /\ 1 + j \in 1 .. Len(a) + Len(middle) /\ (1 + j) - Len(a) = j
    BY <1>1, <1>4
  <2>2. QED
    BY <1>2, <1>3, <2>1
<1>8. QED
  BY <1>1, <1>4, <1>5, <1>6, <1>7 DEF walk, c, a, b

(* The walk begins before the first root, with nothing settled. *)
LEMMA WalkingStarts ==
    ASSUME ProgramIsSound', scopes' = R!InitialFrames, work' = R!InitialWork(program')
    PROVE  Walking'
<1> DEFINE first == R!Item("collect", 0)
           last == R!Item("finish", 0)
           E(i) == R!Item("statement", program'[i])
           middle == [i \in 1 .. Len(program') |-> E(i)]
           S == {first, last} \cup {E(i) : i \in 1 .. Len(program')}
<1>1. Len(program') \in Nat /\ DOMAIN program' = 1 .. Len(program')
  BY LenProperties DEF ProgramIsSound, Separate
<1>2. first.do = "collect" /\ last.do = "finish"
  BY DEF R!Item
<1>3. first \in S /\ last \in S /\ \A i \in 1 .. Len(program') : E(i) \in S
  OBVIOUS
<1> HIDE DEF first, last, E, S
<1>4. middle \in Seq(S) /\ Len(middle) = Len(program')
      /\ \A j \in 1 .. Len(middle) : middle[j] = E(j)
  <2>1. middle \in Seq(S)
    BY <1>1, <1>3, IsASeq
  <2>2. QED
    BY <1>1, <2>1
<1>5. R!Items("statement", program') = middle
  BY <1>1 DEF R!Items, E
<1> HIDE DEF middle
<1> DEFINE walk == <<first>> \o middle \o <<last>>
<1>6. /\ Len(walk) = Len(middle) + 2 /\ walk[1] = first /\ walk[Len(walk)] = last
      /\ \A j \in 1 .. Len(middle) : walk[1 + j] = middle[j]
  BY ONLY <1>3, <1>4, WalkPlaces
<1>7. work' = walk
  BY <1>5 DEF R!InitialWork, first, last
<1> HIDE DEF walk
<1> DEFINE p == 0
           x == 1
<1>8. /\ p \in 0 .. Len(program') /\ x \in Nat /\ p = 0 /\ x = 1
      /\ Len(work') = x + (Len(program') - p) + 1
  BY <1>1, <1>4, <1>6, <1>7
<1>9. \A i \in 1 .. x : i = 1
  OBVIOUS
<1>10. Len(program') - p = Len(program') /\ \A j \in 1 .. Len(program') : p + j = j
  BY <1>1
<1> HIDE DEF p, x
<1>11. \A j \in 1 .. Len(program') - p : work'[x + j] = R!Item("statement", program'[p + j])
  BY <1>4, <1>6, <1>7, <1>8, <1>10 DEF E
<1>12. work'[1].do = "collect" /\ work'[Len(work')].do = "finish"
  BY <1>2, <1>6, <1>7
<1>13. WalkAt(p, x)'
  BY <1>8, <1>9, <1>11, <1>12 DEF WalkAt, R!Item
<1>14. FramesAt(p, x)'
  <2>1. Len(scopes') = 1
    BY SingleFrameStarts
  <2>2. QED
    BY <1>8, <2>1 DEF FramesAt
<1>15. DoneIs({}, p)' /\ ParametersFit(p)'
  <2>1. \A j \in 1 .. p : FALSE
    BY <1>8
  <2>2. QED
    BY <2>1 DEF DoneIs, ParametersFit
<1>16. Resolving({}, p, x)'
  BY <1>12, <1>13, <1>14, <1>15 DEF Resolving
<1>17. QED
  BY <1>16 DEF Walking

-----------------------------------------------------------------------------

(* What the resolver has made of the tree, while it walks it and afterwards. *)
NamesInvariant ==
    /\ stage = "parse" => resolved = Running
    /\ stage = "resolve" => /\ resolved = Running => Walking
                            /\ resolved = Finished => TreeIsResolved
    /\ stage \in {"compile", "run"} => TreeIsResolved

LEMMA ResolvedTreeKept ==
    ASSUME TreeIsResolved, nodes' = nodes, program' = program,
           functionArity' = functionArity, programFrameSize' = programFrameSize
    PROVE  TreeIsResolved'
<1>1. Live' = Live
  BY DEF Live, Closed
<1>2. \A n, q : LiesIn(n, q)' <=> LiesIn(n, q)
  BY DEF LiesIn
<1>3. \A q : SizeOf(q)' = SizeOf(q)
  BY DEF SizeOf, IsFunction
<1>4. \A n, q, limit : FitsIn(n, q, limit)' <=> FitsIn(n, q, limit)
  BY DEF FitsIn, IsFunction
<1>5. Collected'
  <2> DEFINE F == C!Functions
             Named(G, N, arity) ==
                 /\ \A i, j \in 1 .. Len(G) : i < j => N[G[i]].name # N[G[j]].name
                 /\ arity = [f \in {N[G[i]].name : i \in 1 .. Len(G)} |->
                        Len(N[G[CHOOSE i \in 1 .. Len(G) : N[G[i]].name = f]].parameters)]
  <2>1. F' = F
    BY DEF C!Functions
  <2> HIDE DEF F
  <2>2. Named(F, nodes, functionArity)
    BY DEF TreeIsResolved, Collected, NameOf, F
  <2>3. Collected' <=> Named(F', nodes', functionArity')
    BY DEF Collected, NameOf, F
  <2> HIDE DEF Named
  <2>4. QED
    BY <2>1, <2>2, <2>3
<1>6. \A n \in Live' : \E q \in 1 .. Len(program') : LiesIn(n, q)' /\ FitsIn(n, q, SizeOf(q))'
  <2> TAKE n \in Live'
  <2>1. PICK q \in 1 .. Len(program) : LiesIn(n, q) /\ FitsIn(n, q, SizeOf(q))
    BY <1>1 DEF TreeIsResolved
  <2>2. PICK l : l = SizeOf(q)
    OBVIOUS
  <2>3. FitsIn(n, q, l)' /\ SizeOf(q)' = l
    BY <1>3, <1>4, <2>1, <2>2
  <2>4. FitsIn(n, q, SizeOf(q))'
    BY <2>3
  <2>5. QED
    BY <1>2, <2>1, <2>4
<1>7. QED
  BY <1>5, <1>6 DEF TreeIsResolved, IsFunction

LEMMA WalkingStutters ==
    ASSUME Walking, nodes' = nodes, work' = work, program' = program, scopes' = scopes,
           functionArity' = functionArity
    PROVE  Walking'
<1>1. PICK D, p, x : Resolving(D, p, x)
  BY DEF Walking
<1>2. WalkAt(p, x)'
  BY <1>1 DEF Resolving, WalkAt, OwnItem, EntersFunction, LeavesFunction, LiesIn, Visits, Binds,
              R!Item
<1>3. FramesAt(p, x)'
  BY <1>1 DEF Resolving, FramesAt, LeavesFunction, IsFunction
<1>4. \A q : (Limit(q, p)' = Limit(q, p)) /\ (IsFunction(q)' <=> IsFunction(q))
  BY DEF Limit, IsFunction
<1>5. \A n : (Pending(n)' <=> Pending(n)) /\ (Binding(n)' <=> Binding(n))
  BY DEF Pending, Binding, Visits, Binds
<1>6. \A n, q, limit : FitsIn(n, q, limit)' <=> FitsIn(n, q, limit)
  BY DEF FitsIn, IsFunction
<1>7. \A n, q : LiesIn(n, q)' <=> LiesIn(n, q)
  BY DEF LiesIn
<1>8. \A n \in D : Settled(n, p)'
  <2> TAKE n \in D
  <2>1. PICK q \in 1 .. p :
            /\ LiesIn(n, q)
            /\ FitsIn(n, q, Limit(q, p)) \/ (nodes[n].type = "Assign" /\ Binding(n))
    BY <1>1 DEF Resolving, DoneIs, Settled
  <2>2. PICK l : l = Limit(q, p)
    OBVIOUS
  <2>3. FitsIn(n, q, l) => FitsIn(n, q, l)' /\ l = Limit(q, p)'
    BY <1>4, <1>6, <2>2
  <2>4. FitsIn(n, q, l) => FitsIn(n, q, Limit(q, p))'
    BY <2>3
  <2>5. \/ FitsIn(n, q, Limit(q, p))'
        \/ nodes'[n].type = "Assign" /\ Binding(n)'
    BY <1>5, <2>1, <2>2, <2>4
  <2>6. QED
    BY <1>7, <2>1, <2>5 DEF Settled
<1>9. DoneIs(D, p)'
  BY <1>1, <1>5, <1>8 DEF Resolving, DoneIs
<1>10. ParametersFit(p)'
  <2>1. ASSUME NEW q \in 1 .. p, IsFunction(q)'
        PROVE  Len(nodes'[program'[q]].parameters) <= Limit(q, p)'
    <3>1. Len(nodes[program[q]].parameters) <= Limit(q, p)
      BY <1>1, <1>4, <2>1 DEF Resolving, ParametersFit
    <3>2. QED
      BY <1>4, <3>1
  <2>2. QED
    BY <2>1 DEF ParametersFit
<1>11. work'[1].do # "collect" => Collected'
  <2> DEFINE F == C!Functions
             Named(G, N, arity) ==
                 /\ \A i, j \in 1 .. Len(G) : i < j => N[G[i]].name # N[G[j]].name
                 /\ arity = [f \in {N[G[i]].name : i \in 1 .. Len(G)} |->
                        Len(N[G[CHOOSE i \in 1 .. Len(G) : N[G[i]].name = f]].parameters)]
  <2>1. F' = F
    BY DEF C!Functions
  <2> HIDE DEF F
  <2>2. Collected => Named(F, nodes, functionArity)
    BY DEF Collected, NameOf, F
  <2>3. Collected' <=> Named(F', nodes', functionArity')
    BY DEF Collected, NameOf, F
  <2> HIDE DEF Named
  <2>4. QED
    BY <1>1, <2>1, <2>2, <2>3 DEF Resolving
<1>12. Resolving(D, p, x)'
  BY <1>2, <1>3, <1>9, <1>10, <1>11 DEF Resolving
<1>13. QED
  BY <1>12 DEF Walking

LEMMA NamesStart ==
    ASSUME Init
    PROVE  NamesInvariant
BY DEF Init, NamesInvariant

LEMMA NamesKeep ==
    ASSUME FrontInvariant, NamesInvariant, [Next]_vars
    PROVE  NamesInvariant'
<1>0. Running = R!Running /\ Finished = R!Finished /\ Running # Finished
  BY DEF Running, R!Running, Finished, R!Finished, Verdict, R!Verdict, NoSpan, R!NoSpan,
         MakeSpan, R!MakeSpan
<1>1. FrontInvariant'
  BY FrontKeeps
<1>2. ASSUME stage \in {"compile", "run"}, stage' \in {"compile", "run"}, nodes' = nodes,
             program' = program, programFrameSize' = programFrameSize,
             functionArity' = functionArity
      PROVE  NamesInvariant'
  BY <1>2, ResolvedTreeKept DEF NamesInvariant
<1>3. CASE Parse
  BY <1>3 DEF Parse, resolverState, NamesInvariant
<1>4. CASE StartResolve
  <2>1. /\ stage = "parse" /\ stage' = "resolve" /\ resolved' = resolved /\ scopes' = scopes
        /\ program' = built /\ work' = R!InitialWork(built)
    BY <1>4 DEF StartResolve
  <2>2. scopes' = R!InitialFrames /\ work' = R!InitialWork(program')
    BY <2>1 DEF FrontInvariant
  <2>3. ProgramIsSound'
    BY <1>1, <2>1 DEF FrontInvariant
  <2>4. Walking'
    BY <2>2, <2>3, WalkingStarts
  <2>5. resolved' = Running
    BY <2>1 DEF NamesInvariant
  <2>6. QED
    BY <1>0, <2>1, <2>4, <2>5 DEF NamesInvariant
<1>5. CASE Resolve
  <2>1. stage = "resolve" /\ stage' = "resolve" /\ R!Next
    BY <1>5 DEF Resolve
  <2>2. TreesAreSound /\ ProgramIsSound /\ ResolverInvariant
    BY <2>1 DEF FrontInvariant
  <2>3. resolved = R!Running => Walking
    BY <1>0, <2>1 DEF NamesInvariant
  <2>4. /\ resolved' = R!Running => Walking'
        /\ resolved' = R!Finished => TreeIsResolved'
    BY <2>1, <2>2, <2>3, ResolverResolves
  <2>5. /\ resolved' = Running => Walking'
        /\ resolved' = Finished => TreeIsResolved'
    BY <1>0, <2>4
  <2>6. stage' # "parse" /\ stage' \notin {"compile", "run"}
    BY <2>1
  <2>7. Running' = Running /\ Finished' = Finished
    BY DEF Running, Finished, Verdict, NoSpan, MakeSpan
  <2>8. QED
    BY <2>5, <2>6, <2>7 DEF NamesInvariant
<1>6. CASE StartCompile
  <2>1. /\ stage = "resolve" /\ stage' = "compile" /\ resolved = Finished
        /\ nodes' = nodes /\ UNCHANGED resolverState
    BY <1>6 DEF StartCompile
  <2>2. TreeIsResolved
    BY <2>1 DEF NamesInvariant
  <2>3. TreeIsResolved'
    BY <2>1, <2>2, ResolvedTreeKept DEF resolverState
  <2>4. QED
    BY <2>1, <2>3 DEF NamesInvariant
<1>7. CASE Compile
  BY <1>2, <1>7, CompilerReadsTheTree DEF Compile
<1>8. CASE StartRun
  BY <1>2, <1>8 DEF StartRun, resolverState
<1>9. CASE TreeStep
  BY <1>2, <1>9, InterpreterReadsTheTree DEF TreeStep
<1>10. CASE VmStep
  BY <1>2, <1>10 DEF VmStep, resolverState
<1>11. CASE UNCHANGED vars
  <2>1. /\ stage' = stage /\ nodes' = nodes /\ work' = work /\ program' = program
        /\ scopes' = scopes /\ functionArity' = functionArity /\ resolved' = resolved
        /\ programFrameSize' = programFrameSize
    BY <1>11 DEF vars, resolverState
  <2>2. ASSUME Walking
        PROVE  Walking'
    BY <2>1, <2>2, WalkingStutters
  <2>3. TreeIsResolved => TreeIsResolved'
    BY <2>1, ResolvedTreeKept
  <2>4. QED
    BY <2>1, <2>2, <2>3 DEF NamesInvariant, Running, Finished, Verdict, NoSpan, MakeSpan
<1>12. QED
  BY <1>3, <1>4, <1>5, <1>6, <1>7, <1>8, <1>9, <1>10, <1>11 DEF Next

(* Once the resolver (src/src/resolver.cpp) has let a program through, every name in
   it has a slot of the frame it will run in, every call names a declared function of
   as many parameters as it has arguments, every return stands in a function, no two
   functions share a name, and a function's frame holds its parameters.  It stays so
   while the compiler and either engine read the tree: none of them looks again. *)
THEOREM NamesAreResolved == Spec => [](stage \in {"compile", "run"} => TreeIsResolved)
<1>1. Init => FrontInvariant /\ NamesInvariant
  BY FrontStarts, NamesStart
<1>2. FrontInvariant /\ NamesInvariant /\ [Next]_vars => FrontInvariant' /\ NamesInvariant'
  BY FrontKeeps, NamesKeep
<1>3. FrontInvariant /\ NamesInvariant => (stage \in {"compile", "run"} => TreeIsResolved)
  BY DEF NamesInvariant
<1>4. QED
  BY <1>1, <1>2, <1>3, PTL DEF Spec
=============================================================================
