------------------------------ MODULE TreeProofs ------------------------------
(***************************************************************************)
(* The trees of the pipeline stay of the shape src/src/ast.h declares, for *)
(* every source: the parser builds such trees (ParserProofs), and the      *)
(* resolver, which writes slots and frame sizes onto their nodes, finds    *)
(* every child it visits and changes the shape of none.                    *)
(***************************************************************************)
EXTENDS ParserProofs

LEMMA ParserKeeps ==
    ASSUME TreesAreSound, ParserInvariant, P!Next
    PROVE  TreesAreSound' /\ ParserInvariant'
<1>1. CASE P!ParseProgram
  BY <1>1, ProgramKeeps
<1>2. CASE P!ParseFunction
  BY <1>2, FunctionKeeps
<1>3. CASE P!ParseParameters
  BY <1>3, ParametersKeep
<1>4. CASE P!ExpectToken
  BY <1>4, ExpectKeeps
<1>5. CASE P!ParseStatement
  BY <1>5, StatementKeeps
<1>6. CASE P!ParsePrint
  BY <1>6, PrintKeeps
<1>7. CASE P!ParseAssign
  BY <1>7, AssignKeeps
<1>8. CASE P!ParseReturn
  BY <1>8, ReturnStatementKeeps
<1>9. CASE P!ParseIf
  BY <1>9, IfKeeps
<1>10. CASE P!ParseElse
  BY <1>10, ElseKeeps
<1>11. CASE P!ParseWhile
  BY <1>11, WhileKeeps
<1>12. CASE P!ParseBlock
  BY <1>12, BlockKeeps
<1>13. CASE P!ParseBlockStatements
  BY <1>13, BlockEndKeeps
<1>14. CASE P!ParseOperators
  BY <1>14, OperatorsKeep
<1>15. CASE P!ParseUnary
  BY <1>15, UnaryKeeps
<1>16. CASE P!ParseLiteral
  BY <1>16, LiteralKeeps
<1>17. CASE P!ParseName
  BY <1>17, NameKeeps
<1>18. CASE P!ParseArguments
  BY <1>18, ArgumentsKeep
<1>19. CASE P!ParseCloseCall
  BY <1>19, CallEndKeeps
<1>20. CASE P!ParseNoExpression
  BY <1>20, NoExpressionKeeps
<1>21. CASE P!MakeTheNode
  BY <1>21, MakeKeeps
<1>22. QED
  BY <1>1, <1>2, <1>3, <1>4, <1>5, <1>6, <1>7, <1>8, <1>9, <1>10, <1>11, <1>12, <1>13, <1>14,
     <1>15, <1>16, <1>17, <1>18, <1>19, <1>20, <1>21 DEF P!Next

LEMMA ParserStarts ==
    ASSUME P!Init
    PROVE  TreesAreSound /\ ParserInvariant
<1> DEFINE none == <<>>
<1>1. /\ tokens \in Sources /\ pos = 1 /\ nodes = none /\ built = none /\ work = <<Again>>
      /\ parsed = P!Running
  BY DEF P!Init, Again
<1>2. none \in Seq(TreeNode) /\ Len(none) = 0
  OBVIOUS
<1>3. TreesAreSound
  BY <1>1, <1>2 DEF TreesAreSound
<1>4. TokensAreWhole
  <2>1. tokens \in Seq(Token) /\ tokens # <<>> /\ tokens[Len(tokens)].type = "END_OF_FILE"
    BY <1>1, PipelineAssumption
  <2>2. 1 \in 1 .. Len(tokens)
    BY <2>1, EmptySeq, LenProperties
  <2>3. QED
    BY <1>1, <2>1, <2>2 DEF TokensAreWhole
<1>5. Separate(built)
  <2>1. none \in Seq(1 .. Len(nodes)) /\ Len(nodes) = 0
    BY <1>1
  <2>2. QED
    BY <1>1, <1>2, <2>1 DEF Separate
<1>6. work \in Seq(ParserItem) /\ Len(work) = 1 /\ work[1] = Again
  <2>1. Again \in ParserItem
    BY AgainFacts
  <2>2. QED
    BY <1>1, <2>1
<1>7. (\A i \in 1 .. Len(work) : Placed(work[i])) /\ ParametersClose
  BY <1>6, AgainFacts DEF ParametersClose
<1>8. WorkIsTyped
  <2>1. KindsBuilt = <<>>
    BY <1>1, <1>2 DEF KindsBuilt
  <2>2. none \in Seq({"S", "F"})
    OBVIOUS
  <2> HIDE DEF none
  <2>3. Typed(<<Again>>, none, <<>>)
    BY <2>2, AgainFacts
  <2>4. QED
    BY <1>1, <2>1, <2>3 DEF WorkIsTyped, none
<1>9. parsed # Finished
  BY <1>1 DEF P!Running, P!Verdict, P!NoSpan, P!MakeSpan, Finished, Running, Verdict, NoSpan,
              MakeSpan
<1>10. QED
  BY <1>3, <1>4, <1>5, <1>6, <1>7, <1>8, <1>9 DEF ParserInvariant

-----------------------------------------------------------------------------

(* The resolver's items, its frames. *)
Walks ==
    {"collect", "expression", "statement", "declare or bind", "pop scope", "end function",
     "finish"}

ResolverItem == [do : Walks, node : Nat]

IsNode(n) == n \in 1 .. Len(nodes)

(* What an item visits is of the kind its handler is written for. *)
Visitable(item) ==
    /\ item.do = "expression" => IsNode(item.node) /\ KindOf(nodes[item.node].type) = "E"
    /\ item.do = "statement" => IsNode(item.node) /\ KindOf(nodes[item.node].type) # "E"
    /\ item.do = "declare or bind" => IsNode(item.node) /\ nodes[item.node].type = "Assign"
    /\ item.do = "end function" => IsNode(item.node) /\ nodes[item.node].type = "Function"

(* A frame numbers its variables from 0: a slot it has given out is below the
   next one. *)
Bindings(n) == UNION {[D -> 0 .. n - 1] : D \in SUBSET Names}

IsFrame(f) ==
    \E n \in Nat : \E Retired :
        f \in [nextSlot : {n}, scopes : Seq(Bindings(n)), retired : Retired]

(* A declaration is entered from the program's own frame only, and left before
   the next one is. *)
EntersFunction(item) == item.do = "statement" /\ nodes[item.node].type = "Function"
LeavesFunction(item) == item.do = "end function"

FramesFollowWork ==
    \/ /\ Len(scopes) = 1
       /\ \A i \in 1 .. Len(work) : ~LeavesFunction(work[i])
    \/ /\ Len(scopes) = 2
       /\ \E e \in 1 .. Len(work) :
              /\ LeavesFunction(work[e])
              /\ \A i \in 1 .. Len(work) : i # e => ~LeavesFunction(work[i])
              /\ \A i \in 1 .. e : ~EntersFunction(work[i])

ResolverInvariant ==
    /\ work \in Seq(ResolverItem)
    /\ \A i \in 1 .. Len(work) : Visitable(work[i])
    /\ \E S : scopes \in Seq(S)
    /\ \A i \in 1 .. Len(scopes) : IsFrame(scopes[i])
    /\ FramesFollowWork

(* The program is the roots of the trees, in order. *)
ProgramIsSound ==
    /\ Separate(program)
    /\ \A i \in 1 .. Len(program) : KindOf(nodes[program[i]].type) # "E"

FrontInvariant ==
    /\ TreesAreSound
    /\ stage = "parse" => ParserInvariant /\ scopes = R!InitialFrames
    /\ stage # "parse" => ProgramIsSound
    /\ stage = "resolve" => ResolverInvariant

-----------------------------------------------------------------------------

(* The resolver writes onto nodes; it adds none and moves none. *)
SameShape ==
    /\ Len(nodes') = Len(nodes)
    /\ \A n \in 1 .. Len(nodes) :
           /\ nodes'[n].type = nodes[n].type
           /\ nodes'[n].kids = nodes[n].kids
           /\ nodes'[n].kind = nodes[n].kind
           /\ nodes'[n].name = nodes[n].name

LEMMA NodeWritten ==
    ASSUME TreesAreSound, NEW n \in 1 .. Len(nodes), NEW node \in TreeNode,
           node.type = nodes[n].type, node.kids = nodes[n].kids, node.kind = nodes[n].kind,
           node.name = nodes[n].name,
           nodes' = [nodes EXCEPT ![n] = node]
    PROVE  TreesAreSound' /\ SameShape
<1>1. nodes \in Seq(TreeNode)
  BY DEF TreesAreSound
<1>2. /\ nodes' \in Seq(TreeNode) /\ Len(nodes') = Len(nodes)
      /\ \A j \in 1 .. Len(nodes) : nodes'[j] = IF j = n THEN node ELSE nodes[j]
  BY <1>1, ExceptSeq
<1>3. SameShape
  BY <1>2 DEF SameShape
<1>4. \A j \in 1 .. Len(nodes) : KidsAreSound(j) /\ OperatorIsKnown(j)
  BY DEF TreesAreSound
<1>5. \A j \in 1 .. Len(nodes) :
          \A i \in 1 .. Len(nodes[j].kids) : nodes[j].kids[i] \in 1 .. Len(nodes)
  <2> TAKE j \in 1 .. Len(nodes)
  <2> TAKE i \in 1 .. Len(nodes[j].kids)
  <2>1. nodes[j].kids[i] \in 1 .. j - 1 /\ Len(nodes) \in Nat
    BY <1>1, <1>4, LenProperties DEF KidsAreSound
  <2>2. QED
    BY <2>1
<1>6. \A j \in 1 .. Len(nodes) : KidsAreSound(j)'
  <2> TAKE j \in 1 .. Len(nodes)
  <2>1. /\ nodes'[j].kids = nodes[j].kids /\ nodes'[j].type = nodes[j].type
        /\ \A i \in 1 .. Len(nodes[j].kids) :
               nodes'[nodes[j].kids[i]].type = nodes[nodes[j].kids[i]].type
    BY <1>3, <1>5 DEF SameShape
  <2>2. KidsAreSound(j)
    BY <1>4
  <2>3. QED
    BY <2>1, <2>2 DEF KidsAreSound
<1>7. \A j \in 1 .. Len(nodes) : OperatorIsKnown(j)'
  BY <1>3, <1>4 DEF SameShape, OperatorIsKnown
<1>8. QED
  BY <1>2, <1>3, <1>6, <1>7 DEF TreesAreSound

LEMMA SlotWritten ==
    ASSUME TreesAreSound, NEW n \in 1 .. Len(nodes), NEW slot \in Int,
           nodes' = [nodes EXCEPT ![n].slot = slot]
    PROVE  TreesAreSound' /\ SameShape
<1> DEFINE node == [nodes[n] EXCEPT !.slot = slot]
<1>1. nodes[n] \in TreeNode
  BY ElementOfSeq DEF TreesAreSound
<1>2. /\ node \in TreeNode /\ node.type = nodes[n].type /\ node.kids = nodes[n].kids
      /\ node.kind = nodes[n].kind /\ node.name = nodes[n].name
  BY <1>1 DEF TreeNode
<1>3. nodes' = [nodes EXCEPT ![n] = node]
  OBVIOUS
<1> HIDE DEF node
<1>4. QED
  BY <1>2, <1>3, NodeWritten

LEMMA FrameSizeWritten ==
    ASSUME TreesAreSound, NEW n \in 1 .. Len(nodes), NEW size \in Nat,
           nodes' = [nodes EXCEPT ![n].frameSize = size]
    PROVE  TreesAreSound' /\ SameShape
<1> DEFINE node == [nodes[n] EXCEPT !.frameSize = size]
<1>1. nodes[n] \in TreeNode
  BY ElementOfSeq DEF TreesAreSound
<1>2. /\ node \in TreeNode /\ node.type = nodes[n].type /\ node.kids = nodes[n].kids
      /\ node.kind = nodes[n].kind /\ node.name = nodes[n].name
  BY <1>1 DEF TreeNode
<1>3. nodes' = [nodes EXCEPT ![n] = node]
  OBVIOUS
<1> HIDE DEF node
<1>4. QED
  BY <1>2, <1>3, NodeWritten

LEMMA ParametersWritten ==
    ASSUME TreesAreSound, NEW n \in 1 .. Len(nodes),
           nodes' = [nodes EXCEPT ![n].parameters =
                        [i \in DOMAIN @ |-> [@[i] EXCEPT !.slot = i - 1]]]
    PROVE  TreesAreSound' /\ SameShape
<1> DEFINE old == nodes[n].parameters
           Numbered(i) == [old[i] EXCEPT !.slot = i - 1]
           new == [i \in DOMAIN old |-> Numbered(i)]
           node == [nodes[n] EXCEPT !.parameters = new]
<1>1. nodes[n] \in TreeNode
  BY ElementOfSeq DEF TreesAreSound
<1>2. old \in Seq(Param)
  BY <1>1 DEF TreeNode
<1>3. new \in Seq(Param)
  <2>1. DOMAIN old = 1 .. Len(old) /\ Len(old) \in Nat
    BY <1>2, LenProperties
  <2>2. ASSUME NEW i \in 1 .. Len(old) PROVE Numbered(i) \in Param
    <3>1. old[i] \in Param
      BY <1>2, ElementOfSeq
    <3> HIDE DEF old
    <3>2. QED
      BY <3>1, SMTT(30) DEF Param
  <2> HIDE DEF Numbered, old
  <2>3. [i \in 1 .. Len(old) |-> Numbered(i)] \in Seq(Param)
    BY <2>1, <2>2, IsASeq
  <2>4. QED
    BY <2>1, <2>3
<1>4. nodes' = [nodes EXCEPT ![n] = node]
  OBVIOUS
<1> HIDE DEF new
<1>5. /\ node \in TreeNode /\ node.type = nodes[n].type /\ node.kids = nodes[n].kids
      /\ node.kind = nodes[n].kind /\ node.name = nodes[n].name
  BY <1>1, <1>3 DEF TreeNode
<1> HIDE DEF node
<1>6. QED
  BY <1>4, <1>5, NodeWritten

LEMMA ShapeKeepsProgram ==
    ASSUME TreesAreSound, SameShape, ProgramIsSound, program' = program
    PROVE  ProgramIsSound'
<1>1. Separate(program)'
  BY DEF ProgramIsSound, Separate, SameShape
<1>2. program \in Seq(1 .. Len(nodes))
  BY DEF ProgramIsSound, Separate
<1>3. \A i \in 1 .. Len(program) : program[i] \in 1 .. Len(nodes)
  BY <1>2, ElementOfSeq
<1>4. QED
  BY <1>1, <1>3 DEF ProgramIsSound, SameShape

-----------------------------------------------------------------------------

(* A frame in the place of the innermost. *)
LEMMA FrameReplaced ==
    ASSUME NEW S, NEW s \in Seq(S), Len(s) >= 1, NEW f, IsFrame(f),
           \A i \in 1 .. Len(s) : IsFrame(s[i])
    PROVE  LET t == Append(R!Front(s), f)
           IN  /\ \E T : t \in Seq(T)
               /\ Len(t) = Len(s) /\ \A i \in 1 .. Len(t) : IsFrame(t[i])
               /\ t[Len(s)] = f /\ \A i \in 1 .. Len(s) - 1 : t[i] = s[i]
<1> DEFINE T == S \cup {f}
           one == 1
           t == Append(SubSeq(s, 1, Len(s) - one), f)
<1>1. s \in Seq(T) /\ f \in T /\ Len(s) \in Nat /\ one \in Nat /\ one <= Len(s)
  BY SeqMonotonic, LenProperties
<1> HIDE DEF T, one
<1>2. /\ t \in Seq(T) /\ Len(t) = Len(s) - one + 1 /\ t[Len(s) - one + 1] = f
      /\ \A i \in 1 .. Len(s) - one : t[i] = s[i]
  BY <1>1, ReplaceLast
<1> HIDE DEF t
<1>3. Len(t) = Len(s) /\ t[Len(s)] = f /\ \A i \in 1 .. Len(s) - 1 : t[i] = s[i]
  BY <1>1, <1>2 DEF one
<1>4. ASSUME NEW i \in 1 .. Len(t) PROVE IsFrame(t[i])
  <2>1. i = Len(s) \/ i \in 1 .. Len(s) - 1
    BY <1>1, <1>3
  <2>2. QED
    BY <1>1, <1>3, <2>1
<1>5. QED
  BY <1>2, <1>3, <1>4 DEF t, one, R!Front

LEMMA FrameFacts ==
    ASSUME NEW f, IsFrame(f)
    PROVE  /\ f.nextSlot \in Nat
           /\ f.scopes \in Seq(Bindings(f.nextSlot))
           /\ \E S, Retired : f \in [nextSlot : {f.nextSlot}, scopes : S, retired : Retired]
BY DEF IsFrame

(* A frame whose scopes, or whose fields, are replaced. *)
LEMMA FrameUpdates ==
    ASSUME NEW N, NEW S, NEW Retired, NEW x, NEW y,
           NEW f \in [nextSlot : N, scopes : S, retired : Retired]
    PROVE  /\ [f EXCEPT !.scopes = x] \in [nextSlot : N, scopes : {x}, retired : Retired]
           /\ [f EXCEPT !.scopes = x, !.retired = y]
              \in [nextSlot : N, scopes : {x}, retired : {y}]
           /\ [f EXCEPT !.nextSlot = y, !.scopes = x]
              \in [nextSlot : {y}, scopes : {x}, retired : Retired]
OBVIOUS

LEMMA BindingsGrow ==
    ASSUME NEW n \in Nat, NEW name \in Names, NEW b \in Bindings(n)
    PROVE  R!Bind(b, name, n) \in Bindings(n + 1)
<1>1. PICK D \in SUBSET Names : b \in [D -> 0 .. n - 1]
  BY DEF Bindings
<1>2. R!Bind(b, name, n) \in [D \cup {name} -> 0 .. (n + 1) - 1]
  BY <1>1 DEF R!Bind
<1>3. D \cup {name} \in SUBSET Names
  BY <1>1
<1>4. QED
  BY <1>2, <1>3 DEF Bindings

LEMMA BindingsWiden ==
    ASSUME NEW n \in Nat
    PROVE  Bindings(n) \subseteq Bindings(n + 1)
BY DEF Bindings

LEMMA DeclaredFrame ==
    ASSUME NEW f, IsFrame(f), NEW name \in Names
    PROVE  IsFrame(R!Declare(f, name)) /\ R!Declare(f, name).nextSlot = f.nextSlot + 1
<1> DEFINE n == f.nextSlot
           open == f.scopes
           new == [open EXCEPT ![Len(open)] = R!Bind(@, name, n)]
<1>1. n \in Nat /\ open \in Seq(Bindings(n)) /\ n + 1 \in Nat
  BY FrameFacts
<1>2. open \in Seq(Bindings(n + 1))
  <2>1. Bindings(n) \subseteq Bindings(n + 1)
    BY <1>1, BindingsWiden
  <2> HIDE DEF open, n
  <2>2. QED
    BY <1>1, <2>1, SeqMonotonic
<1>3. new \in Seq(Bindings(n + 1))
  <2>1. CASE Len(open) \in 1 .. Len(open)
    <3>1. open[Len(open)] \in Bindings(n)
      BY <1>1, <2>1, ElementOfSeq
    <3>2. R!Bind(open[Len(open)], name, n) \in Bindings(n + 1)
      BY <1>1, <3>1, BindingsGrow
    <3> HIDE DEF open, n
    <3>3. [open EXCEPT ![Len(open)] = R!Bind(open[Len(open)], name, n)] \in Seq(Bindings(n + 1))
      BY <1>2, <2>1, <3>2, ExceptSeq
    <3>4. QED
      BY <3>3
  <2>2. CASE Len(open) \notin 1 .. Len(open)
    <3> HIDE DEF open, n
    <3>1. DOMAIN open = 1 .. Len(open)
      BY <1>1, LenProperties
    <3>2. open \in [1 .. Len(open) -> Bindings(n + 1)]
      BY <1>2, LenProperties
    <3>3. new = open
      BY <2>2, <3>1, <3>2
    <3>4. QED
      BY <1>2, <3>3
  <2>3. QED
    BY <2>1, <2>2
<1>4. PICK S, Retired : f \in [nextSlot : {n}, scopes : S, retired : Retired]
  BY FrameFacts
<1>5. R!Declare(f, name) \in [nextSlot : {n + 1}, scopes : {new}, retired : Retired]
  BY <1>4, FrameUpdates DEF R!Declare
<1> HIDE DEF n, new
<1>6. QED
  BY <1>1, <1>3, <1>5 DEF IsFrame, n

LEMMA OpenedFrame ==
    ASSUME NEW f, IsFrame(f)
    PROVE  LET g == [f EXCEPT !.scopes = Append(@, R!EmptyScope)]
           IN  IsFrame(g) /\ g.nextSlot = f.nextSlot
<1> DEFINE n == f.nextSlot
           open == f.scopes
           none == <<>>
<1>1. n \in Nat /\ open \in Seq(Bindings(n))
  BY FrameFacts
<1>2. none \in Bindings(n)
  <2>1. none \in [1 .. 0 -> 0 .. n - 1]
    BY EmptySeq, LenProperties
  <2>2. 1 .. 0 \in SUBSET Names
    OBVIOUS
  <2> HIDE DEF none, n
  <2>3. QED
    BY <2>1, <2>2 DEF Bindings
<1>3. Append(open, none) \in Seq(Bindings(n))
  BY <1>1, <1>2, AppendProperties
<1>4. PICK S, Retired : f \in [nextSlot : {n}, scopes : S, retired : Retired]
  BY FrameFacts
<1>5. [f EXCEPT !.scopes = Append(@, R!EmptyScope)]
      \in [nextSlot : {n}, scopes : {Append(open, none)}, retired : Retired]
  BY <1>4, FrameUpdates DEF R!EmptyScope
<1> HIDE DEF n, none, open
<1>6. QED
  BY <1>1, <1>3, <1>5 DEF IsFrame, n

LEMMA ClosedFrame ==
    ASSUME NEW f, IsFrame(f)
    PROVE  IsFrame(R!CloseScope(f)) /\ R!CloseScope(f).nextSlot = f.nextSlot
<1> DEFINE n == f.nextSlot
           open == f.scopes
<1>1. n \in Nat /\ open \in Seq(Bindings(n))
  BY FrameFacts
<1>2. R!Front(open) \in Seq(Bindings(n))
  <2> HIDE DEF open, n
  <2>1. Len(open) \in Nat
    BY <1>1, LenProperties
  <2>2. \A i \in 1 .. Len(open) - 1 : open[i] \in Bindings(n)
    BY <1>1, <2>1, ElementOfSeq
  <2>3. QED
    BY <2>1, <2>2, SubSeqProperties DEF R!Front
<1> DEFINE closed == f.retired \cup DOMAIN R!Last(open)
<1>3. PICK S, Retired : f \in [nextSlot : {n}, scopes : S, retired : Retired]
  BY FrameFacts
<1>4. R!CloseScope(f) \in [nextSlot : {n}, scopes : {R!Front(open)}, retired : {closed}]
  BY <1>3, FrameUpdates DEF R!CloseScope
<1> HIDE DEF n, open, closed
<1>5. QED
  BY <1>1, <1>2, <1>4 DEF IsFrame, n

LEMMA LastFrame ==
    ASSUME ResolverInvariant
    PROVE  /\ Len(scopes) \in Nat /\ Len(scopes) >= 1
           /\ R!Frame = scopes[Len(scopes)] /\ IsFrame(R!Frame)
           /\ R!Frame.nextSlot \in Nat
<1>1. Len(scopes) = 1 \/ Len(scopes) = 2
  BY DEF ResolverInvariant, FramesFollowWork
<1>2. \A i \in 1 .. Len(scopes) : IsFrame(scopes[i])
  BY DEF ResolverInvariant
<1>3. R!Frame = scopes[Len(scopes)]
  BY DEF R!Frame, R!Last
<1>4. Len(scopes) \in Nat /\ Len(scopes) \in 1 .. Len(scopes)
  BY <1>1
<1> HIDE DEF R!Frame
<1>5. QED
  BY <1>2, <1>3, <1>4, FrameFacts

(* A name is looked up to a slot of the frame, or to none. *)
LEMMA LookupFits ==
    ASSUME ResolverInvariant, NEW name
    PROVE  R!Lookup(name) \in {-1} \cup 0 .. R!Frame.nextSlot - 1
<1> DEFINE n == R!Frame.nextSlot
           open == R!Frame.scopes
           holding == {i \in DOMAIN open : name \in DOMAIN open[i]}
<1>1. n \in Nat /\ open \in Seq(Bindings(n))
  BY LastFrame, FrameFacts
<1>2. R!Lookup(name) = IF holding = {} THEN -1 ELSE open[R!Max(holding)][name]
  BY DEF R!Lookup, R!UnresolvedSlot
<1>3. CASE holding # {}
  <2>1. DOMAIN open = 1 .. Len(open) /\ Len(open) \in Nat
    BY <1>1, LenProperties
  <2>2. holding \in SUBSET (1 .. Len(open))
    BY <2>1
  <2>3. R!Max(holding) \in holding
    <3> HIDE DEF holding, open
    <3>1. \E m \in holding : \A k \in holding : m >= k
      BY <1>3, <2>1, <2>2, LargestElement
    <3>2. QED
      BY <3>1 DEF R!Max
  <2> DEFINE m == R!Max(holding)
  <2>4. m \in 1 .. Len(open) /\ name \in DOMAIN open[m]
    BY <2>1, <2>3
  <2> HIDE DEF m, open, n, holding
  <2>5. open[m] \in Bindings(n)
    BY <1>1, <2>4, ElementOfSeq
  <2>6. PICK D \in SUBSET Names : open[m] \in [D -> 0 .. n - 1]
    BY <2>5 DEF Bindings
  <2>7. open[m][name] \in 0 .. n - 1
    BY <2>4, <2>6
  <2>8. QED
    BY <1>2, <1>3, <2>7 DEF m, n
<1>4. CASE holding = {}
  BY <1>2, <1>4
<1>5. QED
  BY <1>3, <1>4

-----------------------------------------------------------------------------

LEMMA SameNodes ==
    ASSUME TreesAreSound, nodes' = nodes
    PROVE  TreesAreSound' /\ SameShape
BY DEF TreesAreSound, KidsAreSound, OperatorIsKnown, SameShape

LEMMA VisitableKept ==
    ASSUME SameShape, NEW item, Visitable(item)
    PROVE  /\ Visitable(item)'
           /\ EntersFunction(item)' <=> EntersFunction(item)
BY DEF SameShape, Visitable, EntersFunction, IsNode

LEMMA WorkReplaced ==
    ASSUME ResolverInvariant, SameShape, work # <<>>,
           NEW items \in Seq(ResolverItem), \A i \in 1 .. Len(items) : Visitable(items[i]),
           work' = items \o Tail(work)
    PROVE  /\ work' \in Seq(ResolverItem)
           /\ Len(work) \in Nat /\ Len(items) \in Nat
           /\ Len(work') = Len(items) + Len(work) - 1
           /\ \A i \in 1 .. Len(items) : work'[i] = items[i]
           /\ \A i \in 2 .. Len(work) : work'[Len(items) + i - 1] = work[i]
           /\ \A i \in 1 .. Len(work') :
                  \/ i \in 1 .. Len(items) /\ work'[i] = items[i]
                  \/ i - Len(items) + 1 \in 2 .. Len(work) /\ work'[i] = work[i - Len(items) + 1]
           /\ (\A i \in 1 .. Len(work) : Visitable(work[i]))'
<1> DEFINE m == Len(items)
<1>1. work \in Seq(ResolverItem) /\ Len(work) \in Nat /\ m \in Nat
  BY LenProperties DEF ResolverInvariant
<1>2. /\ work' \in Seq(ResolverItem) /\ Len(work') = m + Len(work) - 1
      /\ \A i \in 1 .. m : work'[i] = items[i]
      /\ \A i \in 2 .. Len(work) : work'[m + i - 1] = work[i]
  BY <1>1, ReplaceHead
<1> HIDE DEF m
<1>3. \A i \in 1 .. Len(work') :
          \/ i \in 1 .. m /\ work'[i] = items[i]
          \/ i - m + 1 \in 2 .. Len(work) /\ work'[i] = work[i - m + 1]
  <2> TAKE i \in 1 .. Len(work')
  <2>1. CASE i <= m
    BY <1>1, <1>2, <2>1
  <2>2. CASE i > m
    <3> DEFINE j == i - m + 1
    <3>1. j \in 2 .. Len(work) /\ m + j - 1 = i
      <4>1. i \in Int /\ i <= m + Len(work) - 1
        BY <1>1, <1>2
      <4>2. QED
        BY <1>1, <2>2, <4>1, PlaceAfterHead
    <3>2. QED
      BY <1>2, <3>1
  <2>3. QED
    BY <1>1, <1>2, <2>1, <2>2
<1>4. ASSUME NEW i \in 1 .. Len(work') PROVE Visitable(work[i])'
  <2>1. \A j \in 1 .. Len(work) : Visitable(work[j])
    BY DEF ResolverInvariant
  <2>2. Visitable(work'[i])
    <3>1. CASE i \in 1 .. m /\ work'[i] = items[i]
      BY <3>1 DEF m
    <3>2. CASE i - m + 1 \in 2 .. Len(work) /\ work'[i] = work[i - m + 1]
      <4>1. i - m + 1 \in 1 .. Len(work)
        BY <3>2
      <4>2. QED
        BY <2>1, <3>2, <4>1
    <3>3. QED
      BY <1>3, <3>1, <3>2
  <2>3. QED
    BY <2>2 DEF SameShape, Visitable, IsNode
<1>5. (\A i \in 1 .. Len(work) : Visitable(work[i]))'
  BY <1>4
<1>6. QED
  BY <1>1, <1>2, <1>3, <1>5 DEF m

LEMMA PlainFollows ==
    ASSUME ResolverInvariant, SameShape, work # <<>>, ~LeavesFunction(Head(work)),
           NEW items \in Seq(ResolverItem),
           \A i \in 1 .. Len(items) :
               Visitable(items[i]) /\ ~EntersFunction(items[i]) /\ ~LeavesFunction(items[i]),
           work' = items \o Tail(work), Len(scopes') = Len(scopes)
    PROVE  FramesFollowWork'
<1> DEFINE m == Len(items)
<1>1. /\ Len(work) \in Nat /\ m \in Nat /\ Len(work') = m + Len(work) - 1
      /\ \A i \in 2 .. Len(work) : work'[m + i - 1] = work[i]
      /\ \A i \in 1 .. Len(work') :
             \/ i \in 1 .. m /\ work'[i] = items[i]
             \/ i - m + 1 \in 2 .. Len(work) /\ work'[i] = work[i - m + 1]
  BY WorkReplaced
<1>2. Head(work) = work[1] /\ Len(work) >= 1
  BY HeadTailProperties, EmptySeq DEF ResolverInvariant
<1>3. \A i \in 1 .. m : ~EntersFunction(items[i]) /\ ~LeavesFunction(items[i])
                        /\ Visitable(items[i])
  OBVIOUS
<1>4. \A i \in 1 .. Len(work) : Visitable(work[i])
  BY DEF ResolverInvariant
<1>5. \A i \in 1 .. m : ~EntersFunction(items[i])'
  BY <1>3 DEF SameShape, EntersFunction, Visitable, IsNode
<1>6. \A i \in 1 .. Len(work) :
          ~EntersFunction(work[i]) =>
              ~(work[i].do = "statement" /\ nodes'[work[i].node].type = "Function")
  BY <1>4 DEF SameShape, EntersFunction, Visitable, IsNode
<1> HIDE DEF m
<1>7. CASE Len(scopes) = 1 /\ \A i \in 1 .. Len(work) : ~LeavesFunction(work[i])
  <2>1. \A i \in 1 .. Len(work') : work'[i].do # "end function"
    <3> TAKE i \in 1 .. Len(work')
    <3>1. CASE i \in 1 .. m /\ work'[i] = items[i]
      BY <1>3, <3>1 DEF LeavesFunction, m
    <3>2. CASE i - m + 1 \in 2 .. Len(work) /\ work'[i] = work[i - m + 1]
      <4>1. i - m + 1 \in 1 .. Len(work)
        BY <3>2
      <4>2. QED
        BY <1>7, <3>2, <4>1 DEF LeavesFunction
    <3>3. QED
      BY <1>1, <3>1, <3>2
  <2>2. QED
    BY <1>7, <2>1 DEF FramesFollowWork, LeavesFunction
<1>8. CASE /\ Len(scopes) = 2
           /\ \E e \in 1 .. Len(work) :
                  /\ LeavesFunction(work[e])
                  /\ \A i \in 1 .. Len(work) : i # e => ~LeavesFunction(work[i])
                  /\ \A i \in 1 .. e : ~EntersFunction(work[i])
  <2>1. PICK e \in 1 .. Len(work) :
            /\ LeavesFunction(work[e])
            /\ \A i \in 1 .. Len(work) : i # e => ~LeavesFunction(work[i])
            /\ \A i \in 1 .. e : ~EntersFunction(work[i])
    BY <1>8
  <2>2. e \in 2 .. Len(work)
    <3>1. e # 1
      BY <1>2, <2>1
    <3>2. QED
      BY <3>1
  <2> DEFINE f == m + e - 1
  <2>3. f \in 1 .. Len(work') /\ work'[f] = work[e]
    BY <1>1, <2>2
  <2>4. \A i \in 1 .. Len(work') : i # f => work'[i].do # "end function"
    <3> TAKE i \in 1 .. Len(work')
    <3>1. CASE i \in 1 .. m /\ work'[i] = items[i]
      BY <1>3, <3>1 DEF LeavesFunction, m
    <3>2. CASE i - m + 1 \in 2 .. Len(work) /\ work'[i] = work[i - m + 1]
      <4>1. i - m + 1 \in 1 .. Len(work) /\ (i # f => i - m + 1 # e)
        BY <1>1, <2>2, <3>2
      <4>2. QED
        BY <2>1, <3>2, <4>1 DEF LeavesFunction
    <3>3. QED
      BY <1>1, <3>1, <3>2
  <2>5. \A i \in 1 .. f :
            ~(work'[i].do = "statement" /\ nodes'[work'[i].node].type = "Function")
    <3> TAKE i \in 1 .. f
    <3>0. i \in 1 .. Len(work')
      BY <2>3
    <3>1. CASE i \in 1 .. m /\ work'[i] = items[i]
      BY <1>5, <3>1 DEF EntersFunction, m
    <3>2. CASE i - m + 1 \in 2 .. Len(work) /\ work'[i] = work[i - m + 1]
      <4>1. i - m + 1 \in 1 .. Len(work) /\ i - m + 1 \in 1 .. e
        BY <1>1, <2>2, <3>2, SMTT(30)
      <4>2. QED
        BY <1>6, <2>1, <3>2, <4>1
    <3>3. QED
      BY <1>1, <3>0, <3>1, <3>2
  <2>6. work'[f].do = "end function"
    BY <2>1, <2>3 DEF LeavesFunction
  <2> HIDE DEF f
  <2>7. QED
    BY <1>8, <2>3, <2>4, <2>5, <2>6 DEF FramesFollowWork, LeavesFunction, EntersFunction
<1>9. QED
  BY <1>7, <1>8 DEF ResolverInvariant, FramesFollowWork

(* What a handler that enters and leaves no function leaves to be visited. *)
LEMMA StepKeeps ==
    ASSUME ResolverInvariant, SameShape, work # <<>>, ~LeavesFunction(Head(work)),
           NEW items \in Seq(ResolverItem),
           \A i \in 1 .. Len(items) :
               Visitable(items[i]) /\ ~EntersFunction(items[i]) /\ ~LeavesFunction(items[i]),
           work' = items \o Tail(work), Len(scopes') = Len(scopes),
           \E S : scopes' \in Seq(S), \A i \in 1 .. Len(scopes) : IsFrame(scopes'[i])
    PROVE  ResolverInvariant'
<1>1. FramesFollowWork'
  BY PlainFollows
<1>2. work' \in Seq(ResolverItem) /\ (\A i \in 1 .. Len(work) : Visitable(work[i]))'
  BY WorkReplaced
<1>3. \A i \in 1 .. Len(scopes') : IsFrame(scopes'[i])
  OBVIOUS
<1>4. QED
  BY <1>1, <1>2, <1>3 DEF ResolverInvariant, IsFrame

-----------------------------------------------------------------------------

LEMMA VisitingFacts ==
    ASSUME ResolverInvariant, NEW do, R!Visiting(do)
    PROVE  /\ work # <<>> /\ Head(work) \in ResolverItem /\ Visitable(Head(work))
           /\ Head(work).do = do /\ R!Here = Head(work).node /\ R!This = nodes[R!Here]
           /\ resolved = R!Running /\ Head(work) = work[1] /\ Len(work) \in Nat /\ Len(work) >= 1
<1>1. work # <<>> /\ Head(work).do = do /\ resolved = R!Running
  BY DEF R!Visiting
<1>2. work \in Seq(ResolverItem) /\ \A i \in 1 .. Len(work) : Visitable(work[i])
  BY DEF ResolverInvariant
<1>3. /\ Head(work) = work[1] /\ 1 \in 1 .. Len(work) /\ Head(work) \in ResolverItem
      /\ Len(work) \in Nat /\ Len(work) >= 1
  BY <1>1, <1>2, HeadTailProperties, EmptySeq, LenProperties
<1>4. QED
  BY <1>1, <1>2, <1>3 DEF R!Here, R!This

(* Items for the children of a node. *)
LEMMA ItemsFacts ==
    ASSUME NEW do \in {"expression", "statement"}, NEW ids \in Seq(Nat),
           \A i \in 1 .. Len(ids) :
               /\ IsNode(ids[i])
               /\ KindOf(nodes[ids[i]].type) = IF do = "expression" THEN "E" ELSE "S"
    PROVE  /\ R!Items(do, ids) \in Seq(ResolverItem) /\ Len(R!Items(do, ids)) = Len(ids)
           /\ \A i \in 1 .. Len(ids) : R!Items(do, ids)[i] = R!Item(do, ids[i])
           /\ \A i \in 1 .. Len(R!Items(do, ids)) :
                  LET item == R!Items(do, ids)[i]
                  IN  Visitable(item) /\ ~EntersFunction(item) /\ ~LeavesFunction(item)
<1> DEFINE E(i) == R!Item(do, ids[i])
<1>1. DOMAIN ids = 1 .. Len(ids) /\ Len(ids) \in Nat
  BY LenProperties
<1>2. R!Items(do, ids) = [i \in 1 .. Len(ids) |-> E(i)]
  BY <1>1 DEF R!Items
<1>3. ASSUME NEW i \in 1 .. Len(ids)
      PROVE  E(i) \in ResolverItem /\ E(i).do = do /\ E(i).node = ids[i]
  <2>1. ids[i] \in Nat
    BY ElementOfSeq
  <2>2. QED
    BY <2>1 DEF R!Item, ResolverItem, Walks
<1>4. ASSUME NEW i \in 1 .. Len(ids)
      PROVE  Visitable(E(i)) /\ ~EntersFunction(E(i)) /\ ~LeavesFunction(E(i))
  <2>1. E(i).do = do /\ E(i).node = ids[i] /\ IsNode(ids[i])
        /\ KindOf(nodes[ids[i]].type) = IF do = "expression" THEN "E" ELSE "S"
    BY <1>3
  <2> HIDE DEF E
  <2>2. KindOf("Function") = "F"
    BY DEF KindOf, ExpressionTypes
  <2>3. QED
    BY <2>1, <2>2 DEF Visitable, EntersFunction, LeavesFunction
<1> HIDE DEF E
<1> DEFINE all == [i \in 1 .. Len(ids) |-> E(i)]
<1>5. all \in Seq(ResolverItem)
  BY <1>1, <1>3, IsASeq
<1>6. Len(all) = Len(ids) /\ \A i \in 1 .. Len(ids) : all[i] = E(i)
  BY <1>1
<1> HIDE DEF all
<1>7. R!Items(do, ids) = all
  BY <1>2 DEF all
<1>8. QED
  BY <1>4, <1>5, <1>6, <1>7 DEF E

LEMMA KidFacts ==
    ASSUME TreesAreSound, NEW n \in 1 .. Len(nodes)
    PROVE  /\ nodes[n] \in TreeNode /\ nodes[n].kids \in Seq(Nat)
           /\ nodes[n].name \in Names
           /\ Len(nodes[n].kids) \in KidCounts(nodes[n].type)
           /\ \A i \in 1 .. Len(nodes[n].kids) :
                  /\ IsNode(nodes[n].kids[i]) /\ nodes[n].kids[i] < n
                  /\ KindOf(nodes[nodes[n].kids[i]].type) = KidKind(nodes[n].type, i)
<1>1. nodes[n] \in TreeNode /\ Len(nodes) \in Nat /\ KidsAreSound(n)
  BY ElementOfSeq, LenProperties DEF TreesAreSound
<1>2. nodes[n].kids \in Seq(Nat) /\ nodes[n].name \in Names
  BY <1>1 DEF TreeNode
<1>3. ASSUME NEW i \in 1 .. Len(nodes[n].kids)
      PROVE  /\ IsNode(nodes[n].kids[i]) /\ nodes[n].kids[i] < n
             /\ KindOf(nodes[nodes[n].kids[i]].type) = KidKind(nodes[n].type, i)
  <2>1. /\ nodes[n].kids[i] \in 1 .. n - 1
        /\ KindOf(nodes[nodes[n].kids[i]].type) = KidKind(nodes[n].type, i)
    BY <1>1 DEF KidsAreSound
  <2> DEFINE k == nodes[n].kids[i]
  <2>2. k \in 1 .. Len(nodes) /\ k < n
    BY <1>1, <2>1
  <2>3. QED
    BY <2>1, <2>2 DEF IsNode
<1>4. QED
  BY <1>1, <1>2, <1>3 DEF KidsAreSound

LEMMA VisitKeeps ==
    ASSUME TreesAreSound, ProgramIsSound, ResolverInvariant, work # <<>>,
           ~LeavesFunction(Head(work)), NEW items \in Seq(ResolverItem),
           \A i \in 1 .. Len(items) :
               Visitable(items[i]) /\ ~EntersFunction(items[i]) /\ ~LeavesFunction(items[i]),
           R!Visit(items)
    PROVE  TreesAreSound' /\ ProgramIsSound' /\ ResolverInvariant'
<1>1. /\ work' = items \o Tail(work) /\ nodes' = nodes /\ scopes' = scopes
      /\ program' = program
  BY DEF R!Visit, R!Become
<1>2. TreesAreSound' /\ SameShape
  BY <1>1, SameNodes
<1>3. ProgramIsSound'
  BY <1>1, <1>2, ShapeKeepsProgram
<1>4. (\E S : scopes' \in Seq(S)) /\ \A i \in 1 .. Len(scopes) : IsFrame(scopes'[i])
  BY <1>1 DEF ResolverInvariant
<1>5. ResolverInvariant'
  BY <1>1, <1>2, <1>4, StepKeeps
<1>6. QED
  BY <1>2, <1>3, <1>5

LEMMA RefusalKeeps ==
    ASSUME TreesAreSound, ProgramIsSound, ResolverInvariant, NEW span, NEW message,
           R!Fail(span, message)
    PROVE  TreesAreSound' /\ ProgramIsSound' /\ ResolverInvariant'
<1>1. nodes' = nodes /\ work' = work /\ scopes' = scopes /\ program' = program
  BY DEF R!Fail
<1>2. TreesAreSound' /\ SameShape
  BY <1>1, SameNodes
<1>3. ProgramIsSound'
  BY <1>1, <1>2, ShapeKeepsProgram
<1>4. ResolverInvariant'
  BY <1>1, ZenonT(40) DEF ResolverInvariant, Visitable, IsNode, IsFrame, FramesFollowWork, EntersFunction
<1>5. QED
  BY <1>2, <1>3, <1>4

(* The children of a node of each kind. *)
LEMMA KidItems ==
    ASSUME TreesAreSound, NEW n \in 1 .. Len(nodes)
    PROVE  /\ nodes[n].type \in ExpressionTypes \cup {"Print", "Return"} =>
                  LET items == R!Items("expression", nodes[n].kids)
                  IN  /\ items \in Seq(ResolverItem)
                      /\ \A i \in 1 .. Len(items) :
                             /\ Visitable(items[i])
                             /\ ~EntersFunction(items[i]) /\ ~LeavesFunction(items[i])
           /\ nodes[n].type = "Block" =>
                  LET items == R!Items("statement", nodes[n].kids)
                  IN  /\ items \in Seq(ResolverItem)
                      /\ \A i \in 1 .. Len(items) :
                             /\ Visitable(items[i])
                             /\ ~EntersFunction(items[i]) /\ ~LeavesFunction(items[i])
<1> DEFINE ids == nodes[n].kids
           e == "expression"
           s == "statement"
<1>1. /\ ids \in Seq(Nat)
      /\ \A i \in 1 .. Len(ids) :
             IsNode(ids[i]) /\ KindOf(nodes[ids[i]].type) = KidKind(nodes[n].type, i)
  BY KidFacts
<1>2. /\ \A type \in ExpressionTypes \cup {"Print", "Return"} : \A i : KidKind(type, i) = "E"
      /\ \A i : KidKind("Block", i) = "S"
  BY DEF KidKind, ExpressionTypes
<1>3. e \in {"expression", "statement"} /\ s \in {"expression", "statement"}
      /\ e = "expression" /\ s # "expression"
  OBVIOUS
<1> HIDE DEF ids, e, s
<1>4. ASSUME nodes[n].type \in ExpressionTypes \cup {"Print", "Return"}
      PROVE  LET items == R!Items(e, ids)
             IN  /\ items \in Seq(ResolverItem)
                 /\ \A i \in 1 .. Len(items) :
                        /\ Visitable(items[i])
                        /\ ~EntersFunction(items[i]) /\ ~LeavesFunction(items[i])
  <2>1. \A i \in 1 .. Len(ids) :
            IsNode(ids[i])
            /\ KindOf(nodes[ids[i]].type) = IF e = "expression" THEN "E" ELSE "S"
    BY <1>1, <1>2, <1>3, <1>4
  <2>2. QED
    BY <1>1, <1>3, <2>1, ItemsFacts
<1>5. ASSUME nodes[n].type = "Block"
      PROVE  LET items == R!Items(s, ids)
             IN  /\ items \in Seq(ResolverItem)
                 /\ \A i \in 1 .. Len(items) :
                        /\ Visitable(items[i])
                        /\ ~EntersFunction(items[i]) /\ ~LeavesFunction(items[i])
  <2>1. \A i \in 1 .. Len(ids) :
            IsNode(ids[i])
            /\ KindOf(nodes[ids[i]].type) = IF s = "expression" THEN "E" ELSE "S"
    BY <1>1, <1>2, <1>3, <1>5
  <2>2. QED
    BY <1>1, <1>3, <2>1, ItemsFacts
<1>6. QED
  BY <1>4, <1>5 DEF e, s, ids

-----------------------------------------------------------------------------

LEMMA ResolveOperandsKeeps ==
    ASSUME TreesAreSound, ProgramIsSound, ResolverInvariant, R!ResolveOperands
    PROVE  TreesAreSound' /\ ProgramIsSound' /\ ResolverInvariant'
<1>1. /\ R!Visiting("expression") /\ R!This.type \in ExpressionTypes
      /\ R!Visit(R!Items("expression", R!This.kids))
  BY DEF R!ResolveOperands, R!VisitingA, R!This, R!Here, ExpressionTypes
<1> DEFINE n == R!Here
<1>2. /\ work # <<>> /\ Head(work).do = "expression" /\ n \in 1 .. Len(nodes)
      /\ R!This = nodes[n]
  BY <1>1, VisitingFacts DEF Visitable, IsNode
<1> HIDE DEF n
<1>3. ~LeavesFunction(Head(work))
  BY <1>2 DEF LeavesFunction
<1> DEFINE items == R!Items("expression", nodes[n].kids)
<1>4. /\ items \in Seq(ResolverItem)
      /\ \A i \in 1 .. Len(items) :
             Visitable(items[i]) /\ ~EntersFunction(items[i]) /\ ~LeavesFunction(items[i])
  BY <1>1, <1>2, KidItems
<1>5. R!Visit(items)
  BY <1>1, <1>2
<1> HIDE DEF items
<1>6. QED
  BY <1>2, <1>3, <1>4, <1>5, VisitKeeps

LEMMA ResolveCallKeeps ==
    ASSUME TreesAreSound, ProgramIsSound, ResolverInvariant, R!ResolveCall
    PROVE  TreesAreSound' /\ ProgramIsSound' /\ ResolverInvariant'
<1>1. /\ R!Visiting("expression") /\ R!This.type \in ExpressionTypes
      /\ \/ \E span, message : R!Fail(span, message)
         \/ R!Visit(R!Items("expression", R!This.kids))
  BY DEF R!ResolveCall, R!VisitingA, R!This, R!Here, ExpressionTypes
<1> DEFINE n == R!Here
<1>2. /\ work # <<>> /\ Head(work).do = "expression" /\ n \in 1 .. Len(nodes)
      /\ R!This = nodes[n]
  BY <1>1, VisitingFacts DEF Visitable, IsNode
<1> HIDE DEF n
<1>3. ~LeavesFunction(Head(work))
  BY <1>2 DEF LeavesFunction
<1> DEFINE items == R!Items("expression", nodes[n].kids)
<1>4. /\ items \in Seq(ResolverItem)
      /\ \A i \in 1 .. Len(items) :
             Visitable(items[i]) /\ ~EntersFunction(items[i]) /\ ~LeavesFunction(items[i])
  BY <1>1, <1>2, KidItems
<1>5. (\E span, message : R!Fail(span, message)) \/ R!Visit(items)
  BY <1>1, <1>2
<1> HIDE DEF items
<1>6. QED
  BY <1>2, <1>3, <1>4, <1>5, VisitKeeps, RefusalKeeps

LEMMA ResolvePrintKeeps ==
    ASSUME TreesAreSound, ProgramIsSound, ResolverInvariant, R!ResolvePrint
    PROVE  TreesAreSound' /\ ProgramIsSound' /\ ResolverInvariant'
<1>1. /\ R!Visiting("statement") /\ R!This.type = "Print"
      /\ R!Visit(R!Items("expression", R!This.kids))
  BY DEF R!ResolvePrint, R!VisitingA, R!This, R!Here
<1> DEFINE n == R!Here
<1>2. /\ work # <<>> /\ Head(work).do = "statement" /\ n \in 1 .. Len(nodes)
      /\ R!This = nodes[n]
  BY <1>1, VisitingFacts DEF Visitable, IsNode
<1> HIDE DEF n
<1>3. ~LeavesFunction(Head(work))
  BY <1>2 DEF LeavesFunction
<1> DEFINE items == R!Items("expression", nodes[n].kids)
<1>4. /\ items \in Seq(ResolverItem)
      /\ \A i \in 1 .. Len(items) :
             Visitable(items[i]) /\ ~EntersFunction(items[i]) /\ ~LeavesFunction(items[i])
  BY <1>1, <1>2, KidItems
<1>5. R!Visit(items)
  BY <1>1, <1>2
<1> HIDE DEF items
<1>6. QED
  BY <1>2, <1>3, <1>4, <1>5, VisitKeeps

LEMMA ResolveReturnKeeps ==
    ASSUME TreesAreSound, ProgramIsSound, ResolverInvariant, R!ResolveReturn
    PROVE  TreesAreSound' /\ ProgramIsSound' /\ ResolverInvariant'
<1>1. /\ R!Visiting("statement") /\ R!This.type = "Return"
      /\ \/ \E span, message : R!Fail(span, message)
         \/ R!Visit(R!Items("expression", R!This.kids))
  BY DEF R!ResolveReturn, R!VisitingA, R!This, R!Here
<1> DEFINE n == R!Here
<1>2. /\ work # <<>> /\ Head(work).do = "statement" /\ n \in 1 .. Len(nodes)
      /\ R!This = nodes[n]
  BY <1>1, VisitingFacts DEF Visitable, IsNode
<1> HIDE DEF n
<1>3. ~LeavesFunction(Head(work))
  BY <1>2 DEF LeavesFunction
<1> DEFINE items == R!Items("expression", nodes[n].kids)
<1>4. /\ items \in Seq(ResolverItem)
      /\ \A i \in 1 .. Len(items) :
             Visitable(items[i]) /\ ~EntersFunction(items[i]) /\ ~LeavesFunction(items[i])
  BY <1>1, <1>2, KidItems
<1>5. (\E span, message : R!Fail(span, message)) \/ R!Visit(items)
  BY <1>1, <1>2
<1> HIDE DEF items
<1>6. QED
  BY <1>2, <1>3, <1>4, <1>5, VisitKeeps, RefusalKeeps

(* One item of each kind. *)
LEMMA SingleItems ==
    ASSUME NEW n \in 1 .. Len(nodes)
    PROVE  /\ KindOf(nodes[n].type) = "E" =>
                  LET item == R!Item("expression", n)
                  IN  /\ item \in ResolverItem /\ Visitable(item)
                      /\ ~EntersFunction(item) /\ ~LeavesFunction(item)
           /\ KindOf(nodes[n].type) = "S" =>
                  LET item == R!Item("statement", n)
                  IN  /\ item \in ResolverItem /\ Visitable(item)
                      /\ ~EntersFunction(item) /\ ~LeavesFunction(item)
           /\ nodes[n].type = "Assign" =>
                  LET item == R!Item("declare or bind", n)
                  IN  /\ item \in ResolverItem /\ Visitable(item)
                      /\ ~EntersFunction(item) /\ ~LeavesFunction(item)
           /\ LET item == R!Item("pop scope", n)
              IN  /\ item \in ResolverItem /\ Visitable(item)
                  /\ ~EntersFunction(item) /\ ~LeavesFunction(item)
<1>1. KindOf("Function") = "F"
  BY DEF KindOf, ExpressionTypes
<1>2. QED
  BY <1>1 DEF R!Item, ResolverItem, Walks, Visitable, EntersFunction, LeavesFunction, IsNode

LEMMA ResolveAssignKeeps ==
    ASSUME TreesAreSound, ProgramIsSound, ResolverInvariant, R!ResolveAssign
    PROVE  TreesAreSound' /\ ProgramIsSound' /\ ResolverInvariant'
<1> DEFINE n == R!Here
           value == nodes[n].kids[1]
           first == R!Item("expression", value)
           second == R!Item("declare or bind", n)
           items == <<first, second>>
<1>1. /\ R!Visiting("statement") /\ nodes[n].type = "Assign" /\ R!Visit(items)
  BY DEF R!ResolveAssign, R!VisitingA, R!This, R!Here
<1>2. work # <<>> /\ Head(work).do = "statement" /\ n \in 1 .. Len(nodes)
  BY <1>1, VisitingFacts DEF Visitable, IsNode
<1>3. ~LeavesFunction(Head(work))
  BY <1>2 DEF LeavesFunction
<1> HIDE DEF n
<1>4. value \in 1 .. Len(nodes) /\ KindOf(nodes[value].type) = "E"
  <2>0. KidCounts("Assign") = {1}
    BY DEF KidCounts
  <2>1. 1 \in 1 .. Len(nodes[n].kids)
    <3>1. Len(nodes[n].kids) \in KidCounts(nodes[n].type)
      BY <1>2, KidFacts
    <3>2. nodes[n].type = "Assign"
      BY <1>1
    <3>3. Len(nodes[n].kids) = 1
      BY <2>0, <3>1, <3>2
    <3>4. QED
      BY <3>3
  <2>2. KidKind("Assign", 1) = "E"
    BY DEF KidKind
  <2>3. QED
    BY <1>1, <1>2, <2>1, <2>2, KidFacts DEF IsNode
<1> HIDE DEF value
<1>5. /\ first \in ResolverItem /\ Visitable(first)
      /\ ~EntersFunction(first) /\ ~LeavesFunction(first)
  BY <1>4, SingleItems
<1>6. /\ second \in ResolverItem /\ Visitable(second)
      /\ ~EntersFunction(second) /\ ~LeavesFunction(second)
  BY <1>1, <1>2, SingleItems
<1> HIDE DEF first, second
<1>7. /\ items \in Seq(ResolverItem) /\ Len(items) = 2 /\ items[1] = first /\ items[2] = second
  BY <1>5, <1>6
<1>8. \A i \in 1 .. Len(items) :
          Visitable(items[i]) /\ ~EntersFunction(items[i]) /\ ~LeavesFunction(items[i])
  BY <1>5, <1>6, <1>7
<1>9. R!Visit(items)
  BY <1>1
<1> HIDE DEF items
<1>10. QED
  BY <1>2, <1>3, <1>7, <1>8, <1>9, VisitKeeps

LEMMA NoItems ==
    /\ <<>> \in Seq(ResolverItem)
    /\ \A i \in 1 .. Len(<<>>) :
           Visitable(<<>>[i]) /\ ~EntersFunction(<<>>[i]) /\ ~LeavesFunction(<<>>[i])
OBVIOUS

LEMMA ResolveIdentifierKeeps ==
    ASSUME TreesAreSound, ProgramIsSound, ResolverInvariant, R!ResolveIdentifier
    PROVE  TreesAreSound' /\ ProgramIsSound' /\ ResolverInvariant'
<1> DEFINE n == R!Here
           slot == R!Lookup(nodes[n].name)
           none == <<>>
<1>1. /\ R!Visiting("expression")
      /\ \/ \E span, message : R!Fail(span, message)
         \/ /\ nodes' = [nodes EXCEPT ![n].slot = slot]
            /\ work' = none \o Tail(work)
            /\ scopes' = scopes /\ program' = program
  BY DEF R!ResolveIdentifier, R!VisitingA, R!This, R!Become
<1>2. work # <<>> /\ Head(work).do = "expression" /\ n \in 1 .. Len(nodes)
  BY <1>1, VisitingFacts DEF Visitable, IsNode
<1>3. ~LeavesFunction(Head(work))
  BY <1>2 DEF LeavesFunction
<1>4. slot \in Int
  BY LookupFits, LastFrame
<1>5. /\ none \in Seq(ResolverItem)
      /\ \A i \in 1 .. Len(none) :
             Visitable(none[i]) /\ ~EntersFunction(none[i]) /\ ~LeavesFunction(none[i])
  BY NoItems
<1> HIDE DEF n, slot, none
<1>6. CASE /\ nodes' = [nodes EXCEPT ![n].slot = slot]
           /\ work' = none \o Tail(work)
           /\ scopes' = scopes /\ program' = program
  <2>1. TreesAreSound' /\ SameShape
    BY <1>2, <1>4, <1>6, SlotWritten
  <2>2. ProgramIsSound'
    BY <1>6, <2>1, ShapeKeepsProgram
  <2>3. (\E S : scopes' \in Seq(S)) /\ \A i \in 1 .. Len(scopes) : IsFrame(scopes'[i])
    BY <1>6 DEF ResolverInvariant
  <2>4. ResolverInvariant'
    BY <1>2, <1>3, <1>5, <1>6, <2>1, <2>3, StepKeeps
  <2>5. QED
    BY <2>1, <2>2, <2>4
<1>7. QED
  BY <1>1, <1>6, RefusalKeeps

LEMMA DeclareOrBindKeeps ==
    ASSUME TreesAreSound, ProgramIsSound, ResolverInvariant, R!DeclareOrBind
    PROVE  TreesAreSound' /\ ProgramIsSound' /\ ResolverInvariant'
<1> DEFINE n == R!Here
           name == nodes[n].name
           existing == R!Lookup(name)
           slot == IF existing # R!UnresolvedSlot THEN existing ELSE R!Frame.nextSlot
           none == <<>>
<1>1. /\ R!Visiting("declare or bind")
      /\ nodes' = [nodes EXCEPT ![n].slot = slot]
      /\ work' = none \o Tail(work) /\ program' = program
      /\ \/ scopes' = scopes
         \/ scopes' = Append(R!Front(scopes), R!Declare(R!Frame, name))
  BY DEF R!DeclareOrBind, R!This, R!Become, R!WithFrame
<1>2. work # <<>> /\ Head(work).do = "declare or bind" /\ n \in 1 .. Len(nodes)
  BY <1>1, VisitingFacts DEF Visitable, IsNode
<1>3. ~LeavesFunction(Head(work))
  BY <1>2 DEF LeavesFunction
<1>4. slot \in Int /\ name \in Names
  <2>1. name \in Names
    BY <1>2, KidFacts
  <2>2. existing \in Int /\ R!Frame.nextSlot \in Int
    BY LookupFits, LastFrame
  <2>3. QED
    BY <2>1, <2>2
<1>5. /\ none \in Seq(ResolverItem)
      /\ \A i \in 1 .. Len(none) :
             Visitable(none[i]) /\ ~EntersFunction(none[i]) /\ ~LeavesFunction(none[i])
  BY NoItems
<1> HIDE DEF n, slot, none, name
<1>6. TreesAreSound' /\ SameShape
  BY <1>1, <1>2, <1>4, SlotWritten
<1>7. ProgramIsSound'
  BY <1>1, <1>6, ShapeKeepsProgram
<1>8. /\ \E S : scopes' \in Seq(S)
      /\ Len(scopes') = Len(scopes)
      /\ \A i \in 1 .. Len(scopes) : IsFrame(scopes'[i])
  <2>1. PICK S : scopes \in Seq(S)
    BY DEF ResolverInvariant
  <2>2. \A i \in 1 .. Len(scopes) : IsFrame(scopes[i])
    BY DEF ResolverInvariant
  <2>3. IsFrame(R!Declare(R!Frame, name))
    BY <1>4, LastFrame, DeclaredFrame
  <2>4. CASE scopes' = Append(R!Front(scopes), R!Declare(R!Frame, name))
    BY <2>1, <2>2, <2>3, <2>4, LastFrame, FrameReplaced
  <2>5. CASE scopes' = scopes
    BY <2>1, <2>2, <2>5
  <2>6. QED
    BY <1>1, <2>4, <2>5
<1>9. ResolverInvariant'
  BY <1>1, <1>2, <1>3, <1>5, <1>6, <1>8, StepKeeps
<1>10. QED
  BY <1>6, <1>7, <1>9

LEMMA ResolveBlockKeeps ==
    ASSUME TreesAreSound, ProgramIsSound, ResolverInvariant, R!ResolveBlock
    PROVE  TreesAreSound' /\ ProgramIsSound' /\ ResolverInvariant'
<1> DEFINE n == R!Here
           frame == [R!Frame EXCEPT !.scopes = Append(@, R!EmptyScope)]
           first == R!Items("statement", nodes[n].kids)
           last == R!Item("pop scope", n)
           items == Append(first, last)
<1>1. /\ R!Visiting("statement") /\ nodes[n].type = "Block"
      /\ scopes' = Append(R!Front(scopes), frame)
      /\ work' = items \o Tail(work) /\ nodes' = nodes /\ program' = program
  BY DEF R!ResolveBlock, R!VisitingA, R!This, R!Here, R!Become, R!WithFrame
<1>2. work # <<>> /\ Head(work).do = "statement" /\ n \in 1 .. Len(nodes)
  BY <1>1, VisitingFacts DEF Visitable, IsNode
<1>3. ~LeavesFunction(Head(work))
  BY <1>2 DEF LeavesFunction
<1>4. IsFrame(frame)
  BY LastFrame, OpenedFrame
<1> HIDE DEF n, frame
<1>5. /\ first \in Seq(ResolverItem)
      /\ \A i \in 1 .. Len(first) :
             Visitable(first[i]) /\ ~EntersFunction(first[i]) /\ ~LeavesFunction(first[i])
  BY <1>1, <1>2, KidItems
<1>6. /\ last \in ResolverItem /\ Visitable(last)
      /\ ~EntersFunction(last) /\ ~LeavesFunction(last)
  BY <1>2, SingleItems
<1> HIDE DEF first, last
<1>7. /\ items \in Seq(ResolverItem) /\ Len(items) = Len(first) + 1
      /\ \A i \in 1 .. Len(first) : items[i] = first[i]
      /\ items[Len(first) + 1] = last /\ Len(first) \in Nat
  BY <1>5, <1>6, AppendProperties, LenProperties
<1> HIDE DEF items
<1>8. ASSUME NEW i \in 1 .. Len(items)
      PROVE  Visitable(items[i]) /\ ~EntersFunction(items[i]) /\ ~LeavesFunction(items[i])
  <2>1. i \in 1 .. Len(first) \/ i = Len(first) + 1
    BY <1>7
  <2>2. QED
    BY <1>5, <1>6, <1>7, <2>1
<1>9. TreesAreSound' /\ SameShape
  BY <1>1, SameNodes
<1>10. ProgramIsSound'
  BY <1>1, <1>9, ShapeKeepsProgram
<1>11. /\ \E S : scopes' \in Seq(S)
       /\ Len(scopes') = Len(scopes)
       /\ \A i \in 1 .. Len(scopes) : IsFrame(scopes'[i])
  <2>1. PICK S : scopes \in Seq(S)
    BY DEF ResolverInvariant
  <2>2. \A i \in 1 .. Len(scopes) : IsFrame(scopes[i])
    BY DEF ResolverInvariant
  <2>3. QED
    BY <1>1, <1>4, <2>1, <2>2, LastFrame, FrameReplaced
<1>12. ResolverInvariant'
  BY <1>1, <1>2, <1>3, <1>7, <1>8, <1>9, <1>11, StepKeeps
<1>13. QED
  BY <1>9, <1>10, <1>12

LEMMA PopScopeKeeps ==
    ASSUME TreesAreSound, ProgramIsSound, ResolverInvariant, R!PopScope
    PROVE  TreesAreSound' /\ ProgramIsSound' /\ ResolverInvariant'
<1> DEFINE frame == R!CloseScope(R!Frame)
           none == <<>>
<1>1. /\ R!Visiting("pop scope")
      /\ scopes' = Append(R!Front(scopes), frame)
      /\ work' = none \o Tail(work) /\ nodes' = nodes /\ program' = program
  BY DEF R!PopScope, R!Become, R!WithFrame
<1>2. work # <<>> /\ ~LeavesFunction(Head(work))
  <2>1. work # <<>> /\ Head(work).do = "pop scope"
    BY <1>1, VisitingFacts
  <2>2. QED
    BY <2>1 DEF LeavesFunction
<1>3. IsFrame(frame)
  BY LastFrame, ClosedFrame
<1>4. /\ none \in Seq(ResolverItem)
      /\ \A i \in 1 .. Len(none) :
             Visitable(none[i]) /\ ~EntersFunction(none[i]) /\ ~LeavesFunction(none[i])
  BY NoItems
<1> HIDE DEF frame, none
<1>5. TreesAreSound' /\ SameShape
  BY <1>1, SameNodes
<1>6. ProgramIsSound'
  BY <1>1, <1>5, ShapeKeepsProgram
<1>7. /\ \E S : scopes' \in Seq(S)
      /\ Len(scopes') = Len(scopes)
      /\ \A i \in 1 .. Len(scopes) : IsFrame(scopes'[i])
  <2>1. PICK S : scopes \in Seq(S)
    BY DEF ResolverInvariant
  <2>2. \A i \in 1 .. Len(scopes) : IsFrame(scopes[i])
    BY DEF ResolverInvariant
  <2>3. QED
    BY <1>1, <1>3, <2>1, <2>2, LastFrame, FrameReplaced
<1>8. ResolverInvariant'
  BY <1>1, <1>2, <1>4, <1>5, <1>7, StepKeeps
<1>9. QED
  BY <1>5, <1>6, <1>8

(* The condition of an if or of a while, and what it selects. *)
LEMMA ResolveConditionalKeeps ==
    ASSUME TreesAreSound, ProgramIsSound, ResolverInvariant, R!ResolveConditional
    PROVE  TreesAreSound' /\ ProgramIsSound' /\ ResolverInvariant'
<1> DEFINE n == R!Here
           kids == nodes[n].kids
           head == Head(kids)
           tail == Tail(kids)
           first == R!Item("expression", head)
           rest == R!Items("statement", tail)
           items == <<first>> \o rest
<1>1. R!Visiting("statement") /\ nodes[n].type \in {"If", "While"} /\ R!Visit(items)
  BY DEF R!ResolveConditional, R!VisitingA, R!This, R!Here
<1>2. work # <<>> /\ Head(work).do = "statement" /\ n \in 1 .. Len(nodes)
  BY <1>1, VisitingFacts DEF Visitable, IsNode
<1>3. ~LeavesFunction(Head(work))
  BY <1>2 DEF LeavesFunction
<1> HIDE DEF n
<1>4. /\ kids \in Seq(Nat) /\ Len(kids) \in KidCounts(nodes[n].type)
      /\ \A i \in 1 .. Len(kids) :
             IsNode(kids[i]) /\ KindOf(nodes[kids[i]].type) = KidKind(nodes[n].type, i)
  BY <1>2, KidFacts
<1>5. /\ \A type \in {"If", "While"} : KidKind(type, 1) = "E"
      /\ \A type \in {"If", "While"} : \A i \in Nat : i > 1 => KidKind(type, i) = "S"
  BY DEF KidKind
<1>6. KidCounts("If") = {2, 3} /\ KidCounts("While") = {2}
  BY DEF KidCounts
<1>7. Len(kids) \in Nat /\ Len(kids) >= 2
  BY <1>1, <1>4, <1>6
<1> HIDE DEF kids
<1>8. /\ head = kids[1] /\ tail \in Seq(Nat) /\ Len(tail) = Len(kids) - 1
      /\ \A i \in 1 .. Len(tail) : tail[i] = kids[i + 1]
  BY <1>4, <1>7, HeadTailProperties, EmptySeq
<1>9. head \in 1 .. Len(nodes) /\ KindOf(nodes[head].type) = "E"
  BY <1>1, <1>4, <1>5, <1>7, <1>8 DEF IsNode
<1> HIDE DEF head, tail
<1>10. \A i \in 1 .. Len(tail) : IsNode(tail[i]) /\ KindOf(nodes[tail[i]].type) = "S"
  <2> TAKE i \in 1 .. Len(tail)
  <2>1. i + 1 \in 1 .. Len(kids) /\ i + 1 \in Nat /\ i + 1 > 1 /\ tail[i] = kids[i + 1]
    BY <1>7, <1>8
  <2>2. QED
    BY <1>1, <1>4, <1>5, <2>1
<1>11. /\ first \in ResolverItem /\ Visitable(first)
       /\ ~EntersFunction(first) /\ ~LeavesFunction(first)
  BY <1>9, SingleItems
<1> DEFINE s == "statement"
<1>12. /\ s \in {"expression", "statement"}
       /\ \A i \in 1 .. Len(tail) :
              /\ IsNode(tail[i])
              /\ KindOf(nodes[tail[i]].type) = IF s = "expression" THEN "E" ELSE "S"
  BY <1>10
<1>13. rest = R!Items(s, tail)
  OBVIOUS
<1> HIDE DEF s, first, rest
<1>14. /\ rest \in Seq(ResolverItem)
       /\ \A i \in 1 .. Len(rest) :
              Visitable(rest[i]) /\ ~EntersFunction(rest[i]) /\ ~LeavesFunction(rest[i])
  BY <1>8, <1>12, <1>13, ItemsFacts
<1> DEFINE one == <<first>>
<1>15. one \in Seq(ResolverItem) /\ Len(one) = 1 /\ one[1] = first
  BY <1>11
<1> HIDE DEF one
<1>16. items = one \o rest
  BY DEF one
<1>17. /\ items \in Seq(ResolverItem) /\ Len(items) = Len(one) + Len(rest)
       /\ Len(one) \in Nat /\ Len(rest) \in Nat
       /\ \A i \in 1 .. Len(one) + Len(rest) :
              items[i] = IF i <= Len(one) THEN one[i] ELSE rest[i - Len(one)]
  BY <1>14, <1>15, <1>16, ConcatProperties, LenProperties
<1>18. R!Visit(items)
  BY <1>1 DEF first, rest, tail, head, kids
<1> HIDE DEF items
<1>19. ASSUME NEW i \in 1 .. Len(items)
       PROVE  Visitable(items[i]) /\ ~EntersFunction(items[i]) /\ ~LeavesFunction(items[i])
  <2>1. CASE i = 1
    BY <1>11, <1>15, <1>17, <2>1
  <2>2. CASE i > 1
    <3>1. i - 1 \in 1 .. Len(rest) /\ items[i] = rest[i - 1]
      BY <1>15, <1>17, <2>2
    <3>2. QED
      BY <1>14, <3>1
  <2>3. QED
    BY <1>17, <2>1, <2>2
<1>20. QED
  BY <1>2, <1>3, <1>17, <1>18, <1>19, VisitKeeps

LEMMA CollectFunctionsKeeps ==
    ASSUME TreesAreSound, ProgramIsSound, ResolverInvariant, R!CollectFunctions
    PROVE  TreesAreSound' /\ ProgramIsSound' /\ ResolverInvariant'
<1> DEFINE none == <<>>
<1>1. /\ R!Visiting("collect")
      /\ \/ \E span, message : R!Fail(span, message)
         \/ /\ work' = none \o Tail(work) /\ nodes' = nodes
            /\ scopes' = scopes /\ program' = program
  BY DEF R!CollectFunctions, R!Become
<1>2. work # <<>> /\ ~LeavesFunction(Head(work))
  <2>1. work # <<>> /\ Head(work).do = "collect"
    BY <1>1, VisitingFacts
  <2>2. QED
    BY <2>1 DEF LeavesFunction
<1>3. /\ none \in Seq(ResolverItem)
      /\ \A i \in 1 .. Len(none) :
             Visitable(none[i]) /\ ~EntersFunction(none[i]) /\ ~LeavesFunction(none[i])
  BY NoItems
<1> HIDE DEF none
<1>4. CASE /\ work' = none \o Tail(work) /\ nodes' = nodes
           /\ scopes' = scopes /\ program' = program
  <2>1. TreesAreSound' /\ SameShape
    BY <1>4, SameNodes
  <2>2. ProgramIsSound'
    BY <1>4, <2>1, ShapeKeepsProgram
  <2>3. (\E S : scopes' \in Seq(S)) /\ \A i \in 1 .. Len(scopes) : IsFrame(scopes'[i])
    BY <1>4 DEF ResolverInvariant
  <2>4. ResolverInvariant'
    BY <1>2, <1>3, <1>4, <2>1, <2>3, StepKeeps
  <2>5. QED
    BY <2>1, <2>2, <2>4
<1>5. QED
  BY <1>1, <1>4, RefusalKeeps

LEMMA FinishKeeps ==
    ASSUME TreesAreSound, ProgramIsSound, ResolverInvariant, R!Finish
    PROVE  TreesAreSound' /\ ProgramIsSound' /\ ResolverInvariant'
<1> DEFINE none == <<>>
<1>1. /\ R!Visiting("finish")
      /\ work' = none \o Tail(work) /\ nodes' = nodes
      /\ scopes' = scopes /\ program' = program
  BY DEF R!Finish, R!Become
<1>2. work # <<>> /\ ~LeavesFunction(Head(work))
  <2>1. work # <<>> /\ Head(work).do = "finish"
    BY <1>1, VisitingFacts
  <2>2. QED
    BY <2>1 DEF LeavesFunction
<1>3. /\ none \in Seq(ResolverItem)
      /\ \A i \in 1 .. Len(none) :
             Visitable(none[i]) /\ ~EntersFunction(none[i]) /\ ~LeavesFunction(none[i])
  BY NoItems
<1> HIDE DEF none
<1>4. TreesAreSound' /\ SameShape
  BY <1>1, SameNodes
<1>5. ProgramIsSound'
  BY <1>1, <1>4, ShapeKeepsProgram
<1>6. (\E S : scopes' \in Seq(S)) /\ \A i \in 1 .. Len(scopes) : IsFrame(scopes'[i])
  BY <1>1 DEF ResolverInvariant
<1>7. ResolverInvariant'
  BY <1>1, <1>2, <1>3, <1>4, <1>6, StepKeeps
<1>8. QED
  BY <1>4, <1>5, <1>7

-----------------------------------------------------------------------------

(* The frame a declaration opens: its parameters are numbered in order. *)
LEMMA ParameterFrame ==
    ASSUME NEW parameters \in Seq(Param)
    PROVE  LET scope == [p \in {parameters[i].name : i \in DOMAIN parameters} |->
                            (CHOOSE i \in DOMAIN parameters : parameters[i].name = p) - 1]
           IN  IsFrame([nextSlot |-> Len(parameters), scopes |-> <<scope>>, retired |-> {}])
<1> DEFINE D == {parameters[i].name : i \in DOMAIN parameters}
           At(p) == CHOOSE i \in DOMAIN parameters : parameters[i].name = p
           scope == [p \in D |-> At(p) - 1]
           n == Len(parameters)
<1>1. n \in Nat /\ DOMAIN parameters = 1 .. n
  BY LenProperties
<1>2. \A i \in 1 .. n : parameters[i] \in Param
  BY <1>1, ElementOfSeq
<1>3. \A i \in 1 .. n : parameters[i].name \in Names
  BY <1>2 DEF Param, Names
<1>4. D \in SUBSET Names
  BY <1>1, <1>3
<1>5. \A p \in D : At(p) \in 1 .. n
  BY <1>1
<1> HIDE DEF D, At, n
<1>6. \A p \in D : At(p) - 1 \in 0 .. n - 1
  BY <1>1, <1>5
<1>7. scope \in [D -> 0 .. n - 1]
  BY <1>6
<1>8. scope \in Bindings(n)
  BY <1>4, <1>7 DEF Bindings
<1> HIDE DEF scope
<1>9. <<scope>> \in Seq(Bindings(n))
  BY <1>8
<1> DEFINE open == <<scope>>
           f == [nextSlot |-> n, scopes |-> open, retired |-> {}]
<1>10. open \in Seq(Bindings(n))
  BY <1>9
<1> HIDE DEF open
<1>11. f \in [nextSlot : {n}, scopes : Seq(Bindings(n)), retired : {{}}]
  BY <1>10
<1>12. IsFrame(f)
  BY <1>1, <1>11 DEF IsFrame
<1>13. QED
  BY <1>12 DEF f, open, scope, D, At, n

LEMMA ResolveFunctionKeeps ==
    ASSUME TreesAreSound, ProgramIsSound, ResolverInvariant, R!ResolveFunction
    PROVE  TreesAreSound' /\ ProgramIsSound' /\ ResolverInvariant'
<1> DEFINE n == R!Here
           parameters == nodes[n].parameters
           scope == [p \in {parameters[i].name : i \in DOMAIN parameters} |->
                        (CHOOSE i \in DOMAIN parameters : parameters[i].name = p) - 1]
           frame == [nextSlot |-> Len(parameters), scopes |-> <<scope>>, retired |-> {}]
           body == nodes[n].kids[1]
           first == R!Item("statement", body)
           second == R!Item("end function", n)
           items == <<first, second>>
<1>1. /\ R!Visiting("statement") /\ nodes[n].type = "Function"
      /\ \/ \E span, message : R!Fail(span, message)
         \/ /\ scopes' = Append(scopes, frame)
            /\ nodes' = [nodes EXCEPT ![n].parameters =
                            [i \in DOMAIN @ |-> [@[i] EXCEPT !.slot = i - 1]]]
            /\ work' = items \o Tail(work) /\ program' = program
  BY DEF R!ResolveFunction, R!VisitingA, R!This, R!Here, R!Become
<1>2. /\ work # <<>> /\ Head(work).do = "statement" /\ n \in 1 .. Len(nodes)
      /\ Head(work) = work[1] /\ Head(work).node = n /\ Len(work) \in Nat /\ Len(work) >= 1
  BY <1>1, VisitingFacts DEF Visitable, IsNode
<1>3. IsFrame(frame)
  <2>1. parameters \in Seq(Param)
    BY <1>2, KidFacts DEF TreeNode
  <2>2. QED
    BY <2>1, ParameterFrame
<1> HIDE DEF n, frame
<1>4. body \in 1 .. Len(nodes) /\ KindOf(nodes[body].type) = "S"
  <2>1. KidCounts("Function") = {1} /\ KidKind("Function", 1) = "S"
    BY DEF KidCounts, KidKind
  <2>2. nodes[n].type = "Function"
    BY <1>1
  <2>3. Len(nodes[n].kids) \in KidCounts(nodes[n].type)
    BY <1>2, KidFacts
  <2>4. 1 \in 1 .. Len(nodes[n].kids)
    BY <2>1, <2>2, <2>3
  <2>5. IsNode(body) /\ KindOf(nodes[body].type) = KidKind(nodes[n].type, 1)
    BY <1>2, <2>4, KidFacts
  <2>6. QED
    BY <2>1, <2>2, <2>5 DEF IsNode
<1> HIDE DEF body
<1>5. /\ first \in ResolverItem /\ Visitable(first)
      /\ ~EntersFunction(first) /\ ~LeavesFunction(first)
  BY <1>4, SingleItems
<1>6. /\ second \in ResolverItem /\ Visitable(second)
      /\ ~EntersFunction(second) /\ LeavesFunction(second)
  <2>1. n \in Nat
    BY <1>2
  <2>2. nodes[n].type = "Function"
    BY <1>1
  <2>3. QED
    BY <1>2, <2>1, <2>2 DEF R!Item, ResolverItem, Walks, Visitable, IsNode, EntersFunction,
                      LeavesFunction
<1> HIDE DEF first, second
<1>7. /\ items \in Seq(ResolverItem) /\ Len(items) = 2 /\ items[1] = first /\ items[2] = second
  BY <1>5, <1>6
<1>8. \A i \in 1 .. Len(items) : Visitable(items[i])
  BY <1>5, <1>6, <1>7
<1>9. Len(scopes) = 1 /\ \A i \in 1 .. Len(work) : ~LeavesFunction(work[i])
  <2>1. EntersFunction(work[1])
    BY <1>1, <1>2 DEF EntersFunction
  <2>2. \A e \in 1 .. Len(work) : 1 \in 1 .. e
    BY <1>2
  <2>3. QED
    BY <2>1, <2>2 DEF ResolverInvariant, FramesFollowWork
<1>10. CASE /\ scopes' = Append(scopes, frame)
            /\ nodes' = [nodes EXCEPT ![n].parameters =
                            [i \in DOMAIN @ |-> [@[i] EXCEPT !.slot = i - 1]]]
            /\ work' = items \o Tail(work) /\ program' = program
  <2>1. TreesAreSound' /\ SameShape
    BY <1>2, <1>10, ParametersWritten
  <2>2. ProgramIsSound'
    BY <1>10, <2>1, ShapeKeepsProgram
  <2> DEFINE w == items \o Tail(work)
  <2>3. work' = w
    BY <1>10
  <2> HIDE DEF items
  <2>4. /\ work' \in Seq(ResolverItem) /\ (\A i \in 1 .. Len(work) : Visitable(work[i]))'
        /\ Len(work') = Len(work) + 1
        /\ work'[1] = first /\ work'[2] = second
        /\ \A i \in 3 .. Len(work') : i - 1 \in 2 .. Len(work) /\ work'[i] = work[i - 1]
    <3>1. /\ work' \in Seq(ResolverItem) /\ (\A i \in 1 .. Len(work) : Visitable(work[i]))'
          /\ Len(work') = Len(items) + Len(work) - 1
          /\ \A i \in 1 .. Len(items) : work'[i] = items[i]
          /\ \A i \in 2 .. Len(work) : work'[Len(items) + i - 1] = work[i]
      BY <1>2, <1>7, <1>8, <2>1, <2>3, WorkReplaced
    <3>2. Len(work') = Len(work) + 1 /\ work'[1] = first /\ work'[2] = second
      BY <1>2, <1>7, <3>1
    <3>3. \A i \in 3 .. Len(work') : i - 1 \in 2 .. Len(work) /\ 2 + (i - 1) - 1 = i
      BY <1>2, <3>2
    <3>4. \A i \in 3 .. Len(work') : i - 1 \in 2 .. Len(work) /\ work'[i] = work[i - 1]
      BY <1>7, <3>1, <3>3
    <3>5. QED
      BY <3>1, <3>2, <3>4
  <2>5. /\ \E S : scopes' \in Seq(S)
        /\ Len(scopes') = 2 /\ \A i \in 1 .. Len(scopes') : IsFrame(scopes'[i])
    <3>1. PICK S : scopes \in Seq(S)
      BY DEF ResolverInvariant
    <3> DEFINE T == S \cup {frame}
    <3>2. scopes \in Seq(T) /\ frame \in T
      BY <3>1, SeqMonotonic
    <3> HIDE DEF T
    <3> DEFINE t == Append(scopes, frame)
    <3>3. /\ t \in Seq(T) /\ Len(t) = Len(scopes) + 1
          /\ \A i \in 1 .. Len(scopes) : t[i] = scopes[i]
          /\ t[Len(scopes) + 1] = frame
      BY <3>2, AppendProperties
    <3>6. scopes' = t
      BY <1>10
    <3> HIDE DEF t
    <3>7. /\ scopes' \in Seq(T) /\ Len(scopes') = 2
          /\ scopes'[1] = scopes[1] /\ scopes'[2] = frame
      BY <1>9, <3>3, <3>6
    <3>4. IsFrame(scopes[1])
      BY <1>9 DEF ResolverInvariant
    <3>5. QED
      BY <1>3, <3>4, <3>7
  <2>6. /\ 2 \in 1 .. Len(work') /\ work'[2].do = "end function"
        /\ \A i \in 1 .. Len(work') : i # 2 => work'[i].do # "end function"
    <3>0. Len(work) \in Nat /\ Len(work) >= 1 /\ Len(work') = Len(work) + 1
      BY <1>2, <2>4
    <3> DEFINE m == Len(work')
    <3> HIDE DEF m
    <3>1. 2 \in 1 .. Len(work') /\ work'[2].do = "end function"
      <4>1. 2 \in 1 .. m
        BY <3>0 DEF m
      <4>2. QED
        BY <1>6, <2>4, <4>1 DEF LeavesFunction, m
    <3>2. ASSUME NEW i \in 1 .. Len(work'), i # 2 PROVE work'[i].do # "end function"
      <4>1. CASE i = 1
        BY <1>5, <2>4, <4>1 DEF LeavesFunction
      <4>2. CASE i \in 3 .. Len(work')
        <5>1. i - 1 \in 1 .. Len(work) /\ work'[i] = work[i - 1]
          BY <2>4, <4>2
        <5>2. QED
          BY <1>9, <5>1 DEF LeavesFunction
      <4>3. i = 1 \/ i \in 3 .. Len(work')
        BY <3>0, <3>2
      <4>4. QED
        BY <4>1, <4>2, <4>3
    <3>3. QED
      BY <3>1, <3>2
  <2>7. \A i \in 1 .. 2 :
            ~(work'[i].do = "statement" /\ nodes'[work'[i].node].type = "Function")
    <3>1. ~(first.do = "statement" /\ nodes'[first.node].type = "Function")
      BY <1>5, <2>1 DEF SameShape, EntersFunction, Visitable, IsNode
    <3>2. second.do # "statement"
      BY <1>6 DEF LeavesFunction
    <3>3. QED
      BY <2>4, <3>1, <3>2
  <2>8. FramesFollowWork'
    BY <2>5, <2>6, <2>7 DEF FramesFollowWork, LeavesFunction, EntersFunction
  <2>9. ResolverInvariant'
    BY <2>4, <2>5, <2>8 DEF ResolverInvariant, IsFrame
  <2>10. QED
    BY <2>1, <2>2, <2>9
<1>11. QED
  BY <1>1, <1>10, RefusalKeeps

LEMMA EndFunctionKeeps ==
    ASSUME TreesAreSound, ProgramIsSound, ResolverInvariant, R!EndFunction
    PROVE  TreesAreSound' /\ ProgramIsSound' /\ ResolverInvariant'
<1> DEFINE n == R!Here
           size == R!Frame.nextSlot
           none == <<>>
<1>1. /\ R!Visiting("end function")
      /\ nodes' = [nodes EXCEPT ![n].frameSize = size]
      /\ scopes' = R!Front(scopes)
      /\ work' = none \o Tail(work) /\ program' = program
  BY DEF R!EndFunction, R!Become
<1>2. /\ work # <<>> /\ Head(work).do = "end function" /\ n \in 1 .. Len(nodes)
      /\ Head(work) = work[1] /\ Len(work) \in Nat /\ Len(work) >= 1
  BY <1>1, VisitingFacts DEF Visitable, IsNode
<1>3. size \in Nat
  BY LastFrame
<1>4. none \in Seq(ResolverItem) /\ Len(none) = 0 /\ \A i \in 1 .. Len(none) : Visitable(none[i])
  BY NoItems
<1> HIDE DEF n, size, none
<1>5. TreesAreSound' /\ SameShape
  BY <1>1, <1>2, <1>3, FrameSizeWritten
<1>6. ProgramIsSound'
  BY <1>1, <1>5, ShapeKeepsProgram
<1>7. /\ Len(scopes) = 2
      /\ \A i \in 2 .. Len(work) : ~LeavesFunction(work[i])
  <2>0. work[1].do = "end function"
    BY <1>2
  <2>1. LeavesFunction(work[1]) /\ 1 \in 1 .. Len(work)
    <3>1. Len(work) \in Nat /\ Len(work) >= 1
      BY <1>2
    <3>2. 1 \in 1 .. Len(work)
      BY ONLY <3>1
    <3>3. QED
      BY <2>0, <3>2 DEF LeavesFunction
  <2>2. /\ Len(scopes) = 2
        /\ \E e \in 1 .. Len(work) :
               \A i \in 1 .. Len(work) : i # e => ~LeavesFunction(work[i])
    BY <2>1 DEF ResolverInvariant, FramesFollowWork
  <2>3. PICK e \in 1 .. Len(work) :
            \A i \in 1 .. Len(work) : i # e => ~LeavesFunction(work[i])
    BY <2>2
  <2>4. e = 1
    BY <2>1, <2>3
  <2>5. \A i \in 2 .. Len(work) : i \in 1 .. Len(work) /\ i # 1
    OBVIOUS
  <2>6. QED
    BY <2>2, <2>3, <2>4, <2>5
<1>8. /\ work' \in Seq(ResolverItem) /\ (\A i \in 1 .. Len(work) : Visitable(work[i]))'
      /\ Len(work') = Len(work) - 1
      /\ \A i \in 1 .. Len(work') : i + 1 \in 2 .. Len(work) /\ work'[i] = work[i + 1]
  <2>1. /\ work' \in Seq(ResolverItem) /\ (\A i \in 1 .. Len(work) : Visitable(work[i]))'
        /\ Len(work') = Len(none) + Len(work) - 1
        /\ \A i \in 2 .. Len(work) : work'[Len(none) + i - 1] = work[i]
    BY <1>1, <1>2, <1>4, <1>5, WorkReplaced
  <2>0. Len(work) \in Nat /\ Len(work') = 0 + Len(work) - 1 /\ Len(none) = 0
    BY <1>2, <1>4, <2>1
  <2>2. \A i \in 1 .. Len(work') : i + 1 \in 2 .. Len(work) /\ 0 + (i + 1) - 1 = i
    BY <2>0
  <2>3. \A i \in 1 .. Len(work') : i + 1 \in 2 .. Len(work) /\ work'[i] = work[i + 1]
    BY <1>4, <2>1, <2>2
  <2>4. Len(work') = Len(work) - 1
    BY <2>0
  <2>5. QED
    BY <2>1, <2>3, <2>4
<1>9. /\ \E S : scopes' \in Seq(S)
      /\ Len(scopes') = 1 /\ \A i \in 1 .. Len(scopes') : IsFrame(scopes'[i])
  <2>1. PICK S : scopes \in Seq(S)
    BY DEF ResolverInvariant
  <2>2. \A i \in 1 .. 1 : scopes[i] \in S
    BY <1>7, <2>1, ElementOfSeq
  <2> DEFINE a == 1
             b == Len(scopes) - 1
  <2>3. scopes' = SubSeq(scopes, a, b) /\ b = 1 /\ a = 1
    <3>1. scopes' = SubSeq(scopes, a, b)
      BY <1>1 DEF R!Front
    <3>2. b = 1
      BY <1>7
    <3>3. QED
      BY <3>1, <3>2
  <2> HIDE DEF a, b
  <2>4. a \in Int /\ b \in Int /\ (\A i \in a .. b : scopes[i] \in S) /\ a <= b /\ b - a + 1 = 1
    BY <2>2, <2>3
  <2>6. /\ scopes' \in Seq(S) /\ Len(scopes') = 1
        /\ \A i \in 1 .. b - a + 1 : scopes'[i] = scopes[a + i - 1]
    BY <2>3, <2>4, SubSeqProperties
  <2>7. scopes'[1] = scopes[1]
    BY <2>3, <2>6
  <2>8. IsFrame(scopes[1])
    BY <1>7 DEF ResolverInvariant
  <2>9. QED
    BY <2>6, <2>7, <2>8
<1>10. FramesFollowWork'
  <2>1. \A i \in 1 .. Len(work') : work'[i].do # "end function"
    BY <1>7, <1>8 DEF LeavesFunction
  <2>2. QED
    BY <1>9, <2>1 DEF FramesFollowWork, LeavesFunction
<1>11. ResolverInvariant'
  BY <1>8, <1>9, <1>10 DEF ResolverInvariant, IsFrame
<1>12. QED
  BY <1>5, <1>6, <1>11

LEMMA ResolverKeeps ==
    ASSUME TreesAreSound, ProgramIsSound, ResolverInvariant, R!Next
    PROVE  TreesAreSound' /\ ProgramIsSound' /\ ResolverInvariant'
<1>1. CASE R!CollectFunctions
  BY <1>1, CollectFunctionsKeeps
<1>2. CASE R!ResolveIdentifier
  BY <1>2, ResolveIdentifierKeeps
<1>3. CASE R!ResolveOperands
  BY <1>3, ResolveOperandsKeeps
<1>4. CASE R!ResolveCall
  BY <1>4, ResolveCallKeeps
<1>5. CASE R!ResolveAssign
  BY <1>5, ResolveAssignKeeps
<1>6. CASE R!DeclareOrBind
  BY <1>6, DeclareOrBindKeeps
<1>7. CASE R!ResolvePrint
  BY <1>7, ResolvePrintKeeps
<1>8. CASE R!ResolveBlock
  BY <1>8, ResolveBlockKeeps
<1>9. CASE R!PopScope
  BY <1>9, PopScopeKeeps
<1>10. CASE R!ResolveConditional
  BY <1>10, ResolveConditionalKeeps
<1>11. CASE R!ResolveReturn
  BY <1>11, ResolveReturnKeeps
<1>12. CASE R!ResolveFunction
  BY <1>12, ResolveFunctionKeeps
<1>13. CASE R!EndFunction
  BY <1>13, EndFunctionKeeps
<1>14. CASE R!Finish
  BY <1>14, FinishKeeps
<1>15. QED
  BY <1>1, <1>2, <1>3, <1>4, <1>5, <1>6, <1>7, <1>8, <1>9, <1>10, <1>11, <1>12, <1>13, <1>14
     DEF R!Next

-----------------------------------------------------------------------------

(* What the parser hands over is what the resolver starts from. *)
LEMMA SingleFrameStarts ==
    /\ \E S : R!InitialFrames \in Seq(S)
    /\ Len(R!InitialFrames) = 1
    /\ IsFrame(R!InitialFrames[1])
<1> DEFINE D == {}
           none == <<>>
           binding == [x \in D |-> 0]
           open == <<none>>
           f == [nextSlot |-> 0, scopes |-> open, retired |-> D]
<1>1. none = binding
  OBVIOUS
<1>2. binding \in [D -> 0 .. 0 - 1] /\ D \in SUBSET Names
  OBVIOUS
<1>3. none \in Bindings(0)
  BY <1>1, <1>2 DEF Bindings
<1> HIDE DEF none
<1>4. open \in Seq(Bindings(0))
  BY <1>3
<1> HIDE DEF open
<1>5. f \in [nextSlot : {0}, scopes : Seq(Bindings(0)), retired : {D}]
  BY <1>4
<1>6. IsFrame(f)
  BY <1>5 DEF IsFrame
<1>7. R!InitialFrames = <<f>>
  <2> DEFINE g == [R!NewFrame EXCEPT !.scopes = <<R!EmptyScope>>]
  <2>1. <<R!EmptyScope>> = open
    BY DEF R!EmptyScope, open, none
  <2>2. R!NewFrame \in [nextSlot : {0}, scopes : {R!NewFrame.scopes}, retired : {D}]
    BY DEF R!NewFrame
  <2>3. g \in [nextSlot : {0}, scopes : {open}, retired : {D}]
    BY <2>1, <2>2
  <2>4. f \in [nextSlot : {0}, scopes : {open}, retired : {D}]
    OBVIOUS
  <2> HIDE DEF f, g
  <2>5. g = f
    BY <2>3, <2>4
  <2>6. QED
    BY <2>5 DEF R!InitialFrames, g
<1> HIDE DEF f
<1>8. <<f>> \in Seq({f}) /\ Len(<<f>>) = 1 /\ <<f>>[1] = f
  OBVIOUS
<1>9. QED
  BY <1>6, <1>7, <1>8

(* A walk between its first item and its last. *)
LEMMA WalkOf ==
    ASSUME NEW S, NEW first \in S, NEW last \in S, NEW middle \in Seq(S)
    PROVE  /\ <<first>> \o middle \o <<last>> \in Seq(S)
           /\ \A i \in 1 .. Len(<<first>> \o middle \o <<last>>) :
                  LET walk == <<first>> \o middle \o <<last>>
                  IN  \/ walk[i] = first \/ walk[i] = last
                      \/ \E j \in 1 .. Len(middle) : walk[i] = middle[j]
<1> DEFINE a == <<first>>
           b == <<last>>
           c == a \o middle
           walk == c \o b
<1>1. /\ a \in Seq(S) /\ Len(a) = 1 /\ a[1] = first
      /\ b \in Seq(S) /\ Len(b) = 1 /\ b[1] = last
      /\ Len(middle) \in Nat
  BY LenProperties
<1> HIDE DEF a, b
<1>2. /\ c \in Seq(S) /\ Len(c) = 1 + Len(middle)
      /\ \A i \in 1 .. 1 + Len(middle) : c[i] = IF i <= 1 THEN a[i] ELSE middle[i - 1]
  <2>1. a \in Seq(S) /\ middle \in Seq(S)
    BY <1>1
  <2>2. /\ c \in Seq(S) /\ Len(c) = Len(a) + Len(middle)
        /\ \A i \in 1 .. Len(a) + Len(middle) :
               c[i] = IF i <= Len(a) THEN a[i] ELSE middle[i - Len(a)]
    BY ONLY <2>1, ConcatProperties
  <2> HIDE DEF c
  <2>3. QED
    BY <1>1, <2>2
<1> HIDE DEF c
<1>3. /\ walk \in Seq(S) /\ Len(walk) = Len(c) + 1
      /\ \A i \in 1 .. Len(c) + 1 : walk[i] = IF i <= Len(c) THEN c[i] ELSE b[i - Len(c)]
  <2>1. c \in Seq(S) /\ b \in Seq(S) /\ Len(b) = 1
    BY <1>1, <1>2
  <2>2. /\ c \o b \in Seq(S) /\ Len(c \o b) = Len(c) + Len(b)
        /\ \A i \in 1 .. Len(c) + Len(b) :
               (c \o b)[i] = IF i <= Len(c) THEN c[i] ELSE b[i - Len(c)]
    BY ONLY <2>1, ConcatProperties
  <2>3. Len(c) + Len(b) = Len(c) + 1
    BY <2>1
  <2> HIDE DEF walk
  <2>4. /\ walk \in Seq(S) /\ Len(walk) = Len(c) + Len(b)
        /\ \A i \in 1 .. Len(c) + Len(b) :
               walk[i] = IF i <= Len(c) THEN c[i] ELSE b[i - Len(c)]
    BY <2>2 DEF walk
  <2>5. QED
    BY <2>3, <2>4
<1> HIDE DEF walk
<1>4. ASSUME NEW i \in 1 .. Len(walk)
      PROVE  \/ walk[i] = first \/ walk[i] = last
             \/ \E j \in 1 .. Len(middle) : walk[i] = middle[j]
  <2>1. CASE i = 1
    <3>1. i <= Len(c) /\ i \in 1 .. Len(c) + 1 /\ i \in 1 .. 1 + Len(middle) /\ i <= 1
      BY <1>1, <1>2, <2>1
    <3>2. QED
      BY <1>1, <1>2, <1>3, <2>1, <3>1
  <2>2. CASE i > 1 /\ i <= 1 + Len(middle)
    <3>1. /\ i <= Len(c) /\ i \in 1 .. Len(c) + 1 /\ i \in 1 .. 1 + Len(middle) /\ ~(i <= 1)
          /\ i - 1 \in 1 .. Len(middle)
      BY <1>1, <1>2, <2>2
    <3>2. QED
      BY <1>2, <1>3, <3>1
  <2>3. CASE i > 1 + Len(middle)
    <3>1. ~(i <= Len(c)) /\ i \in 1 .. Len(c) + 1 /\ i - Len(c) = 1
      BY <1>1, <1>2, <1>3, <2>3
    <3>2. QED
      BY <1>1, <1>3, <3>1
  <2>4. QED
    BY <1>1, <2>1, <2>2, <2>3
<1>5. QED
  BY <1>3, <1>4 DEF walk, c, a, b

LEMMA ResolverStarts ==
    ASSUME TreesAreSound, ProgramIsSound', nodes' = nodes, scopes = R!InitialFrames,
           scopes' = scopes, work' = R!InitialWork(program')
    PROVE  ResolverInvariant'
<1> DEFINE first == R!Item("collect", 0)
           last == R!Item("finish", 0)
           E(i) == R!Item("statement", program'[i])
           middle == [i \in 1 .. Len(program') |-> E(i)]
<1>1. program' \in Seq(1 .. Len(nodes)) /\ Len(program') \in Nat
  BY LenProperties DEF ProgramIsSound, Separate
<1>2. \A i \in 1 .. Len(program') :
          /\ program'[i] \in 1 .. Len(nodes)
          /\ KindOf(nodes[program'[i]].type) # "E"
  <2>1. \A i \in 1 .. Len(program') : program'[i] \in 1 .. Len(nodes)
    BY <1>1, ElementOfSeq
  <2>2. \A i \in 1 .. Len(program') : KindOf(nodes'[program'[i]].type) # "E"
    BY DEF ProgramIsSound
  <2>3. QED
    BY <2>1, <2>2
<1>3. /\ first \in ResolverItem /\ first.do = "collect"
      /\ last \in ResolverItem /\ last.do = "finish"
  BY DEF R!Item, ResolverItem, Walks
<1>4. \A i \in 1 .. Len(program') :
          E(i) \in ResolverItem /\ E(i).do = "statement" /\ E(i).node = program'[i]
  <2> TAKE i \in 1 .. Len(program')
  <2>1. program'[i] \in Nat
    BY <1>2
  <2>2. QED
    BY <2>1 DEF R!Item, ResolverItem, Walks
<1> HIDE DEF first, last, E
<1>5. middle \in Seq(ResolverItem) /\ Len(middle) = Len(program')
      /\ \A j \in 1 .. Len(middle) : middle[j] = E(j)
  <2>1. middle \in Seq(ResolverItem)
    BY <1>1, <1>4, IsASeq
  <2>2. QED
    BY <1>1, <2>1
<1>6. R!Items("statement", program') = middle
  <2>1. DOMAIN program' = 1 .. Len(program')
    BY <1>1, LenProperties
  <2>2. QED
    BY <2>1 DEF R!Items, E
<1> HIDE DEF middle
<1>7. work' = <<first>> \o middle \o <<last>>
  BY <1>6 DEF R!InitialWork, first, last
<1>8. /\ work' \in Seq(ResolverItem)
      /\ \A i \in 1 .. Len(work') :
             \/ work'[i] = first \/ work'[i] = last
             \/ \E j \in 1 .. Len(middle) : work'[i] = middle[j]
  <2> DEFINE walk == <<first>> \o middle \o <<last>>
  <2>0. first \in ResolverItem /\ last \in ResolverItem /\ middle \in Seq(ResolverItem)
    BY <1>3, <1>5
  <2>1. /\ walk \in Seq(ResolverItem)
        /\ \A i \in 1 .. Len(walk) :
               \/ walk[i] = first \/ walk[i] = last
               \/ \E j \in 1 .. Len(middle) : walk[i] = middle[j]
    BY ONLY <2>0, WalkOf
  <2>2. work' = walk
    BY <1>7
  <2> HIDE DEF walk
  <2>3. QED
    BY <2>1, <2>2
<1>9. \A i \in 1 .. Len(work') :
          \/ work'[i].do \in {"collect", "finish"}
          \/ /\ work'[i].do = "statement" /\ work'[i].node \in 1 .. Len(nodes)
             /\ KindOf(nodes[work'[i].node].type) # "E"
  <2> TAKE i \in 1 .. Len(work')
  <2>1. CASE \E j \in 1 .. Len(middle) : work'[i] = middle[j]
    <3>1. PICK j \in 1 .. Len(middle) : work'[i] = middle[j]
      BY <2>1
    <3>2. work'[i].do = "statement" /\ work'[i].node = program'[j] /\ j \in 1 .. Len(program')
      BY <1>4, <1>5, <3>1
    <3>3. QED
      BY <1>2, <3>2
  <2>2. QED
    BY <1>3, <1>8, <2>1
<1>10. (\A i \in 1 .. Len(work) : Visitable(work[i]))'
  <2>1. nodes' = nodes
    OBVIOUS
  <2>2. QED
    BY <1>9, <2>1 DEF Visitable, IsNode
<1>11. /\ \E S : scopes' \in Seq(S)
       /\ Len(scopes') = 1
       /\ (\A i \in 1 .. Len(scopes) : IsFrame(scopes[i]))'
  <2>1. scopes' = R!InitialFrames
    OBVIOUS
  <2>2. \A i \in 1 .. Len(scopes') : i = 1
    BY <2>1, SingleFrameStarts
  <2>3. IsFrame(scopes'[1])
    BY <2>1, SingleFrameStarts
  <2>4. \A i \in 1 .. Len(scopes') : IsFrame(scopes'[i])
    BY <2>2, <2>3
  <2>5. QED
    BY <2>1, <2>4, SingleFrameStarts DEF IsFrame
<1>12. FramesFollowWork'
  BY <1>9, <1>11 DEF FramesFollowWork, LeavesFunction
<1>13. QED
  BY <1>8, <1>10, <1>11, <1>12 DEF ResolverInvariant

-----------------------------------------------------------------------------

(* What comes after the resolver only reads the tree. *)
LEMMA CompilerReadsTheTree ==
    ASSUME C!Next
    PROVE  nodes' = nodes /\ program' = program /\ programFrameSize' = programFrameSize
<1>1. ASSUME NEW onto, NEW op, NEW operand, NEW span, NEW text, NEW items,
             C!EmitOnto(onto, op, operand, span, text, items)
      PROVE  UNCHANGED C!tree
  BY <1>1 DEF C!EmitOnto, C!Fail
<1>2. ASSUME NEW value, NEW span, NEW items, C!EmitConstant(value, span, items)
      PROVE  UNCHANGED C!tree
  BY <1>1, <1>2 DEF C!EmitConstant, C!Fail
<1>3. ASSUME NEW op, NEW slot, NEW span, C!EmitSlot(op, slot, span)
      PROVE  UNCHANGED C!tree
  BY <1>1, <1>3 DEF C!EmitSlot, C!EmitHere, C!Fail
<1>4. CASE C!DeclareFunctions
  BY <1>4 DEF C!DeclareFunctions, C!Fail, C!tree
<1>5. CASE C!CompileLiteral \/ C!CompileIdentifier \/ C!EmitOperation \/ C!EmitZero
  BY <1>1, <1>2, <1>3, <1>5
     DEF C!CompileLiteral, C!CompileIdentifier, C!EmitOperation, C!EmitZero, C!EmitHere, C!tree
<1>6. CASE C!CompileOperator \/ C!CompilePrint \/ C!CompileBlock \/ C!CompileIf
           \/ C!CompileWhile \/ C!CompileReturn \/ C!CompileBodies
  BY <1>6 DEF C!CompileOperator, C!CompilePrint, C!CompileBlock, C!CompileIf, C!CompileWhile,
              C!CompileReturn, C!CompileBodies, C!Visit, C!tree
<1>7. CASE C!CompileCall \/ C!CompileAssign
  BY <1>1, <1>3, <1>7 DEF C!CompileCall, C!CompileAssign, C!Visit, C!EmitHere, C!tree
<1>8. CASE C!CompileThen \/ C!CompileLoop \/ C!EmitHalt \/ C!EndFunctionBody
  BY <1>1, <1>8 DEF C!CompileThen, C!CompileLoop, C!EmitHalt, C!EndFunctionBody, C!EmitHere,
                    C!tree
<1>9. CASE C!CompileElse \/ C!CompileEndIf \/ C!CompileEndLoop
  BY <1>9 DEF C!CompileElse, C!CompileEndIf, C!CompileEndLoop, C!Fail, C!tree
<1>10. CASE C!CompileFunctionBody \/ C!Finish
  BY <1>10 DEF C!CompileFunctionBody, C!Finish, C!tree
<1>11. QED
  BY <1>4, <1>5, <1>6, <1>7, <1>8, <1>9, <1>10 DEF C!Next

LEMMA InterpreterReadsTheTree ==
    ASSUME I!Next
    PROVE  nodes' = nodes /\ program' = program /\ programFrameSize' = programFrameSize
<1>1. ASSUME NEW items, NEW after, I!Step(items, after)
      PROVE  UNCHANGED I!tree
  BY <1>1 DEF I!Step
<1>2. ASSUME NEW items, I!Go(items)
      PROVE  UNCHANGED I!tree
  BY <1>1, <1>2 DEF I!Go
<1>3. ASSUME NEW n, NEW value, I!Yield(n, value)
      PROVE  UNCHANGED I!tree
  BY <1>1, <1>3 DEF I!Yield
<1>4. ASSUME NEW span, NEW message, I!Fault(span, message)
      PROVE  UNCHANGED I!tree
  BY <1>4 DEF I!Fault
<1>5. CASE I!EvaluateLiteral \/ I!EvaluateIdentifier
  BY <1>3, <1>5 DEF I!EvaluateLiteral, I!EvaluateIdentifier, I!tree
<1>6. CASE I!EvaluateOperands \/ I!EvaluateCall \/ I!ExecuteBlock \/ I!ExecuteConditional
  BY <1>2, <1>6 DEF I!EvaluateOperands, I!EvaluateCall, I!ExecuteBlock, I!ExecuteConditional,
                    I!tree
<1>7. CASE I!ApplyArithmetic \/ I!ApplyDivide \/ I!ApplyOrder \/ I!ApplyEquality
           \/ I!ApplyNegate \/ I!ApplyNot
  BY <1>3, <1>4, <1>7
     DEF I!ApplyArithmetic, I!ApplyDivide, I!ApplyOrder, I!ApplyEquality, I!ApplyNegate,
         I!ApplyNot, I!BinaryTypeFault, I!UnaryTypeFault, I!OverflowFault, I!tree
<1>8. CASE I!EnterCall
  BY <1>4, <1>8 DEF I!EnterCall, I!tree
<1>9. CASE I!LeaveCall \/ I!Unwind \/ I!Finish
  BY <1>9 DEF I!LeaveCall, I!Unwind, I!Finish, I!tree
<1>10. CASE I!ExecuteAssign \/ I!ExecutePrint \/ I!ExecuteReturn
  BY <1>2, <1>10 DEF I!ExecuteAssign, I!ExecutePrint, I!ExecuteReturn, I!tree
<1>11. CASE I!TestCondition
  BY <1>1, <1>4, <1>11 DEF I!TestCondition, I!tree
<1>12. QED
  BY <1>5, <1>6, <1>7, <1>8, <1>9, <1>10, <1>11 DEF I!Next

-----------------------------------------------------------------------------

LEMMA FrontStarts ==
    ASSUME Init
    PROVE  FrontInvariant
<1>1. TreesAreSound /\ ParserInvariant
  BY ParserStarts DEF Init
<1>2. stage = "parse" /\ scopes = R!InitialFrames
  BY DEF Init
<1>3. QED
  BY <1>1, <1>2 DEF FrontInvariant

LEMMA FrontUnchanged ==
    ASSUME FrontInvariant, stage \in {"resolve", "compile", "run"},
           stage' \in {"compile", "run"}, nodes' = nodes, program' = program
    PROVE  FrontInvariant'
<1>1. TreesAreSound /\ ProgramIsSound
  BY DEF FrontInvariant
<1>2. TreesAreSound' /\ ProgramIsSound'
  BY <1>1 DEF TreesAreSound, KidsAreSound, OperatorIsKnown, ProgramIsSound, Separate
<1>3. stage' # "parse" /\ stage' # "resolve"
  OBVIOUS
<1>4. QED
  BY <1>2, <1>3 DEF FrontInvariant

LEMMA ParseKeeps ==
    ASSUME FrontInvariant, Parse
    PROVE  FrontInvariant'
<1>1. /\ stage = "parse" /\ stage' = "parse" /\ P!Next /\ scopes' = scopes
  BY DEF Parse, resolverState
<1>2. TreesAreSound /\ ParserInvariant /\ scopes = R!InitialFrames
  BY <1>1 DEF FrontInvariant
<1>3. TreesAreSound' /\ ParserInvariant'
  BY <1>1, <1>2, ParserKeeps
<1>4. scopes' = R!InitialFrames
  BY <1>1, <1>2
<1>5. R!InitialFrames' = R!InitialFrames
  BY DEF R!InitialFrames, R!NewFrame, R!EmptyScope
<1>6. QED
  BY <1>1, <1>3, <1>4, <1>5 DEF FrontInvariant

LEMMA StartResolveKeeps ==
    ASSUME FrontInvariant, StartResolve
    PROVE  FrontInvariant'
<1>1. /\ stage = "parse" /\ stage' = "resolve" /\ parsed = Finished /\ program' = built
      /\ work' = R!InitialWork(built) /\ nodes' = nodes /\ scopes' = scopes
  BY DEF StartResolve
<1>2. TreesAreSound /\ ParserInvariant /\ scopes = R!InitialFrames
  BY <1>1 DEF FrontInvariant
<1>3. /\ Separate(built)
      /\ \A i \in 1 .. Len(built) : KindOf(nodes[built[i]].type) # "E"
  BY <1>1, <1>2 DEF ParserInvariant
<1>4. TreesAreSound'
  BY <1>1, <1>2 DEF TreesAreSound, KidsAreSound, OperatorIsKnown
<1>5. ProgramIsSound'
  BY <1>1, <1>3 DEF ProgramIsSound, Separate
<1>6. ResolverInvariant'
  <2>1. work' = R!InitialWork(program')
    BY <1>1
  <2>2. QED
    BY <1>1, <1>2, <1>5, <2>1, ResolverStarts
<1>7. QED
  BY <1>1, <1>4, <1>5, <1>6 DEF FrontInvariant

LEMMA ResolveKeeps ==
    ASSUME FrontInvariant, Resolve
    PROVE  FrontInvariant'
<1>1. stage = "resolve" /\ stage' = "resolve" /\ R!Next
  BY DEF Resolve
<1>2. TreesAreSound /\ ProgramIsSound /\ ResolverInvariant
  BY <1>1 DEF FrontInvariant
<1>3. TreesAreSound' /\ ProgramIsSound' /\ ResolverInvariant'
  BY <1>1, <1>2, ResolverKeeps
<1>4. QED
  BY <1>1, <1>3 DEF FrontInvariant

LEMMA ParserStutters ==
    ASSUME ParserInvariant, UNCHANGED <<tokens, pos, nodes, built, work, parsed>>
    PROVE  ParserInvariant'
<1>1. \A i \in 1 .. Len(built) : nodes'[built'[i]].type = nodes[built[i]].type
  OBVIOUS
<1>2. KindsBuilt' = KindsBuilt
  BY DEF KindsBuilt
<1>3. ASSUME WorkIsTyped
      PROVE  WorkIsTyped'
  <2>1. PICK after : Typed(work, KindsBuilt, after)
    BY <1>3 DEF WorkIsTyped
  <2>2. Typed(work', KindsBuilt', after)
    BY <1>2, <2>1
  <2>3. QED
    BY <2>2 DEF WorkIsTyped
<1>4. QED
  BY <1>3 DEF ParserInvariant, TokensAreWhole, Separate, Placed, ParametersClose,
              MakesFunction, ExpectsClose, ClosedFrom

LEMMA FrontKeeps ==
    ASSUME FrontInvariant, [Next]_vars
    PROVE  FrontInvariant'
<1>1. CASE Parse
  BY <1>1, ParseKeeps
<1>2. CASE StartResolve
  BY <1>2, StartResolveKeeps
<1>3. CASE Resolve
  BY <1>3, ResolveKeeps
<1>4. CASE StartCompile
  <2>1. /\ stage = "resolve" /\ stage' = "compile" /\ nodes' = nodes /\ program' = program
    BY <1>4 DEF StartCompile, resolverState
  <2>2. QED
    BY <2>1, FrontUnchanged
<1>5. CASE Compile
  <2>1. stage = "compile" /\ stage' = "compile" /\ C!Next
    BY <1>5 DEF Compile
  <2>2. nodes' = nodes /\ program' = program
    BY <2>1, CompilerReadsTheTree
  <2>3. QED
    BY <2>1, <2>2, FrontUnchanged
<1>6. CASE StartRun
  <2>1. /\ stage = "compile" /\ stage' = "run" /\ nodes' = nodes /\ program' = program
    BY <1>6 DEF StartRun, resolverState
  <2>2. QED
    BY <2>1, FrontUnchanged
<1>7. CASE TreeStep
  <2>1. stage = "run" /\ stage' = "run" /\ I!Next
    BY <1>7 DEF TreeStep
  <2>2. nodes' = nodes /\ program' = program
    BY <2>1, InterpreterReadsTheTree
  <2>3. QED
    BY <2>1, <2>2, FrontUnchanged
<1>8. CASE VmStep
  <2>1. /\ stage = "run" /\ stage' = "run" /\ nodes' = nodes /\ program' = program
    BY <1>8 DEF VmStep, resolverState
  <2>2. QED
    BY <2>1, FrontUnchanged
<1>9. CASE UNCHANGED vars
  <2>1. /\ stage' = stage /\ nodes' = nodes /\ work' = work /\ program' = program
        /\ scopes' = scopes /\ UNCHANGED parserState
    BY <1>9 DEF vars, resolverState
  <2>2. tokens' = tokens /\ pos' = pos /\ built' = built /\ parsed' = parsed
    BY <2>1 DEF parserState
  <2>3. TreesAreSound'
    BY <2>1 DEF FrontInvariant, TreesAreSound, KidsAreSound, OperatorIsKnown
  <2>4. stage' # "parse" => ProgramIsSound'
    BY <2>1 DEF FrontInvariant, ProgramIsSound, Separate
  <2>5. stage' = "resolve" => ResolverInvariant'
    <3>1. SUFFICES ASSUME ResolverInvariant PROVE ResolverInvariant'
      BY <2>1 DEF FrontInvariant
    <3>2. (\A i \in 1 .. Len(work) : Visitable(work[i]))'
      BY <2>1, <3>1 DEF ResolverInvariant, Visitable, IsNode
    <3>3. (\A i \in 1 .. Len(scopes) : IsFrame(scopes[i]))'
      <4>1. \A i \in 1 .. Len(scopes) : IsFrame(scopes[i])
        BY <3>1 DEF ResolverInvariant
      <4>2. QED
        BY ONLY <2>1, <4>1 DEF IsFrame
    <3>4. FramesFollowWork'
      <4>1. FramesFollowWork
        BY <3>1 DEF ResolverInvariant
      <4>2. QED
        BY ONLY <2>1, <4>1, ZenonT(40) DEF FramesFollowWork, EntersFunction, LeavesFunction
    <3>5. work' \in Seq(ResolverItem) /\ \E S : scopes' \in Seq(S)
      BY <2>1, <3>1 DEF ResolverInvariant
    <3>6. QED
      BY <3>2, <3>3, <3>4, <3>5 DEF ResolverInvariant
  <2>6. stage' = "parse" => ParserInvariant'
    BY <2>1, <2>2, ParserStutters DEF FrontInvariant
  <2>7. stage' = "parse" => scopes' = R!InitialFrames'
    BY <2>1 DEF FrontInvariant, R!InitialFrames, R!NewFrame, R!EmptyScope
  <2>8. QED
    BY <2>3, <2>4, <2>5, <2>6, <2>7 DEF FrontInvariant
<1>10. QED
  BY <1>1, <1>2, <1>3, <1>4, <1>5, <1>6, <1>7, <1>8, <1>9 DEF Next

(* Whatever the parser (src/src/parser.cpp) has built so far, and whatever the
   resolver (src/src/resolver.cpp) has written into it, is trees: each node has the
   children its type calls for, of the right kinds, all built before it; the roots
   of the program lie beside one another; what the resolver and the compiler still
   have to visit is a node of the kind its handler is written for; and every slot
   bound in a scope is below the next one its frame gives out. *)
THEOREM FrontIsSound == Spec => []FrontInvariant
<1>1. Init => FrontInvariant
  BY FrontStarts
<1>2. FrontInvariant /\ [Next]_vars => FrontInvariant'
  BY FrontKeeps
<1>3. QED
  BY <1>1, <1>2, PTL DEF Spec

(* No node of any tree ever has a child too few, one of the wrong kind, or one
   that does not exist: what src/src/interpreter.cpp and src/src/compiler.cpp
   dereference without a test is there. *)
THEOREM TreesStaySound == Spec => []TreesAreSound
BY FrontIsSound, PTL DEF FrontInvariant

(* After the parser, the program is a sequence of statements and declarations in
   the order they stand in the source, no one of them a part of another. *)
THEOREM ProgramsAreSound == Spec => [](stage # "parse" => ProgramIsSound)
BY FrontIsSound, PTL DEF FrontInvariant
=============================================================================
