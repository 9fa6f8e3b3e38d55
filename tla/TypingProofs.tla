---------------------------- MODULE TypingProofs ----------------------------
(***************************************************************************)
(* Compiled code is well typed, for every source (src/src/compiler.cpp),   *)
(* so that every program that compiles runs on the VM (src/src/vm.cpp) as  *)
(* if its unchecked pops and slots were checked.                           *)
(*                                                                         *)
(* The walk that is left is read as code of its own: each of its items     *)
(* takes the stack from one height to another, and the invariant is that   *)
(* from the height the code has reached the walk can go on to its end.     *)
(***************************************************************************)
EXTENDS CompilerProofs, RunSafety

(* A step that only walks on. *)
LEMMA VisitCompiles ==
    ASSUME CompilesHere, work # <<>>, DistinctJumps(work), Declared(chunk, functionIndex),
           NEW h, NEW own, NEW b, NEW c, NEW v, AtHead(chunk, h, own, b, c, v), c >= 2,
           ~Patches(Head(work)), NEW items, PartItems(items, b),
           \A i \in 1 .. Len(items) :
               /\ ~Patches(items[i])
               /\ Loops(items[i]) => items[i].header = Len(chunk.code) /\ Top(chunk, h) = 0,
           \A m \in Nat : Moves(Head(work), Top(chunk, h), m) =>
               Carries(items, Top(chunk, h), m),
           C!Visit(items)
    PROVE  Compiled
<1>1. chunk' = chunk /\ work' = items \o Tail(work) /\ functionIndex' = functionIndex
  BY DEF C!Visit, C!Become
<1>2. Compiling(chunk, work, h, own, b, c) /\ ProgramIsSound
  BY HeadMoves DEF CompilesHere
<1>3. Compiles(chunk, items \o Tail(work), functionIndex)
  BY <1>2, QuietStep
<1>4. QED
  BY <1>1, <1>3 DEF Compiled

(* The children of a node are of the part it is of. *)
LEMMA KidsOwned ==
    ASSUME TreesAreSound, ProgramIsSound, NEW n, NEW b, OwnedBy(n, b)
    PROVE  /\ n \in 1 .. Len(nodes) /\ n \in Nat
           /\ nodes[n].type \in {"Print", "Assign", "If", "While", "Function"} =>
                  OwnedBy(nodes[n].kids[1], b) /\ nodes[n].kids[1] \in Nat
           /\ nodes[n].type \in {"If", "While"} =>
                  OwnedBy(nodes[n].kids[2], b) /\ nodes[n].kids[2] \in Nat
           /\ nodes[n].type = "If" /\ HasElse(nodes[n]) =>
                  OwnedBy(nodes[n].kids[3], b) /\ nodes[n].kids[3] \in Nat
           /\ nodes[n].type = "Return" /\ nodes[n].kids # <<>> =>
                  OwnedBy(nodes[n].kids[1], b) /\ nodes[n].kids[1] \in Nat
<1> DEFINE l == Len(nodes[n].kids)
<1>1. n \in 1 .. Len(nodes) /\ n \in Nat /\ \A i \in 1 .. l : OwnedBy(nodes[n].kids[i], b)
  BY OwnedKids
<1>2. /\ l \in KidCounts(nodes[n].type) /\ nodes[n].kids \in Seq(Nat) /\ l \in Nat
      /\ \A i \in 1 .. l : nodes[n].kids[i] \in Nat
  BY <1>1, KidFacts, LenProperties, ElementOfSeq
<1>3. nodes[n].kids # <<>> => l >= 1
  BY <1>2, EmptySeq
<1>4. HasElse(nodes[n]) => l = 3
  BY DEF HasElse
<1> HIDE DEF l
<1>5. /\ nodes[n].type \in {"Print", "Assign", "If", "While", "Function"} => 1 \in 1 .. l
      /\ nodes[n].type \in {"If", "While"} => 2 \in 1 .. l
  BY <1>2 DEF KidCounts
<1>6. /\ nodes[n].type = "If" /\ HasElse(nodes[n]) => 3 \in 1 .. l
      /\ nodes[n].kids # <<>> => 1 \in 1 .. l
  BY <1>2, <1>3, <1>4
<1>7. QED
  BY <1>1, <1>2, <1>5, <1>6

(* A statement that leaves one value on the stack, and what takes it off. *)
LEMMA PairCompiles ==
    ASSUME CompilesHere, work # <<>>, DistinctJumps(work), Declared(chunk, functionIndex),
           Head(work).do = "statement",
           NEW h, NEW own, NEW b, NEW c, NEW v, AtHead(chunk, h, own, b, c, v), c >= 2,
           NEW x \in CompilerItem, NEW y \in CompilerItem, PartItem(x, b), PartItem(y, b),
           x.do \in {"expression", "zero"}, Moves(y, 1, 0), ~Patches(y),
           Loops(y) => y.header = Len(chunk.code), C!Visit(<<x, y>>)
    PROVE  Compiled
<1> DEFINE items == <<x, y>>
           u == Top(chunk, h)
<1>1. u \in Nat /\ v \in Nat /\ Moves(Head(work), u, v)
  BY HeadMoves
<1>2. u = 0 /\ \A m \in Nat : Moves(Head(work), u, m) => m = 0
  BY <1>1 DEF Moves
<1>3. Carries(items, 0, 0)
  <2> DEFINE none == 0
             one == 1
  <2>1. none \in Nat /\ one \in Nat
    OBVIOUS
  <2>2. Moves(x, none, one)
    <3>1. x.do = "expression" \/ x.do = "zero"
      OBVIOUS
    <3>2. CASE x.do = "expression"
      BY ONLY <3>2 DEF Moves
    <3>3. CASE x.do = "zero"
      BY ONLY <3>3 DEF Moves
    <3>4. QED
      BY ONLY <3>1, <3>2, <3>3
  <2>3. Moves(y, one, none)
    OBVIOUS
  <2> HIDE DEF none, one
  <2>4. Carries(items, none, none)
    BY <2>1, <2>2, <2>3, CarriesTwo
  <2>5. QED
    BY <2>4 DEF none
<1>4. PartItems(items, b) /\ \A i \in 1 .. Len(items) : items[i] = x \/ items[i] = y
  BY PairPart
<1>5. ~Patches(x) /\ ~Loops(x)
  BY DEF Patches, Loops
<1>6. C!Visit(items)
  OBVIOUS
<1> HIDE DEF items
<1>7. \A i \in 1 .. Len(items) :
          /\ ~Patches(items[i])
          /\ Loops(items[i]) => items[i].header = Len(chunk.code) /\ u = 0
  BY <1>2, <1>4, <1>5
<1>8. \A m \in Nat : Moves(Head(work), u, m) => Carries(items, u, m)
  BY <1>2, <1>3
<1>9. ~Patches(Head(work))
  BY DEF Patches
<1> HIDE DEF u
<1>10. QED
  BY <1>4, <1>6, <1>7, <1>8, <1>9, VisitCompiles DEF u

(* The items of a node of the part. *)
LEMMA NodeItem ==
    ASSUME NEW b, NEW n \in Nat, OwnedBy(n, b),
           NEW do \in {"expression", "statement", "store", "call", "then"},
           do = "store" => nodes[n].type = "Assign", do = "call" => nodes[n].type = "Call"
    PROVE  LET item == C!Item(do, n)
           IN  /\ item \in CompilerItem /\ PartItem(item, b)
               /\ item.do = do /\ item.node = n /\ ~Patches(item) /\ ~Loops(item)
<1> DEFINE item == C!Item(do, n)
<1>1. item \in CompilerItem /\ item.do = do /\ item.node = n
  <2>1. do \in CompilerWalks
    BY DEF CompilerWalks
  <2>2. QED
    BY <2>1, ItemFields
<1> HIDE DEF item
<1>2. item.do # "emit" /\ Waits(item) /\ ~Patches(item) /\ ~Loops(item)
  BY <1>1 DEF Waits, Patches, Loops
<1>3. PartItem(item, b)
  BY <1>1, <1>2 DEF PartItem
<1>4. QED
  BY <1>1, <1>2, <1>3 DEF item

LEMMA EmittingItem ==
    ASSUME NEW b, NEW n \in Nat, NEW op \in PlainOps, op = 16 => b # 0
    PROVE  LET item == C!EmitItem(op, n)
           IN  /\ item \in CompilerItem /\ PartItem(item, b)
               /\ item.do = "emit" /\ item.op = op /\ ~Patches(item) /\ ~Loops(item)
<1> DEFINE item == C!EmitItem(op, n)
<1>1. item \in CompilerItem /\ item.do = "emit" /\ item.op = op
  BY ItemFields
<1> HIDE DEF item
<1>2. Waits(item) /\ ~Patches(item) /\ ~Loops(item)
  BY <1>1 DEF Waits, Patches, Loops
<1>3. PartItem(item, b)
  BY <1>1, <1>2 DEF PartItem
<1>4. QED
  BY <1>1, <1>2, <1>3 DEF item

LEMMA ZeroItem ==
    ASSUME NEW b, NEW n \in Nat
    PROVE  LET item == C!Item("zero", n)
           IN  item \in CompilerItem /\ PartItem(item, b) /\ item.do = "zero"
<1> DEFINE item == C!Item("zero", n)
<1>1. item \in CompilerItem /\ item.do = "zero"
  BY ItemFields DEF CompilerWalks
<1> HIDE DEF item
<1>2. PartItem(item, b)
  BY <1>1 DEF PartItem, Waits
<1>3. QED
  BY <1>1, <1>2 DEF item

JumpPart(item, b, do, at, header) ==
    /\ item \in CompilerItem /\ PartItem(item, b)
    /\ item.do = do /\ item.at = at /\ item.header = header

LEMMA JumpingItem ==
    ASSUME NEW b, NEW n \in Nat, OwnedBy(n, b), NEW at \in Nat, NEW header \in Nat,
           NEW do, do \in {"else", "end if", "loop", "end loop"},
           NEW item, item = C!JumpItem(do, n, at, header)
    PROVE  JumpPart(item, b, do, at, header)
<1>1. HasFields(item, do, n, at, header)
  <2>1. do \in CompilerWalks
    BY DEF CompilerWalks
  <2>2. QED
    BY <2>1, JumpItemFields
<1>2. /\ item \in CompilerItem /\ item.do = do /\ item.node = n
      /\ item.at = at /\ item.header = header
  BY <1>1 DEF HasFields
<1>3. PartItem(item, b)
  BY <1>2 DEF PartItem, Waits
<1>4. QED
  BY <1>2, <1>3 DEF JumpPart

LEMMA StatementHead ==
    ASSUME CompilesHere, C!Visiting("statement"), C!This.type # "Function"
    PROVE  /\ work # <<>> /\ Head(work).do = "statement" /\ DistinctJumps(work)
           /\ Declared(chunk, functionIndex)
           /\ C!This = nodes[C!Here] /\ C!Here \in Nat
           /\ \E h, own, b, c, v :
                  AtHead(chunk, h, own, b, c, v) /\ c >= 2 /\ OwnedBy(C!Here, b)
<1>1. /\ work # <<>> /\ Head(work).do = "statement" /\ DistinctJumps(work)
      /\ Declared(chunk, functionIndex)
  BY CompilesHead
<1>2. PICK h, own, b, c, v : AtHead(chunk, h, own, b, c, v)
  BY CompilesHead
<1>3. OwnedBy(C!Here, b) /\ C!This = nodes[C!Here] /\ c >= 2 /\ C!Here \in Nat
  <2>1. Head(work).do = "statement" /\ C!Here = Head(work).node /\ C!This = nodes[C!Here]
    BY CompilerVisits DEF CompilesHere
  <2>2. Waits(Head(work))
    BY <2>1 DEF Waits
  <2>3. PartItem(Head(work), b) /\ c >= 2
    BY <1>2, <2>2 DEF AtHead
  <2>4. OwnedBy(C!Here, b)
    BY <2>1, <2>3 DEF PartItem
  <2>5. C!Here \in 1 .. Len(nodes)
    BY <2>4, OwnedKids DEF CompilesHere
  <2>6. QED
    BY <2>1, <2>3, <2>4, <2>5
<1>4. QED
  BY <1>1, <1>2, <1>3

LEMMA PrintCompiles ==
    ASSUME CompilesHere, C!CompilePrint
    PROVE  Compiled
<1> DEFINE n == C!Here
           x == C!Item("expression", nodes[n].kids[1])
           y == C!EmitItem(17, n)
<1>1. /\ C!Visiting("statement") /\ C!This.type = "Print" /\ C!This = nodes[n]
      /\ C!Visit(<<x, y>>)
  BY OpCodesAre DEF C!CompilePrint, C!VisitingA, C!This, C!Here
<1>2. PICK h, own, b, c, v : AtHead(chunk, h, own, b, c, v) /\ c >= 2 /\ OwnedBy(n, b)
  BY <1>1, StatementHead
<1>3. /\ work # <<>> /\ Head(work).do = "statement" /\ DistinctJumps(work)
      /\ Declared(chunk, functionIndex)
  BY <1>1, StatementHead
<1> HIDE DEF n
<1>4. n \in Nat /\ OwnedBy(nodes[n].kids[1], b) /\ nodes[n].kids[1] \in Nat
  BY <1>1, <1>2, KidsOwned DEF CompilesHere
<1>5. x \in CompilerItem /\ PartItem(x, b) /\ x.do = "expression"
  BY <1>4, NodeItem
<1>6. /\ y \in CompilerItem /\ PartItem(y, b) /\ ~Patches(y) /\ ~Loops(y)
      /\ y.do = "emit" /\ y.op = 17
  <2>1. 17 \in PlainOps /\ 17 # 16
    BY DEF PlainOps
  <2>2. QED
    BY <1>4, <2>1, EmittingItem
<1> HIDE DEF x, y
<1>7. Moves(y, 1, 0)
  BY ONLY <1>6 DEF Moves, EmitMoves
<1>8. QED
  BY <1>1, <1>2, <1>3, <1>5, <1>6, <1>7, PairCompiles

LEMMA AssignCompiles ==
    ASSUME CompilesHere, C!CompileAssign
    PROVE  Compiled
<1> DEFINE n == C!Here
           x == C!Item("expression", nodes[n].kids[1])
           y == C!Item("store", n)
<1>1. CASE /\ C!Visiting("statement") /\ C!This.type = "Assign" /\ C!This = nodes[n]
           /\ C!Visit(<<x, y>>)
  <2>2. PICK h, own, b, c, v : AtHead(chunk, h, own, b, c, v) /\ c >= 2 /\ OwnedBy(n, b)
    BY <1>1, StatementHead
  <2>3. /\ work # <<>> /\ Head(work).do = "statement" /\ DistinctJumps(work)
        /\ Declared(chunk, functionIndex)
    BY <1>1, StatementHead
  <2> HIDE DEF n
  <2>4. n \in Nat /\ OwnedBy(nodes[n].kids[1], b) /\ nodes[n].kids[1] \in Nat
    BY <1>1, <2>2, KidsOwned DEF CompilesHere
  <2>5. x \in CompilerItem /\ PartItem(x, b) /\ x.do = "expression"
    BY <2>4, NodeItem
  <2>6. y \in CompilerItem /\ PartItem(y, b) /\ ~Patches(y) /\ ~Loops(y) /\ y.do = "store"
    BY <1>1, <2>2, <2>4, NodeItem
  <2> HIDE DEF x, y
  <2>7. Moves(y, 1, 0)
    BY ONLY <2>6 DEF Moves
  <2>8. QED
    BY <1>1, <2>2, <2>3, <2>5, <2>6, <2>7, PairCompiles
<1>2. CASE C!Visiting("store") /\ C!EmitSlot(2, C!This.slot, C!This.span)
  BY <1>2, StoreCompiles
<1>3. QED
  BY <1>1, <1>2, OpCodesAre DEF C!CompileAssign, C!VisitingA, C!This, C!Here

LEMMA IfCompiles ==
    ASSUME CompilesHere, C!CompileIf
    PROVE  Compiled
<1> DEFINE n == C!Here
           x == C!Item("expression", nodes[n].kids[1])
           y == C!Item("then", n)
<1>1. /\ C!Visiting("statement") /\ C!This.type = "If" /\ C!This = nodes[n]
      /\ C!Visit(<<x, y>>)
  BY DEF C!CompileIf, C!VisitingA, C!This, C!Here
<1>2. PICK h, own, b, c, v : AtHead(chunk, h, own, b, c, v) /\ c >= 2 /\ OwnedBy(n, b)
  BY <1>1, StatementHead
<1>3. /\ work # <<>> /\ Head(work).do = "statement" /\ DistinctJumps(work)
      /\ Declared(chunk, functionIndex)
  BY <1>1, StatementHead
<1> HIDE DEF n
<1>4. n \in Nat /\ OwnedBy(nodes[n].kids[1], b) /\ nodes[n].kids[1] \in Nat
  BY <1>1, <1>2, KidsOwned DEF CompilesHere
<1>5. x \in CompilerItem /\ PartItem(x, b) /\ x.do = "expression"
  BY <1>4, NodeItem
<1>6. y \in CompilerItem /\ PartItem(y, b) /\ ~Patches(y) /\ ~Loops(y) /\ y.do = "then"
  BY <1>2, <1>4, NodeItem
<1> HIDE DEF x, y
<1>7. Moves(y, 1, 0)
  BY ONLY <1>6 DEF Moves
<1>8. QED
  BY <1>1, <1>2, <1>3, <1>5, <1>6, <1>7, PairCompiles

LEMMA WhileCompiles ==
    ASSUME CompilesHere, C!CompileWhile
    PROVE  Compiled
<1> DEFINE n == C!Here
           zero == 0
           header == Len(chunk.code)
           x == C!Item("expression", nodes[n].kids[1])
           y == C!JumpItem("loop", n, zero, header)
<1>1. /\ C!Visiting("statement") /\ C!This.type = "While" /\ C!This = nodes[n]
      /\ C!Visit(<<x, y>>)
  BY DEF C!CompileWhile, C!VisitingA, C!This, C!Here, C!CodeSize
<1>2. PICK h, own, b, c, v : AtHead(chunk, h, own, b, c, v) /\ c >= 2 /\ OwnedBy(n, b)
  BY <1>1, StatementHead
<1>3. /\ work # <<>> /\ Head(work).do = "statement" /\ DistinctJumps(work)
      /\ Declared(chunk, functionIndex)
  BY <1>1, StatementHead
<1> HIDE DEF n
<1>4. n \in Nat /\ OwnedBy(nodes[n].kids[1], b) /\ nodes[n].kids[1] \in Nat
  BY <1>1, <1>2, KidsOwned DEF CompilesHere
<1>5. x \in CompilerItem /\ PartItem(x, b) /\ x.do = "expression"
  BY <1>4, NodeItem
<1>6. y \in CompilerItem /\ PartItem(y, b) /\ y.header = header /\ y.do = "loop"
  <2> DEFINE do == "loop"
                item == C!JumpItem(do, n, zero, header)
  <2>1. header \in Nat /\ zero \in Nat
    BY ChunkFields DEF CompilesHere, CompilerInvariant, CodeIsSound
  <2>2. do \in {"else", "end if", "loop", "end loop"}
    OBVIOUS
  <2> HIDE DEF header, zero, do
  <2>3. item \in CompilerItem /\ PartItem(item, b) /\ item.header = header /\ item.do = do
    <3>1. item = C!JumpItem(do, n, zero, header)
      OBVIOUS
    <3> HIDE DEF item
    <3>2. JumpPart(item, b, do, zero, header)
      BY ONLY <1>2, <1>4, <2>1, <2>2, <3>1, JumpingItem
    <3>3. QED
      BY ONLY <3>2 DEF JumpPart
  <2>4. QED
    BY <2>3 DEF do
<1> HIDE DEF x, y
<1>7. Moves(y, 1, 0) /\ ~Patches(y)
  BY ONLY <1>6 DEF Moves, Patches
<1>8. QED
  BY <1>1, <1>2, <1>3, <1>5, <1>6, <1>7, PairCompiles

LEMMA ReturnCompiles ==
    ASSUME CompilesHere, C!CompileReturn
    PROVE  Compiled
<1> DEFINE n == C!Here
           x == IF nodes[n].kids = <<>> THEN C!Item("zero", n)
                                        ELSE C!Item("expression", nodes[n].kids[1])
           y == C!EmitItem(16, n)
<1>1. /\ C!Visiting("statement") /\ C!This.type = "Return" /\ C!This = nodes[n]
      /\ C!Visit(<<x, y>>)
  BY OpCodesAre DEF C!CompileReturn, C!VisitingA, C!This, C!Here
<1>2. PICK h, own, b, c, v : AtHead(chunk, h, own, b, c, v) /\ c >= 2 /\ OwnedBy(n, b)
  BY <1>1, StatementHead
<1>3. /\ work # <<>> /\ Head(work).do = "statement" /\ DistinctJumps(work)
      /\ Declared(chunk, functionIndex)
  BY <1>1, StatementHead
<1> HIDE DEF n
<1>4. /\ n \in Nat
      /\ nodes[n].kids # <<>> => OwnedBy(nodes[n].kids[1], b) /\ nodes[n].kids[1] \in Nat
  BY <1>1, <1>2, KidsOwned DEF CompilesHere
<1>5. x \in CompilerItem /\ PartItem(x, b) /\ (x.do = "expression" \/ x.do = "zero")
  <2>1. CASE nodes[n].kids = <<>>
    BY <1>4, <2>1, ZeroItem
  <2>2. CASE nodes[n].kids # <<>>
    BY <1>4, <2>2, NodeItem
  <2>3. QED
    BY <2>1, <2>2
<1>6. b # 0
  <2>1. b \in 0 .. Len(C!Functions)
    BY <1>2, HeadMoves
  <2>2. QED
    BY <1>1, <1>2, <1>3, <2>1, OwnedFits DEF CompilesHere
<1>7. /\ y \in CompilerItem /\ PartItem(y, b) /\ ~Patches(y) /\ ~Loops(y)
      /\ y.do = "emit" /\ y.op = 16
  <2>1. 16 \in PlainOps
    BY DEF PlainOps
  <2>2. QED
    BY <1>4, <1>6, <2>1, EmittingItem
<1> HIDE DEF x, y
<1>8. Moves(y, 1, 0)
  BY ONLY <1>7 DEF Moves, EmitMoves
<1>9. QED
  BY <1>1, <1>2, <1>3, <1>5, <1>7, <1>8, PairCompiles

-----------------------------------------------------------------------------

(* The expressions under a node, one value each. *)
LEMMA ExpressionKids ==
    ASSUME TreesAreSound, ProgramIsSound, NEW n, NEW b, OwnedBy(n, b), NEW u \in Nat
    PROVE  LET items == C!Items("expression", nodes[n].kids)
           IN  /\ PartItems(items, b) /\ Carries(items, u, u + Len(nodes[n].kids))
               /\ Len(nodes[n].kids) \in Nat
               /\ \A i \in 1 .. Len(items) : ~Patches(items[i]) /\ ~Loops(items[i])
<1> DEFINE do == "expression"
           items == C!Items(do, nodes[n].kids)
<1>1. do \in {"expression", "statement"}
  OBVIOUS
<1>2. /\ PartItems(items, b) /\ Len(items) = Len(nodes[n].kids)
      /\ Len(nodes[n].kids) \in Nat /\ \A i \in 1 .. Len(items) : items[i].do = do
  <2> HIDE DEF do
  <2>1. QED
    BY <1>1, PartKids
<1> HIDE DEF items
<1>3. /\ items \in Seq(CompilerItem)
      /\ \A i \in 1 .. Len(items) : items[i].do = "expression"
  BY <1>2 DEF PartItems
<1>4. \A i \in 1 .. Len(items) : ~Patches(items[i]) /\ ~Loops(items[i])
  BY <1>3 DEF Patches, Loops
<1>5. Carries(items, u, u + Len(items))
  BY <1>3, CarriesExpressions
<1>6. QED
  BY <1>2, <1>4, <1>5 DEF items

(* A block walks its statements, and a function declaration nothing: its body comes
   after HALT. *)
LEMMA BlockCompiles ==
    ASSUME CompilesHere, C!CompileBlock
    PROVE  Compiled
<1> DEFINE do == "statement"
           kids == C!Items(do, nodes[C!Here].kids)
<1>1. /\ C!Visiting("statement")
      /\ \/ C!This.type = "Block" /\ C!Visit(kids)
         \/ C!This.type = "Function" /\ C!Visit(<<>>)
  BY DEF C!CompileBlock, C!VisitingA, C!This, C!Here
<1>2. /\ work # <<>> /\ Head(work).do = "statement" /\ DistinctJumps(work)
      /\ Declared(chunk, functionIndex)
  BY <1>1, CompilesHead
<1>3. ~Patches(Head(work)) /\ Waits(Head(work))
  BY <1>2 DEF Patches, Waits
<1>4. CASE C!This.type = "Block" /\ C!Visit(kids)
  <2>1. PICK h, own, b, c, v : AtHead(chunk, h, own, b, c, v) /\ c >= 2 /\ OwnedBy(C!Here, b)
    BY <1>1, <1>4, StatementHead
  <2> DEFINE u == Top(chunk, h)
  <2>2. u \in Nat /\ v \in Nat /\ Moves(Head(work), u, v)
    BY <2>1, HeadMoves
  <2>3. u = 0 /\ \A m \in Nat : Moves(Head(work), u, m) => m = 0
    BY <1>2, <2>2 DEF Moves
  <2>4. /\ PartItems(kids, b) /\ \A i \in 1 .. Len(kids) : kids[i].do = do
    <3>1. do \in {"expression", "statement"}
      OBVIOUS
    <3> HIDE DEF do
    <3>2. QED
      BY <2>1, <3>1, PartKids DEF CompilesHere
  <2> HIDE DEF kids, u
  <2>5. \A i \in 1 .. Len(kids) : kids[i].do = "statement"
    BY <2>4
  <2>6. \A i \in 1 .. Len(kids) : ~Patches(kids[i]) /\ ~Loops(kids[i])
    BY <2>5 DEF Patches, Loops
  <2>7. Carries(kids, 0, 0)
    <3>1. \A i \in 1 .. Len(kids) : Moves(kids[i], 0, 0)
      BY ONLY <2>5 DEF Moves
    <3>2. kids \in Seq(CompilerItem)
      BY <2>4 DEF PartItems
    <3>3. QED
      BY <3>1, <3>2, CarriesStill
  <2>8. \A m \in Nat : Moves(Head(work), u, m) => Carries(kids, u, m)
    BY <2>3, <2>7
  <2>9. \A i \in 1 .. Len(kids) :
            /\ ~Patches(kids[i])
            /\ Loops(kids[i]) => kids[i].header = Len(chunk.code) /\ u = 0
    BY <2>6
  <2>10. QED
    BY <1>2, <1>3, <1>4, <2>1, <2>4, <2>8, <2>9, VisitCompiles DEF u
<1>5. CASE C!This.type = "Function" /\ C!Visit(<<>>)
  <2>1. PICK h, own, b, c, v : AtHead(chunk, h, own, b, c, v)
    BY <1>1, CompilesHead
  <2>2. c >= 2
    BY <1>3, <2>1 DEF AtHead
  <2> DEFINE u == Top(chunk, h)
             none == <<>>
  <2>3. u \in Nat /\ v \in Nat /\ Moves(Head(work), u, v)
    BY <2>1, HeadMoves
  <2>4. u = 0 /\ \A m \in Nat : Moves(Head(work), u, m) => m = 0
    BY <1>2, <2>3 DEF Moves
  <2>5. Carries(none, 0, 0)
    BY CarriesNone
  <2>6. PartItems(none, b) /\ Len(none) = 0 /\ C!Visit(none)
    BY <1>5, NoPart
  <2> HIDE DEF none, u
  <2>7. \A m \in Nat : Moves(Head(work), u, m) => Carries(none, u, m)
    BY <2>4, <2>5
  <2>8. \A i \in 1 .. Len(none) :
            /\ ~Patches(none[i])
            /\ Loops(none[i]) => none[i].header = Len(chunk.code) /\ u = 0
    BY <2>6
  <2>9. QED
    BY <1>2, <1>3, <2>1, <2>2, <2>6, <2>7, <2>8, VisitCompiles DEF u
<1>6. QED
  BY <1>1, <1>4, <1>5

(* One item or two, from what each of them does. *)
LEMMA CarriesOps ==
    ASSUME NEW S, NEW w \in Seq(S), NEW u \in Nat, NEW m \in Nat, NEW v \in Nat,
           \/ Len(w) = 1 /\ Moves(w[1], u, v)
           \/ Len(w) = 2 /\ Moves(w[1], u, m) /\ Moves(w[2], m, v)
    PROVE  Carries(w, u, v)
<1>1. CASE Len(w) = 1 /\ Moves(w[1], u, v)
  <2> DEFINE g == [i \in 1 .. Len(w) + 1 |-> IF i = 1 THEN u ELSE v]
  <2>1. g \in [1 .. Len(w) + 1 -> Nat] /\ g[1] = u /\ g[2] = v /\ g[Len(w) + 1] = v
    BY <1>1
  <2> HIDE DEF g
  <2>2. ASSUME NEW i \in 1 .. Len(w)
        PROVE  Moves(w[i], g[i], g[i + 1])
    <3>1. i = 1 /\ i + 1 = 2
      BY <1>1
    <3>2. QED
      BY <1>1, <2>1, <3>1
  <2>3. QED
    BY <2>1, <2>2 DEF Carries
<1>2. CASE Len(w) = 2 /\ Moves(w[1], u, m) /\ Moves(w[2], m, v)
  <2> DEFINE g == [i \in 1 .. Len(w) + 1 |-> IF i = 1 THEN u ELSE IF i = 2 THEN m ELSE v]
  <2>1. g \in [1 .. Len(w) + 1 -> Nat] /\ g[1] = u /\ g[2] = m /\ g[3] = v /\ g[Len(w) + 1] = v
    BY <1>2
  <2> HIDE DEF g
  <2>2. ASSUME NEW i \in 1 .. Len(w)
        PROVE  Moves(w[i], g[i], g[i + 1])
    <3>1. (i = 1 /\ i + 1 = 2) \/ (i = 2 /\ i + 1 = 3)
      BY <1>2
    <3>2. QED
      BY <1>2, <2>1, <3>1
  <2>3. QED
    BY <2>1, <2>2 DEF Carries
<1>3. QED
  BY <1>1, <1>2

LEMMA OperatorOps ==
    ASSUME NEW kind
    PROVE  /\ kind \in BinOpKinds =>
                  \E op \in BinaryOps :
                      C!OpCodesFor(kind) = <<op>> \/ C!OpCodesFor(kind) = <<op, 12>>
           /\ kind \in UnaryOpKinds => \E op \in {8, 12} : C!OpCodesFor(kind) = <<op>>
<1>1. {4, 5, 6, 7, 9, 10, 11} \subseteq BinaryOps
  BY DEF BinaryOps
<1>2. CASE kind \in {"Add", "Subtract", "Multiply", "Divide", "Less", "Greater", "Equal"}
  <2>1. CASE kind = "Add"
    BY <1>1, <2>1, OpCodesAre DEF C!OpCodesFor, UnaryOpKinds
  <2>2. CASE kind = "Subtract"
    BY <1>1, <2>2, OpCodesAre DEF C!OpCodesFor, UnaryOpKinds
  <2>3. CASE kind = "Multiply"
    BY <1>1, <2>3, OpCodesAre DEF C!OpCodesFor, UnaryOpKinds
  <2>4. CASE kind = "Divide"
    BY <1>1, <2>4, OpCodesAre DEF C!OpCodesFor, UnaryOpKinds
  <2>5. CASE kind = "Less"
    BY <1>1, <2>5, OpCodesAre DEF C!OpCodesFor, UnaryOpKinds
  <2>6. CASE kind = "Greater"
    BY <1>1, <2>6, OpCodesAre DEF C!OpCodesFor, UnaryOpKinds
  <2>7. CASE kind = "Equal"
    BY <1>1, <2>7, OpCodesAre DEF C!OpCodesFor, UnaryOpKinds
  <2>8. QED
    BY <1>2, <2>1, <2>2, <2>3, <2>4, <2>5, <2>6, <2>7
<1>3. CASE kind \in {"LessEqual", "GreaterEqual", "NotEqual"}
  <2>1. CASE kind = "LessEqual"
    BY <1>1, <2>1, OpCodesAre DEF C!OpCodesFor, UnaryOpKinds
  <2>2. CASE kind = "GreaterEqual"
    BY <1>1, <2>2, OpCodesAre DEF C!OpCodesFor, UnaryOpKinds
  <2>3. CASE kind = "NotEqual"
    BY <1>1, <2>3, OpCodesAre DEF C!OpCodesFor, UnaryOpKinds
  <2>4. QED
    BY <1>3, <2>1, <2>2, <2>3
<1>4. CASE kind = "Negate"
  BY <1>4, OpCodesAre DEF C!OpCodesFor, BinOpKinds
<1>5. CASE kind = "Not"
  BY <1>5, OpCodesAre DEF C!OpCodesFor, BinOpKinds
<1>6. QED
  BY <1>2, <1>3, <1>4, <1>5 DEF BinOpKinds, UnaryOpKinds

(* The instructions of an operator, after its operands. *)
LEMMA OperatorItems ==
    ASSUME NEW b, NEW n \in Nat, NEW u \in Nat, NEW v \in Nat, NEW ops,
           \/ \E op \in BinaryOps : (ops = <<op>> \/ ops = <<op, 12>>) /\ u >= 2 /\ v = u - 1
           \/ \E op \in {8, 12} : ops = <<op>> /\ u >= 1 /\ v = u
    PROVE  LET items == [i \in DOMAIN ops |-> C!EmitItem(ops[i], n)]
           IN  /\ PartItems(items, b) /\ Carries(items, u, v)
               /\ \A i \in 1 .. Len(items) : ~Patches(items[i]) /\ ~Loops(items[i])
<1> DEFINE items == [i \in DOMAIN ops |-> C!EmitItem(ops[i], n)]
           l == Len(ops)
<1>1. BinaryOps \cup {8, 12} \subseteq PlainOps /\ 16 \notin BinaryOps \cup {8, 12}
  BY DEF BinaryOps, PlainOps
<1>2. \E op \in BinaryOps \cup {8, 12} : ops = <<op>> \/ ops = <<op, 12>>
  OBVIOUS
<1>3. ops \in Seq(PlainOps) /\ \A i \in 1 .. l : ops[i] \in PlainOps /\ ops[i] # 16
  <2>1. PICK op \in BinaryOps \cup {8, 12} : ops = <<op>> \/ ops = <<op, 12>>
    BY <1>2
  <2>2. op \in PlainOps /\ 12 \in PlainOps /\ op # 16
    BY <1>1
  <2>3. CASE ops = <<op>>
    BY ONLY <2>2, <2>3
  <2>4. CASE ops = <<op, 12>>
    BY ONLY <2>2, <2>4
  <2>5. QED
    BY <2>1, <2>3, <2>4
<1>4. l \in Nat /\ DOMAIN ops = 1 .. l
  BY <1>3, LenProperties
<1> HIDE DEF l
<1>5. ASSUME NEW i \in 1 .. l
      PROVE  /\ items[i] \in CompilerItem /\ PartItem(items[i], b)
             /\ items[i].do = "emit" /\ items[i].op = ops[i]
             /\ ~Patches(items[i]) /\ ~Loops(items[i])
  <2>1. items[i] = C!EmitItem(ops[i], n)
    BY <1>4
  <2> DEFINE op == ops[i]
             x == C!EmitItem(op, n)
  <2>2. op \in PlainOps /\ op # 16
    BY <1>3
  <2> HIDE DEF op
  <2>3. op = 16 => b # 0
    BY <2>2
  <2>4. x \in CompilerItem /\ PartItem(x, b) /\ x.do = "emit" /\ x.op = op
        /\ ~Patches(x) /\ ~Loops(x)
    BY ONLY <2>2, <2>3, EmittingItem
  <2> HIDE DEF x
  <2>5. items[i] = x
    BY <2>1 DEF x, op
  <2> HIDE DEF items
  <2>6. QED
    BY ONLY <2>4, <2>5 DEF op
<1>6. items \in Seq(CompilerItem) /\ Len(items) = l
  <2>1. items \in [1 .. l -> CompilerItem]
    BY <1>4, <1>5
  <2>2. QED
    BY <1>4, <2>1
<1> HIDE DEF items
<1>7. PartItems(items, b)
  BY <1>5, <1>6 DEF PartItems
<1>8. \/ l = 1 /\ EmitMoves(ops[1], u, v)
      \/ l = 2 /\ EmitMoves(ops[1], u, v) /\ EmitMoves(ops[2], v, v)
  <2>1. CASE \E op \in BinaryOps : (ops = <<op>> \/ ops = <<op, 12>>) /\ u >= 2 /\ v = u - 1
    <3>1. PICK op \in BinaryOps : (ops = <<op>> \/ ops = <<op, 12>>) /\ u >= 2 /\ v = u - 1
      BY <2>1
    <3>2. EmitMoves(op, u, v) /\ EmitMoves(12, v, v)
      BY <3>1 DEF EmitMoves
    <3>3. CASE ops = <<op>>
      BY <3>2, <3>3 DEF l
    <3>4. CASE ops = <<op, 12>>
      BY <3>2, <3>4 DEF l
    <3>5. QED
      BY <3>1, <3>3, <3>4
  <2>2. CASE \E op \in {8, 12} : ops = <<op>> /\ u >= 1 /\ v = u
    <3>1. PICK op \in {8, 12} : ops = <<op>> /\ u >= 1 /\ v = u
      BY <2>2
    <3>2. EmitMoves(op, u, v)
      BY <3>1 DEF EmitMoves
    <3>3. QED
      BY <3>1, <3>2 DEF l
  <2>3. QED
    BY <2>1, <2>2
<1>9. \A i \in 1 .. l : \A s, t : EmitMoves(ops[i], s, t) => Moves(items[i], s, t)
  <2>1. ASSUME NEW i \in 1 .. l, NEW s, NEW t, EmitMoves(ops[i], s, t)
        PROVE  Moves(items[i], s, t)
    <3>1. items[i].do = "emit" /\ EmitMoves(items[i].op, s, t)
      BY <1>5, <2>1
    <3>2. QED
      BY ONLY <3>1 DEF Moves
  <2>2. QED
    BY <2>1
<1>10. \/ l = 1 /\ Moves(items[1], u, v)
       \/ l = 2 /\ Moves(items[1], u, v) /\ Moves(items[2], v, v)
  BY <1>8, <1>9
<1>11. Carries(items, u, v)
  BY <1>6, <1>10, CarriesOps
<1>12. QED
  BY <1>5, <1>6, <1>7, <1>11 DEF items

(* The operands of an operator, then its instructions. *)
LEMMA OperatorCompiles ==
    ASSUME CompilesHere, C!CompileOperator
    PROVE  Compiled
<1> DEFINE n == C!Here
           ops == C!OpCodesFor(nodes[n].kind)
           first == C!Items("expression", nodes[n].kids)
           last == [i \in DOMAIN ops |-> C!EmitItem(ops[i], n)]
           items == first \o last
           l == Len(nodes[n].kids)
<1>1. /\ C!Visiting("expression") /\ nodes[n].type \in {"BinOp", "UnaryOp"}
      /\ C!Visit(items)
  BY DEF C!CompileOperator, C!VisitingA, C!This, C!Here
<1>2. /\ work # <<>> /\ Head(work).do = "expression" /\ DistinctJumps(work)
      /\ Declared(chunk, functionIndex)
  BY <1>1, CompilesHead
<1>3. PICK h, own, b, c, v : AtHead(chunk, h, own, b, c, v)
  BY <1>1, CompilesHead
<1>4. OwnedBy(n, b) /\ c >= 2 /\ n \in 1 .. Len(nodes)
  BY <1>1, <1>3, HereIsOwned
<1>5. n \in Nat
  BY <1>4, KidsOwned DEF CompilesHere
<1> DEFINE u == Top(chunk, h)
<1>6. u \in Nat /\ v \in Nat /\ Moves(Head(work), u, v)
  BY <1>3, HeadMoves
<1>7. u + 1 \in Nat /\ \A m \in Nat : Moves(Head(work), u, m) => m = u + 1
  BY <1>2, <1>6 DEF Moves
<1>8. /\ l \in KidCounts(nodes[n].type)
      /\ nodes[n].type = "BinOp" => nodes[n].kind \in BinOpKinds
      /\ nodes[n].type = "UnaryOp" => nodes[n].kind \in UnaryOpKinds
  BY <1>4 DEF CompilesHere, TreesAreSound, KidsAreSound, OperatorIsKnown
<1> HIDE DEF u, l, n
<1>9. \/ l = 2 /\ nodes[n].kind \in BinOpKinds
      \/ l = 1 /\ nodes[n].kind \in UnaryOpKinds
  BY <1>1, <1>8 DEF KidCounts
<1>10. /\ PartItems(first, b) /\ Carries(first, u, u + l) /\ l \in Nat
       /\ \A i \in 1 .. Len(first) : ~Patches(first[i]) /\ ~Loops(first[i])
  BY <1>4, <1>6, ExpressionKids DEF CompilesHere, l
<1> HIDE DEF ops, first
<1>11. \/ \E op \in BinaryOps : (ops = <<op>> \/ ops = <<op, 12>>) /\ u + l >= 2 /\ u + 1 = (u + l) - 1
       \/ \E op \in {8, 12} : ops = <<op>> /\ u + l >= 1 /\ u + 1 = u + l
  <2>1. CASE l = 2 /\ nodes[n].kind \in BinOpKinds
    <3>1. \E op \in BinaryOps : ops = <<op>> \/ ops = <<op, 12>>
      BY <2>1, OperatorOps DEF ops
    <3>2. u + l >= 2 /\ u + 1 = (u + l) - 1
      BY <1>6, <2>1
    <3>3. QED
      BY <3>1, <3>2
  <2>2. CASE l = 1 /\ nodes[n].kind \in UnaryOpKinds
    <3>1. \E op \in {8, 12} : ops = <<op>>
      BY <2>2, OperatorOps DEF ops
    <3>2. u + l >= 1 /\ u + 1 = u + l
      BY <1>6, <2>2
    <3>3. QED
      BY <3>1, <3>2
  <2>3. QED
    BY <1>9, <2>1, <2>2
<1> DEFINE s == u + l
           t == u + 1
<1>12. s \in Nat /\ t \in Nat
  BY <1>6, <1>10
<1>13. \/ \E op \in BinaryOps : (ops = <<op>> \/ ops = <<op, 12>>) /\ s >= 2 /\ t = s - 1
       \/ \E op \in {8, 12} : ops = <<op>> /\ s >= 1 /\ t = s
  BY <1>11
<1>14. Carries(first, u, s) /\ \A m \in Nat : Moves(Head(work), u, m) => m = t
  BY <1>7, <1>10
<1> HIDE DEF s, t
<1>15. /\ PartItems(last, b) /\ Carries(last, s, t)
       /\ \A i \in 1 .. Len(last) : ~Patches(last[i]) /\ ~Loops(last[i])
  BY <1>5, <1>12, <1>13, OperatorItems
<1> HIDE DEF last
<1>16. /\ PartItems(items, b)
       /\ \A i \in 1 .. Len(items) :
              \/ \E j \in 1 .. Len(first) : items[i] = first[j]
              \/ \E j \in 1 .. Len(last) : items[i] = last[j]
  BY <1>10, <1>15, JoinPart
<1>17. Carries(items, u, t)
  <2>1. first \in Seq(CompilerItem) /\ last \in Seq(CompilerItem)
    BY <1>10, <1>15 DEF PartItems
  <2>2. QED
    BY <1>14, <1>15, <2>1, CarriesJoin
<1> HIDE DEF items
<1>18. \A i \in 1 .. Len(items) : ~Patches(items[i]) /\ ~Loops(items[i])
  BY <1>10, <1>15, <1>16
<1>19. \A i \in 1 .. Len(items) :
           /\ ~Patches(items[i])
           /\ Loops(items[i]) => items[i].header = Len(chunk.code) /\ u = 0
  BY <1>18
<1>20. \A m \in Nat : Moves(Head(work), u, m) => Carries(items, u, m)
  BY <1>14, <1>17
<1>21. ~Patches(Head(work))
  BY <1>2 DEF Patches
<1>22. QED
  BY <1>1, <1>2, <1>3, <1>4, <1>16, <1>19, <1>20, <1>21, VisitCompiles DEF u

(* The arguments of a call, then the call. *)
LEMMA CallCompiles ==
    ASSUME CompilesHere, C!CompileCall
    PROVE  Compiled
<1> DEFINE n == C!Here
           do == "call"
           first == C!Items("expression", nodes[n].kids)
           x == C!Item(do, n)
           items == Append(first, x)
           l == Len(nodes[n].kids)
<1>1. CASE C!Visiting("expression") /\ nodes[n].type = "Call" /\ C!Visit(items)
  <2>2. /\ work # <<>> /\ Head(work).do = "expression" /\ DistinctJumps(work)
        /\ Declared(chunk, functionIndex)
    BY <1>1, CompilesHead
  <2>3. PICK h, own, b, c, v : AtHead(chunk, h, own, b, c, v)
    BY <1>1, CompilesHead
  <2>4. OwnedBy(n, b) /\ c >= 2
    BY <1>1, <2>3, HereIsOwned
  <2>5. n \in Nat
    BY <2>4, KidsOwned DEF CompilesHere
  <2> DEFINE u == Top(chunk, h)
  <2>6. u \in Nat /\ v \in Nat /\ Moves(Head(work), u, v)
    BY <2>3, HeadMoves
  <2>7. u + 1 \in Nat /\ \A m \in Nat : Moves(Head(work), u, m) => m = u + 1
    BY <2>2, <2>6 DEF Moves
  <2> HIDE DEF u, n
  <2>8. /\ PartItems(first, b) /\ Carries(first, u, u + l) /\ l \in Nat
        /\ \A i \in 1 .. Len(first) : ~Patches(first[i]) /\ ~Loops(first[i])
    BY <2>4, <2>6, ExpressionKids DEF CompilesHere
  <2>9. /\ x \in CompilerItem /\ PartItem(x, b) /\ x.do = do /\ x.node = n
        /\ ~Patches(x) /\ ~Loops(x)
    <3>1. do \in {"expression", "statement", "store", "call", "then"} /\ do # "store"
      OBVIOUS
    <3> HIDE DEF do
    <3>2. QED
      BY <1>1, <2>4, <2>5, <3>1, NodeItem
  <2> HIDE DEF first, x
  <2>10. Moves(x, u + l, u + 1)
    <3>1. x.do = "call" /\ Len(nodes[x.node].kids) = l
      BY <2>9
    <3> HIDE DEF l
    <3>2. CallMoves(l, u + l, u + 1)
      BY <2>6, <2>8 DEF CallMoves
    <3>3. CallMoves(Len(nodes[x.node].kids), u + l, u + 1)
      BY <3>1, <3>2
    <3>4. QED
      BY ONLY <3>1, <3>3 DEF Moves
  <2>11. /\ PartItems(items, b)
         /\ \A i \in 1 .. Len(items) :
                items[i] = x \/ \E j \in 1 .. Len(first) : items[i] = first[j]
    BY <2>8, <2>9, AppendPart
  <2>12. Carries(items, u, u + 1)
    <3> DEFINE s == u + l
               t == u + 1
    <3>1. first \in Seq(CompilerItem)
      BY <2>8 DEF PartItems
    <3>2. t \in Nat /\ Carries(first, u, s) /\ Moves(x, s, t)
      BY <2>7, <2>8, <2>10
    <3> HIDE DEF s, t
    <3>3. Carries(items, u, t)
      BY <2>9, <3>1, <3>2, CarriesAppend
    <3>4. QED
      BY <3>3 DEF t
  <2> HIDE DEF items
  <2>13. \A i \in 1 .. Len(items) :
             /\ ~Patches(items[i])
             /\ Loops(items[i]) => items[i].header = Len(chunk.code) /\ u = 0
    BY <2>8, <2>9, <2>11
  <2>14. \A m \in Nat : Moves(Head(work), u, m) => Carries(items, u, m)
    BY <2>7, <2>12
  <2>15. ~Patches(Head(work))
    BY <2>2 DEF Patches
  <2>16. QED
    BY <1>1, <2>2, <2>3, <2>4, <2>11, <2>13, <2>14, <2>15, VisitCompiles DEF u
<1>2. CASE /\ C!Visiting("call")
           /\ C!EmitHere(C!OpCode.CALL, functionIndex[C!This.name], C!This.span, C!NoText, <<>>)
  BY <1>2, CallEmitCompiles
<1>3. QED
  BY <1>1, <1>2 DEF C!CompileCall, C!VisitingA, C!This, C!Here

-----------------------------------------------------------------------------

(* The pair of items that follows a jump just emitted. *)
JumpPair(x, y, b, at, headers) ==
    /\ x \in CompilerItem /\ PartItem(x, b) /\ x.do = "statement"
    /\ y \in CompilerItem /\ PartItem(y, b) /\ Patches(y) /\ y.at = at
    /\ Loops(y) => y.header \in headers

LEMMA JumpPairDoes ==
    ASSUME NEW x, NEW y, NEW b, NEW at, NEW headers, JumpPair(x, y, b, at, headers)
    PROVE  LET items == <<x, y>>
           IN  /\ PartItems(items, b) /\ Len(items) = 2 /\ Carries(items, 0, 0)
               /\ at \in AwaitedIn(items)
               /\ \A a \in AwaitedIn(items) : a = at
               /\ \A t \in HeadersIn(items) : t \in headers
               /\ (\A i \in 1 .. Len(items) : ~Loops(items[i])) \/ Loops(y)
<1> DEFINE items == <<x, y>>
<1>1. /\ x \in CompilerItem /\ PartItem(x, b) /\ x.do = "statement"
      /\ y \in CompilerItem /\ PartItem(y, b) /\ Patches(y) /\ y.at = at
      /\ Loops(y) => y.header \in headers
  BY DEF JumpPair
<1>2. ~Patches(x) /\ ~Loops(x)
  BY <1>1 DEF Patches, Loops
<1>3. /\ PartItems(items, b) /\ Len(items) = 2 /\ items[1] = x /\ items[2] = y
      /\ \A i \in 1 .. Len(items) : items[i] = x \/ items[i] = y
  BY <1>1, PairPart
<1>4. Carries(items, 0, 0)
  <2> DEFINE none == 0
  <2>1. none \in Nat
    OBVIOUS
  <2>2. Moves(x, none, none)
    BY ONLY <1>1 DEF Moves
  <2>3. Moves(y, none, none)
    <3>1. y.do \in {"else", "end if", "end loop"}
      BY <1>1 DEF Patches
    <3>2. QED
      BY ONLY <3>1 DEF Moves
  <2> HIDE DEF none
  <2>4. Carries(items, none, none)
    BY <1>1, <2>1, <2>2, <2>3, CarriesTwo
  <2>5. QED
    BY <2>4 DEF none
<1> HIDE DEF items
<1>5. \A i \in 1 .. Len(items) :
          /\ Patches(items[i]) => items[i].at = at
          /\ Loops(items[i]) => items[i].header \in headers /\ Loops(y)
  BY <1>1, <1>2, <1>3
<1>6. 2 \in 1 .. Len(items) /\ Patches(items[2]) /\ items[2].at = at
  BY <1>1, <1>3
<1>7. at \in AwaitedIn(items) /\ \A a \in AwaitedIn(items) : a = at
  BY <1>5, <1>6 DEF AwaitedIn
<1>8. \A t \in HeadersIn(items) : t \in headers
  BY <1>5 DEF HeadersIn
<1>9. QED
  BY <1>3, <1>4, <1>5, <1>7, <1>8 DEF items

(* JUMP_IF_FALSE past a branch, or out of a loop. *)
LEMMA BranchCompiles ==
    ASSUME CompilesHere, work # <<>>, DistinctJumps(work), Declared(chunk, functionIndex),
           Head(work).do \in {"then", "loop"},
           NEW h, NEW own, NEW b, NEW c, NEW v, AtHead(chunk, h, own, b, c, v), c >= 2,
           NEW x, NEW y, JumpPair(x, y, b, Len(chunk.code), HeadersIn(work)), NEW span,
           C!EmitHere(C!OpCode.JUMP_IF_FALSE, C!Placeholder, span, C!NoText, <<x, y>>)
    PROVE  Compiled
<1> DEFINE items == <<x, y>>
           op == C!OpCode.JUMP_IF_FALSE
           operand == C!Placeholder
           text == C!NoText
           u == Top(chunk, h)
           here == Len(chunk.code)
           headers == HeadersIn(work)
<1>1. C!EmitOnto(chunk, op, operand, span, text, items)
  BY DEF C!EmitHere
<1>2. op = 14 /\ op \in JumpOps
  BY OpCodesAre DEF JumpOps
<1>3. operand \in 0 .. MaxOperand /\ operand \in Nat
  BY PipelineAssumption DEF C!Placeholder
<1>4. u \in Nat /\ v \in Nat /\ Moves(Head(work), u, v)
  BY HeadMoves
<1>5. u = 1 /\ \A m \in Nat : Moves(Head(work), u, m) => m = 0
  BY <1>4 DEF Moves
<1>6. ~Patches(Head(work))
  BY DEF Patches
<1>7. Compiling(chunk, work, h, own, b, c) /\ ProgramIsSound
  BY DEF AtHead, CompilesHere
<1>8. c >= 1
  BY HeadMoves
<1>9. JumpPair(x, y, b, here, headers)
  OBVIOUS
<1> HIDE DEF items, op, operand, text, u, here, headers
<1>10. /\ PartItems(items, b) /\ Carries(items, 0, 0) /\ here \in AwaitedIn(items)
       /\ \A a \in AwaitedIn(items) : a = here
       /\ \A t \in HeadersIn(items) : t \in headers
  BY <1>9, JumpPairDoes DEF items
<1>11. OpFits(chunk, op, operand, u, b) /\ Left(chunk, op, operand, u) = 0
  BY <1>2, <1>3, <1>4, <1>5, SlotsAndConstants DEF Does
<1>12. \A m \in Nat : Moves(Head(work), u, m) => Carries(items, Left(chunk, op, operand, u), m)
  BY <1>5, <1>10, <1>11
<1>13. ASSUME C!HasRoom(chunk, op)
       PROVE  Compiles(C!Emit(chunk, op, operand, span, text), items \o Tail(work), functionIndex)
  BY <1>2, <1>3, <1>6, <1>7, <1>8, <1>10, <1>11, <1>12, <1>13, EmitStep DEF u, here, headers
<1>14. QED
  BY <1>1, <1>13, EmittedOrNot

(* The test of an if, and the branch after it. *)
LEMMA ThenCompiles ==
    ASSUME CompilesHere, C!CompileThen
    PROVE  Compiled
<1> DEFINE n == C!Here
           zero == 0
           here == Len(chunk.code)
           does == "statement"
           do == "else"
           x == C!Item(does, nodes[n].kids[2])
           y == C!JumpItem(do, n, here, zero)
           span == nodes[nodes[n].kids[1]].span
<1>1. /\ C!Visiting("then")
      /\ C!EmitHere(C!OpCode.JUMP_IF_FALSE, C!Placeholder, span, C!NoText, <<x, y>>)
  BY DEF C!CompileThen, C!This, C!Here, C!CodeSize
<1>2. /\ work # <<>> /\ Head(work).do = "then" /\ DistinctJumps(work)
      /\ Declared(chunk, functionIndex)
  BY <1>1, CompilesHead
<1>3. PICK h, own, b, c, v : AtHead(chunk, h, own, b, c, v)
  BY <1>1, CompilesHead
<1>4. OwnedBy(n, b) /\ c >= 2
  BY <1>1, <1>3, HereIsOwned
<1>5. nodes[n].type = "If"
  BY <1>1, <1>2, CompilerVisits DEF CompilesHere, Compilable, C!Here
<1> HIDE DEF n, span
<1>6. n \in Nat /\ OwnedBy(nodes[n].kids[2], b) /\ nodes[n].kids[2] \in Nat
  BY <1>4, <1>5, KidsOwned DEF CompilesHere
<1>7. zero \in Nat /\ here \in Nat
  BY ChunkFields DEF CompilesHere, CompilerInvariant, CodeIsSound
<1>8. x \in CompilerItem /\ PartItem(x, b) /\ x.do = "statement"
  BY <1>6, NodeItem
<1>9. JumpPart(y, b, do, here, zero)
  <2>1. do \in {"else", "end if", "loop", "end loop"} /\ y = C!JumpItem(do, n, here, zero)
    OBVIOUS
  <2> HIDE DEF y, do, here, zero
  <2>2. QED
    BY ONLY <1>4, <1>6, <1>7, <2>1, JumpingItem
<1> HIDE DEF x, y
<1>10. y \in CompilerItem /\ PartItem(y, b) /\ y.at = here /\ y.do = "else"
  BY ONLY <1>9 DEF JumpPart
<1>11. Patches(y) /\ ~Loops(y)
  BY ONLY <1>10 DEF Patches, Loops
<1>12. JumpPair(x, y, b, here, HeadersIn(work))
  BY <1>8, <1>10, <1>11 DEF JumpPair
<1>13. QED
  BY <1>1, <1>2, <1>3, <1>4, <1>12, BranchCompiles

LEMMA LoopCompiles ==
    ASSUME CompilesHere, C!CompileLoop
    PROVE  Compiled
<1> DEFINE n == C!Here
           header == Head(work).header
           here == Len(chunk.code)
           does == "statement"
           do == "end loop"
           x == C!Item(does, nodes[n].kids[2])
           y == C!JumpItem(do, n, here, header)
           span == nodes[nodes[n].kids[1]].span
<1>1. /\ C!Visiting("loop")
      /\ C!EmitHere(C!OpCode.JUMP_IF_FALSE, C!Placeholder, span, C!NoText, <<x, y>>)
  BY DEF C!CompileLoop, C!This, C!Here, C!CodeSize
<1>2. /\ work # <<>> /\ Head(work).do = "loop" /\ DistinctJumps(work)
      /\ Declared(chunk, functionIndex)
  BY <1>1, CompilesHead
<1>3. PICK h, own, b, c, v : AtHead(chunk, h, own, b, c, v)
  BY <1>1, CompilesHead
<1>4. OwnedBy(n, b) /\ c >= 2
  BY <1>1, <1>3, HereIsOwned
<1>5. nodes[n].type = "While" /\ header \in Nat
  BY <1>1, <1>2, CompilerVisits DEF CompilesHere, Compilable, C!Here
<1>6. header \in HeadersIn(work)
  <2>1. Loops(Head(work))
    BY <1>2 DEF Loops
  <2>2. Head(work) = work[1] /\ 1 \in 1 .. Len(work)
    BY <1>1, CompilerVisits DEF CompilesHere
  <2>3. QED
    BY <2>1, <2>2 DEF HeadersIn
<1> HIDE DEF n, span
<1>7. n \in Nat /\ OwnedBy(nodes[n].kids[2], b) /\ nodes[n].kids[2] \in Nat
  BY <1>4, <1>5, KidsOwned DEF CompilesHere
<1>8. here \in Nat
  BY ChunkFields DEF CompilesHere, CompilerInvariant, CodeIsSound
<1>9. x \in CompilerItem /\ PartItem(x, b) /\ x.do = "statement"
  BY <1>7, NodeItem
<1>10. JumpPart(y, b, do, here, header)
  <2>1. do \in {"else", "end if", "loop", "end loop"} /\ y = C!JumpItem(do, n, here, header)
    OBVIOUS
  <2> HIDE DEF y, do, here, header
  <2>2. QED
    BY ONLY <1>4, <1>5, <1>7, <1>8, <2>1, JumpingItem
<1> HIDE DEF x, y
<1>11. /\ y \in CompilerItem /\ PartItem(y, b) /\ y.at = here /\ y.do = "end loop"
       /\ y.header = header
  BY ONLY <1>10 DEF JumpPart
<1>12. Patches(y)
  BY ONLY <1>11 DEF Patches
<1>13. JumpPair(x, y, b, here, HeadersIn(work))
  BY <1>6, <1>9, <1>11, <1>12 DEF JumpPair
<1>14. QED
  BY <1>1, <1>2, <1>3, <1>4, <1>13, BranchCompiles

(* The branches are over: the jump past them gets its target. *)
LEMMA PatchCompiles ==
    ASSUME CompilesHere, NEW do, do \in {"else", "end if"}, C!Visiting(do),
           chunk' = C!PatchToHere(chunk, Head(work).at), C!Become(<<>>),
           functionIndex' = functionIndex
    PROVE  Compiled
<1>1. /\ work # <<>> /\ Head(work).do = do /\ DistinctJumps(work)
      /\ Declared(chunk, functionIndex)
  BY CompilesHead
<1>2. PICK h, own, b, c, v : AtHead(chunk, h, own, b, c, v)
  BY CompilesHead
<1>3. Patches(Head(work)) /\ Waits(Head(work))
  BY <1>1 DEF Patches, Waits
<1>4. c >= 2 /\ Compiling(chunk, work, h, own, b, c) /\ ProgramIsSound
  BY <1>2, <1>3 DEF AtHead, CompilesHere
<1>5. Top(chunk, h) = 0
  BY <1>1, <1>2, HeadMoves DEF Moves
<1>6. Compiles(C!PatchToHere(chunk, Head(work).at), <<>> \o Tail(work), functionIndex)
  BY <1>1, <1>3, <1>4, <1>5, PatchStep
<1>7. work' = <<>> \o Tail(work)
  BY DEF C!Become
<1>8. QED
  BY <1>6, <1>7 DEF Compiled

LEMMA EndIfCompiles ==
    ASSUME CompilesHere, C!CompileEndIf
    PROVE  Compiled
<1> DEFINE do == "end if"
<1>1. /\ C!Visiting(do) /\ chunk' = C!PatchToHere(chunk, Head(work).at) /\ C!Become(<<>>)
      /\ functionIndex' = functionIndex
  BY DEF C!CompileEndIf
<1>2. do \in {"else", "end if"}
  OBVIOUS
<1> HIDE DEF do
<1>3. QED
  BY <1>1, <1>2, PatchCompiles

(* The end of the first branch: a jump past the second one, if there is one. *)
LEMMA ElseCompiles ==
    ASSUME CompilesHere, C!CompileElse
    PROVE  Compiled
<1> DEFINE n == C!Here
           zero == 0
           here == Len(chunk.code)
           does == "statement"
           do == "end if"
           waits == "else"
           x == C!Item(does, nodes[n].kids[3])
           y == C!JumpItem(do, n, here, zero)
           items == <<x, y>>
           op == C!OpCode.JUMP
           operand == C!Placeholder
           span == nodes[n].span
           text == C!NoText
           after == C!PatchToHere(C!Emit(chunk, op, operand, span, text), Head(work).at)
<1>1. C!Visiting(waits)
  BY DEF C!CompileElse
<1>2. /\ work # <<>> /\ Head(work).do = waits /\ DistinctJumps(work)
      /\ Declared(chunk, functionIndex)
  BY <1>1, CompilesHead
<1>3. PICK h, own, b, c, v : AtHead(chunk, h, own, b, c, v)
  BY <1>1, CompilesHead
<1>4. OwnedBy(n, b) /\ c >= 2
  BY <1>1, <1>3, HereIsOwned
<1>5. nodes[n].type = "If"
  BY <1>1, <1>2, CompilerVisits DEF CompilesHere, Compilable, C!Here
<1>6. \/ /\ chunk' = C!PatchToHere(chunk, Head(work).at) /\ C!Become(<<>>)
         /\ functionIndex' = functionIndex
      \/ \E s, m : C!Fail(s, m)
      \/ /\ HasElse(nodes[n]) /\ C!HasRoom(chunk, op)
         /\ chunk' = after /\ C!Become(items) /\ functionIndex' = functionIndex
  BY DEF C!CompileElse, C!This, C!Here, C!CodeSize, C!HasElse, HasElse
<1> HIDE DEF n, span
<1>7. CASE /\ chunk' = C!PatchToHere(chunk, Head(work).at) /\ C!Become(<<>>)
           /\ functionIndex' = functionIndex
  <2>1. waits \in {"else", "end if"}
    OBVIOUS
  <2> HIDE DEF waits
  <2>2. QED
    BY <1>1, <1>7, <2>1, PatchCompiles
<1>8. CASE \E s, m : C!Fail(s, m)
  BY <1>8, ErrorCompiles
<1>9. CASE /\ HasElse(nodes[n]) /\ C!HasRoom(chunk, op)
           /\ chunk' = after /\ C!Become(items) /\ functionIndex' = functionIndex
  <2>1. n \in Nat /\ OwnedBy(nodes[n].kids[3], b) /\ nodes[n].kids[3] \in Nat
    BY <1>4, <1>5, <1>9, KidsOwned DEF CompilesHere
  <2>2. zero \in Nat /\ here \in Nat
    BY ChunkFields DEF CompilesHere, CompilerInvariant, CodeIsSound
  <2>3. x \in CompilerItem /\ PartItem(x, b) /\ x.do = "statement"
    BY <2>1, NodeItem
  <2>4. JumpPart(y, b, do, here, zero)
    <3>1. do \in {"else", "end if", "loop", "end loop"} /\ y = C!JumpItem(do, n, here, zero)
      OBVIOUS
    <3> HIDE DEF y, do, here, zero
    <3>2. QED
      BY ONLY <1>4, <2>1, <2>2, <3>1, JumpingItem
  <2>5. op = 13 /\ operand \in 0 .. MaxOperand
    BY OpCodesAre, PipelineAssumption DEF C!Placeholder
  <2>6. Patches(Head(work)) /\ Compiling(chunk, work, h, own, b, c) /\ ProgramIsSound
    BY <1>2, <1>3 DEF AtHead, CompilesHere, Patches
  <2>7. Top(chunk, h) = 0
    BY <1>2, <1>3, HeadMoves DEF Moves
  <2> HIDE DEF x, y
  <2>8. y \in CompilerItem /\ PartItem(y, b) /\ y.at = here /\ y.do = "end if"
    BY ONLY <2>4 DEF JumpPart
  <2>9. Patches(y) /\ ~Loops(y)
    BY ONLY <2>8 DEF Patches, Loops
  <2>10. JumpPair(x, y, b, here, HeadersIn(work))
    BY <2>3, <2>8, <2>9 DEF JumpPair
  <2>11. work' = items \o Tail(work)
    BY <1>9 DEF C!Become
  <2> HIDE DEF items, op, operand, text, here
  <2>12. /\ PartItems(items, b) /\ Carries(items, 0, 0) /\ here \in AwaitedIn(items)
         /\ \A a \in AwaitedIn(items) : a = here
         /\ \A i \in 1 .. Len(items) : ~Loops(items[i])
    BY <2>9, <2>10, JumpPairDoes DEF items
  <2>13. Compiles(after, items \o Tail(work), functionIndex)
    BY <1>2, <1>4, <1>9, <2>5, <2>6, <2>7, <2>12, EmitPatchStep DEF here
  <2>14. QED
    BY <1>9, <2>11, <2>13 DEF Compiled
<1>10. QED
  BY <1>6, <1>7, <1>8, <1>9

(* The end of a loop: back to its head, and the way out is here. *)
LEMMA EndLoopCompiles ==
    ASSUME CompilesHere, C!CompileEndLoop
    PROVE  Compiled
<1> DEFINE waits == "end loop"
           none == <<>>
           op == C!OpCode.JUMP
           operand == Head(work).header
           span == C!This.span
           text == C!NoText
           after == C!PatchToHere(C!Emit(chunk, op, operand, span, text), Head(work).at)
<1>1. C!Visiting(waits)
  BY DEF C!CompileEndLoop
<1>2. /\ work # <<>> /\ Head(work).do = waits /\ DistinctJumps(work)
      /\ Declared(chunk, functionIndex)
  BY <1>1, CompilesHead
<1>3. PICK h, own, b, c, v : AtHead(chunk, h, own, b, c, v)
  BY <1>1, CompilesHead
<1>4. /\ operand \in Nat /\ Head(work) = work[1] /\ 1 \in 1 .. Len(work)
  BY <1>1, CompilerVisits DEF CompilesHere
<1>5. Patches(Head(work)) /\ Loops(Head(work)) /\ Waits(Head(work))
  BY <1>2 DEF Patches, Loops, Waits
<1>6. operand \in HeadersIn(work)
  BY <1>4, <1>5 DEF HeadersIn
<1>7. operand <= Len(chunk.code) /\ Len(chunk.code) \in Nat
  BY <1>4, <1>5, ChunkFields DEF CompilesHere, CompilerInvariant, CodeIsSound
<1>8. c >= 2 /\ Compiling(chunk, work, h, own, b, c) /\ ProgramIsSound
  BY <1>3, <1>5 DEF AtHead, CompilesHere
<1>9. Top(chunk, h) = 0
  BY <1>2, <1>3, HeadMoves DEF Moves
<1>10. op = 13 /\ MaxOperand \in Nat
  BY OpCodesAre, PipelineAssumption
<1>11. \/ /\ C!HasRoom(chunk, op) /\ chunk' = after /\ C!Become(none)
          /\ functionIndex' = functionIndex
       \/ \E s, m : C!Fail(s, m)
  BY DEF C!CompileEndLoop
<1>12. CASE \E s, m : C!Fail(s, m)
  BY <1>12, ErrorCompiles
<1>13. CASE /\ C!HasRoom(chunk, op) /\ chunk' = after /\ C!Become(none)
            /\ functionIndex' = functionIndex
  <2>1. work' = none \o Tail(work)
    BY <1>13 DEF C!Become
  <2>2. PartItems(none, b) /\ Len(none) = 0 /\ Carries(none, 0, 0)
    BY NoPart, CarriesNone
  <2> HIDE DEF none, op, operand, span, text
  <2>3. \A i \in 1 .. Len(none) : ~Patches(none[i]) /\ ~Loops(none[i])
    BY <2>2
  <2>4. \A a \in AwaitedIn(none) : a = Len(chunk.code)
    BY <2>3, AwaitedNone
  <2>5. operand \in 0 .. MaxOperand
    <3>1. C!InstructionLength(op) = 3
      BY <1>10, LengthsAre DEF WithOperand
    <3>2. QED
      BY <1>4, <1>7, <1>10, <1>13, <3>1 DEF C!HasRoom
  <2>6. Compiles(after, none \o Tail(work), functionIndex)
    BY <1>2, <1>5, <1>6, <1>8, <1>9, <1>10, <1>13, <2>2, <2>3, <2>4, <2>5, EmitPatchStep
  <2>7. QED
    BY <1>13, <2>1, <2>6 DEF Compiled
<1>14. QED
  BY <1>11, <1>12, <1>13

-----------------------------------------------------------------------------

(* Between two parts there is nothing left of the walk but the bodies to come. *)
LEMMA RestIsBodies ==
    ASSUME ProgramIsSound, NEW W, NEW b, WalkOwned(W, b, 0)
    PROVE  /\ \A i \in 1 .. Len(W) : W[i].do \in {"bodies", "body", "finish"}
           /\ AwaitedIn(W) = {} /\ HeadersIn(W) = {}
<1>1. /\ b \in 0 .. Len(C!Functions) /\ W \in Seq(CompilerItem) /\ BodiesToCome(W, b, 0)
      /\ Len(C!Functions) \in Nat /\ Len(W) \in Nat
  BY FunctionRoots, LenProperties DEF WalkOwned
<1> DEFINE n == Len(C!Functions)
<1> HIDE DEF n
<1>2. ASSUME NEW i \in 1 .. Len(W)
      PROVE  W[i].do \in {"bodies", "body", "finish"}
  <2>1. CASE Len(W) = 1 /\ W[1].do = "bodies"
    BY <2>1
  <2>2. CASE /\ Len(W) = (n - b) + 1
             /\ \A j \in 1 .. n - b : W[j].do = "body"
             /\ W[Len(W)].do = "finish"
    <3>1. i \in 1 .. n - b \/ i = Len(W)
      BY <1>1, <2>2 DEF n
    <3>2. QED
      BY <2>2, <3>1
  <2>3. \/ Len(W) = 0 + 1 /\ W[0 + 1].do = "bodies"
        \/ /\ Len(W) = 0 + (n - b) + 1
           /\ \A j \in 1 .. n - b : W[0 + j].do = "body"
           /\ W[Len(W)].do = "finish"
    BY <1>1 DEF BodiesToCome, n
  <2>4. 0 + 1 = 1 /\ 0 + (n - b) + 1 = (n - b) + 1 /\ \A j \in 1 .. n - b : 0 + j = j
    BY <1>1 DEF n
  <2>5. QED
    BY <2>1, <2>2, <2>3, <2>4
<1>3. \A i \in 1 .. Len(W) : ~Patches(W[i]) /\ ~Loops(W[i])
  BY <1>2 DEF Patches, Loops
<1>4. AwaitedIn(W) = {} /\ HeadersIn(W) = {}
  BY <1>3, AwaitedNone, HeadersNone
<1>5. QED
  BY <1>2, <1>4

(* Where the walk is between two parts, with nothing on the stack. *)
Between(k, W, h, own, b) ==
    /\ Compiling(k, W, h, own, b, 0) /\ OwnedHead(W, b, 0) /\ Top(k, h) = 0
    /\ CodeTyped(k, {}, {}, h, own, b, Len(k.spans))

LEMMA BetweenParts ==
    ASSUME CompilesHere, NEW do \in {"bodies", "body", "finish"}, C!Visiting(do)
    PROVE  /\ work # <<>> /\ Head(work).do = do /\ work \in Seq(CompilerItem)
           /\ Declared(chunk, functionIndex)
           /\ \E h, own, b : Between(chunk, work, h, own, b) /\ b \in 0 .. Len(C!Functions)
<1>1. /\ work # <<>> /\ Head(work).do = do /\ Declared(chunk, functionIndex)
      /\ \E h, own, b, c, v : AtHead(chunk, h, own, b, c, v)
  BY CompilesHead
<1>2. PICK h, own, b, c, v : AtHead(chunk, h, own, b, c, v)
  BY <1>1
<1>3. /\ Compiling(chunk, work, h, own, b, c) /\ Moves(Head(work), Top(chunk, h), v)
      /\ b \in 0 .. Len(C!Functions)
  BY <1>2, HeadMoves
<1>4. work \in Seq(CompilerItem) /\ WalkOwned(work, b, c)
  BY <1>3, CompilingFacts
<1>5. OwnedHead(work, b, c)
  <2>1. ProgramIsSound
    BY DEF CompilesHere
  <2>2. QED
    BY ONLY <1>1, <1>4, <2>1, WalkOwnedHead
<1>6. c = 0
  BY <1>1, <1>5 DEF OwnedHead
<1>7. Top(chunk, h) = 0
  BY <1>1, <1>3 DEF Moves
<1>8. CodeTyped(chunk, AwaitedIn(work), HeadersIn(work), h, own, b, Len(chunk.spans))
  BY <1>3, <1>6, CompilingFacts
<1>9. AwaitedIn(work) = {} /\ HeadersIn(work) = {}
  BY <1>4, <1>6, RestIsBodies DEF CompilesHere
<1>10. Between(chunk, work, h, own, b)
  BY <1>3, <1>5, <1>6, <1>7, <1>8, <1>9 DEF Between
<1>11. QED
  BY <1>1, <1>3, <1>4, <1>10

(* The whole program compiled is typed code. *)
LEMMA FinishTypes ==
    ASSUME CompilesHere, C!Finish
    PROVE  /\ compiled' = Finished /\ ChunkIsTyped(chunk')
           /\ chunk'.programFrameSize = programFrameSize
<1>1. C!Visiting("finish") /\ chunk' = chunk /\ compiled' = C!Finished
  BY DEF C!Finish
<1>2. Head(work).do = "finish" /\ Declared(chunk, functionIndex)
  BY <1>1, BetweenParts
<1>3. PICK h, own, b : Between(chunk, work, h, own, b)
  BY <1>1, BetweenParts
<1>4. b = Len(C!Functions)
  BY <1>2, <1>3 DEF Between, OwnedHead
<1>5. /\ programFrameSize \in 0 .. MaxOperand /\ chunk.programFrameSize = programFrameSize
      /\ chunk.constants \in Seq(T!Value)
      /\ chunk.functions \in Seq(T!FunctionEntry) /\ Len(chunk.functions) = Len(C!Functions)
      /\ \A i \in 1 .. Len(C!Functions) :
             /\ chunk.functions[i].arity = Len(nodes[C!Functions[i]].parameters)
             /\ chunk.functions[i].frameSize = nodes[C!Functions[i]].frameSize
  BY <1>2 DEF Declared
<1>6. CodeTyped(chunk, {}, {}, h, own, Len(chunk.functions), Len(chunk.spans))
  BY <1>3, <1>4, <1>5 DEF Between
<1>7. \A f \in 1 .. Len(chunk.functions) : chunk.functions[f].arity <= chunk.functions[f].frameSize
  <2> TAKE f \in 1 .. Len(chunk.functions)
  <2>1. f \in 1 .. Len(C!Functions)
    BY <1>5
  <2>2. PICK q \in 1 .. Len(program) : program[q] = C!Functions[f]
    BY <2>1, FunctionRoots DEF CompilesHere
  <2>3. nodes[program[q]].type = "Function"
    BY <2>1, <2>2, FunctionRoots DEF CompilesHere
  <2>4. Len(nodes[program[q]].parameters) <= nodes[program[q]].frameSize
    BY <2>3 DEF CompilesHere, TreeIsResolved, IsFunction
  <2>5. QED
    BY <1>5, <2>1, <2>2, <2>4
<1>8. compiled' = Finished
  BY <1>1 DEF Finished, C!Finished, Verdict, C!Verdict, NoSpan, C!NoSpan, MakeSpan, C!MakeSpan
<1>9. ChunkIsTyped(chunk)
  BY <1>5, <1>6, <1>7 DEF ChunkIsTyped
<1>10. QED
  BY <1>1, <1>5, <1>8, <1>9

(* The bodies of all the functions come after HALT. *)
LEMMA BodiesCompiles ==
    ASSUME CompilesHere, C!CompileBodies
    PROVE  Compiled
<1> DEFINE ids == C!Functions
           first == C!Items("body", ids)
           last == C!Item("finish", 0)
           items == Append(first, last)
           n == Len(ids)
<1>1. /\ C!Visiting("bodies") /\ work' = items \o Tail(work) /\ chunk' = chunk
      /\ functionIndex' = functionIndex
  BY DEF C!CompileBodies, C!Visit, C!Become
<1>2. /\ work # <<>> /\ Head(work).do = "bodies" /\ work \in Seq(CompilerItem)
      /\ Declared(chunk, functionIndex)
  BY <1>1, BetweenParts
<1>3. PICK h, own, b : Between(chunk, work, h, own, b)
  BY <1>1, BetweenParts
<1>4. b = 0 /\ Len(work) = 1
  BY <1>2, <1>3 DEF Between, OwnedHead
<1>5. /\ n \in Nat /\ DOMAIN ids = 1 .. n /\ Len(nodes) \in Nat
      /\ \A i \in 1 .. n : ids[i] \in 1 .. Len(nodes)
  BY FunctionRoots, LenProperties DEF CompilesHere, TreesAreSound
<1>6. /\ first \in Seq(CompilerItem) /\ Len(first) = n
      /\ \A i \in 1 .. n : first[i].do = "body" /\ first[i].node = ids[i]
  <2> DEFINE E(i) == C!Item("body", ids[i])
             all == [i \in 1 .. n |-> E(i)]
  <2>1. first = all
    BY <1>5 DEF C!Items
  <2> HIDE DEF n, ids
  <2>2. ASSUME NEW i \in 1 .. n
        PROVE  E(i) \in CompilerItem /\ E(i).do = "body" /\ E(i).node = ids[i]
    <3> DEFINE do == "body"
               node == ids[i]
               item == C!Item(do, node)
    <3>1. do \in CompilerWalks /\ node \in Nat
      BY <1>5 DEF CompilerWalks
    <3> HIDE DEF do, node, item
    <3>2. item \in CompilerItem /\ item.do = do /\ item.node = node
      BY <3>1, ItemFields DEF item
    <3>3. QED
      BY <3>2 DEF item, do, node
  <2> HIDE DEF E, first
  <2>3. all \in Seq(CompilerItem)
    BY <1>5, <2>2, IsASeq
  <2>4. Len(all) = n /\ \A i \in 1 .. n : all[i] = E(i)
    BY <1>5
  <2> HIDE DEF all
  <2>5. QED
    BY <2>1, <2>2, <2>3, <2>4
<1>7. last \in CompilerItem /\ last.do = "finish"
  <2> DEFINE do == "finish"
             zero == 0
  <2>1. do \in CompilerWalks /\ zero \in Nat
    BY DEF CompilerWalks
  <2> HIDE DEF do, zero
  <2>2. C!Item(do, zero) \in CompilerItem /\ C!Item(do, zero).do = do
    BY <2>1, ItemFields
  <2>3. QED
    BY <2>2 DEF do, zero
<1> HIDE DEF first, last
<1>8. /\ items \in Seq(CompilerItem) /\ Len(items) = n + 1 /\ items[n + 1] = last
      /\ \A i \in 1 .. n : items[i] = first[i]
  <2>1. \A i \in 1 .. n + 1 : items[i] = IF i <= n THEN first[i] ELSE last
    BY <1>5, <1>6, <1>7, AppendProperties
  <2> HIDE DEF ids, n
  <2>2. items \in Seq(CompilerItem) /\ Len(items) = n + 1
    BY <1>6, <1>7, AppendProperties
  <2>3. QED
    BY <1>5, <2>1, <2>2
<1>9. items \o Tail(work) = items
  <2>1. Tail(work) = <<>>
    <3>1. Tail(work) \in Seq(CompilerItem) /\ Len(Tail(work)) = 0
      BY <1>2, <1>4, HeadTailProperties
    <3>2. QED
      BY <3>1, EmptySeq
  <2> HIDE DEF items
  <2>2. items \o <<>> = items
    BY <1>8
  <2>3. QED
    BY <2>1, <2>2
<1> HIDE DEF items
<1>10. BodiesToCome(items, 0, 0)
  <2>1. Len(items) = 0 + (n - 0) + 1 /\ n - 0 = n /\ \A j \in 1 .. n : 0 + j = j
    BY <1>5, <1>8
  <2>2. \A j \in 1 .. n : items[j].do = "body" /\ items[j].node = ids[j]
    BY <1>6, <1>8
  <2>3. items[Len(items)].do = "finish"
    BY <1>7, <1>8
  <2> HIDE DEF ids
  <2>4. \A j \in 1 .. n - 0 : items[0 + j].do = "body" /\ items[0 + j].node = ids[0 + j]
    BY <2>1, <2>2
  <2>5. /\ Len(items) = 0 + (Len(ids) - 0) + 1
        /\ \A j \in 1 .. Len(ids) - 0 : items[0 + j].do = "body" /\ items[0 + j].node = ids[0 + j]
    BY <2>1, <2>4 DEF n
  <2>6. QED
    BY ONLY <2>3, <2>5 DEF BodiesToCome, ids
<1> DEFINE c == 0
<1>11. WalkOwned(items, b, c)
  <2>1. 0 \in 0 .. Len(C!Functions) /\ ~(c # 0) /\ c \in Nat /\ \A i \in 1 .. c - 1 : FALSE
    BY <1>5 DEF ids, n
  <2>2. BodiesToCome(items, b, c) /\ b = 0
    BY <1>4, <1>10
  <2> HIDE DEF c
  <2>3. QED
    BY ONLY <1>8, <2>1, <2>2 DEF WalkOwned
<1>12. AwaitedIn(items) = {} /\ HeadersIn(items) = {}
  BY <1>11, RestIsBodies DEF CompilesHere
<1>13. Carries(items, Top(chunk, h), 0)
  <2>1. \A i \in 1 .. Len(items) : items[i].do \in {"bodies", "body", "finish"}
    BY <1>11, RestIsBodies DEF CompilesHere
  <2>2. \A i \in 1 .. Len(items) : Moves(items[i], 0, 0)
    BY <2>1 DEF Moves
  <2>3. Top(chunk, h) = 0
    BY <1>3 DEF Between
  <2>4. QED
    BY <1>8, <2>2, <2>3, CarriesStill
<1>14. Compiling(chunk, items, h, own, b, c)
  <2>1. CodeTyped(chunk, {}, {}, h, own, b, Len(chunk.spans)) /\ Len(chunk.spans) \in Nat
    BY <1>3, PlacesAre DEF Between
  <2>2. Len(chunk.spans) + (IF c = 0 THEN 0 ELSE 1) = Len(chunk.spans)
    BY <2>1
  <2> HIDE DEF c
  <2>3. QED
    BY ONLY <1>11, <1>12, <1>13, <2>1, <2>2 DEF Compiling
<1>15. Compiles(chunk, items, functionIndex)
  BY <1>2, <1>14 DEF Compiles
<1>16. work' = items
  BY <1>1, <1>9
<1>17. QED
  BY <1>1, <1>15, <1>16 DEF Compiled

(* The walk when a body begins. *)
BodyItems(items, f) ==
    /\ items \in Seq(CompilerItem) /\ Len(items) = 3
    /\ PartItem(items[1], f) /\ PartItem(items[2], f) /\ items[3].do = "end body"

LEMMA BodyWalk ==
    ASSUME ProgramIsSound, NEW W \in Seq(CompilerItem), W # <<>>, Head(W).do = "body",
           NEW b \in 0 .. Len(C!Functions), OwnedHead(W, b, 0), NEW f, f = b + 1,
           NEW items, BodyItems(items, f)
    PROVE  WalkOwned(items \o Tail(W), f, 3)
<1> DEFINE n == Len(C!Functions)
           F == C!Functions
           l == Len(W)
           next == items \o Tail(W)
           c == 3
<1>0. f = b + 1
  OBVIOUS
<1>1. /\ n \in Nat /\ b \in 0 .. n /\ l \in Nat /\ f <= n /\ f \in 1 .. n
      /\ l = (n - b) + 1
      /\ \A j \in 1 .. n - b : W[j].do = "body" /\ W[j].node = F[b + j]
      /\ W[l].do = "finish"
  <2>1. /\ n \in Nat /\ l \in Nat /\ b + 1 <= n
        /\ l = 0 + (n - b) + 1 /\ W[l].do = "finish"
        /\ \A j \in 1 .. n - b : W[0 + j].do = "body" /\ W[0 + j].node = F[b + j]
    BY FunctionRoots, LenProperties DEF OwnedHead
  <2> HIDE DEF n, F, l
  <2>2. b \in 0 .. n
    BY DEF n
  <2>3. \A j \in 1 .. n - b : 0 + j = j
    OBVIOUS
  <2>4. l = (n - b) + 1 /\ f <= n /\ f \in 1 .. n
    <3>1. n \in Nat /\ l \in Nat /\ b + 1 <= n /\ l = 0 + (n - b) + 1
      BY <2>1
    <3>2. QED
      BY ONLY <1>0, <2>2, <3>1
  <2>5. QED
    BY <2>1, <2>2, <2>3, <2>4
<1>2. /\ next \in Seq(CompilerItem) /\ Len(next) = 3 + l - 1
      /\ \A i \in 1 .. 3 : next[i] = items[i]
      /\ \A i \in 2 .. l : next[3 + i - 1] = W[i]
  <2> DEFINE r == Len(items)
  <2>1. /\ next \in Seq(CompilerItem) /\ Len(next) = r + l - 1
        /\ \A i \in 1 .. r : next[i] = items[i]
        /\ \A i \in 2 .. l : next[r + i - 1] = W[i]
    <3>1. items \in Seq(CompilerItem)
      BY DEF BodyItems
    <3>2. QED
      BY <3>1, ReplaceHead
  <2>2. r = 3
    BY DEF BodyItems
  <2> HIDE DEF r, next, l
  <2>3. QED
    BY ONLY <2>1, <2>2
<1> HIDE DEF n, F, l, next
<1>3. \A i \in 1 .. c - 1 : PartItem(next[i], f)
  <2>1. \A i \in 1 .. c - 1 : i = 1 \/ i = 2
    BY ONLY DEF c
  <2>2. next[1] = items[1] /\ next[2] = items[2]
    BY <1>2
  <2>3. PartItem(next[1], f) /\ PartItem(next[2], f)
    BY <2>2 DEF BodyItems
  <2>4. QED
    BY ONLY <2>1, <2>3
<1>4. next[c].do = "end body" /\ f # 0
  <2>1. next[3] = items[3]
    BY <1>2
  <2>2. f # 0
    BY <1>1
  <2>3. QED
    BY <2>1, <2>2 DEF BodyItems
<1>5. Len(next) = c + (n - f) + 1
  BY <1>1, <1>2
<1>6. ASSUME NEW j \in 1 .. n - f
      PROVE  next[c + j].do = "body" /\ next[c + j].node = F[f + j]
  <2> DEFINE i == j + 1
  <2>1. i \in 2 .. l /\ i \in 1 .. n - b /\ 3 + i - 1 = c + j /\ b + i = f + j
    BY <1>1
  <2> HIDE DEF i, c
  <2>2. next[c + j] = W[i]
    BY <1>2, <2>1
  <2>3. QED
    BY <1>1, <2>1, <2>2
<1>7. next[Len(next)].do = "finish"
  <2>1. l \in 2 .. l /\ 3 + l - 1 = Len(next)
    BY <1>1, <1>2
  <2>2. next[Len(next)] = W[l]
    BY <1>2, <2>1
  <2>3. QED
    BY <1>1, <2>2
<1>8. f = 0 => c = 0
  BY <1>4
<1>9. BodiesToCome(next, f, c)
  BY ONLY <1>5, <1>6, <1>7, <1>8 DEF BodiesToCome, n, F
<1>10. c \in Nat /\ f \in 0 .. n
  BY <1>1
<1> HIDE DEF c
<1>11. WalkOwned(next, f, c)
  BY ONLY <1>2, <1>3, <1>4, <1>9, <1>10 DEF WalkOwned, n
<1>12. QED
  BY <1>11 DEF next, c

(* The entry of a function, fixed when its body begins. *)
EntryIsHere(k, m, f) ==
    /\ IsChunk(m) /\ Tiled(m) /\ m.code = k.code /\ m.spans = k.spans
    /\ m.constants = k.constants /\ AlikeTables(k, m)
    /\ m.functions \in Seq(T!FunctionEntry)
    /\ \A i \in 1 .. Len(k.functions) : i # f => m.functions[i].entry = k.functions[i].entry
    /\ m.functions[f].entry = Len(k.code)

LEMMA EntryFixed ==
    ASSUME NEW k, IsChunk(k), Tiled(k), k.functions \in Seq(T!FunctionEntry),
           NEW f \in 1 .. Len(k.functions)
    PROVE  EntryIsHere(k, [k EXCEPT !.functions = [k.functions EXCEPT ![f].entry = Len(k.code)]], f)
<1> DEFINE here == Len(k.code)
           old == k.functions
           table == [old EXCEPT ![f].entry = here]
           m == [k EXCEPT !.functions = table]
           n == Len(old)
           S == T!FunctionEntry
<1>1. here \in Nat
  BY ChunkFields
<1>2. PICK F, N : k \in [code : {k.code}, constants : {k.constants}, spans : {k.spans},
                         functions : F, programFrameSize : N]
  BY ChunkFields
<1>3. old \in Seq(S) /\ n \in Nat /\ old = [i \in 1 .. n |-> old[i]]
      /\ \A i \in 1 .. n : old[i] \in S
  <2>1. old \in Seq(S) /\ n \in Nat /\ DOMAIN old = 1 .. n
    BY LenProperties
  <2> HIDE DEF old, n, S
  <2>2. old = [i \in 1 .. n |-> old[i]]
    BY <2>1
  <2>3. QED
    BY <2>1, <2>2, ElementOfSeq DEF n
<1>4. \A e \in S : /\ [e EXCEPT !.entry = here] \in S
                   /\ [e EXCEPT !.entry = here].entry = here
                   /\ [e EXCEPT !.entry = here].arity = e.arity
                   /\ [e EXCEPT !.entry = here].frameSize = e.frameSize
  <2> HIDE DEF here
  <2>1. QED
    BY <1>1 DEF T!FunctionEntry
<1>5. m \in [code : {k.code}, constants : {k.constants}, spans : {k.spans},
             functions : {table}, programFrameSize : N]
  <2> HIDE DEF table
  <2>1. QED
    BY <1>2, ChunkUpdates
<1>6. /\ IsChunk(m) /\ m.code = k.code /\ m.spans = k.spans /\ m.constants = k.constants
  <2> HIDE DEF m, table
  <2>1. QED
    BY <1>5, TablesChange
<1>7. m.functions = table /\ m.programFrameSize = k.programFrameSize
  <2> HIDE DEF table
  <2>1. QED
    BY <1>2
<1> HIDE DEF m, here, S, old, n
<1>8. /\ table = [i \in 1 .. n |-> IF i = f THEN [old[i] EXCEPT !.entry = here] ELSE old[i]]
      /\ f \in 1 .. n
  BY <1>3 DEF n, old
<1> HIDE DEF table
<1>9. table \in Seq(S) /\ Len(table) = n
  <2> DEFINE E(i) == IF i = f THEN [old[i] EXCEPT !.entry = here] ELSE old[i]
             all == [i \in 1 .. n |-> E(i)]
  <2>1. \A i \in 1 .. n : E(i) \in S
    BY <1>3, <1>4
  <2>2. table = all
    BY <1>8
  <2> HIDE DEF E
  <2>3. all \in Seq(S)
    BY <1>3, <2>1, IsASeq
  <2>4. Len(all) = n
    BY <1>3
  <2> HIDE DEF all
  <2>5. QED
    BY <2>2, <2>3, <2>4
<1>10. /\ \A i \in 1 .. n : /\ table[i].arity = old[i].arity
                            /\ table[i].frameSize = old[i].frameSize
                            /\ i # f => table[i].entry = old[i].entry
       /\ table[f].entry = here
  BY <1>3, <1>4, <1>8
<1>11. AlikeTables(k, m)
  BY <1>3, <1>7, <1>9, <1>10 DEF AlikeTables, n, old
<1>12. Tiled(m)
  BY <1>6 DEF Tiled, OffsetOf, OpOf
<1>13. EntryIsHere(k, m, f)
  BY <1>6, <1>7, <1>9, <1>10, <1>11, <1>12 DEF EntryIsHere, n, old, S, here
<1>14. QED
  BY <1>13 DEF m, table, old, here

(* The statement of a body, the 0 of its end, and its RETURN. *)
LEMMA BodyItemsAre ==
    ASSUME NEW f \in Nat \ {0}, NEW n \in Nat, NEW body \in Nat, OwnedBy(n, f), OwnedBy(body, f)
    PROVE  LET items == <<C!Item("statement", body), C!Item("zero", n), C!Item("end body", n)>>
           IN  /\ BodyItems(items, f) /\ Carries(items, 0, 0)
               /\ \A i \in 1 .. Len(items) : ~Patches(items[i]) /\ ~Loops(items[i])
<1> DEFINE x == C!Item("statement", body)
           y == C!Item("zero", n)
           z == C!Item("end body", n)
           pair == <<x, y>>
           items == <<x, y, z>>
<1>1. x \in CompilerItem /\ PartItem(x, f) /\ x.do = "statement"
  <2> DEFINE do == "statement"
  <2>1. /\ do \in {"expression", "statement", "store", "call", "then"}
        /\ do # "store" /\ do # "call"
    OBVIOUS
  <2> HIDE DEF do
  <2>2. C!Item(do, body) \in CompilerItem /\ PartItem(C!Item(do, body), f)
        /\ C!Item(do, body).do = do
    BY <2>1, NodeItem
  <2>3. QED
    BY <2>2 DEF do
<1>2. y \in CompilerItem /\ PartItem(y, f) /\ y.do = "zero"
  BY ZeroItem
<1>3. z \in CompilerItem /\ z.do = "end body"
  <2> DEFINE do == "end body"
  <2>1. do \in CompilerWalks
    BY DEF CompilerWalks
  <2> HIDE DEF do
  <2>2. C!Item(do, n) \in CompilerItem /\ C!Item(do, n).do = do
    BY <2>1, ItemFields
  <2>3. QED
    BY <2>2 DEF do
<1> HIDE DEF x, y, z
<1>5. /\ pair \in Seq(CompilerItem) /\ items \in Seq(CompilerItem) /\ Len(items) = 3
      /\ items = Append(pair, z)
      /\ items[1] = x /\ items[2] = y /\ items[3] = z
  <2>1. pair \in Seq(CompilerItem) /\ Len(pair) = 2 /\ pair[1] = x /\ pair[2] = y
    BY <1>1, <1>2
  <2>2. items = Append(pair, z)
    BY ONLY DEF items, pair
  <2>3. items[1] = x /\ items[2] = y /\ items[3] = z
    OBVIOUS
  <2> HIDE DEF items, pair
  <2>4. items \in Seq(CompilerItem) /\ Len(items) = 3
    <3>1. pair \in Seq(CompilerItem) /\ z \in CompilerItem /\ Len(pair) = 2
      BY <1>3, <2>1
    <3>2. Append(pair, z) \in Seq(CompilerItem) /\ Len(Append(pair, z)) = Len(pair) + 1
      BY ONLY <3>1, AppendProperties
    <3>3. QED
      BY ONLY <2>2, <3>1, <3>2
  <2>5. QED
    BY <2>1, <2>2, <2>3, <2>4
<1> HIDE DEF items
<1>6. BodyItems(items, f)
  BY <1>1, <1>2, <1>3, <1>5 DEF BodyItems
<1>7. \A i \in 1 .. Len(items) : ~Patches(items[i]) /\ ~Loops(items[i])
  <2>1. ASSUME NEW i \in 1 .. Len(items)
        PROVE  items[i] = x \/ items[i] = y \/ items[i] = z
    <3>1. i = 1 \/ i = 2 \/ i = 3
      BY <1>5
    <3>2. QED
      BY <1>5, <3>1
  <2>2. /\ ~Patches(x) /\ ~Loops(x) /\ ~Patches(y) /\ ~Loops(y) /\ ~Patches(z) /\ ~Loops(z)
    BY <1>1, <1>2, <1>3 DEF Patches, Loops
  <2>3. QED
    BY <2>1, <2>2
<1>8. Carries(items, 0, 0)
  <2> DEFINE none == 0
             one == 1
  <2>1. none \in Nat /\ one \in Nat
    OBVIOUS
  <2>2. Moves(x, none, none) /\ Moves(y, none, one)
    <3>1. Moves(x, none, none)
      BY ONLY <1>1 DEF Moves
    <3>2. Moves(y, none, one)
      BY ONLY <1>2 DEF Moves
    <3>3. QED
      BY <3>1, <3>2
  <2>3. Moves(z, one, none)
    BY ONLY <1>3 DEF Moves
  <2> HIDE DEF none, one
  <2>4. Carries(pair, none, one)
    BY <1>1, <1>2, <2>1, <2>2, CarriesTwo
  <2> HIDE DEF pair
  <2>5. Carries(Append(pair, z), none, none)
    BY <1>3, <1>5, <2>1, <2>3, <2>4, CarriesAppend
  <2>6. QED
    BY <1>5, <2>5 DEF none
<1>9. QED
  BY <1>6, <1>7, <1>8 DEF items, x, y, z

(* A body begins: the entry of its function is where the code ends so far. *)
LEMMA FunctionBodyCompiles ==
    ASSUME CompilesHere, C!CompileFunctionBody
    PROVE  Compiled
<1> DEFINE n == C!Here
           items == <<C!Item("statement", nodes[n].kids[1]), C!Item("zero", n),
                      C!Item("end body", n)>>
           m == chunk'
<1>1. /\ C!Visiting("body") /\ work' = items \o Tail(work) /\ functionIndex' = functionIndex
      /\ chunk' = [chunk EXCEPT !.functions =
                     [chunk.functions EXCEPT ![functionIndex[nodes[n].name] + 1].entry
                          = Len(chunk.code)]]
  BY DEF C!CompileFunctionBody, C!Become, C!This, C!Here, C!CodeSize
<1>2. /\ work # <<>> /\ Head(work).do = "body" /\ work \in Seq(CompilerItem)
      /\ Declared(chunk, functionIndex)
  BY <1>1, BetweenParts
<1>3. PICK h, own, b : Between(chunk, work, h, own, b) /\ b \in 0 .. Len(C!Functions)
  BY <1>1, BetweenParts
<1>4. b + 1 <= Len(C!Functions) /\ n = C!Functions[b + 1] /\ OwnedHead(work, b, 0)
  BY <1>2, <1>3 DEF Between, OwnedHead, C!Here
<1> DEFINE f == b + 1
<1>5. /\ Len(C!Functions) \in Nat /\ f \in 1 .. Len(C!Functions) /\ f \in Nat \ {0}
      /\ f - 1 + 1 = f /\ b \in Nat
  BY <1>3, <1>4, FunctionRoots DEF CompilesHere
<1>6. functionIndex[nodes[n].name] + 1 = f
  <2>1. functionIndex[NameOf(f)] = f - 1
    BY <1>2, <1>5 DEF Declared
  <2>2. QED
    BY <1>4, <1>5, <2>1 DEF NameOf
<1>7. OwnedBy(n, f) /\ nodes[n].type = "Function"
  <2>1. PICK q \in 1 .. Len(program) : program[q] = n
    BY <1>4, <1>5, FunctionRoots DEF CompilesHere
  <2>2. n \in 1 .. Len(nodes) /\ nodes[n].type = "Function"
    BY <1>4, <1>5, FunctionRoots DEF CompilesHere
  <2>3. n \in Live
    BY <2>1, <2>2 DEF Live, Closed
  <2>4. LiesIn(n, q)
    BY <2>1, RootLiesIn DEF CompilesHere
  <2>5. program[q] = C!Functions[f] /\ f # 0
    BY <1>4, <1>5, <2>1
  <2> HIDE DEF f
  <2>6. QED
    BY <2>2, <2>3, <2>4, <2>5 DEF OwnedBy
<1> HIDE DEF n, f
<1>8. n \in Nat /\ OwnedBy(nodes[n].kids[1], f) /\ nodes[n].kids[1] \in Nat
  BY <1>7, KidsOwned DEF CompilesHere
<1>9. /\ BodyItems(items, f) /\ Carries(items, 0, 0)
      /\ \A i \in 1 .. Len(items) : ~Patches(items[i]) /\ ~Loops(items[i])
  BY <1>5, <1>7, <1>8, BodyItemsAre
<1> HIDE DEF items
<1> DEFINE W == items \o Tail(work)
<1>10. WalkOwned(W, f, 3)
  BY <1>2, <1>3, <1>4, <1>9, BodyWalk DEF f, CompilesHere
<1>11. items \in Seq(CompilerItem) /\ WalkOwned(work, b, 0)
  BY <1>3, <1>9 DEF BodyItems, Between, Compiling
<1>12. /\ \A a : a \notin AwaitedIn(W)
       /\ \A t : t \notin HeadersIn(W)
  <2>1. AwaitedIn(work) = {} /\ HeadersIn(work) = {}
    BY <1>11, RestIsBodies DEF CompilesHere
  <2>2. (\A a : a \notin AwaitedIn(items)) /\ \A t : t \notin HeadersIn(items)
    BY <1>9, AwaitedNone, HeadersNone
  <2>3. DistinctJumps(work)
    BY <1>1, CompilesHead
  <2>4. /\ \A a : a \in AwaitedIn(W) => a \in AwaitedIn(items) \/ a \in AwaitedIn(work)
        /\ \A t \in HeadersIn(W) : t \in HeadersIn(items) \/ t \in HeadersIn(work)
    BY <1>2, <1>11, <2>3, AwaitedAfter
  <2>5. QED
    BY <2>1, <2>2, <2>4
<1>13. AwaitedIn(W) = {} /\ HeadersIn(W) = {}
  BY <1>12
<1>14. EntryIsHere(chunk, m, f)
  <2>1. IsChunk(chunk) /\ Tiled(chunk)
    BY <1>3, CompilingFacts DEF Between
  <2>2. chunk.functions \in Seq(T!FunctionEntry) /\ f \in 1 .. Len(chunk.functions)
    BY <1>2, <1>5 DEF Declared
  <2>3. m = [chunk EXCEPT !.functions = [chunk.functions EXCEPT ![f].entry = Len(chunk.code)]]
    BY <1>1, <1>6
  <2>4. QED
    BY <2>1, <2>2, <2>3, EntryFixed
<1>15. Declared(m, functionIndex)
  BY <1>2, <1>14 DEF Declared, EntryIsHere, AlikeTables
<1>16. \E owner : CodeTyped(m, {}, {}, h, owner, f, Len(m.spans) + 1) /\ h[Len(m.spans) + 1] = 0
  <2>1. CodeTyped(chunk, {}, {}, h, own, b, Len(chunk.spans)) /\ Len(chunk.functions) = Len(C!Functions)
    BY <1>2, <1>3 DEF Between, Declared
  <2>2. /\ IsChunk(m) /\ Tiled(m) /\ m.code = chunk.code /\ m.spans = chunk.spans
        /\ m.constants = chunk.constants /\ AlikeTables(chunk, m)
    BY <1>14 DEF EntryIsHere
  <2>3. b + 1 <= Len(chunk.functions) /\ m.functions[b + 1].entry = Len(chunk.code)
    BY <1>4, <1>14, <2>1 DEF EntryIsHere, f
  <2>4. \A i \in 1 .. b : m.functions[i].entry = chunk.functions[i].entry
    <3> TAKE i \in 1 .. b
    <3>1. i \in 1 .. Len(chunk.functions) /\ i # f
      BY <1>5, <2>1, <2>3 DEF f
    <3>2. QED
      BY <1>14, <3>1 DEF EntryIsHere
  <2> HIDE DEF m
  <2>5. QED
    BY ONLY <2>1, <2>2, <2>3, <2>4, TypedBody DEF f
<1>17. PICK owner : CodeTyped(m, {}, {}, h, owner, f, Len(m.spans) + 1) /\ h[Len(m.spans) + 1] = 0
  BY <1>16
<1> DEFINE c == 3
<1>18. Len(m.spans) + (IF c = 0 THEN 0 ELSE 1) = Len(m.spans) + 1 /\ Top(m, h) = 0
  BY <1>17 DEF Top
<1>19. \E v : Carries(W, Top(m, h), v)
  <2>1. PICK v : Carries(work, 0, v)
    BY <1>3 DEF Between, Compiling
  <2>2. \A x \in Nat : Moves(Head(work), 0, x) => Carries(items, 0, x)
    <3>1. \A x \in Nat : Moves(Head(work), 0, x) => x = 0
      BY <1>2 DEF Moves
    <3>2. QED
      BY <1>9, <3>1
  <2>3. Carries(W, 0, v)
    BY <1>2, <1>11, <2>1, <2>2, CarriesOn
  <2>4. QED
    BY <1>18, <2>3
<1>20. Compiling(m, W, h, owner, f, c)
  BY <1>10, <1>13, <1>17, <1>18, <1>19 DEF Compiling
<1>21. Compiles(m, W, functionIndex)
  BY <1>15, <1>20 DEF Compiles
<1>22. QED
  BY <1>1, <1>21 DEF Compiled

-----------------------------------------------------------------------------

(* The statements of a program, HALT, and its bodies. *)
IsFirstWalk(W, m) ==
    /\ W \in Seq(CompilerItem) /\ Len(W) = m + 2
    /\ \A i \in 1 .. m : W[i].do = "statement" /\ W[i].node = program[i]
    /\ W[m + 1].do = "halt"
    /\ W[m + 2].do = "bodies"

LEMMA FirstWalk ==
    ASSUME ProgramIsSound, Len(nodes) \in Nat
    PROVE  /\ IsFirstWalk(Tail(C!InitialWork(program)), Len(program))
           /\ C!InitialWork(program) # <<>> /\ Head(C!InitialWork(program)).do = "declare"
<1> DEFINE first == C!Item("declare", 0)
           halt == C!Item("halt", 0)
           last == C!Item("bodies", 0)
           E(i) == C!Item("statement", program[i])
           middle == [i \in 1 .. Len(program) |-> E(i)]
           m == Len(program)
           walk == C!InitialWork(program)
<1>1. program \in Seq(1 .. Len(nodes)) /\ m \in Nat /\ DOMAIN program = 1 .. m
  BY LenProperties DEF ProgramIsSound, Separate
<1>2. \A i \in 1 .. m : program[i] \in 1 .. Len(nodes) /\ program[i] \in Nat
  BY <1>1, ElementOfSeq
<1>3. /\ first \in CompilerItem /\ first.do = "declare"
      /\ halt \in CompilerItem /\ halt.do = "halt"
      /\ last \in CompilerItem /\ last.do = "bodies"
  BY DEF C!Item, C!JumpItem, CompilerItem, CompilerWalks
<1>4. \A i \in 1 .. m : E(i) \in CompilerItem /\ E(i).do = "statement" /\ E(i).node = program[i]
  <2> DEFINE do == "statement"
  <2>1. do \in CompilerWalks
    BY DEF CompilerWalks
  <2> HIDE DEF do
  <2>2. \A i \in 1 .. m :
            /\ C!Item(do, program[i]) \in CompilerItem
            /\ C!Item(do, program[i]).do = do /\ C!Item(do, program[i]).node = program[i]
    BY <1>2, <2>1, ItemFields
  <2>3. QED
    BY <2>2 DEF do
<1> HIDE DEF first, halt, last, E
<1>5. /\ middle \in Seq(CompilerItem) /\ Len(middle) = m
      /\ \A i \in 1 .. m : middle[i] = E(i)
  <2>1. middle \in Seq(CompilerItem)
    BY <1>1, <1>4, IsASeq
  <2>2. QED
    BY <1>1, <2>1
<1>6. C!Items("statement", program) = middle
  BY <1>1 DEF C!Items, E
<1> HIDE DEF middle
<1>7. IsProgramWalk(walk, CompilerItem, first, middle, halt, last)
  <2>1. walk = <<first>> \o middle \o <<halt, last>>
    BY <1>6 DEF C!InitialWork, first, halt, last
  <2>2. IsProgramWalk(<<first>> \o middle \o <<halt, last>>, CompilerItem, first, middle,
                      halt, last)
    BY ONLY <1>3, <1>5, ProgramWalk
  <2>3. QED
    BY <2>1, <2>2
<1> HIDE DEF m, walk
<1>8. /\ walk \in Seq(CompilerItem) /\ Len(walk) = m + 3 /\ walk[1] = first
      /\ \A i \in 1 .. m : walk[i + 1] = middle[i]
      /\ walk[m + 2] = halt /\ walk[m + 3] = last
  BY <1>5, <1>7 DEF IsProgramWalk
<1> DEFINE W == Tail(walk)
<1>9. walk # <<>> /\ Head(walk) = first
  <2>1. Len(walk) # 0
    BY <1>1, <1>8
  <2>2. walk # <<>>
    BY <1>8, <2>1, EmptySeq
  <2>3. QED
    BY <1>8, <2>2, HeadTailProperties
<1>10. /\ W \in Seq(CompilerItem) /\ Len(W) = m + 2
       /\ \A i \in 1 .. m + 2 : W[i] = walk[i + 1]
  <2>1. /\ Tail(walk) \in Seq(CompilerItem) /\ Len(Tail(walk)) = Len(walk) - 1
        /\ \A i \in 1 .. Len(walk) - 1 : Tail(walk)[i] = walk[i + 1]
    BY <1>8, <1>9, HeadTailProperties
  <2>2. Len(walk) - 1 = m + 2
    BY <1>1, <1>8
  <2>3. QED
    BY <2>1, <2>2
<1> HIDE DEF W
<1>11. \A i \in 1 .. m : W[i] = E(i)
  <2> TAKE i \in 1 .. m
  <2>1. i \in 1 .. m + 2
    BY <1>1
  <2>2. QED
    BY <1>5, <1>8, <1>10, <2>1
<1>12. W[m + 1] = halt /\ W[m + 2] = last
  <2>1. /\ m + 1 \in 1 .. m + 2 /\ m + 2 \in 1 .. m + 2
        /\ m + 1 + 1 = m + 2 /\ m + 2 + 1 = m + 3
    BY <1>1
  <2>2. QED
    BY <1>8, <1>10, <2>1
<1>13. IsFirstWalk(W, m)
  BY <1>3, <1>4, <1>10, <1>11, <1>12 DEF IsFirstWalk
<1>14. QED
  BY <1>3, <1>9, <1>13 DEF W, walk, m

(* Its statements are of the program, or declare functions. *)
LEMMA FirstWalkOwned ==
    ASSUME ProgramIsSound, NEW W, IsFirstWalk(W, Len(program))
    PROVE  /\ WalkOwned(W, 0, Len(program) + 1) /\ Carries(W, 0, 0)
           /\ AwaitedIn(W) = {} /\ HeadersIn(W) = {}
<1> DEFINE m == Len(program)
           none == 0
           c == m + 1
<1>1. /\ m \in Nat /\ Len(C!Functions) \in Nat /\ c \in Nat /\ none \in 0 .. Len(C!Functions)
      /\ W \in Seq(CompilerItem)
  BY ProgramFacts, FunctionRoots DEF IsFirstWalk
<1>2. ASSUME NEW i \in 1 .. m
      PROVE  PartItem(W[i], none)
  <2>1. W[i].do = "statement" /\ W[i].node = program[i]
    BY DEF IsFirstWalk
  <2>2. Waits(W[i]) /\ W[i].do \notin {"call", "store", "emit"}
    BY <2>1 DEF Waits
  <2>3. CASE IsFunction(i)
    BY <2>1, <2>2, <2>3 DEF PartItem, IsFunction
  <2>4. CASE ~IsFunction(i)
    <3>1. program[i] \in Live
      BY ProgramFacts DEF Live, Closed
    <3>2. LiesIn(program[i], i)
      BY RootLiesIn
    <3>3. OwnedBy(program[i], none)
      BY <2>4, <3>1, <3>2 DEF OwnedBy
    <3>4. QED
      BY <2>1, <2>2, <3>3 DEF PartItem
  <2>5. QED
    BY <2>3, <2>4
<1>3. \A i \in 1 .. Len(W) : W[i].do \in {"statement", "halt", "bodies"}
  <2> TAKE i \in 1 .. Len(W)
  <2>1. i \in 1 .. m \/ i = m + 1 \/ i = m + 2
    BY <1>1 DEF IsFirstWalk
  <2>2. QED
    BY <2>1 DEF IsFirstWalk
<1>4. Carries(W, 0, 0)
  <2>1. \A i \in 1 .. Len(W) : Moves(W[i], 0, 0)
    BY <1>3 DEF Moves
  <2>2. QED
    BY <1>1, <2>1, CarriesStill
<1>5. AwaitedIn(W) = {} /\ HeadersIn(W) = {}
  <2>1. \A i \in 1 .. Len(W) : ~Patches(W[i]) /\ ~Loops(W[i])
    BY <1>3 DEF Patches, Loops
  <2>2. QED
    BY <2>1, AwaitedNone, HeadersNone
<1>6. W[c].do = "halt" /\ W[c + 1].do = "bodies" /\ Len(W) = c + 1
  <2>1. m + 1 + 1 = m + 2
    BY <1>1
  <2>2. QED
    BY <2>1 DEF IsFirstWalk
<1>7. \A i \in 1 .. c - 1 : PartItem(W[i], none)
  <2>1. c - 1 = m
    BY <1>1
  <2>2. QED
    BY <1>2, <2>1
<1>8. BodiesToCome(W, none, c)
  <2> HIDE DEF c
  <2>1. QED
    BY <1>6 DEF BodiesToCome
<1>9. WalkOwned(W, none, c)
  <2>1. none = 0
    OBVIOUS
  <2> HIDE DEF c, none
  <2>2. QED
    BY <1>1, <1>6, <1>7, <1>8, <2>1 DEF WalkOwned
<1>10. QED
  BY <1>4, <1>5, <1>9

(* The tables of the functions, before any code. *)
EntryOf(i) ==
    C!FunctionInfo(nodes[C!Functions[i]].name, Len(nodes[C!Functions[i]].parameters),
                   nodes[C!Functions[i]].frameSize)

SizesFit ==
    /\ programFrameSize \in 0 .. MaxOperand
    /\ \A i \in 1 .. Len(C!Functions) :
           /\ Len(nodes[C!Functions[i]].parameters) \in 0 .. MaxOperand
           /\ nodes[C!Functions[i]].frameSize \in 0 .. MaxOperand
           /\ i - 1 <= MaxOperand

IndexOfAName(i) == (CHOOSE j \in DOMAIN C!Functions : nodes[C!Functions[j]].name = NameOf(i)) - 1

LEMMA TablesDeclared ==
    ASSUME TreesAreSound, ProgramIsSound, TreeIsResolved, SizesFit,
           NEW k, k = [C!EmptyChunk EXCEPT
                          !.programFrameSize = programFrameSize,
                          !.functions = [i \in DOMAIN C!Functions |-> EntryOf(i)]],
           NEW index, \A i \in 1 .. Len(C!Functions) : index[NameOf(i)] = IndexOfAName(i)
    PROVE  /\ Declared(k, index)
           /\ IsChunk(k) /\ Tiled(k) /\ Len(k.code) = 0 /\ Len(k.spans) = 0
<1> DEFINE F == C!Functions
           n == Len(F)
           table == [i \in DOMAIN F |-> EntryOf(i)]
           empty == C!EmptyChunk
           S == T!FunctionEntry
<1>1. /\ n \in Nat /\ DOMAIN F = 1 .. n
      /\ \A i \in 1 .. n : F[i] \in 1 .. Len(nodes) /\ nodes[F[i]].type = "Function"
  BY FunctionRoots, LenProperties
<1>2. \A i \in 1 .. n : nodes[F[i]].name \in STRING
  BY <1>1 DEF TreesAreSound, OperatorIsKnown
<1>3. \A i \in 1 .. n :
          /\ EntryOf(i) \in S
          /\ EntryOf(i).arity = Len(nodes[F[i]].parameters)
          /\ EntryOf(i).frameSize = nodes[F[i]].frameSize
  <2> TAKE i \in 1 .. n
  <2> DEFINE name == nodes[F[i]].name
             arity == Len(nodes[F[i]].parameters)
             size == nodes[F[i]].frameSize
  <2>1. name \in STRING /\ arity \in 0 .. MaxOperand /\ size \in 0 .. MaxOperand
    BY <1>2 DEF SizesFit
  <2>2. EntryOf(i) = C!FunctionInfo(name, arity, size)
    BY DEF EntryOf
  <2> HIDE DEF name, arity, size
  <2>3. /\ C!FunctionInfo(name, arity, size) \in S
        /\ C!FunctionInfo(name, arity, size).arity = arity
        /\ C!FunctionInfo(name, arity, size).frameSize = size
    BY <2>1 DEF C!FunctionInfo, T!FunctionEntry
  <2>4. QED
    BY <2>2, <2>3 DEF arity, size
<1> HIDE DEF F, n, S
<1>4. table \in Seq(S) /\ Len(table) = n /\ \A i \in 1 .. n : table[i] = EntryOf(i)
  <2> DEFINE E(i) == EntryOf(i)
             all == [i \in 1 .. n |-> E(i)]
  <2>1. table = all
    BY <1>1
  <2>2. \A i \in 1 .. n : E(i) \in S
    BY <1>3
  <2> HIDE DEF E
  <2>3. all \in Seq(S)
    BY <1>1, <2>2, IsASeq
  <2>4. Len(all) = n /\ \A i \in 1 .. n : all[i] = E(i)
    BY <1>1
  <2> HIDE DEF all
  <2>5. QED
    BY <2>1, <2>3, <2>4 DEF E
<1>5. k = [empty EXCEPT !.programFrameSize = programFrameSize, !.functions = table]
  BY DEF F
<1> HIDE DEF table
<1>6. /\ IsChunk(empty) /\ Tiled(empty) /\ Len(empty.spans) = 0
      /\ empty.code = <<>> /\ empty.constants = <<>>
  BY EmptyChunkIsSound DEF C!EmptyChunk
<1> HIDE DEF empty
<1>7. /\ k.programFrameSize = programFrameSize /\ k.functions = table
      /\ IsChunk(k) /\ k.code = empty.code /\ k.spans = empty.spans
      /\ k.constants = empty.constants
  <2>1. PICK F1, N1 : empty \in [code : {empty.code}, constants : {empty.constants},
                                 spans : {empty.spans}, functions : F1, programFrameSize : N1]
    BY <1>6, ChunkFields
  <2>2. k \in [code : {empty.code}, constants : {empty.constants}, spans : {empty.spans},
               functions : {table}, programFrameSize : {programFrameSize}]
    <3>1. [empty EXCEPT !.programFrameSize = programFrameSize, !.functions = table]
              \in [code : {empty.code}, constants : {empty.constants}, spans : {empty.spans},
                   functions : {table}, programFrameSize : {programFrameSize}]
      BY ONLY <2>1, ChunkUpdates
    <3>2. QED
      BY <1>5, <3>1
  <2>3. /\ IsChunk(k) /\ k.code = empty.code /\ k.spans = empty.spans
        /\ k.constants = empty.constants
    BY ONLY <1>6, <2>2, TablesChange
  <2>4. QED
    BY <2>2, <2>3
<1>8. Tiled(k)
  BY <1>6, <1>7 DEF Tiled, OffsetOf, OpOf
<1>9. Len(k.code) = 0 /\ Len(k.spans) = 0
  BY <1>6, <1>7
<1>10. k.constants \in Seq(T!Value)
  BY ONLY <1>6, <1>7, EmptySeq
<1>11. ASSUME NEW i \in 1 .. n
       PROVE  /\ k.functions[i].arity = Len(nodes[F[i]].parameters)
              /\ k.functions[i].frameSize = nodes[F[i]].frameSize
              /\ index[NameOf(i)] = i - 1 /\ i - 1 <= MaxOperand
  <2>1. /\ k.functions[i].arity = Len(nodes[F[i]].parameters)
        /\ k.functions[i].frameSize = nodes[F[i]].frameSize
    BY <1>3, <1>4, <1>7
  <2>2. i - 1 <= MaxOperand
    BY DEF SizesFit, n, F
  <2> DEFINE j == CHOOSE j \in DOMAIN F : nodes[F[j]].name = NameOf(i)
  <2>3. j \in 1 .. n /\ NameOf(j) = NameOf(i)
    <3>1. \E x \in DOMAIN F : nodes[F[x]].name = NameOf(i)
      BY <1>1 DEF NameOf, F
    <3>2. j \in DOMAIN F /\ nodes[F[j]].name = NameOf(i)
      BY <3>1
    <3> HIDE DEF j
    <3>3. QED
      BY <1>1, <3>2 DEF NameOf, F
  <2>4. index[NameOf(i)] = j - 1
    BY DEF IndexOfAName, n, F
  <2> HIDE DEF j
  <2>5. j = i
    BY <2>3, OneOfAName DEF TreeIsResolved, n, F
  <2>6. QED
    BY <2>1, <2>2, <2>4, <2>5
<1>12. Declared(k, index)
  <2>1. /\ programFrameSize \in 0 .. MaxOperand
        /\ k.functions \in Seq(T!FunctionEntry) /\ Len(k.functions) = n
    BY <1>4, <1>7 DEF SizesFit, S
  <2>2. QED
    BY <1>7, <1>10, <1>11, <2>1 DEF Declared, n, F
<1>13. QED
  BY <1>7, <1>8, <1>9, <1>12

LEMMA DeclareCompiles ==
    ASSUME TreesAreSound, ProgramIsSound, TreeIsResolved, work = C!InitialWork(program),
           chunk = C!EmptyChunk, C!DeclareFunctions
    PROVE  Compiled \/ (work' = work /\ chunk' = chunk)
<1> DEFINE F == C!Functions
           function(i) == nodes[F[i]]
           wide == {i \in DOMAIN F : \/ C!TooWide(Len(function(i).parameters))
                                     \/ C!TooWide(function(i).frameSize)}
           refused == wide \cup {i \in DOMAIN F : i - 1 > MaxOperand}
           declared == {function(i).name : i \in DOMAIN F}
           k == [chunk EXCEPT !.programFrameSize = programFrameSize,
                              !.functions = [i \in DOMAIN F |-> EntryOf(i)]]
           index == [f \in declared |->
                        (CHOOSE i \in DOMAIN F : function(i).name = f) - 1]
<1>1. CASE C!TooWide(programFrameSize) \/ refused # {}
  BY <1>1 DEF C!DeclareFunctions, C!Fail
<1>2. CASE ~C!TooWide(programFrameSize) /\ refused = {}
  <2>1. /\ chunk' = k /\ functionIndex' = index /\ work' = <<>> \o Tail(work)
    BY <1>2 DEF C!DeclareFunctions, C!Become, EntryOf
  <2>2. Len(F) \in Nat /\ DOMAIN F = 1 .. Len(F) /\ \A i \in 1 .. Len(F) : F[i] \in 1 .. Len(nodes)
    BY FunctionRoots, LenProperties
  <2>3. SizesFit
    <3>1. programFrameSize \in Nat
      BY DEF TreeIsResolved
    <3>2. programFrameSize \in 0 .. MaxOperand
      BY <1>2, <3>1, PipelineAssumption DEF C!TooWide
    <3>3. ASSUME NEW i \in 1 .. Len(F)
          PROVE  /\ Len(nodes[F[i]].parameters) \in 0 .. MaxOperand
                 /\ nodes[F[i]].frameSize \in 0 .. MaxOperand
                 /\ i - 1 <= MaxOperand
      <4>1. /\ ~C!TooWide(Len(nodes[F[i]].parameters)) /\ ~C!TooWide(nodes[F[i]].frameSize)
            /\ ~(i - 1 > MaxOperand)
        BY <1>2, <2>2
      <4>2. nodes[F[i]] \in TreeNode
        BY <2>2, ElementOfSeq DEF TreesAreSound
      <4>3. nodes[F[i]].frameSize \in Nat /\ nodes[F[i]].parameters \in Seq(Param)
        BY <4>2 DEF TreeNode
      <4>4. Len(nodes[F[i]].parameters) \in Nat
        BY <4>3, LenProperties
      <4>5. i - 1 \in Int /\ MaxOperand \in Nat
        BY <2>2, PipelineAssumption
      <4>6. QED
        BY <4>1, <4>3, <4>4, <4>5 DEF C!TooWide
    <3>4. QED
      BY <3>2, <3>3 DEF SizesFit
  <2>4. \A i \in 1 .. Len(F) : index[NameOf(i)] = IndexOfAName(i)
    BY <2>2 DEF NameOf, IndexOfAName
  <2> HIDE DEF index
  <2>5. /\ Declared(k, index)
        /\ IsChunk(k) /\ Tiled(k) /\ Len(k.code) = 0 /\ Len(k.spans) = 0
    BY <2>3, <2>4, TablesDeclared
  <2> HIDE DEF k
  <2>6. PICK h, own : CodeTyped(k, {}, {}, h, own, 0, 1) /\ h[1] = 0
    BY <2>5, TypedStart
  <2> DEFINE W == Tail(work)
             c == Len(program) + 1
             none == 0
  <2>7. /\ WalkOwned(W, none, c) /\ Carries(W, 0, 0)
        /\ AwaitedIn(W) = {} /\ HeadersIn(W) = {}
        /\ W \in Seq(CompilerItem)
    <3>1. Len(nodes) \in Nat
      BY LenProperties DEF TreesAreSound
    <3>2. IsFirstWalk(W, Len(program))
      BY <3>1, FirstWalk
    <3>3. QED
      BY <3>2, FirstWalkOwned DEF IsFirstWalk
  <2>8. work' = W
    <3> HIDE DEF W
    <3>1. <<>> \o W = W
      BY <2>7
    <3>2. QED
      BY <2>1, <3>1 DEF W
  <2>9. Len(k.spans) + (IF c = 0 THEN 0 ELSE 1) = 1 /\ Top(k, h) = 0
    BY <2>5, <2>6, ProgramFacts DEF Top
  <2>10. CodeTyped(k, AwaitedIn(W), HeadersIn(W), h, own, none, 1)
    BY <2>6, <2>7
  <2> HIDE DEF W, c, none
  <2>11. Compiling(k, W, h, own, none, c)
    BY <2>7, <2>9, <2>10 DEF Compiling
  <2>12. Compiles(k, W, index)
    BY <2>5, <2>11 DEF Compiles
  <2>13. QED
    BY <2>1, <2>8, <2>12 DEF Compiled
<1>3. QED
  BY <1>1, <1>2

-----------------------------------------------------------------------------

(* What the compiler reads and never writes. *)
TreeStays == nodes' = nodes /\ program' = program /\ programFrameSize' = programFrameSize

LEMMA OwnersStay ==
    ASSUME TreeStays
    PROVE  /\ C!Functions' = C!Functions
           /\ \A i : NameOf(i)' = NameOf(i)
           /\ \A n, b : OwnedBy(n, b)' <=> OwnedBy(n, b)
           /\ \A item, b : PartItem(item, b)' <=> PartItem(item, b)
<1>0. nodes' = nodes /\ program' = program
  BY DEF TreeStays
<1>1. C!Functions' = C!Functions
  BY <1>0 DEF C!Functions
<1>2. Live' = Live
  BY <1>0 DEF Live, Closed
<1>3. \A n, q : LiesIn(n, q)' <=> LiesIn(n, q)
  BY <1>0 DEF LiesIn
<1>4. \A q : IsFunction(q)' <=> IsFunction(q)
  BY <1>0 DEF IsFunction
<1>5. \A n, b : OwnedBy(n, b)' <=> OwnedBy(n, b)
  BY <1>0, <1>1, <1>2, <1>3, <1>4 DEF OwnedBy
<1>6. \A item, b : PartItem(item, b)' <=> PartItem(item, b)
  BY <1>0, <1>5 DEF PartItem
<1>7. \A i : NameOf(i)' = NameOf(i)
  BY <1>0, <1>1 DEF NameOf
<1>8. QED
  BY <1>1, <1>5, <1>6, <1>7

LEMMA CarriesStays ==
    ASSUME TreeStays, NEW W, NEW u, NEW v, Carries(W, u, v)
    PROVE  Carries(W, u, v)'
<1>1. nodes' = nodes
  BY DEF TreeStays
<1>2. \A item, x, y : Moves(item, x, y)' <=> Moves(item, x, y)
  BY <1>1 DEF Moves
<1>3. QED
  BY <1>2 DEF Carries

LEMMA CompilesStill ==
    ASSUME TreeStays, NEW k, NEW W, NEW index, Compiles(k, W, index)
    PROVE  Compiles(k, W, index)'
<1>0. /\ C!Functions' = C!Functions
      /\ \A i : NameOf(i)' = NameOf(i)
      /\ \A item, b : PartItem(item, b)' <=> PartItem(item, b)
  BY OwnersStay
<1>1. Declared(k, index)'
  <2>1. nodes' = nodes /\ programFrameSize' = programFrameSize /\ Declared(k, index)
    BY DEF TreeStays, Compiles
  <2>2. QED
    BY <1>0, <2>1 DEF Declared
<1>2. PICK h, own, b, c : Compiling(k, W, h, own, b, c)
  BY DEF Compiles
<1>3. WalkOwned(W, b, c)'
  <2>1. WalkOwned(W, b, c)
    BY <1>2 DEF Compiling
  <2>2. BodiesToCome(W, b, c)'
    BY <1>0, <2>1 DEF WalkOwned, BodiesToCome
  <2>3. QED
    BY <1>0, <2>1, <2>2 DEF WalkOwned
<1>4. PICK v : Carries(W, Top(k, h), v)
  BY <1>2 DEF Compiling
<1>5. PICK u : u = Top(k, h)
  OBVIOUS
<1>6. Carries(W, u, v)'
  BY <1>4, <1>5, CarriesStays
<1>7. Compiling(k, W, h, own, b, c)'
  BY <1>2, <1>3, <1>5, <1>6 DEF Compiling
<1>8. QED
  BY <1>1, <1>7 DEF Compiles

LEMMA CompilesNext ==
    ASSUME TreeStays, Compiled
    PROVE  Compiles(chunk, work, functionIndex)'
<1>1. PICK k, W, index : k = chunk' /\ W = work' /\ index = functionIndex'
  OBVIOUS
<1>2. Compiles(k, W, index)
  BY <1>1 DEF Compiled
<1>3. Compiles(k, W, index)'
  BY <1>2, CompilesStill
<1>4. QED
  BY <1>1, <1>3

-----------------------------------------------------------------------------

(* Every step but the first one visits an item that is no declaration. *)
LEMMA OthersVisit ==
    ASSUME C!Next, ~C!DeclareFunctions
    PROVE  \E do : do # "declare" /\ C!Visiting(do)
<1>1. CASE C!CompileLiteral \/ C!CompileIdentifier \/ C!CompileOperator \/ C!CompileCall
  BY <1>1 DEF C!CompileLiteral, C!CompileIdentifier, C!CompileOperator, C!CompileCall, C!VisitingA
<1>2. CASE C!CompilePrint \/ C!CompileAssign \/ C!CompileBlock \/ C!CompileIf
           \/ C!CompileWhile \/ C!CompileReturn
  BY <1>2 DEF C!CompilePrint, C!CompileAssign, C!CompileBlock, C!CompileIf, C!CompileWhile,
              C!CompileReturn, C!VisitingA
<1>3. CASE C!EmitOperation \/ C!CompileThen \/ C!CompileElse \/ C!CompileEndIf
           \/ C!CompileLoop \/ C!CompileEndLoop
  BY <1>3 DEF C!EmitOperation, C!CompileThen, C!CompileElse, C!CompileEndIf, C!CompileLoop,
              C!CompileEndLoop
<1>4. CASE C!EmitZero \/ C!EmitHalt \/ C!CompileBodies \/ C!CompileFunctionBody
           \/ C!EndFunctionBody \/ C!Finish
  BY <1>4 DEF C!EmitZero, C!EmitHalt, C!CompileBodies, C!CompileFunctionBody,
              C!EndFunctionBody, C!Finish
<1>5. QED
  BY <1>1, <1>2, <1>3, <1>4 DEF C!Next

(* The tables are filled once. *)
LEMMA DeclaredOnce ==
    ASSUME CompilesHere, C!Visiting("declare")
    PROVE  FALSE
<1>1. work # <<>> /\ Head(work).do = "declare" /\ Head(work) = work[1] /\ 1 \in 1 .. Len(work)
  BY CompilerVisits DEF CompilesHere
<1>2. PICK h, own, b, c : Compiling(chunk, work, h, own, b, c)
  BY DEF CompilesHere, Compiles
<1>3. WalkOwned(work, b, c)
  BY <1>2 DEF Compiling
<1>4. /\ c \in Nat /\ \A i \in 1 .. c - 1 : PartItem(work[i], b)
      /\ c # 0 => work[c].do \in {"halt", "end body"}
  BY <1>3 DEF WalkOwned
<1>5. CASE c = 0
  BY <1>1, <1>3, <1>5, RestIsBodies DEF CompilesHere
<1>6. CASE c = 1
  <2>1. c # 0
    BY ONLY <1>6
  <2>2. work[1].do \in {"halt", "end body"}
    BY ONLY <1>4, <1>6, <2>1
  <2>3. work[1].do = "declare"
    BY ONLY <1>1
  <2>4. QED
    BY ONLY <2>2, <2>3
<1>7. CASE c # 0 /\ c # 1
  <2>0. c \in Nat
    BY ONLY <1>4
  <2>1. 1 \in 1 .. c - 1
    BY ONLY <1>7, <2>0
  <2>2. PartItem(work[1], b)
    BY <1>4, <2>1
  <2>3. QED
    BY <1>1, <2>2 DEF PartItem, Waits
<1>8. QED
  BY <1>5, <1>6, <1>7

(* One step of the compiler. *)
LEMMA StepCompiles ==
    ASSUME CompilesHere, C!Next
    PROVE  Compiled \/ C!Finish
<1>1. CASE C!DeclareFunctions
  BY <1>1, DeclaredOnce DEF C!DeclareFunctions
<1>2. CASE C!CompileLiteral \/ C!CompileIdentifier \/ C!CompileOperator \/ C!EmitOperation
  BY <1>2, LiteralCompiles, IdentifierCompiles, OperatorCompiles, OperationCompiles
<1>3. CASE C!CompileCall \/ C!CompilePrint \/ C!CompileAssign \/ C!CompileBlock
  BY <1>3, CallCompiles, PrintCompiles, AssignCompiles, BlockCompiles
<1>4. CASE C!CompileIf \/ C!CompileThen \/ C!CompileElse \/ C!CompileEndIf
  BY <1>4, IfCompiles, ThenCompiles, ElseCompiles, EndIfCompiles
<1>5. CASE C!CompileWhile \/ C!CompileLoop \/ C!CompileEndLoop \/ C!CompileReturn
  BY <1>5, WhileCompiles, LoopCompiles, EndLoopCompiles, ReturnCompiles
<1>6. CASE C!EmitZero \/ C!EmitHalt \/ C!CompileBodies \/ C!CompileFunctionBody
           \/ C!EndFunctionBody
  BY <1>6, ZeroCompiles, HaltCompiles, BodiesCompiles, FunctionBodyCompiles, EndBodyCompiles
<1>7. QED
  BY <1>1, <1>2, <1>3, <1>4, <1>5, <1>6 DEF C!Next

-----------------------------------------------------------------------------

(* The code while it is compiled, and once it is. *)
CodeInMaking ==
    \/ work = C!InitialWork(program) /\ chunk = C!EmptyChunk
    \/ Compiles(chunk, work, functionIndex)

TypingInvariant ==
    /\ stage = "compile" /\ compiled = Running => CodeInMaking
    /\ stage \in {"compile", "run"} /\ compiled = Finished => ChunkIsTyped(chunk)
    /\ stage = "compile" /\ compiled = Finished => chunk.programFrameSize = programFrameSize

LEMMA CompilerTypes ==
    ASSUME CompilerInvariant, TreesAreSound, ProgramIsSound, TreeIsResolved, CodeInMaking, C!Next
    PROVE  \/ CodeInMaking'
           \/ /\ compiled' = Finished /\ ChunkIsTyped(chunk')
              /\ chunk'.programFrameSize = programFrameSize
<1>1. TreeStays
  BY CompilerReadsTheTree DEF TreeStays
<1>2. CASE Compiles(chunk, work, functionIndex)
  <2>1. CompilesHere
    BY <1>2 DEF CompilesHere
  <2>2. CASE C!Finish
    BY <2>1, <2>2, FinishTypes
  <2>3. CASE Compiled
    BY <1>1, <2>3, CompilesNext DEF CodeInMaking
  <2>4. QED
    BY <2>1, <2>2, <2>3, StepCompiles
<1>3. CASE work = C!InitialWork(program) /\ chunk = C!EmptyChunk
  <2>1. Len(nodes) \in Nat
    BY LenProperties DEF TreesAreSound
  <2>2. Head(work).do = "declare"
    BY <1>3, <2>1, FirstWalk
  <2>3. C!DeclareFunctions
    BY <2>2, OthersVisit DEF C!Visiting
  <2>4. Compiled \/ (work' = work /\ chunk' = chunk)
    BY <1>3, <2>3, DeclareCompiles
  <2>5. CASE Compiled
    BY <1>1, <2>5, CompilesNext DEF CodeInMaking
  <2>6. CASE work' = work /\ chunk' = chunk
    <3>1. program' = program
      BY <1>1 DEF TreeStays
    <3>2. work' = C!InitialWork(program)' /\ chunk' = C!EmptyChunk'
      BY <1>3, <2>6, <3>1 DEF C!InitialWork, C!EmptyChunk
    <3>3. QED
      BY <3>2 DEF CodeInMaking
  <2>7. QED
    BY <2>4, <2>5, <2>6
<1>4. QED
  BY <1>2, <1>3 DEF CodeInMaking

LEMMA MakingStutters ==
    ASSUME CodeInMaking, TreeStays, chunk' = chunk, work' = work, functionIndex' = functionIndex
    PROVE  CodeInMaking'
<1>1. CASE Compiles(chunk, work, functionIndex)
  <2>1. Compiled
    BY <1>1 DEF Compiled
  <2>2. QED
    BY <2>1, CompilesNext DEF CodeInMaking
<1>2. CASE work = C!InitialWork(program) /\ chunk = C!EmptyChunk
  BY <1>2 DEF CodeInMaking, C!InitialWork, C!EmptyChunk, TreeStays
<1>3. QED
  BY <1>1, <1>2 DEF CodeInMaking

LEMMA TypingKeeps ==
    ASSUME PipelineInvariant, NamesInvariant, TypingInvariant, [Next]_vars
    PROVE  TypingInvariant'
<1>0. /\ Running # Finished /\ Running' = Running /\ Finished' = Finished
      /\ C!Running = Running
  BY DEF Running, Finished, Verdict, C!Running, C!Verdict, NoSpan, C!NoSpan, MakeSpan, C!MakeSpan
<1>1. CASE Parse \/ StartResolve \/ Resolve
  <2>1. stage' \in {"parse", "resolve"}
    BY <1>1 DEF Parse, StartResolve, Resolve
  <2>2. QED
    BY <2>1 DEF TypingInvariant
<1>2. CASE StartCompile
  <2>1. /\ stage = "resolve" /\ stage' = "compile" /\ chunk' = chunk /\ compiled' = compiled
        /\ work' = C!InitialWork(program) /\ program' = program
    BY <1>2 DEF StartCompile, compilerState, resolverState
  <2>2. chunk = C!EmptyChunk /\ compiled = Running
    BY <2>1 DEF PipelineInvariant
  <2>3. work' = C!InitialWork(program)' /\ chunk' = C!EmptyChunk'
    BY <2>1, <2>2 DEF C!InitialWork, C!EmptyChunk
  <2>4. CodeInMaking'
    BY <2>3 DEF CodeInMaking
  <2>5. compiled' # Finished
    BY <1>0, <2>1, <2>2
  <2>6. QED
    BY <1>0, <2>4, <2>5 DEF TypingInvariant
<1>3. CASE Compile
  <2>1. stage = "compile" /\ stage' = "compile" /\ C!Next
    BY <1>3 DEF Compile
  <2>2. CompilerInvariant /\ TreesAreSound /\ ProgramIsSound /\ TreeIsResolved
    BY <2>1 DEF PipelineInvariant, FrontInvariant, NamesInvariant
  <2>3. compiled = Running
    BY <1>0, <2>1, OthersVisit DEF C!Visiting, C!DeclareFunctions
  <2>4. CodeInMaking
    BY <2>1, <2>3 DEF TypingInvariant
  <2>5. \/ CodeInMaking'
        \/ /\ compiled' = Finished /\ ChunkIsTyped(chunk')
           /\ chunk'.programFrameSize = programFrameSize
    BY <2>1, <2>2, <2>4, CompilerTypes
  <2>6. compiled' = Finished =>
            ChunkIsTyped(chunk') /\ chunk'.programFrameSize = programFrameSize
    <3>1. SUFFICES ASSUME compiled' = Finished
                   PROVE  ChunkIsTyped(chunk') /\ chunk'.programFrameSize = programFrameSize
      OBVIOUS
    <3>2. work' = <<>>
      BY <2>1, <2>2, <3>1, OnlyFinishFinishes
    <3>3. ASSUME CodeInMaking'
          PROVE  FALSE
      <4>1. nodes' = nodes /\ program' = program
        BY <2>1, CompilerReadsTheTree
      <4>2. CASE Compiles(chunk, work, functionIndex)'
        <5>1. PICK h, own, b, c : WalkOwned(work, b, c)'
          BY <4>2 DEF Compiles, Compiling
        <5>2. PICK n : n = Len(C!Functions)'
          OBVIOUS
        <5>3. PICK W : W = work'
          OBVIOUS
        <5>4. /\ c \in Nat /\ b \in 0 .. n
              /\ Len(W) = c + 1 \/ Len(W) = c + (n - b) + 1
          BY <5>1, <5>2, <5>3 DEF WalkOwned, BodiesToCome
        <5>5. n \in Nat
          <6>1. C!Functions' = C!Functions
            BY <4>1 DEF C!Functions
          <6>2. QED
            BY <2>2, <5>2, <6>1, FunctionRoots
        <5>6. Len(W) = 0
          BY <3>2, <5>3
        <5>7. QED
          BY ONLY <5>4, <5>5, <5>6
      <4>3. CASE work' = C!InitialWork(program)'
        <5>1. C!InitialWork(program)' = C!InitialWork(program)
          BY <4>1 DEF C!InitialWork
        <5>2. C!InitialWork(program) # <<>>
          BY <2>2, FirstWalk, LenProperties DEF TreesAreSound
        <5>3. QED
          BY <3>2, <4>3, <5>1, <5>2
      <4>4. QED
        BY <3>3, <4>2, <4>3 DEF CodeInMaking
    <3>4. QED
      BY <2>5, <3>3
  <2>7. compiled' = Running => CodeInMaking'
    BY <1>0, <2>5
  <2>8. programFrameSize' = programFrameSize
    BY <2>1, CompilerReadsTheTree
  <2>9. QED
    BY <1>0, <2>1, <2>6, <2>7, <2>8 DEF TypingInvariant
<1>4. CASE StartRun \/ TreeStep \/ VmStep
  <2>1. /\ stage \in {"compile", "run"} /\ stage' = "run"
        /\ chunk' = chunk /\ compiled' = compiled
    BY <1>4, VmReadsTheChunk DEF StartRun, TreeStep, VmStep, compilerState
  <2>2. QED
    BY <1>0, <2>1 DEF TypingInvariant
<1>5. CASE UNCHANGED vars
  <2>1. /\ stage' = stage /\ chunk' = chunk /\ compiled' = compiled /\ work' = work
        /\ functionIndex' = functionIndex /\ TreeStays /\ programFrameSize' = programFrameSize
    BY <1>5 DEF vars, compilerState, resolverState, TreeStays
  <2>2. CodeInMaking => CodeInMaking'
    BY <2>1, MakingStutters
  <2>3. QED
    BY <1>0, <2>1, <2>2 DEF TypingInvariant
<1>6. QED
  BY <1>1, <1>2, <1>3, <1>4, <1>5 DEF Next

LEMMA TypingHolds ==
    /\ Init => PipelineInvariant /\ NamesInvariant /\ TypingInvariant
    /\ PipelineInvariant /\ NamesInvariant /\ TypingInvariant /\ [Next]_vars
          => PipelineInvariant' /\ NamesInvariant' /\ TypingInvariant'
<1>1. Init => TypingInvariant
  BY DEF Init, TypingInvariant
<1>2. PipelineInvariant => FrontInvariant
  BY DEF PipelineInvariant
<1>3. QED
  BY <1>1, <1>2, PipelineStarts, NamesStart, PipelineKeeps, NamesKeep, TypingKeeps

LEMMA TypingSuffices == TypingInvariant => CompiledCodeIsWellTyped
<1>1. SUFFICES ASSUME TypingInvariant, Successful
               PROVE  /\ T!WellTyped(chunk, T!Heights(chunk), T!Owners(chunk))
                      /\ \A o \in T!Starts(chunk) : T!Byte(chunk, o) <= T!OpCode.HALT
  BY DEF CompiledCodeIsWellTyped
<1>2. ChunkIsTyped(chunk)
  BY <1>1 DEF TypingInvariant, Successful
<1>3. QED
  BY <1>2, TypedIsWellTyped

(* What the compiler (src/src/compiler.cpp) hands to the VM is well typed, for every
   source and every capacity of a chunk: each instruction finds on the stack as many
   temporaries as it takes, whichever way control came to it, every slot is inside
   the frame, every constant and every callee exists, and a jump or a fall stays in
   the body it is in.  vm.cpp checks none of this. *)
THEOREM CodeIsWellTyped == Spec => []CompiledCodeIsWellTyped
BY TypingHolds, TypingSuffices, PTL DEF Spec

-----------------------------------------------------------------------------

(* What VmProofs proves of the VM, for the one this pipeline runs. *)
Proved == INSTANCE VmProofs
    WITH Chunks <- {}, frames <- vmFrames, out <- vmOut, verdict <- vmVerdict

(* The chunk is the compiler's, and the VM stands at its start. *)
AtStart ==
    /\ T!WellTyped(chunk, T!Heights(chunk), T!Owners(chunk))
    /\ Proved!Start(chunk)

LEMMA ProvedKeeps == Proved!Safe /\ [Proved!Next]_Proved!vars => Proved!Safe'
BY Proved!NextIsSafe, MaxIntAssumption, PipelineAssumption, LimitsAssumption DEF PipelineAssumption

LEMMA SameValues ==
    /\ V!OpCode = Proved!OpCode
    /\ V!Running = Proved!Running /\ V!Finished = Proved!Finished
    /\ \A span, message : V!RuntimeFault(span, message) = Proved!RuntimeFault(span, message)
    /\ V!MinInt = Proved!MinInt /\ V!Zero = Proved!Zero
    /\ \A n : V!Fits(n) <=> Proved!Fits(n)
    /\ \A n : V!IntValue(n) = Proved!IntValue(n)
    /\ \A b : V!BoolValue(b) = Proved!BoolValue(b)
    /\ \A v : V!IsInt(v) <=> Proved!IsInt(v)
    /\ \A v : V!IsBool(v) <=> Proved!IsBool(v)
    /\ \A v : V!IsTrue(v) <=> Proved!IsTrue(v)
    /\ \A v, w : V!ValuesEqual(v, w) <=> Proved!ValuesEqual(v, w)
    /\ \A n, d : V!Quotient(n, d) = Proved!Quotient(n, d)
<1>1. V!OpCode = Proved!OpCode
  BY DEF V!OpCode, Proved!OpCode
<1>2. /\ V!Running = Proved!Running /\ V!Finished = Proved!Finished
      /\ \A span, message : V!RuntimeFault(span, message) = Proved!RuntimeFault(span, message)
  BY DEF V!Running, V!Finished, V!RuntimeFault, V!Verdict, V!NoSpan, V!MakeSpan,
         Proved!Running, Proved!Finished, Proved!RuntimeFault, Proved!Verdict, Proved!NoSpan,
         Proved!MakeSpan
<1>3. /\ V!MinInt = Proved!MinInt
      /\ \A n : V!IntValue(n) = Proved!IntValue(n)
      /\ \A b : V!BoolValue(b) = Proved!BoolValue(b)
      /\ \A v : V!IsInt(v) <=> Proved!IsInt(v)
      /\ \A v : V!IsBool(v) <=> Proved!IsBool(v)
      /\ \A v : V!IsTrue(v) <=> Proved!IsTrue(v)
      /\ \A v, w : V!ValuesEqual(v, w) <=> Proved!ValuesEqual(v, w)
  BY DEF V!MinInt, V!IntValue, V!BoolValue, V!IsInt, V!IsBool, V!IsTrue, V!ValuesEqual,
         Proved!MinInt, Proved!IntValue, Proved!BoolValue, Proved!IsInt, Proved!IsBool,
         Proved!IsTrue, Proved!ValuesEqual
<1>4. \A n : V!Fits(n) <=> Proved!Fits(n)
  BY <1>3 DEF V!Fits, Proved!Fits
<1>5. \A n : V!Magnitude(n) = Proved!Magnitude(n)
  BY DEF V!Magnitude, Proved!Magnitude
<1>6. \A n, d : V!Quotient(n, d) = Proved!Quotient(n, d)
  BY <1>5 DEF V!Quotient, Proved!Quotient
<1>7. V!Zero = Proved!Zero
  BY <1>3 DEF V!Zero, Proved!Zero
<1>8. QED
  BY ONLY <1>1, <1>2, <1>3, <1>4, <1>6, <1>7

LEMMA SameReads ==
    /\ \A op : V!HasOperand(op) <=> Proved!HasOperand(op)
    /\ \A op : V!InstructionLength(op) = Proved!InstructionLength(op)
    /\ \A k, o : V!Byte(k, o) = Proved!Byte(k, o)
    /\ \A k, o : V!ReadOperand(k, o) = Proved!ReadOperand(k, o)
    /\ \A k, o : V!SpanAt(k, o) = Proved!SpanAt(k, o)
<1>1. \A op : V!HasOperand(op) <=> Proved!HasOperand(op)
  BY SameValues DEF V!HasOperand, Proved!HasOperand
<1>2. \A op : V!InstructionLength(op) = Proved!InstructionLength(op)
  BY <1>1 DEF V!InstructionLength, Proved!InstructionLength
<1>3. \A k, o : V!Byte(k, o) = Proved!Byte(k, o)
  BY DEF V!Byte, Proved!Byte
<1>4. \A k, o : V!ReadOperand(k, o) = Proved!ReadOperand(k, o)
  BY <1>3 DEF V!ReadOperand, Proved!ReadOperand
<1>5. \A k, o : V!SpanAt(k, o) = Proved!SpanAt(k, o)
  BY DEF V!SpanAt, Proved!SpanAt, V!Max, Proved!Max
<1>6. QED
  BY ONLY <1>1, <1>2, <1>3, <1>4, <1>5

LEMMA SameState ==
    /\ V!Op = Proved!Op /\ V!Operand = Proved!Operand /\ V!Following = Proved!Following
    /\ V!Top = Proved!Top /\ V!Second = Proved!Second /\ V!Frame = Proved!Frame
    /\ V!OperatorText = Proved!OperatorText
    /\ V!Full <=> Proved!Full
    /\ V!TooDeep <=> Proved!TooDeep
    /\ V!BothIntegers <=> Proved!BothIntegers
    /\ \A op : V!Executing(op) <=> Proved!Executing(op)
    /\ \A n : V!Popped(n) = Proved!Popped(n)
    /\ \A n : V!Zeros(n) = Proved!Zeros(n)
    /\ \A r, b : V!Frames(r, b) = Proved!Frames(r, b)
    /\ \A f : V!CalleeBase(f) = Proved!CalleeBase(f)
<1>1. /\ V!Op = Proved!Op /\ V!Operand = Proved!Operand
      /\ V!OperatorText = Proved!OperatorText
  BY SameReads DEF V!Op, Proved!Op, V!Operand, Proved!Operand, V!OperatorText, Proved!OperatorText
<1>2. V!Following = Proved!Following
  BY <1>1, SameReads DEF V!Following, Proved!Following
<1>3. /\ V!Top = Proved!Top /\ V!Second = Proved!Second /\ V!Frame = Proved!Frame
      /\ V!Full <=> Proved!Full
      /\ V!TooDeep <=> Proved!TooDeep
      /\ \A n : V!Popped(n) = Proved!Popped(n)
      /\ \A r, b : V!Frames(r, b) = Proved!Frames(r, b)
      /\ \A f : V!CalleeBase(f) = Proved!CalleeBase(f)
  BY DEF V!Top, V!Second, V!Frame, V!Full, V!TooDeep, V!Popped, V!Frames, V!CalleeBase,
         Proved!Top, Proved!Second, Proved!Frame, Proved!Full, Proved!TooDeep, Proved!Popped,
         Proved!Frames, Proved!CalleeBase
<1>4. \A n : V!Zeros(n) = Proved!Zeros(n)
  BY SameValues DEF V!Zeros, Proved!Zeros
<1>5. V!BothIntegers <=> Proved!BothIntegers
  BY <1>3, SameValues DEF V!BothIntegers, Proved!BothIntegers
<1>6. \A op : V!Executing(op) <=> Proved!Executing(op)
  BY <1>1, SameValues DEF V!Executing, Proved!Executing
<1>7. QED
  BY ONLY <1>1, <1>2, <1>3, <1>4, <1>5, <1>6

LEMMA SameSteps ==
    /\ \A message : V!Fault(message) <=> Proved!Fault(message)
    /\ \A after : V!Yield(after) <=> Proved!Yield(after)
    /\ \A value : V!Push(value) <=> Proved!Push(value)
    /\ \A n, value : V!Replace(n, value) <=> Proved!Replace(n, value)
    /\ V!BinaryTypeFault <=> Proved!BinaryTypeFault
    /\ V!UnaryTypeFault <=> Proved!UnaryTypeFault
    /\ V!BinaryOverflowFault <=> Proved!BinaryOverflowFault
<1>1. \A message : V!Fault(message) <=> Proved!Fault(message)
  BY SameValues, SameReads DEF V!Fault, Proved!Fault
<1>2. \A after : V!Yield(after) <=> Proved!Yield(after)
  BY SameState DEF V!Yield, Proved!Yield
<1>3. \A value : V!Push(value) <=> Proved!Push(value)
  BY <1>1, <1>2, SameState DEF V!Push, Proved!Push
<1>4. \A n, value : V!Replace(n, value) <=> Proved!Replace(n, value)
  BY <1>2, SameState DEF V!Replace, Proved!Replace
<1>5. /\ V!BinaryTypeFault <=> Proved!BinaryTypeFault
      /\ V!UnaryTypeFault <=> Proved!UnaryTypeFault
      /\ V!BinaryOverflowFault <=> Proved!BinaryOverflowFault
  BY <1>1, SameState
     DEF V!BinaryTypeFault, Proved!BinaryTypeFault, V!UnaryTypeFault, Proved!UnaryTypeFault,
         V!BinaryOverflowFault, Proved!BinaryOverflowFault
<1>6. QED
  BY ONLY <1>1, <1>2, <1>3, <1>4, <1>5

LEMMA SameNext == V!Next => Proved!Next
<1>1. /\ V!Const => Proved!Const
      /\ V!LoadLocal => Proved!LoadLocal
      /\ V!StoreLocal => Proved!StoreLocal
      /\ V!Pop => Proved!Pop
  BY SameValues, SameState, SameSteps
     DEF V!Const, Proved!Const, V!LoadLocal, Proved!LoadLocal, V!StoreLocal, Proved!StoreLocal,
         V!Pop, Proved!Pop
<1>2. V!Arithmetic => Proved!Arithmetic
  <2>1. \A op, x, y : V!Exact(op, x, y) = Proved!Exact(op, x, y)
    BY SameValues DEF V!Exact, Proved!Exact
  <2>2. QED
    BY <2>1, SameValues, SameState, SameSteps DEF V!Arithmetic, Proved!Arithmetic
<1>3. V!Divide => Proved!Divide
  BY SameValues, SameState, SameSteps DEF V!Divide, Proved!Divide
<1>4. V!Negate => Proved!Negate
  BY SameValues, SameState, SameSteps DEF V!Negate, Proved!Negate
<1>5. V!Equal => Proved!Equal
  BY SameValues, SameState, SameSteps DEF V!Equal, Proved!Equal, V!ValuesEqual, Proved!ValuesEqual
<1>6. V!Order => Proved!Order
  BY SameValues, SameState, SameSteps DEF V!Order, Proved!Order
<1>7. V!Not => Proved!Not
  BY SameValues, SameState, SameSteps DEF V!Not, Proved!Not
<1>8. /\ V!Jump => Proved!Jump
      /\ V!JumpIfFalse => Proved!JumpIfFalse
  BY SameValues, SameState, SameSteps DEF V!Jump, Proved!Jump, V!JumpIfFalse, Proved!JumpIfFalse
<1>9. V!Call => Proved!Call
  BY SameValues, SameState, SameSteps DEF V!Call, Proved!Call
<1>10. /\ V!Return => Proved!Return
       /\ V!PrintTop => Proved!PrintTop
       /\ V!Halt => Proved!Halt
       /\ V!Unknown => Proved!Unknown
  BY SameValues, SameState, SameSteps
     DEF V!Return, Proved!Return, V!PrintTop, Proved!PrintTop, V!Halt, Proved!Halt,
         V!Unknown, Proved!Unknown
<1>11. QED
  BY <1>1, <1>2, <1>3, <1>4, <1>5, <1>6, <1>7, <1>8, <1>9, <1>10 DEF V!Next, Proved!Next

(* CodeShape and VmProofs each have their own copy of the typing: code that is well
   typed by the compiler's copy is well typed by the VM's. *)
LEMMA SameTyping ==
    \A k : T!WellTyped(k, T!Heights(k), T!Owners(k))
            => Proved!WellTyped(k, Proved!Heights(k), Proved!Owners(k))
<1>1. /\ T!OpCode = Proved!OpCode /\ T!Unary = Proved!Unary /\ T!Binary = Proved!Binary
      /\ T!Ends = Proved!Ends /\ T!Value = Proved!Value
      /\ T!FunctionEntry = Proved!FunctionEntry
  BY DEF T!OpCode, Proved!OpCode, T!Unary, Proved!Unary, T!Binary, Proved!Binary, T!Ends,
         Proved!Ends, T!Value, Proved!Value, T!MinInt, Proved!MinInt, T!FunctionEntry,
         Proved!FunctionEntry
<1>2. /\ \A k : T!Starts(k) = Proved!Starts(k)
      /\ \A k, o : T!Byte(k, o) = Proved!Byte(k, o)
      /\ \A k, o : T!ReadOperand(k, o) = Proved!ReadOperand(k, o)
      /\ \A k, f : T!Width(k, f) = Proved!Width(k, f)
  BY DEF T!Starts, Proved!Starts, T!Byte, Proved!Byte, T!ReadOperand, Proved!ReadOperand,
         T!Width, Proved!Width
<1>3. /\ \A k, o : T!Callee(k, o) = Proved!Callee(k, o)
      /\ \A op : T!HasOperand(op) <=> Proved!HasOperand(op)
  BY <1>1, <1>2 DEF T!Callee, Proved!Callee, T!HasOperand, Proved!HasOperand
<1>4. /\ \A k, o : T!Takes(k, o) = Proved!Takes(k, o)
      /\ \A k, o : T!Puts(k, o) = Proved!Puts(k, o)
  BY <1>1, <1>2, <1>3 DEF T!Takes, Proved!Takes, T!Puts, Proved!Puts
<1>5. \A k, o : T!Fallthrough(k, o) = Proved!Fallthrough(k, o)
  BY <1>2, <1>3 DEF T!Fallthrough, Proved!Fallthrough, T!InstructionLength,
                    Proved!InstructionLength
<1>6. \A k, h, w, f, n, o : T!Flows(k, h, w, f, n, o) <=> Proved!Flows(k, h, w, f, n, o)
  BY <1>2 DEF T!Flows, Proved!Flows
<1>7. \A k, f, op, n : T!OperandInRange(k, f, op, n) <=> Proved!OperandInRange(k, f, op, n)
  BY <1>1, <1>2 DEF T!OperandInRange, Proved!OperandInRange
<1>8. \A k, h, w, o : T!WellTypedAt(k, h, w, o) <=> Proved!WellTypedAt(k, h, w, o)
  BY <1>1, <1>2, <1>3, <1>4, <1>5, <1>6, <1>7 DEF T!WellTypedAt, Proved!WellTypedAt
<1>9. \A k, h, w : T!WellTyped(k, h, w) => Proved!WellTyped(k, h, w)
  BY <1>1, <1>2, <1>8 DEF T!WellTyped, Proved!WellTyped
<1>10. \A k : T!Heights(k) = Proved!Heights(k)
  BY DEF T!Heights, Proved!Heights, T!Ends, Proved!Ends, T!Byte, Proved!Byte,
         T!OpCode, Proved!OpCode, T!Takes, Proved!Takes, T!Puts, Proved!Puts,
         T!Callee, Proved!Callee, T!Unary, Proved!Unary, T!Binary, Proved!Binary,
         T!ReadOperand, Proved!ReadOperand, T!Starts, Proved!Starts
<1>11. \A k : T!Owners(k) = Proved!Owners(k)
  BY <1>2 DEF T!Owners, Proved!Owners, T!Cardinality, Proved!Cardinality
<1>12. QED
  BY ONLY <1>9, <1>10, <1>11

LEMMA SameFrames ==
    /\ Machine!FramesAreContiguous <=> Proved!FramesAreContiguous
    /\ Machine!FramesRunTheirOwnCode <=> Proved!FramesRunTheirOwnCode
    /\ Machine!OperandsAreTemporaries <=> Proved!OperandsAreTemporaries
    /\ Machine!StackWithinCap <=> Proved!StackWithinCap
    /\ Machine!DepthWithinLimit <=> Proved!DepthWithinLimit
<1>1. \A k : Machine!Heights(k) = Proved!Heights(k)
  BY DEF Machine!Heights, Proved!Heights, Machine!Ends, Proved!Ends, Machine!Byte, Proved!Byte,
         Machine!OpCode, Proved!OpCode, Machine!Takes, Proved!Takes, Machine!Puts, Proved!Puts,
         Machine!Callee, Proved!Callee, Machine!Unary, Proved!Unary, Machine!Binary,
         Proved!Binary, Machine!ReadOperand, Proved!ReadOperand, Machine!Starts, Proved!Starts
<1>2. \A k : Machine!Owners(k) = Proved!Owners(k)
  BY DEF Machine!Owners, Proved!Owners, Machine!Cardinality, Proved!Cardinality,
         Machine!Starts, Proved!Starts
<1>3. Machine!height = Proved!height /\ Machine!owner = Proved!owner
  BY <1>1, <1>2 DEF Machine!height, Proved!height, Machine!owner, Proved!owner
<1>4. /\ \A k, f : Machine!Width(k, f) = Proved!Width(k, f)
      /\ \A d : Machine!Resumes(d) = Proved!Resumes(d)
      /\ Machine!Frame = Proved!Frame /\ Machine!Running = Proved!Running
  BY DEF Machine!Width, Proved!Width, Machine!Resumes, Proved!Resumes, Machine!Frame,
         Proved!Frame, Machine!Running, Proved!Running, Machine!Verdict, Proved!Verdict,
         Machine!NoSpan, Proved!NoSpan, Machine!MakeSpan, Proved!MakeSpan
<1>5. \A d : Machine!FrameEnd(d) = Proved!FrameEnd(d)
  BY <1>3, <1>4 DEF Machine!FrameEnd, Proved!FrameEnd, Machine!TempsFrom, Proved!TempsFrom,
                    Machine!Pending, Proved!Pending
<1>6. \A k, o : Machine!Takes(k, o) = Proved!Takes(k, o)
  BY DEF Machine!Byte, Proved!Byte, Machine!OpCode, Proved!OpCode, Machine!Takes, Proved!Takes,
         Machine!Callee, Proved!Callee, Machine!Unary, Proved!Unary, Machine!Binary,
         Proved!Binary, Machine!ReadOperand, Proved!ReadOperand
<1>7. Machine!FramesAreContiguous <=> Proved!FramesAreContiguous
  BY <1>3, <1>4, <1>5 DEF Machine!FramesAreContiguous, Proved!FramesAreContiguous
<1>8. Machine!FramesRunTheirOwnCode <=> Proved!FramesRunTheirOwnCode
  BY <1>3, <1>4 DEF Machine!FramesRunTheirOwnCode, Proved!FramesRunTheirOwnCode
<1>9. Machine!OperandsAreTemporaries <=> Proved!OperandsAreTemporaries
  BY <1>3, <1>4, <1>6 DEF Machine!OperandsAreTemporaries, Proved!OperandsAreTemporaries
<1>10. /\ Machine!StackWithinCap <=> Proved!StackWithinCap
       /\ Machine!DepthWithinLimit <=> Proved!DepthWithinLimit
  BY DEF Machine!StackWithinCap, Proved!StackWithinCap, Machine!DepthWithinLimit,
         Proved!DepthWithinLimit
<1>11. QED
  BY ONLY <1>7, <1>8, <1>9, <1>10

LEMMA StartIsSafeHere == AtStart => Proved!Safe
BY SameTyping, Proved!StartIsSafe, MaxIntAssumption, PipelineAssumption, LimitsAssumption
   DEF AtStart, PipelineAssumption

-----------------------------------------------------------------------------

(* The VM has not begun, or keeps what VmProofs proves. *)
VmInvariant ==
    /\ stage # "run" => /\ vmFrames = <<[returnIP |-> 0, slotBase |-> 0]>>
                        /\ ip = 0 /\ vmOut = <<>>
    /\ stage = "run" /\ compiled = Finished => Proved!Safe

VmGoesOn ==
    /\ stage # "run" => /\ vmFrames = <<[returnIP |-> 0, slotBase |-> 0]>>
                        /\ ip = 0 /\ vmOut = <<>>
    /\ stage = "run" /\ compiled = Finished => AtStart \/ Proved!Safe

LEMMA VmKeeps ==
    ASSUME TypingInvariant, VmInvariant, [Next]_vars
    PROVE  VmGoesOn'
<1>0. Running # Finished /\ Running' = Running /\ Finished' = Finished /\ ~Failed(Finished)
  BY DEF Running, Finished, Verdict, NoSpan, MakeSpan, Failed
<1>1. CASE Parse \/ StartResolve \/ Resolve \/ StartCompile \/ Compile
  <2>1. /\ stage # "run" /\ stage' # "run"
        /\ vmFrames' = vmFrames /\ ip' = ip /\ vmOut' = vmOut
    BY <1>1 DEF Parse, StartResolve, Resolve, StartCompile, Compile, vmState
  <2>2. QED
    BY <2>1 DEF VmInvariant, VmGoesOn
<1>2. CASE StartRun
  <2>1. /\ stage = "compile" /\ stage' = "run" /\ chunk' = chunk /\ compiled' = compiled
        /\ stack' = V!Zeros(programFrameSize)
        /\ vmVerdict' = (IF Failed(compiled) THEN compiled ELSE Running)
        /\ vmFrames' = vmFrames /\ ip' = ip /\ vmOut' = vmOut
    BY <1>2 DEF StartRun, compilerState
  <2>2. SUFFICES ASSUME compiled = Finished
                 PROVE  AtStart'
    BY <1>0, <2>1 DEF VmGoesOn
  <2>3. ChunkIsTyped(chunk) /\ chunk.programFrameSize = programFrameSize
    BY <2>1, <2>2 DEF TypingInvariant
  <2>4. T!WellTyped(chunk, T!Heights(chunk), T!Owners(chunk))
    BY <2>3, TypedIsWellTyped
  <2>5. T!WellTyped(chunk, T!Heights(chunk), T!Owners(chunk))'
    BY <2>1, <2>4
  <2>6. Proved!Start(chunk)'
    <3>1. vmFrames' = <<[returnIP |-> 0, slotBase |-> 0]>> /\ ip' = 0 /\ vmOut' = <<>>
      BY <2>1 DEF VmInvariant
    <3>2. vmVerdict' = Running
      BY ONLY <1>0, <2>1, <2>2
    <3>3. vmVerdict' = Proved!Running
      BY ONLY <3>2 DEF Running, Verdict, NoSpan, MakeSpan,
             Proved!Running, Proved!Verdict, Proved!NoSpan, Proved!MakeSpan
    <3>4. stack' = Proved!Zeros(chunk'.programFrameSize)
      BY <2>1, <2>3, SameState
    <3>5. QED
      BY <3>1, <3>3, <3>4 DEF Proved!Start
  <2>7. QED
    BY <2>5, <2>6 DEF AtStart
<1>3. CASE TreeStep \/ VmStep \/ UNCHANGED vars
  <2>1. stage' = stage /\ chunk' = chunk /\ compiled' = compiled
    BY <1>3, VmReadsTheChunk DEF TreeStep, VmStep, vars, compilerState
  <2>2. CASE stage = "run" /\ compiled = Finished
    <3>1. [Proved!Next]_Proved!vars
      BY <1>3, SameNext DEF TreeStep, VmStep, vars, vmState, compilerState, Proved!vars
    <3>2. Proved!Safe'
      BY <2>2, <3>1, ProvedKeeps DEF VmInvariant
    <3>3. QED
      BY <2>1, <2>2, <3>2 DEF VmGoesOn
  <2>3. CASE ~(stage = "run" /\ compiled = Finished)
    <3>1. /\ stage # "run" => vmFrames' = vmFrames /\ ip' = ip /\ vmOut' = vmOut
      BY <1>3 DEF TreeStep, VmStep, vars, vmState
    <3>2. QED
      BY <1>0, <2>1, <2>3, <3>1 DEF VmInvariant, VmGoesOn
  <2>4. QED
    BY <2>2, <2>3
<1>4. QED
  BY <1>1, <1>2, <1>3 DEF Next

(* From source to VM: whatever the tokens, if they parse, resolve and compile, the
   run of the compiled code on src/src/vm.cpp keeps its frames end to end on the
   stack, takes no operand from below its own temporaries and passes no limit. *)
THEOREM ProgramsKeepTheirFrames == Spec => []CompiledProgramsKeepTheirFrames
<1>1. Init => VmInvariant
  BY DEF Init, VmInvariant
<1>2. TypingInvariant /\ VmInvariant /\ [Next]_vars => VmGoesOn'
  BY VmKeeps
<1>3. VmGoesOn => VmInvariant
  BY StartIsSafeHere DEF VmGoesOn, VmInvariant
<1>4. VmInvariant => CompiledProgramsKeepTheirFrames
  <2>1. Proved!Safe => Proved!OperandsAreTemporaries
    BY Proved!SafeOperands, MaxIntAssumption, PipelineAssumption, LimitsAssumption
       DEF PipelineAssumption
  <2>2. QED
    BY <2>1, SameFrames DEF VmInvariant, Proved!Safe, CompiledProgramsKeepTheirFrames
<1>5. QED
  BY <1>1, <1>2, <1>3, <1>4, TypingHolds, PTL DEF Spec
=============================================================================
