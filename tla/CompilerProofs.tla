---------------------------- MODULE CompilerProofs ----------------------------
(***************************************************************************)
(* The compiler's code, for every source (src/src/compiler.cpp): what it   *)
(* has emitted stays, every jump gets its target, and every constant is    *)
(* read by one CONST.  Each handler keeps the invariant of CodeProofs.     *)
(***************************************************************************)
EXTENDS CodeProofs, ResolverProofs

(* Items of a part of the code that others of the same part follow. *)
PlainItem(item) ==
    item \in CompilerItem /\ Compilable(item) /\ Waits(item) /\ ~Patches(item) /\ ~Loops(item)

PlainItems(items) ==
    items \in Seq(CompilerItem) /\ \A i \in 1 .. Len(items) : PlainItem(items[i])

LEMMA NonePlain == PlainItems(<<>>) /\ Len(<<>>) = 0
<1> DEFINE none == <<>>
<1>1. none \in Seq(CompilerItem) /\ Len(none) = 0
  OBVIOUS
<1> HIDE DEF none
<1>2. PlainItems(none)
  BY <1>1 DEF PlainItems
<1>3. QED
  BY <1>1, <1>2 DEF none

LEMMA PairPlain ==
    ASSUME NEW x, NEW y, PlainItem(x), PlainItem(y)
    PROVE  PlainItems(<<x, y>>)
<1> DEFINE pair == <<x, y>>
<1>1. x \in CompilerItem /\ y \in CompilerItem
  BY DEF PlainItem
<1>2. pair \in Seq(CompilerItem) /\ Len(pair) = 2 /\ pair[1] = x /\ pair[2] = y
  BY <1>1
<1> HIDE DEF pair
<1>3. \A i \in 1 .. Len(pair) : pair[i] = x \/ pair[i] = y
  BY <1>2
<1>4. PlainItems(pair)
  BY <1>2, <1>3 DEF PlainItems
<1>5. QED
  BY <1>4 DEF pair

LEMMA AppendPlain ==
    ASSUME NEW items, PlainItems(items), NEW x, PlainItem(x)
    PROVE  PlainItems(Append(items, x))
<1>1. items \in Seq(CompilerItem) /\ x \in CompilerItem /\ Len(items) \in Nat
  BY LenProperties DEF PlainItems, PlainItem
<1> DEFINE all == Append(items, x)
<1>2. /\ all \in Seq(CompilerItem) /\ Len(all) = Len(items) + 1 /\ all[Len(items) + 1] = x
      /\ \A i \in 1 .. Len(items) : all[i] = items[i]
  BY <1>1, AppendProperties
<1> HIDE DEF all
<1>3. ASSUME NEW i \in 1 .. Len(all)
      PROVE  PlainItem(all[i])
  <2>1. i \in 1 .. Len(items) \/ i = Len(items) + 1
    BY <1>1, <1>2
  <2>2. QED
    BY <1>2, <2>1 DEF PlainItems
<1>4. PlainItems(all)
  BY <1>2, <1>3 DEF PlainItems
<1>5. QED
  BY <1>4 DEF all

LEMMA JoinPlain ==
    ASSUME NEW items, NEW others, PlainItems(items), PlainItems(others)
    PROVE  PlainItems(items \o others)
<1>1. /\ items \in Seq(CompilerItem) /\ others \in Seq(CompilerItem)
      /\ Len(items) \in Nat /\ Len(others) \in Nat
  BY LenProperties DEF PlainItems
<1> DEFINE all == items \o others
<1>2. /\ all \in Seq(CompilerItem) /\ Len(all) = Len(items) + Len(others)
      /\ \A i \in 1 .. Len(items) + Len(others) :
             all[i] = IF i <= Len(items) THEN items[i] ELSE others[i - Len(items)]
  BY <1>1, ConcatProperties
<1> HIDE DEF all
<1>3. ASSUME NEW i \in 1 .. Len(all)
      PROVE  PlainItem(all[i])
  <2>1. \/ i \in 1 .. Len(items) /\ all[i] = items[i]
        \/ i - Len(items) \in 1 .. Len(others) /\ all[i] = others[i - Len(items)]
    BY <1>1, <1>2
  <2>2. QED
    BY <2>1 DEF PlainItems
<1>4. PlainItems(all)
  BY <1>2, <1>3 DEF PlainItems
<1>5. QED
  BY <1>4 DEF all

HasFields(item, do, node, at, header) ==
    /\ item \in CompilerItem /\ item.do = do /\ item.node = node
    /\ item.at = at /\ item.header = header

LEMMA JumpItemFields ==
    ASSUME NEW do \in CompilerWalks, NEW node \in Nat, NEW at \in Nat, NEW header \in Nat
    PROVE  HasFields(C!JumpItem(do, node, at, header), do, node, at, header)
BY DEF C!JumpItem, CompilerItem, HasFields

LEMMA ItemFields ==
    /\ \A do \in CompilerWalks : \A node \in Nat :
           /\ C!Item(do, node) \in CompilerItem
           /\ C!Item(do, node).do = do /\ C!Item(do, node).node = node
    /\ \A op \in PlainOps : \A node \in Nat :
           /\ C!EmitItem(op, node) \in CompilerItem
           /\ C!EmitItem(op, node).do = "emit" /\ C!EmitItem(op, node).op = op
<1>2. ASSUME NEW do \in CompilerWalks, NEW node \in Nat
      PROVE  /\ C!Item(do, node) \in CompilerItem
             /\ C!Item(do, node).do = do /\ C!Item(do, node).node = node
  <2>1. 0 \in Nat
    OBVIOUS
  <2>2. HasFields(C!JumpItem(do, node, 0, 0), do, node, 0, 0)
    BY <2>1, JumpItemFields
  <2>3. QED
    BY <2>2 DEF C!Item, HasFields
<1>3. ASSUME NEW op \in PlainOps, NEW node \in Nat
      PROVE  /\ C!EmitItem(op, node) \in CompilerItem
             /\ C!EmitItem(op, node).do = "emit" /\ C!EmitItem(op, node).op = op
  <2> DEFINE item == C!Item("emit", node)
  <2>1. item \in CompilerItem /\ item.do = "emit"
    <3>1. "emit" \in CompilerWalks
      BY DEF CompilerWalks
    <3>2. QED
      BY <1>2, <3>1
  <2>2. C!EmitItem(op, node) = [item EXCEPT !.op = op]
    BY DEF C!EmitItem
  <2> HIDE DEF item
  <2>3. QED
    BY <2>1, <2>2 DEF CompilerItem
<1>4. QED
  BY <1>2, <1>3

(* The plain items the handlers put into the walk. *)
LEMMA PlainItemsAre ==
    ASSUME TreesAreSound
    PROVE
    /\ \A node \in 1 .. Len(nodes) :
           KindOf(nodes[node].type) = "E" => PlainItem(C!Item("expression", node))
    /\ \A node \in 1 .. Len(nodes) :
           KindOf(nodes[node].type) # "E" => PlainItem(C!Item("statement", node))
    /\ \A op \in PlainOps : \A node \in Nat : PlainItem(C!EmitItem(op, node))
    /\ \A do \in {"call", "store", "zero"} : \A node \in Nat : PlainItem(C!Item(do, node))
    /\ \A node \in 1 .. Len(nodes) :
           nodes[node].type = "If" => PlainItem(C!Item("then", node))
<1>1. ASSUME NEW node \in 1 .. Len(nodes), NEW do \in {"expression", "statement", "then"},
             do = "expression" => KindOf(nodes[node].type) = "E",
             do = "statement" => KindOf(nodes[node].type) # "E",
             do = "then" => nodes[node].type = "If"
      PROVE  PlainItem(C!Item(do, node))
  <2> DEFINE item == C!Item(do, node)
  <2>1. item \in CompilerItem /\ item.do = do /\ item.node = node
    <3>1. do \in CompilerWalks
      BY DEF CompilerWalks
    <3>2. node \in Nat
      BY LenProperties DEF TreesAreSound
    <3>3. QED
      BY <3>1, <3>2, ItemFields
  <2> HIDE DEF item
  <2>2. Compilable(item)
    BY <1>1, <2>1 DEF Compilable, IsNode
  <2>3. Waits(item) /\ ~Patches(item) /\ ~Loops(item)
    BY <2>1 DEF Waits, Patches, Loops
  <2>4. PlainItem(item)
    BY <2>1, <2>2, <2>3 DEF PlainItem
  <2>5. QED
    BY <2>4 DEF item
<1>2. ASSUME NEW op \in PlainOps, NEW node \in Nat
      PROVE  PlainItem(C!EmitItem(op, node))
  <2> DEFINE item == C!EmitItem(op, node)
  <2>1. item \in CompilerItem /\ item.do = "emit" /\ item.op = op
    BY ItemFields
  <2> HIDE DEF item
  <2>2. PlainItem(item)
    BY <2>1 DEF PlainItem, Compilable, Waits, Patches, Loops
  <2>3. QED
    BY <2>2 DEF item
<1>3. ASSUME NEW do \in {"call", "store", "zero"}, NEW node \in Nat
      PROVE  PlainItem(C!Item(do, node))
  <2> DEFINE item == C!Item(do, node)
  <2>1. item \in CompilerItem /\ item.do = do
    <3>1. do \in CompilerWalks
      BY DEF CompilerWalks
    <3>2. QED
      BY <3>1, ItemFields
  <2> HIDE DEF item
  <2>2. PlainItem(item)
    BY <2>1 DEF PlainItem, Compilable, Waits, Patches, Loops
  <2>3. QED
    BY <2>2 DEF item
<1>4. \A node \in 1 .. Len(nodes) : nodes[node].type = "If" => PlainItem(C!Item("then", node))
  BY <1>1
<1>5. \A node \in 1 .. Len(nodes) :
          KindOf(nodes[node].type) = "E" => PlainItem(C!Item("expression", node))
  BY <1>1
<1>6. \A node \in 1 .. Len(nodes) :
          KindOf(nodes[node].type) # "E" => PlainItem(C!Item("statement", node))
  BY <1>1
<1>7. QED
  BY <1>2, <1>3, <1>4, <1>5, <1>6

LEMMA CompilerItemsPlain ==
    ASSUME TreesAreSound, NEW do \in {"expression", "statement"}, NEW ids \in Seq(Nat),
           \A i \in 1 .. Len(ids) :
               IsNode(ids[i]) /\ (KindOf(nodes[ids[i]].type) = "E" <=> do = "expression")
    PROVE  PlainItems(C!Items(do, ids))
<1> DEFINE E(i) == C!Item(do, ids[i])
           all == [i \in 1 .. Len(ids) |-> E(i)]
<1>1. DOMAIN ids = 1 .. Len(ids) /\ Len(ids) \in Nat
  BY LenProperties
<1>2. C!Items(do, ids) = all
  BY <1>1 DEF C!Items
<1>3. ASSUME NEW i \in 1 .. Len(ids)
      PROVE  PlainItem(E(i))
  <2>1. ids[i] \in 1 .. Len(nodes) /\ (KindOf(nodes[ids[i]].type) = "E" <=> do = "expression")
    BY DEF IsNode
  <2>2. QED
    BY <2>1, PlainItemsAre
<1> HIDE DEF E
<1>4. \A i \in 1 .. Len(ids) : E(i) \in CompilerItem
  BY <1>3 DEF PlainItem
<1>5. all \in Seq(CompilerItem)
  BY <1>1, <1>4, IsASeq
<1>6. Len(all) = Len(ids) /\ \A i \in 1 .. Len(ids) : all[i] = E(i)
  BY <1>1
<1> HIDE DEF all
<1>7. PlainItems(all)
  BY <1>3, <1>5, <1>6 DEF PlainItems
<1>8. QED
  BY <1>2, <1>7

(* The children of a node, as the items that compile them. *)
LEMMA PlainKids ==
    ASSUME TreesAreSound, NEW n \in 1 .. Len(nodes)
    PROVE  /\ nodes[n].type \in ExpressionTypes => PlainItems(C!Items("expression", nodes[n].kids))
           /\ nodes[n].type = "Block" => PlainItems(C!Items("statement", nodes[n].kids))
<1> DEFINE ids == nodes[n].kids
           e == "expression"
           s == "statement"
<1>1. /\ ids \in Seq(Nat)
      /\ \A i \in 1 .. Len(ids) :
             IsNode(ids[i]) /\ KindOf(nodes[ids[i]].type) = KidKind(nodes[n].type, i)
  BY KidFacts
<1>2. /\ \A type \in ExpressionTypes : \A i : KidKind(type, i) = "E"
      /\ \A i : KidKind("Block", i) = "S"
  BY DEF KidKind, ExpressionTypes
<1>3. e \in {"expression", "statement"} /\ s \in {"expression", "statement"}
      /\ e = "expression" /\ s # "expression" /\ "S" # "E"
  OBVIOUS
<1> HIDE DEF ids, e, s
<1>4. ASSUME nodes[n].type \in ExpressionTypes
      PROVE  PlainItems(C!Items(e, ids))
  BY <1>1, <1>2, <1>3, <1>4, CompilerItemsPlain
<1>5. ASSUME nodes[n].type = "Block"
      PROVE  PlainItems(C!Items(s, ids))
  BY <1>1, <1>2, <1>3, <1>5, CompilerItemsPlain
<1>6. QED
  BY <1>4, <1>5 DEF e, s, ids

-----------------------------------------------------------------------------

LEMMA CompilerVisits ==
    ASSUME CompilerInvariant, NEW do, C!Visiting(do)
    PROVE  /\ work # <<>> /\ Head(work) \in CompilerItem /\ Compilable(Head(work))
           /\ Head(work).do = do /\ Head(work).node \in Nat /\ Head(work).at \in Nat
           /\ Head(work).header \in Nat /\ C!Here = Head(work).node /\ C!This = nodes[C!Here]
           /\ Head(work) = work[1] /\ 1 \in 1 .. Len(work)
<1>1. work # <<>> /\ Head(work).do = do
  BY DEF C!Visiting
<1>2. work \in Seq(CompilerItem) /\ \A i \in 1 .. Len(work) : Compilable(work[i])
  BY DEF CompilerInvariant, WalkIsSound
<1>3. Head(work) = work[1] /\ 1 \in 1 .. Len(work) /\ Head(work) \in CompilerItem
  BY <1>1, <1>2, HeadTailProperties, EmptySeq, LenProperties
<1>4. Head(work).node \in Nat /\ Head(work).at \in Nat /\ Head(work).header \in Nat
  BY <1>3 DEF CompilerItem
<1>5. QED
  BY <1>1, <1>2, <1>3, <1>4 DEF C!Here, C!This

LEMMA PlainFollow ==
    ASSUME NEW items, PlainItems(items), work # <<>>, work' = items \o Tail(work),
           Len(items) = 0 \/ Waits(Head(work))
    PROVE  /\ Replaces(items)
           /\ \A i \in 1 .. Len(items) : ~Patches(items[i]) /\ ~Loops(items[i])
<1>1. items \in Seq(CompilerItem) /\ \A i \in 1 .. Len(items) : PlainItem(items[i])
  BY DEF PlainItems
<1>2. ASSUME NEW i \in 1 .. Len(items)
      PROVE  /\ Compilable(items[i]) /\ Waits(Head(work)) /\ ~Ends(items[i])
             /\ ~Patches(items[i]) /\ ~Loops(items[i])
  <2>1. PlainItem(items[i])
    BY <1>1
  <2>2. Waits(Head(work))
    OBVIOUS
  <2>3. QED
    BY <2>1, <2>2 DEF PlainItem, Waits, Ends
<1>3. QED
  BY <1>1, <1>2 DEF Replaces

LEMMA ErrorKeeps ==
    ASSUME CompilerInvariant, nodes' = nodes, NEW span, NEW message, C!Fail(span, message)
    PROVE  CompilerInvariant' /\ OnlyHolesChange
<1>1. chunk' = chunk /\ work' = work
  BY DEF C!Fail
<1>2. WalkIsSound'
  BY <1>1 DEF CompilerInvariant, WalkIsSound, Compilable, IsNode
<1>3. CodeIsSound'
  BY <1>1 DEF CompilerInvariant, CodeIsSound, IsAwaited, HasTarget
<1>4. OnlyHolesChange
  <2>1. Len(chunk.code) \in Nat
    BY ChunkFields DEF CompilerInvariant, CodeIsSound
  <2>2. QED
    BY <1>1, <2>1 DEF OnlyHolesChange
<1>5. QED
  BY <1>2, <1>3, <1>4 DEF CompilerInvariant

LEMMA PlainVisitKeeps ==
    ASSUME CompilerInvariant, nodes' = nodes, work # <<>>,
           NEW items, PlainItems(items), C!Visit(items), Len(items) = 0 \/ Waits(Head(work)),
           ~Patches(Head(work)), ~Closes(Head(work))
    PROVE  CompilerInvariant' /\ OnlyHolesChange
<1>1. work' = items \o Tail(work) /\ chunk' = chunk
  BY DEF C!Visit, C!Become
<1>2. Replaces(items) /\ \A i \in 1 .. Len(items) : ~Patches(items[i]) /\ ~Loops(items[i])
  BY <1>1, PlainFollow
<1>3. IsChunk(chunk') /\ chunk'.code = chunk.code /\ chunk'.spans = chunk.spans
      /\ chunk'.constants = chunk.constants
  BY <1>1 DEF CompilerInvariant, CodeIsSound
<1>4. QED
  BY <1>2, <1>3, QuietKeeps

(* An instruction that is not a jump, and nothing more to walk. *)
LEMMA PlainEmitKeeps ==
    ASSUME CompilerInvariant, nodes' = nodes, work # <<>>,
           NEW onto, NEW op, NEW operand, NEW span, NEW text,
           C!EmitOnto(onto, op, operand, span, text, <<>>),
           op \notin JumpOps, ~Patches(Head(work)),
           \/ onto = chunk /\ op # 0
           \/ /\ op = 0 /\ operand = Len(chunk.constants) /\ operand <= MaxOperand
              /\ \E value : onto = C!AddConstant(chunk, value)
    PROVE  CompilerInvariant' /\ OnlyHolesChange
<1> DEFINE none == <<>>
<1>1. CASE C!HasRoom(onto, op)
  <2>1. chunk' = C!Emit(onto, op, operand, span, text) /\ work' = none \o Tail(work)
    BY <1>1 DEF C!EmitOnto, C!Become
  <2>2. PlainItems(none) /\ Len(none) = 0
    BY NonePlain
  <2> HIDE DEF none
  <2>3. Replaces(none) /\ \A i \in 1 .. Len(none) : ~Patches(none[i]) /\ ~Loops(none[i])
    BY <2>1, <2>2, PlainFollow
  <2>4. QED
    BY <1>1, <2>1, <2>3, EmitKeeps
<1>2. CASE ~C!HasRoom(onto, op)
  <2>1. C!Fail(span, <<"program too large for one chunk">>)
    BY <1>2 DEF C!EmitOnto
  <2>2. QED
    BY <2>1, ErrorKeeps
<1>3. QED
  BY <1>1, <1>2

LEMMA ConstantKeeps ==
    ASSUME CompilerInvariant, nodes' = nodes, work # <<>>, ~Patches(Head(work)),
           NEW value, NEW span, C!EmitConstant(value, span, <<>>)
    PROVE  CompilerInvariant' /\ OnlyHolesChange
<1>1. CASE C!PoolFull(chunk)
  BY <1>1, ErrorKeeps DEF C!EmitConstant
<1>2. CASE ~C!PoolFull(chunk)
  <2> DEFINE onto == C!AddConstant(chunk, value)
             op == C!OpCode.CONST
             operand == Len(chunk.constants)
             text == C!NoText
  <2>1. C!EmitOnto(onto, op, operand, span, text, <<>>)
    BY <1>2 DEF C!EmitConstant
  <2>2. op = 0 /\ op \notin JumpOps
    BY OpCodesAre DEF JumpOps
  <2>3. operand <= MaxOperand
    <3>1. operand \in Nat
      BY ChunkFields DEF CompilerInvariant, CodeIsSound
    <3>2. QED
      BY <1>2, <3>1, PipelineAssumption DEF C!PoolFull
  <2>4. (\E v : onto = C!AddConstant(chunk, v)) /\ operand = Len(chunk.constants)
    OBVIOUS
  <2> HIDE DEF onto, op, operand, text
  <2>5. QED
    BY <2>1, <2>2, <2>3, <2>4, PlainEmitKeeps
<1>3. QED
  BY <1>1, <1>2

LEMMA SlotKeeps ==
    ASSUME CompilerInvariant, nodes' = nodes, work # <<>>, ~Patches(Head(work)),
           NEW op \in {1, 2}, NEW slot, NEW span, C!EmitSlot(op, slot, span)
    PROVE  CompilerInvariant' /\ OnlyHolesChange
<1>1. CASE slot < 0 \/ slot > MaxOperand
  BY <1>1, ErrorKeeps DEF C!EmitSlot
<1>2. CASE ~(slot < 0 \/ slot > MaxOperand)
  <2> DEFINE text == C!NoText
  <2>1. C!EmitOnto(chunk, op, slot, span, text, <<>>)
    BY <1>2 DEF C!EmitSlot, C!EmitHere
  <2>2. op # 0 /\ op \notin JumpOps
    BY DEF JumpOps
  <2> HIDE DEF text
  <2>3. QED
    BY <2>1, <2>2, PlainEmitKeeps
<1>3. QED
  BY <1>1, <1>2

LEMMA PlainOpKeeps ==
    ASSUME CompilerInvariant, nodes' = nodes, work # <<>>, ~Patches(Head(work)),
           NEW op, op \notin JumpOps, op # 0, NEW operand, NEW span, NEW text,
           C!EmitHere(op, operand, span, text, <<>>)
    PROVE  CompilerInvariant' /\ OnlyHolesChange
<1>1. C!EmitOnto(chunk, op, operand, span, text, <<>>)
  BY DEF C!EmitHere
<1>2. QED
  BY <1>1, PlainEmitKeeps

-----------------------------------------------------------------------------

(* The children the handlers of single nodes visit. *)
LEMMA KidsVisited ==
    ASSUME TreesAreSound, NEW n \in 1 .. Len(nodes)
    PROVE  /\ nodes[n].type \in {"Print", "Assign"} =>
                  /\ nodes[n].kids[1] \in 1 .. Len(nodes)
                  /\ KindOf(nodes[nodes[n].kids[1]].type) = "E"
           /\ nodes[n].type = "Return" /\ nodes[n].kids # <<>> =>
                  /\ nodes[n].kids[1] \in 1 .. Len(nodes)
                  /\ KindOf(nodes[nodes[n].kids[1]].type) = "E"
           /\ nodes[n].type \in {"If", "While"} =>
                  /\ nodes[n].kids[1] \in 1 .. Len(nodes)
                  /\ KindOf(nodes[nodes[n].kids[1]].type) = "E"
                  /\ nodes[n].kids[2] \in 1 .. Len(nodes)
                  /\ KindOf(nodes[nodes[n].kids[2]].type) # "E"
           /\ nodes[n].type = "If" /\ HasElse(nodes[n]) =>
                  /\ nodes[n].kids[3] \in 1 .. Len(nodes)
                  /\ KindOf(nodes[nodes[n].kids[3]].type) # "E"
           /\ nodes[n].type = "Function" =>
                  /\ nodes[n].kids[1] \in 1 .. Len(nodes)
                  /\ KindOf(nodes[nodes[n].kids[1]].type) # "E"
<1> DEFINE kids == nodes[n].kids
           type == nodes[n].type
<1>1. /\ kids \in Seq(Nat) /\ Len(kids) \in KidCounts(type)
      /\ \A i \in 1 .. Len(kids) :
             kids[i] \in 1 .. Len(nodes) /\ KindOf(nodes[kids[i]].type) = KidKind(type, i)
  BY KidFacts DEF IsNode
<1> HIDE DEF kids, type
<1>2. /\ type \in {"Print", "Assign", "Function"} => Len(kids) = 1
      /\ type = "Return" => Len(kids) \in {0, 1}
      /\ type \in {"If", "While"} => Len(kids) \in {2, 3}
  BY <1>1 DEF KidCounts
<1>3. type = "Return" /\ kids # <<>> => Len(kids) = 1
  BY <1>1, <1>2, EmptySeq
<1>4. type \in {"Print", "Assign", "Return"} => KidKind(type, 1) = "E"
  BY DEF KidKind
<1>5. type \in {"If", "While"} =>
          KidKind(type, 1) = "E" /\ KidKind(type, 2) = "S" /\ KidKind(type, 3) = "S"
  BY DEF KidKind
<1>6. type = "Function" => KidKind(type, 1) = "S"
  BY DEF KidKind
<1>7. /\ type \in {"Print", "Assign"} =>
             kids[1] \in 1 .. Len(nodes) /\ KindOf(nodes[kids[1]].type) = "E"
      /\ type = "Return" /\ kids # <<>> =>
             kids[1] \in 1 .. Len(nodes) /\ KindOf(nodes[kids[1]].type) = "E"
  BY <1>1, <1>2, <1>3, <1>4
<1>8. type \in {"If", "While"} =>
             /\ kids[1] \in 1 .. Len(nodes) /\ KindOf(nodes[kids[1]].type) = "E"
             /\ kids[2] \in 1 .. Len(nodes) /\ KindOf(nodes[kids[2]].type) # "E"
  <2>1. ASSUME Len(kids) \in {2, 3}
        PROVE  1 \in 1 .. Len(kids) /\ 2 \in 1 .. Len(kids)
    BY <2>1, SMTT(30)
  <2>2. QED
    BY <1>1, <1>2, <1>5, <2>1
<1>9. type = "If" /\ Len(kids) = 3 =>
             kids[3] \in 1 .. Len(nodes) /\ KindOf(nodes[kids[3]].type) # "E"
  BY <1>1, <1>5
<1>10. type = "Function" =>
             kids[1] \in 1 .. Len(nodes) /\ KindOf(nodes[kids[1]].type) # "E"
  <2>1. SUFFICES ASSUME type = "Function"
                 PROVE  kids[1] \in 1 .. Len(nodes) /\ KindOf(nodes[kids[1]].type) # "E"
    OBVIOUS
  <2>2. Len(kids) = 1 /\ KidKind(type, 1) = "S"
    BY <1>2, <1>6, <2>1
  <2>3. 1 \in 1 .. Len(kids)
    BY <2>2
  <2>4. QED
    BY <1>1, <2>2, <2>3
<1>11. QED
  BY <1>7, <1>8, <1>9, <1>10 DEF kids, type, HasElse

(* Two items, the second of which may remember a jump or the head of a loop. *)
LEMMA PairFollows ==
    ASSUME NEW items \in Seq(CompilerItem), Len(items) = 2, PlainItem(items[1]),
           Compilable(items[2]), Waits(items[2]),
           Patches(items[2]) => items[2].at = Len(chunk.code),
           work # <<>>, Waits(Head(work)), work' = items \o Tail(work)
    PROVE  /\ Replaces(items)
           /\ 2 \in 1 .. Len(items)
           /\ \A i \in 1 .. Len(items) : i = 1 \/ i = 2
<1>1. Compilable(items[1]) /\ Waits(items[1]) /\ ~Patches(items[1]) /\ ~Loops(items[1])
  BY DEF PlainItem
<1>2. 2 \in 1 .. Len(items) /\ \A i \in 1 .. Len(items) : i = 1 \/ i = 2
  OBVIOUS
<1>3. ~Ends(items[1]) /\ ~Ends(items[2])
  BY <1>1 DEF Waits, Ends
<1>4. \A i, j \in 1 .. Len(items) : Patches(items[i]) /\ Patches(items[j]) => i = j
  BY <1>1, <1>2
<1>5. Replaces(items)
  BY <1>1, <1>2, <1>3, <1>4 DEF Replaces
<1>6. QED
  BY <1>2, <1>5

(* A JUMP_IF_FALSE to be patched, the branch it skips, and the item that will. *)
LEMMA ConditionKeeps ==
    ASSUME CompilerInvariant, nodes' = nodes, work # <<>>, Waits(Head(work)),
           ~Patches(Head(work)),
           NEW x, NEW y, PlainItem(x), y \in CompilerItem, Compilable(y), Waits(y), Patches(y),
           y.at = Len(chunk.code), Loops(y) => y.header <= Len(chunk.code),
           NEW span, NEW text,
           C!EmitHere(C!OpCode.JUMP_IF_FALSE, C!Placeholder, span, text, <<x, y>>)
    PROVE  CompilerInvariant' /\ OnlyHolesChange
<1> DEFINE items == <<x, y>>
           op == C!OpCode.JUMP_IF_FALSE
           operand == C!Placeholder
<1>0. C!EmitOnto(chunk, op, operand, span, text, items)
  BY DEF C!EmitHere
<1>1. op \in JumpOps /\ op # 0 /\ operand = MaxOperand
  BY OpCodesAre DEF JumpOps, C!Placeholder
<1>2. items \in Seq(CompilerItem) /\ Len(items) = 2 /\ items[1] = x /\ items[2] = y
  BY DEF PlainItem
<1> HIDE DEF items, op, operand
<1>3. CASE C!HasRoom(chunk, op)
  <2>1. /\ chunk' = C!Emit(chunk, op, operand, span, text)
        /\ work' = items \o Tail(work)
    BY <1>0, <1>3 DEF C!EmitOnto, C!Become
  <2>2. /\ Replaces(items)
        /\ 2 \in 1 .. Len(items)
        /\ \A i \in 1 .. Len(items) : i = 1 \/ i = 2
    BY <1>2, <2>1, PairFollows
  <2>3. /\ \A i \in 1 .. Len(items) : Loops(items[i]) => items[i].header <= Len(chunk.code)
        /\ \E i \in 1 .. Len(items) : Patches(items[i])
    BY <1>2, <2>2 DEF PlainItem
  <2>4. QED
    BY <1>1, <1>3, <2>1, <2>2, <2>3, EmitKeeps
<1>4. CASE ~C!HasRoom(chunk, op)
  <2>1. C!Fail(span, <<"program too large for one chunk">>)
    BY <1>0, <1>4 DEF C!EmitOnto
  <2>2. QED
    BY <2>1, ErrorKeeps
<1>5. QED
  BY <1>3, <1>4

(* A chunk with other tables. *)
LEMMA TablesChange ==
    ASSUME NEW k, IsChunk(k), NEW F, NEW N,
           NEW m \in [code : {k.code}, constants : {k.constants}, spans : {k.spans},
                      functions : F, programFrameSize : N]
    PROVE  IsChunk(m) /\ m.code = k.code /\ m.spans = k.spans /\ m.constants = k.constants
<1> DEFINE code == k.code
           constants == k.constants
           spans == k.spans
<1>1. PICK B : code \in Seq(B)
  BY ChunkFields
<1>2. PICK V1 : constants \in Seq(V1)
  BY ChunkFields
<1>3. PICK E : spans \in Seq(E)
  BY ChunkFields
<1>4. m \in [code : {code}, constants : {constants}, spans : {spans},
             functions : F, programFrameSize : N]
  OBVIOUS
<1> HIDE DEF code, constants, spans
<1>5. IsChunk(m) /\ m.code = code /\ m.constants = constants /\ m.spans = spans
  BY <1>1, <1>2, <1>3, <1>4, ChunkMade
<1>6. QED
  BY <1>5 DEF code, constants, spans

LEMMA DeclareFunctionsKeeps ==
    ASSUME CompilerInvariant, TreesAreSound, nodes' = nodes, C!DeclareFunctions
    PROVE  CompilerInvariant' /\ OnlyHolesChange
<1>1. C!Visiting("declare")
  BY DEF C!DeclareFunctions
<1>2. work # <<>> /\ Head(work).do = "declare"
  BY <1>1, CompilerVisits
<1>3. \/ \E span, message : C!Fail(span, message)
      \/ \E size, table : /\ chunk' = [chunk EXCEPT !.programFrameSize = size,
                                                    !.functions = table]
                          /\ C!Become(<<>>)
  BY DEF C!DeclareFunctions
<1>4. CASE \E span, message : C!Fail(span, message)
  BY <1>4, ErrorKeeps
<1>5. CASE \E size, table : /\ chunk' = [chunk EXCEPT !.programFrameSize = size,
                                                      !.functions = table]
                            /\ C!Become(<<>>)
  <2> DEFINE none == <<>>
  <2>1. PICK size, table : /\ chunk' = [chunk EXCEPT !.programFrameSize = size,
                                                     !.functions = table]
                           /\ work' = none \o Tail(work)
    BY <1>5 DEF C!Become
  <2>2. /\ IsChunk(chunk') /\ chunk'.code = chunk.code /\ chunk'.spans = chunk.spans
        /\ chunk'.constants = chunk.constants
    <3>1. IsChunk(chunk)
      BY DEF CompilerInvariant, CodeIsSound
    <3>3. PICK F, N : chunk \in [code : {chunk.code}, constants : {chunk.constants},
                                 spans : {chunk.spans}, functions : F, programFrameSize : N]
      BY <3>1, ChunkFields
    <3> DEFINE m == [chunk EXCEPT !.programFrameSize = size, !.functions = table]
    <3>4. m \in [code : {chunk.code}, constants : {chunk.constants}, spans : {chunk.spans},
                 functions : {table}, programFrameSize : {size}]
      BY <3>3, ChunkUpdates
    <3> HIDE DEF m
    <3>5. /\ IsChunk(m) /\ m.code = chunk.code /\ m.spans = chunk.spans
          /\ m.constants = chunk.constants
      BY <3>1, <3>4, TablesChange
    <3>6. chunk' = m
      BY <2>1 DEF m
    <3>7. QED
      BY <3>5, <3>6
  <2>3. PlainItems(none) /\ Len(none) = 0
    BY NonePlain
  <2> HIDE DEF none
  <2>4. Replaces(none) /\ \A i \in 1 .. Len(none) : ~Patches(none[i]) /\ ~Loops(none[i])
    BY <1>2, <2>1, <2>3, PlainFollow
  <2>5. ~Patches(Head(work)) /\ ~Closes(Head(work))
    BY <1>2 DEF Patches, Closes
  <2>6. QED
    BY <2>2, <2>4, <2>5, QuietKeeps
<1>6. QED
  BY <1>3, <1>4, <1>5

LEMMA CompileLiteralKeeps ==
    ASSUME CompilerInvariant, TreesAreSound, nodes' = nodes, C!CompileLiteral
    PROVE  CompilerInvariant' /\ OnlyHolesChange
<1>1. C!Visiting("expression") /\ C!EmitConstant(C!This.value, C!This.span, <<>>)
  BY DEF C!CompileLiteral, C!VisitingA
<1>2. work # <<>> /\ Head(work).do = "expression"
  BY <1>1, CompilerVisits
<1>3. ~Patches(Head(work))
  BY <1>2 DEF Patches
<1>4. QED
  BY <1>1, <1>2, <1>3, ConstantKeeps

LEMMA CompileIdentifierKeeps ==
    ASSUME CompilerInvariant, TreesAreSound, nodes' = nodes, C!CompileIdentifier
    PROVE  CompilerInvariant' /\ OnlyHolesChange
<1>1. C!Visiting("expression") /\ C!EmitSlot(1, C!This.slot, C!This.span)
  BY OpCodesAre DEF C!CompileIdentifier, C!VisitingA
<1>2. work # <<>> /\ Head(work).do = "expression"
  BY <1>1, CompilerVisits
<1>3. ~Patches(Head(work))
  BY <1>2 DEF Patches
<1>4. QED
  BY <1>1, <1>2, <1>3, SlotKeeps

LEMMA OperatorsHaveOpCodes ==
    ASSUME NEW kind \in BinOpKinds \cup UnaryOpKinds
    PROVE  C!OpCodesFor(kind) \in Seq(PlainOps)
<1>1. \A op \in PlainOps : <<op>> \in Seq(PlainOps)
  OBVIOUS
<1>2. \A op \in PlainOps : <<op, 12>> \in Seq(PlainOps)
  BY DEF PlainOps
<1>3. {4, 5, 6, 7, 8, 9, 10, 11, 12} \subseteq PlainOps
  BY DEF PlainOps
<1>4. \/ \E op \in PlainOps : C!OpCodesFor(kind) = <<op>>
      \/ \E op \in PlainOps : C!OpCodesFor(kind) = <<op, 12>>
  <2>1. CASE kind = "Add"
    BY <1>3, <2>1, OpCodesAre DEF C!OpCodesFor
  <2>2. CASE kind = "Subtract"
    BY <1>3, <2>2, OpCodesAre DEF C!OpCodesFor
  <2>3. CASE kind = "Multiply"
    BY <1>3, <2>3, OpCodesAre DEF C!OpCodesFor
  <2>4. CASE kind = "Divide"
    BY <1>3, <2>4, OpCodesAre DEF C!OpCodesFor
  <2>5. CASE kind = "Less"
    BY <1>3, <2>5, OpCodesAre DEF C!OpCodesFor
  <2>6. CASE kind = "Greater"
    BY <1>3, <2>6, OpCodesAre DEF C!OpCodesFor
  <2>7. CASE kind = "Equal"
    BY <1>3, <2>7, OpCodesAre DEF C!OpCodesFor
  <2>8. CASE kind = "LessEqual"
    BY <1>3, <2>8, OpCodesAre DEF C!OpCodesFor
  <2>9. CASE kind = "GreaterEqual"
    BY <1>3, <2>9, OpCodesAre DEF C!OpCodesFor
  <2>10. CASE kind = "NotEqual"
    BY <1>3, <2>10, OpCodesAre DEF C!OpCodesFor
  <2>11. CASE kind = "Negate"
    BY <1>3, <2>11, OpCodesAre DEF C!OpCodesFor
  <2>12. CASE kind = "Not"
    BY <1>3, <2>12, OpCodesAre DEF C!OpCodesFor
  <2>13. QED
    BY <2>1, <2>2, <2>3, <2>4, <2>5, <2>6, <2>7, <2>8, <2>9, <2>10, <2>11, <2>12
       DEF BinOpKinds, UnaryOpKinds
<1>5. QED
  BY <1>1, <1>2, <1>4

LEMMA CompileOperatorKeeps ==
    ASSUME CompilerInvariant, TreesAreSound, nodes' = nodes, C!CompileOperator
    PROVE  CompilerInvariant' /\ OnlyHolesChange
<1> DEFINE n == C!Here
           ops == C!OpCodesFor(nodes[n].kind)
           first == C!Items("expression", nodes[n].kids)
           last == [i \in DOMAIN ops |-> C!EmitItem(ops[i], n)]
           items == first \o last
<1>1. /\ C!Visiting("expression") /\ nodes[n].type \in {"BinOp", "UnaryOp"}
      /\ C!Visit(items)
  BY DEF C!CompileOperator, C!VisitingA, C!This, C!Here
<1>2. /\ work # <<>> /\ Head(work).do = "expression" /\ n \in 1 .. Len(nodes) /\ n \in Nat
  BY <1>1, CompilerVisits DEF Compilable, IsNode
<1> HIDE DEF n
<1>3. PlainItems(first)
  BY <1>1, <1>2, PlainKids DEF ExpressionTypes
<1>4. ops \in Seq(PlainOps)
  <2>1. OperatorIsKnown(n)
    BY <1>2 DEF TreesAreSound
  <2>2. nodes[n].kind \in BinOpKinds \cup UnaryOpKinds
    BY <1>1, <2>1 DEF OperatorIsKnown
  <2>3. QED
    BY <2>2, OperatorsHaveOpCodes
<1> HIDE DEF ops, first
<1>5. PlainItems(last)
  <2> DEFINE E(i) == C!EmitItem(ops[i], n)
             all == [i \in 1 .. Len(ops) |-> E(i)]
  <2>1. DOMAIN ops = 1 .. Len(ops) /\ Len(ops) \in Nat
    BY <1>4, LenProperties
  <2>2. \A i \in 1 .. Len(ops) : PlainItem(E(i))
    BY <1>2, <1>4, ElementOfSeq, PlainItemsAre
  <2>3. last = all
    BY <2>1
  <2> HIDE DEF E, last
  <2>4. \A i \in 1 .. Len(ops) : E(i) \in CompilerItem
    BY <2>2 DEF PlainItem
  <2>5. all \in Seq(CompilerItem)
    BY <2>1, <2>4, IsASeq
  <2>6. Len(all) = Len(ops) /\ \A i \in 1 .. Len(ops) : all[i] = E(i)
    BY <2>1
  <2> HIDE DEF all
  <2>7. PlainItems(all)
    BY <2>2, <2>5, <2>6 DEF PlainItems
  <2>8. QED
    BY <2>3, <2>7
<1> HIDE DEF last
<1>6. PlainItems(items)
  BY <1>3, <1>5, JoinPlain
<1>7. C!Visit(items)
  BY <1>1
<1> HIDE DEF items
<1>8. Waits(Head(work)) /\ ~Patches(Head(work)) /\ ~Closes(Head(work))
  BY <1>2 DEF Waits, Patches, Closes
<1>9. QED
  BY <1>2, <1>6, <1>7, <1>8, PlainVisitKeeps

LEMMA EmitOperationKeeps ==
    ASSUME CompilerInvariant, TreesAreSound, nodes' = nodes, C!EmitOperation
    PROVE  CompilerInvariant' /\ OnlyHolesChange
<1> DEFINE op == Head(work).op
<1>1. C!Visiting("emit") /\ C!EmitHere(op, 0, C!This.span, C!This.name, <<>>)
  BY DEF C!EmitOperation
<1>2. work # <<>> /\ Head(work).do = "emit" /\ Compilable(Head(work))
  BY <1>1, CompilerVisits
<1>3. ~Patches(Head(work)) /\ op \in PlainOps
  BY <1>2 DEF Patches, Compilable
<1> HIDE DEF op
<1>4. op # 0 /\ op \notin JumpOps
  BY <1>3 DEF PlainOps, JumpOps
<1>5. QED
  BY <1>1, <1>2, <1>3, <1>4, PlainOpKeeps

LEMMA CompileCallKeeps ==
    ASSUME CompilerInvariant, TreesAreSound, nodes' = nodes, C!CompileCall
    PROVE  CompilerInvariant' /\ OnlyHolesChange
<1> DEFINE n == C!Here
           first == C!Items("expression", nodes[n].kids)
           last == C!Item("call", n)
           items == Append(first, last)
<1>1. CASE C!Visiting("expression") /\ nodes[n].type = "Call" /\ C!Visit(items)
  <2>1. /\ work # <<>> /\ Head(work).do = "expression" /\ n \in 1 .. Len(nodes) /\ n \in Nat
    BY <1>1, CompilerVisits DEF Compilable, IsNode
  <2> HIDE DEF n
  <2>2. PlainItems(first)
    BY <1>1, <2>1, PlainKids DEF ExpressionTypes
  <2>3. PlainItem(last)
    BY <2>1, PlainItemsAre
  <2> HIDE DEF first, last
  <2>4. PlainItems(items)
    BY <2>2, <2>3, AppendPlain
  <2>5. C!Visit(items)
    BY <1>1
  <2> HIDE DEF items
  <2>6. Waits(Head(work)) /\ ~Patches(Head(work)) /\ ~Closes(Head(work))
    BY <2>1 DEF Waits, Patches, Closes
  <2>7. QED
    BY <2>1, <2>4, <2>5, <2>6, PlainVisitKeeps
<1>2. CASE /\ C!Visiting("call")
           /\ C!EmitHere(C!OpCode.CALL, functionIndex[C!This.name], C!This.span, C!NoText, <<>>)
  <2> DEFINE op == C!OpCode.CALL
  <2>1. work # <<>> /\ Head(work).do = "call"
    BY <1>2, CompilerVisits
  <2>2. ~Patches(Head(work))
    BY <2>1 DEF Patches
  <2>3. op # 0 /\ op \notin JumpOps
    BY OpCodesAre DEF JumpOps
  <2>4. C!EmitHere(op, functionIndex[C!This.name], C!This.span, C!NoText, <<>>)
    BY <1>2
  <2> HIDE DEF op
  <2>5. QED
    BY <2>1, <2>2, <2>3, <2>4, PlainOpKeeps
<1>3. QED
  BY <1>1, <1>2 DEF C!CompileCall, C!VisitingA, C!This, C!Here

LEMMA CompilePrintKeeps ==
    ASSUME CompilerInvariant, TreesAreSound, nodes' = nodes, C!CompilePrint
    PROVE  CompilerInvariant' /\ OnlyHolesChange
<1> DEFINE n == C!Here
           first == C!Item("expression", nodes[n].kids[1])
           last == C!EmitItem(C!OpCode.PRINT, n)
           items == <<first, last>>
<1>1. C!Visiting("statement") /\ nodes[n].type = "Print" /\ C!Visit(items)
  BY DEF C!CompilePrint, C!VisitingA, C!This, C!Here
<1>2. /\ work # <<>> /\ Head(work).do = "statement" /\ n \in 1 .. Len(nodes) /\ n \in Nat
  BY <1>1, CompilerVisits DEF Compilable, IsNode
<1> HIDE DEF n
<1>3. PlainItem(first)
  BY <1>1, <1>2, KidsVisited, PlainItemsAre
<1>4. PlainItem(last)
  <2>1. C!OpCode.PRINT \in PlainOps
    BY OpCodesAre DEF PlainOps
  <2>2. QED
    BY <1>2, <2>1, PlainItemsAre
<1> HIDE DEF first, last
<1>5. PlainItems(items)
  BY <1>3, <1>4, PairPlain
<1>6. C!Visit(items)
  BY <1>1
<1> HIDE DEF items
<1>7. Waits(Head(work)) /\ ~Patches(Head(work)) /\ ~Closes(Head(work))
  BY <1>2 DEF Waits, Patches, Closes
<1>8. QED
  BY <1>2, <1>5, <1>6, <1>7, PlainVisitKeeps

LEMMA CompileAssignKeeps ==
    ASSUME CompilerInvariant, TreesAreSound, nodes' = nodes, C!CompileAssign
    PROVE  CompilerInvariant' /\ OnlyHolesChange
<1> DEFINE n == C!Here
           first == C!Item("expression", nodes[n].kids[1])
           last == C!Item("store", n)
           items == <<first, last>>
<1>1. CASE C!Visiting("statement") /\ nodes[n].type = "Assign" /\ C!Visit(items)
  <2>1. /\ work # <<>> /\ Head(work).do = "statement" /\ n \in 1 .. Len(nodes) /\ n \in Nat
    BY <1>1, CompilerVisits DEF Compilable, IsNode
  <2> HIDE DEF n
  <2>2. PlainItem(first)
    BY <1>1, <2>1, KidsVisited, PlainItemsAre
  <2>3. PlainItem(last)
    BY <2>1, PlainItemsAre
  <2> HIDE DEF first, last
  <2>4. PlainItems(items)
    BY <2>2, <2>3, PairPlain
  <2>5. C!Visit(items)
    BY <1>1
  <2> HIDE DEF items
  <2>6. Waits(Head(work)) /\ ~Patches(Head(work)) /\ ~Closes(Head(work))
    BY <2>1 DEF Waits, Patches, Closes
  <2>7. QED
    BY <2>1, <2>4, <2>5, <2>6, PlainVisitKeeps
<1>2. CASE C!Visiting("store") /\ C!EmitSlot(2, C!This.slot, C!This.span)
  <2>1. work # <<>> /\ Head(work).do = "store"
    BY <1>2, CompilerVisits
  <2>2. ~Patches(Head(work))
    BY <2>1 DEF Patches
  <2>3. QED
    BY <1>2, <2>1, <2>2, SlotKeeps
<1>3. QED
  BY <1>1, <1>2, OpCodesAre DEF C!CompileAssign, C!VisitingA, C!This, C!Here

LEMMA CompileBlockKeeps ==
    ASSUME CompilerInvariant, TreesAreSound, nodes' = nodes, C!CompileBlock
    PROVE  CompilerInvariant' /\ OnlyHolesChange
<1> DEFINE n == C!Here
           kids == C!Items("statement", nodes[n].kids)
           none == <<>>
<1>1. /\ C!Visiting("statement")
      /\ C!Visit(none) \/ (nodes[n].type = "Block" /\ C!Visit(kids))
  BY DEF C!CompileBlock, C!VisitingA, C!This, C!Here
<1>2. /\ work # <<>> /\ Head(work).do = "statement" /\ n \in 1 .. Len(nodes)
  BY <1>1, CompilerVisits DEF Compilable, IsNode
<1> HIDE DEF n
<1>3. nodes[n].type = "Block" => PlainItems(kids)
  BY <1>2, PlainKids
<1>4. PlainItems(none)
  BY NonePlain
<1>5. Waits(Head(work)) /\ ~Patches(Head(work)) /\ ~Closes(Head(work))
  BY <1>2 DEF Waits, Patches, Closes
<1> HIDE DEF kids, none
<1>6. QED
  BY <1>1, <1>2, <1>3, <1>4, <1>5, PlainVisitKeeps

LEMMA CompileIfKeeps ==
    ASSUME CompilerInvariant, TreesAreSound, nodes' = nodes, C!CompileIf
    PROVE  CompilerInvariant' /\ OnlyHolesChange
<1> DEFINE n == C!Here
           first == C!Item("expression", nodes[n].kids[1])
           last == C!Item("then", n)
           items == <<first, last>>
<1>1. C!Visiting("statement") /\ nodes[n].type = "If" /\ C!Visit(items)
  BY DEF C!CompileIf, C!VisitingA, C!This, C!Here
<1>2. /\ work # <<>> /\ Head(work).do = "statement" /\ n \in 1 .. Len(nodes)
  BY <1>1, CompilerVisits DEF Compilable, IsNode
<1> HIDE DEF n
<1>3. PlainItem(first)
  BY <1>1, <1>2, KidsVisited, PlainItemsAre
<1>4. PlainItem(last)
  BY <1>1, <1>2, PlainItemsAre
<1> HIDE DEF first, last
<1>5. PlainItems(items)
  BY <1>3, <1>4, PairPlain
<1>6. C!Visit(items)
  BY <1>1
<1> HIDE DEF items
<1>7. Waits(Head(work)) /\ ~Patches(Head(work)) /\ ~Closes(Head(work))
  BY <1>2 DEF Waits, Patches, Closes
<1>8. QED
  BY <1>2, <1>5, <1>6, <1>7, PlainVisitKeeps

LEMMA CompileThenKeeps ==
    ASSUME CompilerInvariant, TreesAreSound, nodes' = nodes, C!CompileThen
    PROVE  CompilerInvariant' /\ OnlyHolesChange
<1> DEFINE n == C!Here
           x == C!Item("statement", nodes[n].kids[2])
           y == C!JumpItem("else", n, Len(chunk.code), 0)
           span == nodes[nodes[n].kids[1]].span
           text == C!NoText
<1>1. /\ C!Visiting("then")
      /\ C!EmitHere(C!OpCode.JUMP_IF_FALSE, C!Placeholder, span, text, <<x, y>>)
  BY DEF C!CompileThen, C!This, C!Here, C!CodeSize
<1>2. /\ work # <<>> /\ Head(work).do = "then" /\ n \in 1 .. Len(nodes) /\ n \in Nat
      /\ nodes[n].type = "If"
  BY <1>1, CompilerVisits DEF Compilable, IsNode
<1> HIDE DEF n
<1>3. PlainItem(x)
  BY <1>2, KidsVisited, PlainItemsAre
<1>4. y \in CompilerItem /\ y.do = "else" /\ y.node = n /\ y.at = Len(chunk.code)
  <2> DEFINE do == "else"
             at == Len(chunk.code)
             zero == 0
  <2>1. do \in CompilerWalks /\ at \in Nat /\ zero \in Nat
    BY ChunkFields DEF CompilerWalks, CompilerInvariant, CodeIsSound
  <2> HIDE DEF do, at, zero
  <2>2. HasFields(C!JumpItem(do, n, at, zero), do, n, at, zero)
    BY ONLY <1>2, <2>1, JumpItemFields
  <2>3. QED
    BY <2>2 DEF HasFields, do, at, zero
<1> HIDE DEF x, y, span, text
<1>5. Compilable(y) /\ Waits(y) /\ Patches(y) /\ ~Loops(y)
  BY <1>2, <1>4 DEF Compilable, Waits, Patches, Loops, IsNode
<1>6. Waits(Head(work)) /\ ~Patches(Head(work))
  BY <1>2 DEF Waits, Patches
<1>7. QED
  BY <1>1, <1>2, <1>3, <1>4, <1>5, <1>6, ConditionKeeps

LEMMA CompileLoopKeeps ==
    ASSUME CompilerInvariant, TreesAreSound, nodes' = nodes, C!CompileLoop
    PROVE  CompilerInvariant' /\ OnlyHolesChange
<1> DEFINE n == C!Here
           header == Head(work).header
           x == C!Item("statement", nodes[n].kids[2])
           y == C!JumpItem("end loop", n, Len(chunk.code), header)
           span == nodes[nodes[n].kids[1]].span
           text == C!NoText
<1>1. /\ C!Visiting("loop")
      /\ C!EmitHere(C!OpCode.JUMP_IF_FALSE, C!Placeholder, span, text, <<x, y>>)
  BY DEF C!CompileLoop, C!This, C!Here, C!CodeSize
<1>2. /\ work # <<>> /\ Head(work).do = "loop" /\ n \in 1 .. Len(nodes) /\ n \in Nat
      /\ nodes[n].type = "While" /\ header \in Nat
      /\ Head(work) = work[1] /\ 1 \in 1 .. Len(work)
  BY <1>1, CompilerVisits DEF Compilable, IsNode
<1>3. header <= Len(chunk.code)
  <2>1. Loops(work[1])
    BY <1>2 DEF Loops
  <2>2. QED
    BY <1>2, <2>1 DEF CompilerInvariant, CodeIsSound
<1> HIDE DEF n, header
<1>4. PlainItem(x)
  BY <1>2, KidsVisited, PlainItemsAre
<1>5. /\ y \in CompilerItem /\ y.do = "end loop" /\ y.node = n /\ y.at = Len(chunk.code)
      /\ y.header = header
  <2> DEFINE do == "end loop"
             at == Len(chunk.code)
  <2>1. do \in CompilerWalks /\ at \in Nat
    BY ChunkFields DEF CompilerWalks, CompilerInvariant, CodeIsSound
  <2> HIDE DEF do, at
  <2>2. HasFields(C!JumpItem(do, n, at, header), do, n, at, header)
    BY ONLY <1>2, <2>1, JumpItemFields
  <2>3. QED
    BY <2>2 DEF HasFields, do, at
<1> HIDE DEF x, y, span, text
<1>6. Compilable(y) /\ Waits(y) /\ Patches(y)
  BY <1>2, <1>5 DEF Compilable, Waits, Patches, IsNode
<1>7. Waits(Head(work)) /\ ~Patches(Head(work))
  BY <1>2 DEF Waits, Patches
<1>8. QED
  BY <1>1, <1>2, <1>3, <1>4, <1>5, <1>6, <1>7, ConditionKeeps

(* Nothing left of the head. *)
LEMMA HeadDone ==
    ASSUME work # <<>>, work' = <<>> \o Tail(work)
    PROVE  \E items : /\ Replaces(items)
                      /\ \A i \in 1 .. Len(items) : ~Patches(items[i]) /\ ~Loops(items[i])
<1> DEFINE none == <<>>
<1>1. PlainItems(none) /\ Len(none) = 0 /\ work' = none \o Tail(work)
  BY NonePlain
<1> HIDE DEF none
<1>2. Replaces(none) /\ \A i \in 1 .. Len(none) : ~Patches(none[i]) /\ ~Loops(none[i])
  BY <1>1, PlainFollow
<1>3. QED
  BY <1>2

LEMMA CompileElseKeeps ==
    ASSUME CompilerInvariant, TreesAreSound, nodes' = nodes, C!CompileElse
    PROVE  CompilerInvariant' /\ OnlyHolesChange
<1> DEFINE n == C!Here
           at == Head(work).at
           x == C!Item("statement", nodes[n].kids[3])
           y == C!JumpItem("end if", n, Len(chunk.code), 0)
           items == <<x, y>>
           op == C!OpCode.JUMP
           operand == C!Placeholder
           span == nodes[n].span
           text == C!NoText
<1>1. C!Visiting("else")
  BY DEF C!CompileElse
<1>2. /\ work # <<>> /\ Head(work).do = "else" /\ n \in 1 .. Len(nodes) /\ n \in Nat
      /\ nodes[n].type = "If"
  BY <1>1, CompilerVisits DEF Compilable, IsNode
<1>3. Waits(Head(work)) /\ Patches(Head(work))
  BY <1>2 DEF Waits, Patches
<1>4. \/ chunk' = C!PatchToHere(chunk, at) /\ C!Become(<<>>)
      \/ \E s, m : C!Fail(s, m)
      \/ /\ HasElse(nodes[n]) /\ C!HasRoom(chunk, op)
         /\ chunk' = C!PatchToHere(C!Emit(chunk, op, operand, span, text), at)
         /\ C!Become(items)
  BY DEF C!CompileElse, C!This, C!Here, C!CodeSize, C!HasElse, HasElse
<1> HIDE DEF n
<1>5. CASE chunk' = C!PatchToHere(chunk, at) /\ C!Become(<<>>)
  <2>1. work' = <<>> \o Tail(work)
    BY <1>5 DEF C!Become
  <2>2. PICK none : /\ Replaces(none)
                    /\ \A i \in 1 .. Len(none) : ~Patches(none[i]) /\ ~Loops(none[i])
    BY <1>2, <2>1, HeadDone
  <2>3. QED
    BY <1>3, <1>5, <2>2, PatchOnlyKeeps
<1>6. CASE \E s, m : C!Fail(s, m)
  BY <1>6, ErrorKeeps
<1>7. CASE /\ HasElse(nodes[n]) /\ C!HasRoom(chunk, op)
           /\ chunk' = C!PatchToHere(C!Emit(chunk, op, operand, span, text), at)
           /\ C!Become(items)
  <2>1. PlainItem(x)
    BY <1>2, <1>7, KidsVisited, PlainItemsAre
  <2>2. y \in CompilerItem /\ y.do = "end if" /\ y.node = n /\ y.at = Len(chunk.code)
    <3> DEFINE do == "end if"
               size == Len(chunk.code)
               zero == 0
    <3>1. do \in CompilerWalks /\ size \in Nat /\ zero \in Nat
      BY ChunkFields DEF CompilerWalks, CompilerInvariant, CodeIsSound
    <3> HIDE DEF do, size, zero
    <3>2. HasFields(C!JumpItem(do, n, size, zero), do, n, size, zero)
      BY ONLY <1>2, <3>1, JumpItemFields
    <3>3. QED
      BY <3>2 DEF HasFields, do, size, zero
  <2>3. work' = items \o Tail(work)
    BY <1>7 DEF C!Become
  <2>4. op = 13 /\ operand = MaxOperand
    BY OpCodesAre DEF C!Placeholder
  <2> HIDE DEF x, y, op, operand, span, text
  <2>5. Compilable(y) /\ Waits(y) /\ Patches(y) /\ ~Loops(y)
    BY <1>2, <2>2 DEF Compilable, Waits, Patches, Loops, IsNode
  <2>6. items \in Seq(CompilerItem) /\ Len(items) = 2 /\ items[1] = x /\ items[2] = y
    <3>1. x \in CompilerItem /\ y \in CompilerItem
      BY <2>1, <2>2 DEF PlainItem
    <3>2. QED
      BY <3>1
  <2> HIDE DEF items
  <2>7. /\ Replaces(items)
        /\ 2 \in 1 .. Len(items)
        /\ \A i \in 1 .. Len(items) : i = 1 \/ i = 2
    BY <1>2, <1>3, <2>1, <2>2, <2>3, <2>5, <2>6, PairFollows
  <2>8. /\ \E i \in 1 .. Len(items) : Patches(items[i])
        /\ \A i \in 1 .. Len(items) : ~Loops(items[i])
    BY <2>1, <2>5, <2>6, <2>7 DEF PlainItem
  <2>9. C!HasRoom(chunk, op)
        /\ chunk' = C!PatchToHere(C!Emit(chunk, op, operand, span, text), at)
    BY <1>7
  <2>10. QED
    BY <1>3, <2>4, <2>7, <2>8, <2>9, EmitPatchKeeps
<1>8. QED
  BY <1>4, <1>5, <1>6, <1>7

LEMMA CompileEndIfKeeps ==
    ASSUME CompilerInvariant, TreesAreSound, nodes' = nodes, C!CompileEndIf
    PROVE  CompilerInvariant' /\ OnlyHolesChange
<1>1. /\ C!Visiting("end if") /\ chunk' = C!PatchToHere(chunk, Head(work).at)
      /\ work' = <<>> \o Tail(work)
  BY DEF C!CompileEndIf, C!Become
<1>2. work # <<>> /\ Head(work).do = "end if"
  BY <1>1, CompilerVisits
<1>3. Patches(Head(work))
  BY <1>2 DEF Patches
<1>4. PICK none : /\ Replaces(none)
                  /\ \A i \in 1 .. Len(none) : ~Patches(none[i]) /\ ~Loops(none[i])
  BY <1>1, <1>2, HeadDone
<1>5. QED
  BY <1>1, <1>3, <1>4, PatchOnlyKeeps

LEMMA CompileWhileKeeps ==
    ASSUME CompilerInvariant, TreesAreSound, nodes' = nodes, C!CompileWhile
    PROVE  CompilerInvariant' /\ OnlyHolesChange
<1> DEFINE n == C!Here
           x == C!Item("expression", nodes[n].kids[1])
           y == C!JumpItem("loop", n, 0, Len(chunk.code))
           items == <<x, y>>
<1>1. /\ C!Visiting("statement") /\ nodes[n].type = "While" /\ C!Visit(items)
  BY DEF C!CompileWhile, C!VisitingA, C!This, C!Here, C!CodeSize
<1>2. /\ work # <<>> /\ Head(work).do = "statement" /\ n \in 1 .. Len(nodes) /\ n \in Nat
  BY <1>1, CompilerVisits DEF Compilable, IsNode
<1> HIDE DEF n
<1>3. PlainItem(x)
  BY <1>1, <1>2, KidsVisited, PlainItemsAre
<1>4. y \in CompilerItem /\ y.do = "loop" /\ y.node = n /\ y.header = Len(chunk.code)
  <2> DEFINE do == "loop"
             size == Len(chunk.code)
             zero == 0
  <2>1. do \in CompilerWalks /\ size \in Nat /\ zero \in Nat
    BY ChunkFields DEF CompilerWalks, CompilerInvariant, CodeIsSound
  <2> HIDE DEF do, size, zero
  <2>2. HasFields(C!JumpItem(do, n, zero, size), do, n, zero, size)
    BY ONLY <1>2, <2>1, JumpItemFields
  <2>3. QED
    BY <2>2 DEF HasFields, do, size, zero
<1>5. work' = items \o Tail(work) /\ chunk' = chunk
  BY <1>1 DEF C!Visit, C!Become
<1> HIDE DEF x, y
<1>6. Compilable(y) /\ Waits(y) /\ ~Patches(y)
  BY <1>1, <1>2, <1>4 DEF Compilable, Waits, Patches, IsNode
<1>7. Waits(Head(work)) /\ ~Patches(Head(work)) /\ ~Closes(Head(work))
  BY <1>2 DEF Waits, Patches, Closes
<1>8. items \in Seq(CompilerItem) /\ Len(items) = 2 /\ items[1] = x /\ items[2] = y
  BY <1>3, <1>4 DEF PlainItem
<1> HIDE DEF items
<1>9. Replaces(items) /\ \A i \in 1 .. Len(items) : i = 1 \/ i = 2
  BY <1>2, <1>3, <1>5, <1>6, <1>7, <1>8, PairFollows
<1>10. Len(chunk.code) \in Nat /\ IsChunk(chunk')
  BY <1>5, ChunkFields DEF CompilerInvariant, CodeIsSound
<1>11. \A i \in 1 .. Len(items) :
           ~Patches(items[i]) /\ (Loops(items[i]) => items[i].header <= Len(chunk.code))
  BY <1>3, <1>4, <1>6, <1>8, <1>9, <1>10 DEF PlainItem
<1>12. chunk'.code = chunk.code /\ chunk'.spans = chunk.spans
       /\ chunk'.constants = chunk.constants
  BY <1>5
<1>13. QED
  BY <1>7, <1>9, <1>10, <1>11, <1>12, QuietKeeps

LEMMA CompileEndLoopKeeps ==
    ASSUME CompilerInvariant, TreesAreSound, nodes' = nodes, C!CompileEndLoop
    PROVE  CompilerInvariant' /\ OnlyHolesChange
<1> DEFINE at == Head(work).at
           header == Head(work).header
           op == C!OpCode.JUMP
           span == C!This.span
           text == C!NoText
<1>1. C!Visiting("end loop")
  BY DEF C!CompileEndLoop
<1>2. /\ work # <<>> /\ Head(work).do = "end loop" /\ header \in Nat
      /\ Head(work) = work[1] /\ 1 \in 1 .. Len(work)
  BY <1>1, CompilerVisits
<1>3. Patches(Head(work)) /\ Loops(work[1])
  BY <1>2 DEF Patches, Loops
<1>4. header <= Len(chunk.code)
  BY <1>2, <1>3 DEF CompilerInvariant, CodeIsSound
<1>5. \/ /\ C!HasRoom(chunk, op)
         /\ chunk' = C!PatchToHere(C!Emit(chunk, op, header, span, text), at)
         /\ C!Become(<<>>)
      \/ \E s, m : C!Fail(s, m)
  BY DEF C!CompileEndLoop
<1>6. op = 13
  BY OpCodesAre
<1> HIDE DEF op, span, text, header
<1>7. CASE /\ C!HasRoom(chunk, op)
           /\ chunk' = C!PatchToHere(C!Emit(chunk, op, header, span, text), at)
           /\ C!Become(<<>>)
  <2>1. work' = <<>> \o Tail(work)
    BY <1>7 DEF C!Become
  <2>2. PICK none : /\ Replaces(none)
                    /\ \A i \in 1 .. Len(none) : ~Patches(none[i]) /\ ~Loops(none[i])
    BY <1>2, <2>1, HeadDone
  <2>3. QED
    BY <1>2, <1>3, <1>4, <1>6, <1>7, <2>2, EmitPatchKeeps
<1>8. CASE \E s, m : C!Fail(s, m)
  BY <1>8, ErrorKeeps
<1>9. QED
  BY <1>5, <1>7, <1>8

LEMMA CompileReturnKeeps ==
    ASSUME CompilerInvariant, TreesAreSound, nodes' = nodes, C!CompileReturn
    PROVE  CompilerInvariant' /\ OnlyHolesChange
<1> DEFINE n == C!Here
           first == IF nodes[n].kids = <<>> THEN C!Item("zero", n)
                    ELSE C!Item("expression", nodes[n].kids[1])
           last == C!EmitItem(C!OpCode.RETURN, n)
           items == <<first, last>>
<1>1. C!Visiting("statement") /\ nodes[n].type = "Return" /\ C!Visit(items)
  BY DEF C!CompileReturn, C!VisitingA, C!This, C!Here
<1>2. /\ work # <<>> /\ Head(work).do = "statement" /\ n \in 1 .. Len(nodes) /\ n \in Nat
  BY <1>1, CompilerVisits DEF Compilable, IsNode
<1> HIDE DEF n
<1>3. PlainItem(first)
  <2>1. CASE nodes[n].kids = <<>>
    BY <1>2, <2>1, PlainItemsAre
  <2>2. CASE nodes[n].kids # <<>>
    BY <1>1, <1>2, <2>2, KidsVisited, PlainItemsAre
  <2>3. QED
    BY <2>1, <2>2
<1>4. PlainItem(last)
  <2>1. C!OpCode.RETURN \in PlainOps
    BY OpCodesAre DEF PlainOps
  <2>2. QED
    BY <1>2, <2>1, PlainItemsAre
<1> HIDE DEF first, last
<1>5. PlainItems(items)
  BY <1>3, <1>4, PairPlain
<1>6. C!Visit(items)
  BY <1>1
<1> HIDE DEF items
<1>7. Waits(Head(work)) /\ ~Patches(Head(work)) /\ ~Closes(Head(work))
  BY <1>2 DEF Waits, Patches, Closes
<1>8. QED
  BY <1>2, <1>5, <1>6, <1>7, PlainVisitKeeps

LEMMA EmitZeroKeeps ==
    ASSUME CompilerInvariant, TreesAreSound, nodes' = nodes, C!EmitZero
    PROVE  CompilerInvariant' /\ OnlyHolesChange
<1>1. C!Visiting("zero") /\ C!EmitConstant(C!Zero, C!This.span, <<>>)
  BY DEF C!EmitZero
<1>2. work # <<>> /\ Head(work).do = "zero"
  BY <1>1, CompilerVisits
<1>3. ~Patches(Head(work))
  BY <1>2 DEF Patches
<1>4. QED
  BY <1>1, <1>2, <1>3, ConstantKeeps

LEMMA EmitHaltKeeps ==
    ASSUME CompilerInvariant, TreesAreSound, nodes' = nodes, C!EmitHalt
    PROVE  CompilerInvariant' /\ OnlyHolesChange
<1> DEFINE op == C!OpCode.HALT
<1>1. C!Visiting("halt") /\ \E span : C!EmitHere(op, 0, span, C!NoText, <<>>)
  BY DEF C!EmitHalt
<1>2. work # <<>> /\ Head(work).do = "halt"
  BY <1>1, CompilerVisits
<1>3. ~Patches(Head(work))
  BY <1>2 DEF Patches
<1>4. op # 0 /\ op \notin JumpOps
  BY OpCodesAre DEF JumpOps
<1> HIDE DEF op
<1>5. QED
  BY <1>1, <1>2, <1>3, <1>4, PlainOpKeeps

LEMMA EndFunctionBodyKeeps ==
    ASSUME CompilerInvariant, TreesAreSound, nodes' = nodes, C!EndFunctionBody
    PROVE  CompilerInvariant' /\ OnlyHolesChange
<1> DEFINE op == C!OpCode.RETURN
<1>1. C!Visiting("end body") /\ C!EmitHere(op, 0, C!This.span, C!NoText, <<>>)
  BY DEF C!EndFunctionBody
<1>2. work # <<>> /\ Head(work).do = "end body"
  BY <1>1, CompilerVisits
<1>3. ~Patches(Head(work))
  BY <1>2 DEF Patches
<1>4. op # 0 /\ op \notin JumpOps
  BY OpCodesAre DEF JumpOps
<1> HIDE DEF op
<1>5. QED
  BY <1>1, <1>2, <1>3, <1>4, PlainOpKeeps

LEMMA FunctionsAre ==
    ASSUME ProgramIsSound
    PROVE  /\ C!Functions \in Seq(1 .. Len(nodes))
           /\ \A i \in 1 .. Len(C!Functions) : nodes[C!Functions[i]].type = "Function"
<1> DEFINE positions == {i \in DOMAIN program : nodes[program[i]].type = "Function"}
           S == {program[i] : i \in positions \cap DOMAIN program}
           all == C!Functions
           D == 1 .. Len(nodes)
<1>1. program \in Seq(D)
  BY DEF ProgramIsSound, Separate
<1>2. S \subseteq D /\ \A n \in S : nodes[n].type = "Function"
  <2>1. \A i \in DOMAIN program : program[i] \in D
    BY <1>1, LenProperties, ElementOfSeq
  <2>2. QED
    BY <2>1
<1>3. all \in Seq(S)
  <2>1. all = SubSequence(program, positions)
    BY DEF C!Functions, C!SubSequence, SubSequence
  <2> HIDE DEF positions, all, D
  <2>2. QED
    BY <1>1, <2>1, SubSequenceIsSeq
<1> HIDE DEF S, all, D
<1>4. \A i \in 1 .. Len(all) : all[i] \in S
  BY <1>3, ElementOfSeq
<1>5. all \in Seq(D)
  <2>1. all = [i \in 1 .. Len(all) |-> all[i]] /\ Len(all) \in Nat
    BY <1>3, LenProperties
  <2>2. \A i \in 1 .. Len(all) : all[i] \in D
    BY <1>2, <1>4
  <2>3. QED
    BY <2>1, <2>2, IsASeq
<1>6. QED
  BY <1>2, <1>4, <1>5 DEF all, D

LEMMA CompileBodiesKeeps ==
    ASSUME CompilerInvariant, TreesAreSound, ProgramIsSound, nodes' = nodes, C!CompileBodies
    PROVE  CompilerInvariant' /\ OnlyHolesChange
<1> DEFINE ids == C!Functions
           first == C!Items("body", ids)
           last == C!Item("finish", 0)
           items == Append(first, last)
           n == Len(ids)
<1>1. C!Visiting("bodies") /\ work' = items \o Tail(work) /\ chunk' = chunk
  BY DEF C!CompileBodies, C!Visit, C!Become
<1>2. work # <<>> /\ Head(work).do = "bodies"
  BY <1>1, CompilerVisits
<1>3. /\ ids \in Seq(1 .. Len(nodes)) /\ DOMAIN ids = 1 .. n /\ n \in Nat
      /\ \A i \in 1 .. n : nodes[ids[i]].type = "Function"
  BY FunctionsAre, LenProperties
<1>4. Len(nodes) \in Nat
  BY LenProperties DEF TreesAreSound
<1>5. /\ first \in Seq(CompilerItem) /\ Len(first) = n
      /\ \A i \in 1 .. n : first[i].do = "body" /\ Compilable(first[i])
  <2> DEFINE E(i) == C!Item("body", ids[i])
             all == [i \in 1 .. n |-> E(i)]
  <2>1. first = all
    BY <1>3 DEF C!Items
  <2> HIDE DEF n, ids
  <2>2. ASSUME NEW i \in 1 .. n
        PROVE  E(i) \in CompilerItem /\ E(i).do = "body" /\ Compilable(E(i))
    <3> DEFINE do == "body"
               node == ids[i]
               item == C!Item(do, node)
    <3>1. node \in 1 .. Len(nodes) /\ nodes[node].type = "Function"
      BY <1>3, ElementOfSeq DEF n
    <3>2. do \in CompilerWalks /\ node \in Nat
      BY <1>4, <3>1 DEF CompilerWalks
    <3> HIDE DEF do, node, item
    <3>3. item \in CompilerItem /\ item.do = do /\ item.node = node
      BY <3>2, ItemFields DEF item
    <3>4. item.do = "body" /\ Compilable(item)
      BY <3>1, <3>3 DEF Compilable, IsNode, do
    <3>5. QED
      BY <3>3, <3>4 DEF item, do, node
  <2> HIDE DEF E, first
  <2>3. all \in Seq(CompilerItem)
    BY <1>3, <2>2, IsASeq
  <2>4. Len(all) = n /\ \A i \in 1 .. n : all[i] = E(i)
    BY <1>3
  <2> HIDE DEF all
  <2>5. QED
    BY <2>1, <2>2, <2>3, <2>4
<1>6. last \in CompilerItem /\ last.do = "finish"
  <2> DEFINE do == "finish"
             zero == 0
  <2>1. do \in CompilerWalks /\ zero \in Nat
    BY DEF CompilerWalks
  <2> HIDE DEF do, zero
  <2>2. C!Item(do, zero) \in CompilerItem /\ C!Item(do, zero).do = do
    BY <2>1, ItemFields
  <2>3. QED
    BY <2>2 DEF do, zero
<1>7. Compilable(last)
  <2> HIDE DEF last
  <2>1. QED
    BY <1>6 DEF Compilable
<1> HIDE DEF ids, first, last, n
<1>8. /\ items \in Seq(CompilerItem) /\ Len(items) = n + 1 /\ items[n + 1] = last
      /\ \A i \in 1 .. n : items[i] = first[i]
  BY <1>5, <1>6, AppendProperties
<1> HIDE DEF items
<1>9. ASSUME NEW i \in 1 .. Len(items)
      PROVE  /\ Compilable(items[i])
             /\ items[i].do = "body" \/ (items[i].do = "finish" /\ i = Len(items))
  <2>1. i \in 1 .. n \/ i = n + 1
    BY <1>3, <1>8
  <2>2. QED
    BY <1>5, <1>6, <1>7, <1>8, <2>1
<1>10. ASSUME NEW i \in 1 .. Len(items)
       PROVE  /\ Compilable(items[i]) /\ ~Waits(items[i])
              /\ ~Patches(items[i]) /\ ~Loops(items[i])
              /\ Ends(items[i]) => Ends(Head(work)) /\ i = Len(items)
  BY <1>2, <1>9 DEF Waits, Patches, Loops, Ends
<1>11. Replaces(items)
  BY <1>1, <1>2, <1>8, <1>10 DEF Replaces
<1>12. ~Patches(Head(work)) /\ ~Closes(Head(work))
  BY <1>2 DEF Patches, Closes
<1>13. IsChunk(chunk') /\ chunk'.code = chunk.code /\ chunk'.spans = chunk.spans
       /\ chunk'.constants = chunk.constants
  BY <1>1 DEF CompilerInvariant, CodeIsSound
<1>14. QED
  BY <1>10, <1>11, <1>12, <1>13, QuietKeeps

LEMMA FinishCompilerKeeps ==
    ASSUME CompilerInvariant, TreesAreSound, nodes' = nodes, C!Finish
    PROVE  CompilerInvariant' /\ OnlyHolesChange
<1>1. C!Visiting("finish") /\ work' = <<>> \o Tail(work) /\ chunk' = chunk
  BY DEF C!Finish, C!Become
<1>2. work # <<>> /\ Head(work).do = "finish"
  BY <1>1, CompilerVisits
<1>3. PICK none : /\ Replaces(none)
                  /\ \A i \in 1 .. Len(none) : ~Patches(none[i]) /\ ~Loops(none[i])
  BY <1>1, <1>2, HeadDone
<1>4. ~Patches(Head(work)) /\ ~Closes(Head(work))
  BY <1>2 DEF Patches, Closes
<1>5. IsChunk(chunk') /\ chunk'.code = chunk.code /\ chunk'.spans = chunk.spans
      /\ chunk'.constants = chunk.constants
  BY <1>1 DEF CompilerInvariant, CodeIsSound
<1>6. QED
  BY <1>3, <1>4, <1>5, QuietKeeps

LEMMA CompileFunctionBodyKeeps ==
    ASSUME CompilerInvariant, TreesAreSound, nodes' = nodes, C!CompileFunctionBody
    PROVE  CompilerInvariant' /\ OnlyHolesChange
<1> DEFINE n == C!Here
           x == C!Item("statement", nodes[n].kids[1])
           y == C!Item("zero", n)
           z == C!Item("end body", n)
           items == <<x, y, z>>
<1>1. /\ C!Visiting("body")
      /\ \E table : chunk' = [chunk EXCEPT !.functions = table]
      /\ work' = items \o Tail(work)
  <2>1. chunk' = [chunk EXCEPT !.functions =
                     [chunk.functions EXCEPT ![functionIndex[C!This.name] + 1].entry = C!CodeSize]]
    BY DEF C!CompileFunctionBody
  <2>2. QED
    BY <2>1 DEF C!CompileFunctionBody, C!Become, C!This, C!Here
<1>2. /\ work # <<>> /\ Head(work).do = "body" /\ n \in 1 .. Len(nodes) /\ n \in Nat
      /\ nodes[n].type = "Function"
  BY <1>1, CompilerVisits DEF Compilable, IsNode
<1> HIDE DEF n
<1>3. PlainItem(x)
  BY <1>2, KidsVisited, PlainItemsAre
<1>4. PlainItem(y)
  BY <1>2, PlainItemsAre
<1>5. z \in CompilerItem /\ z.do = "end body"
  <2> DEFINE do == "end body"
  <2>1. do \in CompilerWalks
    BY DEF CompilerWalks
  <2> HIDE DEF do
  <2>2. C!Item(do, n) \in CompilerItem /\ C!Item(do, n).do = do
    BY <1>2, <2>1, ItemFields
  <2>3. QED
    BY <2>2 DEF do
<1> HIDE DEF x, y, z
<1>6. Compilable(z) /\ Closes(z) /\ ~Patches(z) /\ ~Loops(z) /\ ~Ends(z) /\ ~Waits(z)
  BY <1>5 DEF Compilable, Closes, Patches, Loops, Ends, Waits
<1>7. x \in CompilerItem /\ y \in CompilerItem /\ z \in CompilerItem
  BY <1>3, <1>4, <1>5 DEF PlainItem
<1>8. /\ items \in Seq(CompilerItem) /\ Len(items) = 3
      /\ items[1] = x /\ items[2] = y /\ items[3] = z
  BY <1>7
<1> HIDE DEF items
<1>9. \A i \in 1 .. Len(items) : i \in 1 .. 3 /\ (i = 3 \/ PlainItem(items[i]))
  BY <1>3, <1>4, <1>8
<1>10. ASSUME NEW i \in 1 .. Len(items)
       PROVE  /\ Compilable(items[i]) /\ ~Patches(items[i]) /\ ~Loops(items[i])
              /\ ~Ends(items[i])
              /\ Waits(items[i]) => \E j \in i + 1 .. Len(items) : Closes(items[j])
  <2>1. CASE i = 3
    BY <1>6, <1>8, <2>1
  <2>2. CASE i # 3
    <3>1. PlainItem(items[i]) /\ 3 \in i + 1 .. Len(items)
      BY <1>8, <1>9, <2>2
    <3>2. Closes(items[3])
      BY <1>6, <1>8
    <3>3. QED
      BY <3>1, <3>2 DEF PlainItem, Waits, Ends
  <2>3. QED
    BY <2>1, <2>2
<1>11. Replaces(items)
  BY <1>1, <1>2, <1>8, <1>10 DEF Replaces
<1>12. ~Patches(Head(work)) /\ ~Closes(Head(work))
  BY <1>2 DEF Patches, Closes
<1>13. /\ IsChunk(chunk') /\ chunk'.code = chunk.code /\ chunk'.spans = chunk.spans
       /\ chunk'.constants = chunk.constants
  <2>1. PICK table : chunk' = [chunk EXCEPT !.functions = table]
    BY <1>1
  <2>2. IsChunk(chunk)
    BY DEF CompilerInvariant, CodeIsSound
  <2>3. PICK F, N : chunk \in [code : {chunk.code}, constants : {chunk.constants},
                               spans : {chunk.spans}, functions : F, programFrameSize : N]
    BY <2>2, ChunkFields
  <2> DEFINE m == [chunk EXCEPT !.functions = table]
  <2>4. m \in [code : {chunk.code}, constants : {chunk.constants}, spans : {chunk.spans},
               functions : {table}, programFrameSize : N]
    BY <2>3, ChunkUpdates
  <2> HIDE DEF m
  <2>5. /\ IsChunk(m) /\ m.code = chunk.code /\ m.spans = chunk.spans
        /\ m.constants = chunk.constants
    BY <2>2, <2>4, TablesChange
  <2>6. chunk' = m
    BY <2>1 DEF m
  <2>7. QED
    BY <2>5, <2>6
<1>14. QED
  BY <1>10, <1>11, <1>12, <1>13, QuietKeeps

LEMMA CompilerKeeps ==
    ASSUME CompilerInvariant, TreesAreSound, ProgramIsSound, C!Next
    PROVE  CompilerInvariant' /\ OnlyHolesChange
<1>0. nodes' = nodes
  BY CompilerReadsTheTree
<1>1. CASE C!DeclareFunctions \/ C!CompileLiteral \/ C!CompileIdentifier \/ C!CompileOperator
  BY <1>0, <1>1, DeclareFunctionsKeeps, CompileLiteralKeeps, CompileIdentifierKeeps,
     CompileOperatorKeeps
<1>2. CASE C!EmitOperation \/ C!CompileCall \/ C!CompilePrint \/ C!CompileAssign
  BY <1>0, <1>2, EmitOperationKeeps, CompileCallKeeps, CompilePrintKeeps, CompileAssignKeeps
<1>3. CASE C!CompileBlock \/ C!CompileIf \/ C!CompileThen \/ C!CompileElse \/ C!CompileEndIf
  BY <1>0, <1>3, CompileBlockKeeps, CompileIfKeeps, CompileThenKeeps, CompileElseKeeps,
     CompileEndIfKeeps
<1>4. CASE C!CompileWhile \/ C!CompileLoop \/ C!CompileEndLoop \/ C!CompileReturn
  BY <1>0, <1>4, CompileWhileKeeps, CompileLoopKeeps, CompileEndLoopKeeps, CompileReturnKeeps
<1>5. CASE C!EmitZero \/ C!EmitHalt \/ C!CompileBodies
  BY <1>0, <1>5, EmitZeroKeeps, EmitHaltKeeps, CompileBodiesKeeps
<1>6. CASE C!CompileFunctionBody \/ C!EndFunctionBody \/ C!Finish
  BY <1>0, <1>6, CompileFunctionBodyKeeps, EndFunctionBodyKeeps, FinishCompilerKeeps
<1>7. QED
  BY <1>1, <1>2, <1>3, <1>4, <1>5, <1>6 DEF C!Next

-----------------------------------------------------------------------------

(* The walk of a whole program. *)
IsProgramWalk(walk, S, first, middle, halt, last) ==
    /\ walk \in Seq(S)
    /\ Len(walk) = Len(middle) + 3
    /\ walk[1] = first
    /\ \A i \in 1 .. Len(middle) : walk[i + 1] = middle[i]
    /\ walk[Len(middle) + 2] = halt
    /\ walk[Len(middle) + 3] = last

LEMMA ProgramWalk ==
    ASSUME NEW S, NEW first \in S, NEW halt \in S, NEW last \in S, NEW middle \in Seq(S)
    PROVE  IsProgramWalk(<<first>> \o middle \o <<halt, last>>, S, first, middle, halt, last)
<1> DEFINE a == <<first>>
           b == <<halt, last>>
           c == a \o middle
           walk == c \o b
           n == Len(middle)
<1>1. /\ a \in Seq(S) /\ Len(a) = 1 /\ a[1] = first
      /\ b \in Seq(S) /\ Len(b) = 2 /\ b[1] = halt /\ b[2] = last
      /\ n \in Nat
  BY LenProperties
<1> HIDE DEF a, b
<1>2. /\ c \in Seq(S) /\ Len(c) = 1 + n
      /\ \A i \in 1 .. 1 + n : c[i] = IF i <= 1 THEN a[i] ELSE middle[i - 1]
  <2>1. /\ c \in Seq(S) /\ Len(c) = Len(a) + Len(middle)
        /\ \A i \in 1 .. Len(a) + Len(middle) :
               c[i] = IF i <= Len(a) THEN a[i] ELSE middle[i - Len(a)]
    BY <1>1, ConcatProperties
  <2> HIDE DEF c
  <2>2. QED
    BY <1>1, <2>1
<1> HIDE DEF c, n
<1>3. /\ walk \in Seq(S) /\ Len(walk) = n + 3
      /\ \A i \in 1 .. n + 3 : walk[i] = IF i <= n + 1 THEN c[i] ELSE b[i - (n + 1)]
  <2>1. c \in Seq(S) /\ b \in Seq(S) /\ Len(b) = 2 /\ Len(c) = n + 1 /\ n \in Nat
    BY <1>1, <1>2
  <2>2. /\ c \o b \in Seq(S) /\ Len(c \o b) = Len(c) + Len(b)
        /\ \A i \in 1 .. Len(c) + Len(b) :
               (c \o b)[i] = IF i <= Len(c) THEN c[i] ELSE b[i - Len(c)]
    BY ONLY <2>1, ConcatProperties
  <2> HIDE DEF walk
  <2>3. /\ walk \in Seq(S) /\ Len(walk) = Len(c) + Len(b)
        /\ \A i \in 1 .. Len(c) + Len(b) :
               walk[i] = IF i <= Len(c) THEN c[i] ELSE b[i - Len(c)]
    BY <2>2 DEF walk
  <2>4. Len(c) + Len(b) = n + 3
    BY <2>1
  <2>5. QED
    BY <2>1, <2>3, <2>4
<1> HIDE DEF walk
<1>4. walk[1] = first
  <2>1. 1 \in 1 .. n + 3 /\ 1 <= n + 1 /\ 1 \in 1 .. 1 + n /\ 1 <= 1
    BY <1>1
  <2>2. QED
    BY <1>1, <1>2, <1>3, <2>1
<1>5. ASSUME NEW i \in 1 .. n
      PROVE  walk[i + 1] = middle[i]
  <2>1. /\ i + 1 \in 1 .. n + 3 /\ i + 1 <= n + 1 /\ i + 1 \in 1 .. 1 + n /\ ~(i + 1 <= 1)
        /\ (i + 1) - 1 = i
    BY <1>1
  <2>2. QED
    BY <1>2, <1>3, <2>1
<1>6. walk[n + 2] = halt /\ walk[n + 3] = last
  <2>1. /\ n + 2 \in 1 .. n + 3 /\ ~(n + 2 <= n + 1) /\ (n + 2) - (n + 1) = 1
        /\ n + 3 \in 1 .. n + 3 /\ ~(n + 3 <= n + 1) /\ (n + 3) - (n + 1) = 2
    BY <1>1
  <2>2. QED
    BY <1>1, <1>3, <2>1
<1>7. IsProgramWalk(walk, S, first, middle, halt, last)
  BY <1>3, <1>4, <1>5, <1>6 DEF IsProgramWalk, n
<1>8. QED
  BY <1>7 DEF walk, c, a, b

LEMMA EmptyChunkIsSound ==
    /\ IsChunk(C!EmptyChunk) /\ Tiled(C!EmptyChunk) /\ ReadsInOrder(C!EmptyChunk)
    /\ Len(C!EmptyChunk.spans) = 0
<1> DEFINE k == C!EmptyChunk
           none == <<>>
           K == [code : Seq({}), constants : Seq({}), spans : Seq({}), functions : {none},
                 programFrameSize : {0}]
<1>1. none \in Seq({}) /\ Len(none) = 0
  OBVIOUS
<1>2. k \in K /\ k.code = none /\ k.constants = none /\ k.spans = none
  BY <1>1 DEF C!EmptyChunk
<1>3. IsChunk(k)
  BY <1>2 DEF IsChunk
<1> HIDE DEF k, none
<1>4. Tiled(k)
  <2>1. MaxOperand \in Nat
    BY PipelineAssumption
  <2>2. Len(k.code) = 0 /\ \A i \in 1 .. Len(k.spans) : FALSE
    BY <1>1, <1>2
  <2>3. QED
    BY <2>1, <2>2 DEF Tiled
<1>5. ReadsInOrder(k)
  <2>1. Len(Reads(k)) \in Nat /\ \A i \in 1 .. Len(Reads(k)) : \E s \in 1 .. Len(k.spans) : TRUE
    BY <1>3, ReadsAreConsts
  <2>2. \A i \in 1 .. Len(Reads(k)) : FALSE
    BY <1>1, <1>2, <2>1
  <2>3. Len(Reads(k)) = 0
    <3>1. Len(Reads(k)) > 0 => 1 \in 1 .. Len(Reads(k))
      BY <2>1
    <3>2. QED
      BY <2>1, <2>2, <3>1
  <2>4. Len(k.constants) = 0
    BY <1>1, <1>2
  <2>5. QED
    BY <2>3, <2>4 DEF ReadsInOrder
<1>6. QED
  BY <1>1, <1>2, <1>3, <1>4, <1>5 DEF k

LEMMA CompilerStarts ==
    ASSUME TreesAreSound, ProgramIsSound, nodes' = nodes, chunk' = C!EmptyChunk,
           work' = C!InitialWork(program)
    PROVE  CompilerInvariant'
<1> DEFINE first == C!Item("declare", 0)
           halt == C!Item("halt", 0)
           last == C!Item("bodies", 0)
           E(i) == C!Item("statement", program[i])
           middle == [i \in 1 .. Len(program) |-> E(i)]
           m == Len(program)
<1>1. program \in Seq(1 .. Len(nodes)) /\ m \in Nat /\ DOMAIN program = 1 .. m
  BY LenProperties DEF ProgramIsSound, Separate
<1>2. \A i \in 1 .. m :
          /\ program[i] \in 1 .. Len(nodes) /\ program[i] \in Nat
          /\ KindOf(nodes[program[i]].type) # "E"
  <2>1. \A i \in 1 .. m : program[i] \in 1 .. Len(nodes)
    BY <1>1, ElementOfSeq
  <2>2. \A i \in 1 .. m : KindOf(nodes[program[i]].type) # "E"
    BY DEF ProgramIsSound
  <2>3. QED
    BY <2>1, <2>2
<1>3. /\ first \in CompilerItem /\ first.do = "declare"
      /\ halt \in CompilerItem /\ halt.do = "halt"
      /\ last \in CompilerItem /\ last.do = "bodies"
  BY DEF C!Item, C!JumpItem, CompilerItem, CompilerWalks
<1>4. \A i \in 1 .. m : E(i) \in CompilerItem /\ E(i).do = "statement" /\ E(i).node = program[i]
  <2> DEFINE do == "statement"
  <2>1. do \in CompilerWalks
    BY DEF CompilerWalks
  <2> HIDE DEF do
  <2>2. \A i \in 1 .. m :
            /\ C!Item(do, program[i]) \in CompilerItem
            /\ C!Item(do, program[i]).do = do /\ C!Item(do, program[i]).node = program[i]
    BY <1>2, <2>1, ItemFields
  <2>3. QED
    BY <2>2 DEF do
<1> HIDE DEF first, halt, last, E
<1>5. /\ middle \in Seq(CompilerItem) /\ Len(middle) = m
      /\ \A i \in 1 .. m : middle[i] = E(i)
  <2>1. middle \in Seq(CompilerItem)
    BY <1>1, <1>4, IsASeq
  <2>2. QED
    BY <1>1, <2>1
<1>6. C!Items("statement", program) = middle
  BY <1>1 DEF C!Items, E
<1> HIDE DEF middle
<1>7. IsProgramWalk(work', CompilerItem, first, middle, halt, last)
  <2>1. work' = <<first>> \o middle \o <<halt, last>>
    BY <1>6 DEF C!InitialWork, first, halt, last
  <2>2. IsProgramWalk(<<first>> \o middle \o <<halt, last>>, CompilerItem, first, middle,
                      halt, last)
    BY ONLY <1>3, <1>5, ProgramWalk
  <2>3. QED
    BY <2>1, <2>2
<1> HIDE DEF m
<1>8. /\ work' \in Seq(CompilerItem) /\ Len(work') = m + 3
      /\ work'[m + 2].do = "halt" /\ m + 2 \in 1 .. Len(work')
  BY <1>1, <1>3, <1>5, <1>7 DEF IsProgramWalk
<1>9. ASSUME NEW i \in 1 .. Len(work')
      PROVE  \/ i = 1 /\ work'[i].do = "declare"
             \/ /\ i < m + 2 /\ work'[i].do = "statement"
                /\ work'[i].node \in 1 .. Len(nodes)
                /\ KindOf(nodes[work'[i].node].type) # "E"
             \/ i = m + 2 /\ work'[i].do = "halt"
             \/ i = m + 3 /\ i = Len(work') /\ work'[i].do = "bodies"
  <2>1. i = 1 \/ i - 1 \in 1 .. m \/ i = m + 2 \/ i = m + 3
    BY <1>1, <1>8
  <2>2. CASE i - 1 \in 1 .. m
    <3>1. work'[(i - 1) + 1] = E(i - 1) /\ (i - 1) + 1 = i /\ i < m + 2
      BY <1>1, <1>5, <1>7, <2>2 DEF IsProgramWalk
    <3>2. work'[i] = E(i - 1)
      BY <3>1
    <3>3. QED
      BY <1>2, <1>4, <2>2, <3>1, <3>2
  <2>3. QED
    BY <1>3, <1>5, <1>7, <1>8, <2>1, <2>2 DEF IsProgramWalk
<1>10. ASSUME NEW i \in 1 .. Len(work')
       PROVE  /\ Compilable(work[i])'
              /\ ~Patches(work'[i]) /\ ~Loops(work'[i])
              /\ Waits(work'[i]) => \E j \in i + 1 .. Len(work') : Closes(work'[j])
              /\ Ends(work'[i]) => i = Len(work')
  <2>1. work'[i].do \in {"declare", "statement", "halt", "bodies"}
    BY <1>9
  <2>2. Compilable(work[i])'
    <3>1. nodes' = nodes
      OBVIOUS
    <3>2. QED
      BY <1>9, <2>1, <3>1 DEF Compilable, IsNode
  <2>3. ~Patches(work'[i]) /\ ~Loops(work'[i])
    BY <2>1 DEF Patches, Loops
  <2>4. ASSUME Waits(work'[i])
        PROVE  \E j \in i + 1 .. Len(work') : Closes(work'[j])
    <3>1. work'[i].do = "statement"
      BY <2>1, <2>4 DEF Waits
    <3>2. i < m + 2
      BY <1>9, <3>1
    <3>3. m + 2 \in i + 1 .. Len(work')
      BY <1>1, <1>8, <3>2
    <3>4. Closes(work'[m + 2])
      BY <1>8 DEF Closes
    <3>5. QED
      BY <3>3, <3>4
  <2>5. ASSUME Ends(work'[i])
        PROVE  i = Len(work')
    <3>1. work'[i].do = "bodies"
      BY <2>1, <2>5 DEF Ends
    <3>2. QED
      BY <1>9, <3>1
  <2>6. QED
    BY <2>2, <2>3, <2>4, <2>5
<1>11. WalkIsSound'
  <2>1. (\A i \in 1 .. Len(work) : Compilable(work[i]))'
    BY <1>10
  <2>2. (\A i \in 1 .. Len(work) : Waits(work[i]) => \E j \in i + 1 .. Len(work) : Closes(work[j]))'
    BY <1>10
  <2>3. (\A i \in 1 .. Len(work) : Ends(work[i]) => i = Len(work))'
    BY <1>10
  <2>4. (\A i, j \in 1 .. Len(work) :
             Patches(work[i]) /\ Patches(work[j]) /\ i # j => work[i].at # work[j].at)'
    BY <1>10
  <2>5. QED
    BY <1>8, <2>1, <2>2, <2>3, <2>4 DEF WalkIsSound
<1>12. CodeIsSound'
  <2>1. /\ IsChunk(chunk)' /\ Tiled(chunk)' /\ ReadsInOrder(chunk)'
        /\ \A s \in 1 .. Len(chunk'.spans) : FALSE
    <3>1. IsChunk(chunk') /\ Tiled(chunk') /\ ReadsInOrder(chunk') /\ Len(chunk'.spans) = 0
      BY EmptyChunkIsSound
    <3>2. QED
      BY <3>1
  <2>2. (\A i \in 1 .. Len(work) : ~Patches(work[i]) /\ ~Loops(work[i]))'
    BY <1>10
  <2>3. QED
    BY <2>1, <2>2 DEF CodeIsSound
<1>13. QED
  BY <1>11, <1>12 DEF CompilerInvariant

-----------------------------------------------------------------------------

(* Only Finish ends the walk without an error, when nothing is left of it. *)
LEMMA OnlyFinishFinishes ==
    ASSUME CompilerInvariant, C!Next, compiled' = Finished
    PROVE  work' = <<>>
<1>1. ASSUME NEW span, NEW message
      PROVE  C!CompileError(span, message) # Finished
  BY DEF C!CompileError, Finished, C!Verdict, Verdict
<1>2. Running # Finished /\ C!Running = Running /\ C!Finished = Finished
  BY DEF Running, Finished, C!Running, C!Finished, Verdict, C!Verdict, NoSpan, C!NoSpan,
         MakeSpan, C!MakeSpan
<1>3. ASSUME NEW do, C!Visiting(do)
      PROVE  compiled # Finished
  BY <1>2, <1>3 DEF C!Visiting
<1>4. ASSUME NEW span, NEW message
      PROVE  ~C!Fail(span, message)
  BY <1>1 DEF C!Fail
<1>5. ASSUME NEW onto, NEW op, NEW operand, NEW span, NEW text, NEW items,
             C!EmitOnto(onto, op, operand, span, text, items)
      PROVE  compiled' = compiled
  BY <1>4, <1>5 DEF C!EmitOnto
<1>6. ASSUME NEW value, NEW span, NEW items, C!EmitConstant(value, span, items)
      PROVE  compiled' = compiled
  BY <1>4, <1>5, <1>6 DEF C!EmitConstant
<1>7. ASSUME NEW op, NEW slot, NEW span, C!EmitSlot(op, slot, span)
      PROVE  compiled' = compiled
  BY <1>4, <1>5, <1>7 DEF C!EmitSlot, C!EmitHere
<1>8. CASE C!DeclareFunctions
  BY <1>3, <1>4, <1>8 DEF C!DeclareFunctions
<1>9. CASE C!CompileLiteral \/ C!CompileIdentifier \/ C!EmitOperation \/ C!EmitZero
  BY <1>3, <1>5, <1>6, <1>7, <1>9
     DEF C!CompileLiteral, C!CompileIdentifier, C!EmitOperation, C!EmitZero, C!EmitHere,
         C!VisitingA
<1>10. CASE C!CompileOperator \/ C!CompilePrint \/ C!CompileBlock \/ C!CompileIf
            \/ C!CompileWhile \/ C!CompileReturn \/ C!CompileBodies
  BY <1>3, <1>10
     DEF C!CompileOperator, C!CompilePrint, C!CompileBlock, C!CompileIf, C!CompileWhile,
         C!CompileReturn, C!CompileBodies, C!Visit, C!VisitingA
<1>11. CASE C!CompileCall \/ C!CompileAssign
  BY <1>3, <1>5, <1>7, <1>11
     DEF C!CompileCall, C!CompileAssign, C!Visit, C!EmitHere, C!VisitingA
<1>12. CASE C!CompileThen \/ C!CompileLoop \/ C!EmitHalt \/ C!EndFunctionBody
  BY <1>3, <1>5, <1>12 DEF C!CompileThen, C!CompileLoop, C!EmitHalt, C!EndFunctionBody, C!EmitHere
<1>13. CASE C!CompileElse \/ C!CompileEndIf \/ C!CompileEndLoop \/ C!CompileFunctionBody
  BY <1>3, <1>4, <1>13
     DEF C!CompileElse, C!CompileEndIf, C!CompileEndLoop, C!CompileFunctionBody
<1>14. CASE C!Finish
  <2>1. C!Visiting("finish") /\ work' = <<>> \o Tail(work)
    BY <1>14 DEF C!Finish, C!Become
  <2>2. work # <<>> /\ Head(work).do = "finish" /\ Head(work) = work[1] /\ 1 \in 1 .. Len(work)
    BY <2>1, CompilerVisits
  <2>3. work \in Seq(CompilerItem) /\ \A i \in 1 .. Len(work) : Ends(work[i]) => i = Len(work)
    BY DEF CompilerInvariant, WalkIsSound
  <2>4. Len(work) = 1
    BY <2>2, <2>3 DEF Ends
  <2>5. Tail(work) \in Seq(CompilerItem) /\ Len(Tail(work)) = 0
    BY <2>2, <2>3, <2>4, HeadTailProperties
  <2>6. Tail(work) = <<>>
    BY <2>5, EmptySeq
  <2>7. QED
    BY <2>1, <2>6
<1>15. QED
  BY <1>8, <1>9, <1>10, <1>11, <1>12, <1>13, <1>14 DEF C!Next

(* The engines only read the chunk. *)
LEMMA VmReadsTheChunk ==
    ASSUME V!Next
    PROVE  chunk' = chunk
<1>1. ASSUME NEW message, V!Fault(message)
      PROVE  chunk' = chunk
  BY <1>1 DEF V!Fault
<1>2. ASSUME NEW after, V!Yield(after)
      PROVE  chunk' = chunk
  BY <1>2 DEF V!Yield
<1>3. ASSUME NEW value, V!Push(value)
      PROVE  chunk' = chunk
  BY <1>1, <1>2, <1>3 DEF V!Push
<1>4. ASSUME NEW n, NEW value, V!Replace(n, value)
      PROVE  chunk' = chunk
  BY <1>2, <1>4 DEF V!Replace
<1>5. CASE V!Const \/ V!LoadLocal \/ V!StoreLocal \/ V!Pop
  BY <1>2, <1>3, <1>5 DEF V!Const, V!LoadLocal, V!StoreLocal, V!Pop
<1>6. CASE V!Arithmetic \/ V!Divide \/ V!Negate \/ V!Equal \/ V!Order \/ V!Not
  BY <1>1, <1>4, <1>6
     DEF V!Arithmetic, V!Divide, V!Negate, V!Equal, V!Order, V!Not, V!BinaryTypeFault,
         V!UnaryTypeFault, V!BinaryOverflowFault
<1>7. CASE V!Jump \/ V!JumpIfFalse \/ V!Unknown
  BY <1>1, <1>7 DEF V!Jump, V!JumpIfFalse, V!Unknown
<1>8. CASE V!Call \/ V!Return \/ V!PrintTop \/ V!Halt
  BY <1>1, <1>8 DEF V!Call, V!Return, V!PrintTop, V!Halt
<1>9. QED
  BY <1>5, <1>6, <1>7, <1>8 DEF V!Next

-----------------------------------------------------------------------------

(* What is left of the compiler's invariant once it is done: no jump waits. *)
ChunkIsComplete ==
    /\ IsChunk(chunk) /\ Tiled(chunk) /\ ReadsInOrder(chunk)
    /\ \A s \in 1 .. Len(chunk.spans) :
           OpOf(chunk, s) \in JumpOps =>
               /\ OperandAt(chunk, OffsetOf(chunk, s)) \in Nat
               /\ OperandAt(chunk, OffsetOf(chunk, s)) < Len(chunk.code)

(* Stage by stage: no code yet, code in the making, code that is complete. *)
PipelineInvariant ==
    /\ FrontInvariant
    /\ stage \in {"parse", "resolve", "compile", "run"}
    /\ stage \in {"parse", "resolve"} => chunk = C!EmptyChunk /\ compiled = Running
    /\ stage = "compile" => CompilerInvariant /\ (compiled = Finished => work = <<>>)
    /\ stage = "run" /\ compiled = Finished => ChunkIsComplete

LEMMA DoneIsComplete ==
    ASSUME CompilerInvariant, work = <<>>
    PROVE  ChunkIsComplete
<1>1. CodeIsSound /\ \A i \in 1 .. Len(work) : FALSE
  BY DEF CompilerInvariant
<1>2. ASSUME NEW s \in 1 .. Len(chunk.spans), OpOf(chunk, s) \in JumpOps
      PROVE  /\ OperandAt(chunk, OffsetOf(chunk, s)) \in Nat
             /\ OperandAt(chunk, OffsetOf(chunk, s)) < Len(chunk.code)
  <2>1. HasTarget(chunk, s)
    BY <1>1, <1>2 DEF CodeIsSound, IsAwaited
  <2>2. QED
    BY <1>1, <2>1 DEF HasTarget
<1>3. QED
  BY <1>1, <1>2 DEF ChunkIsComplete, CodeIsSound

LEMMA PipelineStarts ==
    ASSUME Init
    PROVE  PipelineInvariant
<1>1. stage = "parse" /\ chunk = C!EmptyChunk /\ compiled = Running
  BY DEF Init
<1>2. QED
  BY <1>1, FrontStarts DEF PipelineInvariant

(* What a step that leaves the chunk alone keeps. *)
LEMMA CompleteStays ==
    ASSUME ChunkIsComplete, chunk' = chunk
    PROVE  ChunkIsComplete'
BY DEF ChunkIsComplete, IsChunk, Tiled, ReadsInOrder, Reads, OffsetOf, OpOf, OperandAt, Length

LEMMA CompilerStutters ==
    ASSUME CompilerInvariant, chunk' = chunk, work' = work, nodes' = nodes
    PROVE  CompilerInvariant'
<1>1. (\A i \in 1 .. Len(work) : Compilable(work[i]))'
  BY DEF CompilerInvariant, WalkIsSound, Compilable, IsNode
<1>2. WalkIsSound'
  BY <1>1 DEF CompilerInvariant, WalkIsSound
<1>3. CodeIsSound'
  <2>1. CodeIsSound
    BY DEF CompilerInvariant
  <2>2. QED
    BY <2>1 DEF CodeIsSound, IsChunk, Tiled, ReadsInOrder, Reads, OffsetOf, OpOf, OperandAt,
                Length, IsHole, IsAwaited, HasTarget
<1>4. QED
  BY <1>2, <1>3 DEF CompilerInvariant

LEMMA PipelineKeeps ==
    ASSUME PipelineInvariant, [Next]_vars
    PROVE  PipelineInvariant'
<1>0. FrontInvariant /\ FrontInvariant'
  BY FrontKeeps DEF PipelineInvariant
<1>1. CASE Parse
  <2>1. stage = "parse" /\ stage' = "parse" /\ chunk' = chunk /\ compiled' = compiled
    BY <1>1 DEF Parse, compilerState
  <2>2. QED
    BY <1>0, <2>1 DEF PipelineInvariant, C!EmptyChunk, Running
<1>2. CASE StartResolve
  <2>1. stage = "parse" /\ stage' = "resolve" /\ chunk' = chunk /\ compiled' = compiled
    BY <1>2 DEF StartResolve, compilerState
  <2>2. QED
    BY <1>0, <2>1 DEF PipelineInvariant, C!EmptyChunk, Running
<1>3. CASE Resolve
  <2>1. stage = "resolve" /\ stage' = "resolve" /\ chunk' = chunk /\ compiled' = compiled
    BY <1>3 DEF Resolve, compilerState
  <2>2. QED
    BY <1>0, <2>1 DEF PipelineInvariant, C!EmptyChunk, Running
<1>4. CASE StartCompile
  <2>1. /\ stage = "resolve" /\ stage' = "compile" /\ chunk' = chunk /\ compiled' = compiled
        /\ nodes' = nodes /\ work' = C!InitialWork(program)
    BY <1>4 DEF StartCompile, compilerState
  <2>2. chunk' = C!EmptyChunk /\ compiled' = Running
    BY <2>1 DEF PipelineInvariant
  <2>3. compiled' # Finished
    BY <2>2 DEF Running, Finished, Verdict
  <2>4. TreesAreSound /\ ProgramIsSound
    BY <1>0, <2>1 DEF FrontInvariant
  <2>5. CompilerInvariant'
    BY <2>1, <2>2, <2>4, CompilerStarts
  <2>6. QED
    BY <1>0, <2>1, <2>3, <2>5 DEF PipelineInvariant, Finished
<1>5. CASE Compile
  <2>1. stage = "compile" /\ stage' = "compile" /\ C!Next
    BY <1>5 DEF Compile
  <2>2. TreesAreSound /\ ProgramIsSound /\ CompilerInvariant
    BY <1>0, <2>1 DEF FrontInvariant, PipelineInvariant
  <2>3. CompilerInvariant'
    BY <2>1, <2>2, CompilerKeeps
  <2>4. compiled' = Finished => work' = <<>>
    BY <2>1, <2>2, OnlyFinishFinishes
  <2>5. QED
    BY <1>0, <2>1, <2>3, <2>4 DEF PipelineInvariant, Finished
<1>6. CASE StartRun
  <2>1. stage = "compile" /\ stage' = "run" /\ chunk' = chunk /\ compiled' = compiled
    BY <1>6 DEF StartRun, compilerState
  <2>2. CompilerInvariant /\ (compiled = Finished => work = <<>>)
    BY <2>1 DEF PipelineInvariant
  <2>3. compiled = Finished => ChunkIsComplete
    BY <2>2, DoneIsComplete
  <2>4. compiled' = Finished => ChunkIsComplete'
    BY <2>1, <2>3, CompleteStays
  <2>5. QED
    BY <1>0, <2>1, <2>4 DEF PipelineInvariant, Finished
<1>7. CASE TreeStep \/ VmStep
  <2>1. stage = "run" /\ stage' = "run" /\ compiled' = compiled /\ chunk' = chunk
    BY <1>7, VmReadsTheChunk DEF TreeStep, VmStep, compilerState
  <2>2. compiled' = Finished => ChunkIsComplete'
    BY <2>1, CompleteStays DEF PipelineInvariant
  <2>3. QED
    BY <1>0, <2>1, <2>2 DEF PipelineInvariant, Finished
<1>8. CASE UNCHANGED vars
  <2>1. /\ stage' = stage /\ chunk' = chunk /\ compiled' = compiled /\ work' = work
        /\ nodes' = nodes
    BY <1>8 DEF vars, compilerState
  <2>2. stage' = "compile" => CompilerInvariant' /\ (compiled' = Finished => work' = <<>>)
    BY <2>1, CompilerStutters DEF PipelineInvariant
  <2>3. stage' = "run" /\ compiled' = Finished => ChunkIsComplete'
    BY <2>1, CompleteStays DEF PipelineInvariant
  <2>4. stage' \in {"parse", "resolve"} => chunk' = C!EmptyChunk' /\ compiled' = Running'
    BY <2>1 DEF PipelineInvariant, C!EmptyChunk, Running
  <2>5. QED
    BY <1>0, <2>1, <2>2, <2>3, <2>4 DEF PipelineInvariant, Finished
<1>9. QED
  BY <1>1, <1>2, <1>3, <1>4, <1>5, <1>6, <1>7, <1>8 DEF Next

-----------------------------------------------------------------------------

(* The instructions by number and by offset. *)
LEMMA InstructionAt ==
    ASSUME IsChunk(chunk), Tiled(chunk), NEW s \in 1 .. Len(chunk.spans)
    PROVE  /\ T!Byte(chunk, OffsetOf(chunk, s)) = OpOf(chunk, s)
           /\ T!ReadOperand(chunk, OffsetOf(chunk, s)) = OperandAt(chunk, OffsetOf(chunk, s))
<1> DEFINE o == OffsetOf(chunk, s)
<1>1. o \in Nat
  BY DEF Tiled
<1>2. o + 1 + 1 = o + 2 /\ o + 2 + 1 = o + 3
  BY <1>1
<1>3. T!Byte(chunk, o) = OpOf(chunk, s)
  BY DEF T!Byte, OpOf, OffsetOf
<1> HIDE DEF o
<1>4. T!ReadOperand(chunk, o) = OperandAt(chunk, o)
  BY <1>2 DEF T!ReadOperand, T!Byte, OperandAt
<1>5. QED
  BY <1>3, <1>4 DEF o

LEMMA UnpatchedAreJumps ==
    ASSUME IsChunk(chunk), Tiled(chunk), NEW o \in Unpatched
    PROVE  \E s \in 1 .. Len(chunk.spans) :
               /\ o = OffsetOf(chunk, s) /\ OpOf(chunk, s) \in JumpOps
               /\ OperandAt(chunk, o) = MaxOperand
<1>1. /\ o \in T!Starts(chunk) /\ T!Byte(chunk, o) \in Jumps
      /\ T!ReadOperand(chunk, o) = MaxOperand
  BY DEF Unpatched, C!Placeholder
<1>2. PICK s \in DOMAIN chunk.spans : o = chunk.spans[s].offset
  BY <1>1 DEF T!Starts
<1>3. s \in 1 .. Len(chunk.spans)
  <2>1. PICK E : chunk.spans \in Seq(E)
    BY ChunkFields
  <2>2. QED
    BY <1>2, <2>1, LenProperties
<1>4. o = OffsetOf(chunk, s)
  BY <1>2 DEF OffsetOf
<1>5. T!Byte(chunk, o) = OpOf(chunk, s) /\ T!ReadOperand(chunk, o) = OperandAt(chunk, o)
  BY <1>3, <1>4, InstructionAt
<1>6. Jumps = JumpOps
  BY DEF Jumps, JumpOps, T!OpCode
<1>7. QED
  BY <1>1, <1>3, <1>4, <1>5, <1>6

LEMMA PipelineHolds == Spec => []PipelineInvariant
<1>1. Init => PipelineInvariant
  BY PipelineStarts
<1>2. PipelineInvariant /\ [Next]_vars => PipelineInvariant'
  BY PipelineKeeps
<1>3. QED
  BY <1>1, <1>2, PTL DEF Spec

(* A step of any stage changes at most the operands of jumps that had none. *)
LEMMA StepsChangeOnlyHoles ==
    ASSUME PipelineInvariant, [Next]_vars, stage = "compile"
    PROVE  OnlyHolesChange
<1>1. FrontInvariant /\ CompilerInvariant
  BY DEF PipelineInvariant
<1>2. CASE Compile
  <2>1. C!Next
    BY <1>2 DEF Compile
  <2>2. TreesAreSound /\ ProgramIsSound
    BY <1>1 DEF FrontInvariant
  <2>3. QED
    BY <1>1, <2>1, <2>2, CompilerKeeps
<1>3. CASE chunk' = chunk
  <2>1. PICK B : chunk.code \in Seq(B)
    BY <1>1, ChunkFields DEF CompilerInvariant, CodeIsSound
  <2>2. Len(chunk.code) \in Nat
    BY <2>1, LenProperties
  <2>3. Len(chunk'.code) >= Len(chunk.code)
    BY <1>3, <2>2
  <2>4. QED
    BY <1>3, <2>3 DEF OnlyHolesChange
<1>4. Compile \/ chunk' = chunk
  <2>1. CASE StartRun
    BY <2>1 DEF StartRun, compilerState
  <2>2. CASE UNCHANGED vars
    BY <2>2 DEF vars, compilerState
  <2>3. CASE Parse \/ StartResolve \/ Resolve \/ StartCompile \/ TreeStep \/ VmStep
    BY <2>3 DEF Parse, StartResolve, Resolve, StartCompile, TreeStep, VmStep
  <2>4. QED
    BY <2>1, <2>2, <2>3 DEF Next
<1>5. QED
  BY <1>2, <1>3, <1>4

(* Emitted code is final, for every program and every capacity of a chunk: what
   the compiler (src/src/compiler.cpp) changes of what it has already emitted is
   the operand of a jump that had none, and nothing changes it afterwards. *)
THEOREM EmittedCodeStays == Spec => EmittedCodeIsFinal
<1>1. PipelineInvariant /\ [Next]_vars
          => [stage = "compile" =>
                 LET hole == UNION {{o + 2, o + 3} : o \in Unpatched}
                 IN  /\ Len(chunk'.code) >= Len(chunk.code)
                     /\ \A i \in DOMAIN chunk.code :
                            chunk'.code[i] # chunk.code[i] => i \in hole]_vars
  <2> SUFFICES ASSUME PipelineInvariant, [Next]_vars, stage = "compile"
               PROVE  OnlyHolesChange
    BY DEF OnlyHolesChange
  <2>1. QED
    BY StepsChangeOnlyHoles
<1>2. QED
  BY <1>1, PipelineHolds, PTL DEF Spec, EmittedCodeIsFinal

LEMMA PendingHoles ==
    ASSUME CompilerInvariant, Len(chunk.code) < MaxOperand
    PROVE  Unpatched = ToBePatched
<1>1. /\ CodeIsSound /\ IsChunk(chunk) /\ Tiled(chunk)
      /\ work \in Seq(CompilerItem)
  BY DEF CompilerInvariant, CodeIsSound, WalkIsSound
<1>2. DOMAIN work = 1 .. Len(work)
  BY <1>1, LenProperties
<1>3. ASSUME NEW o \in Unpatched
      PROVE  o \in ToBePatched
  <2>1. PICK s \in 1 .. Len(chunk.spans) :
            /\ o = OffsetOf(chunk, s) /\ OpOf(chunk, s) \in JumpOps
            /\ OperandAt(chunk, o) = MaxOperand
    BY <1>1, UnpatchedAreJumps
  <2>2. ~HasTarget(chunk, s)
    <3>1. PICK B : chunk.code \in Seq(B)
      BY <1>1, ChunkFields
    <3>2. Len(chunk.code) \in Nat /\ MaxOperand \in Nat
      BY <3>1, LenProperties, PipelineAssumption
    <3>3. ~(MaxOperand <= Len(chunk.code))
      BY <3>2
    <3>4. QED
      BY <2>1, <3>3 DEF HasTarget
  <2>3. IsAwaited(chunk, s)
    BY <1>1, <2>1, <2>2 DEF CodeIsSound
  <2>4. PICK i \in 1 .. Len(work) : Patches(work[i]) /\ work[i].at = o
    BY <2>1, <2>3 DEF IsAwaited
  <2>5. QED
    BY <1>2, <2>4 DEF ToBePatched, Patches
<1>4. ASSUME NEW o \in ToBePatched
      PROVE  o \in Unpatched
  <2>1. PICK i \in 1 .. Len(work) : Patches(work[i]) /\ work[i].at = o
    BY <1>2 DEF ToBePatched, Patches
  <2>2. PICK s \in 1 .. Len(chunk.spans) : OffsetOf(chunk, s) = o /\ IsHole(chunk, s)
    BY <1>1, <2>1 DEF CodeIsSound
  <2>3. QED
    BY <1>1, <2>2, HoleIsUnpatched
<1>5. QED
  BY <1>3, <1>4

LEMMA NoHoleIsLeft ==
    ASSUME ChunkIsComplete
    PROVE  Unpatched = {}
<1> SUFFICES ASSUME NEW o \in Unpatched
             PROVE  FALSE
  OBVIOUS
<1>1. IsChunk(chunk) /\ Tiled(chunk)
  BY DEF ChunkIsComplete
<1>2. PICK s \in 1 .. Len(chunk.spans) :
          /\ o = OffsetOf(chunk, s) /\ OpOf(chunk, s) \in JumpOps
          /\ OperandAt(chunk, o) = MaxOperand
  BY <1>1, UnpatchedAreJumps
<1>3. MaxOperand < Len(chunk.code)
  BY <1>2 DEF ChunkIsComplete
<1>4. PICK B : chunk.code \in Seq(B)
  BY <1>1, ChunkFields
<1>5. Len(chunk.code) \in Nat /\ MaxOperand \in Nat /\ Len(chunk.code) <= MaxOperand
  BY <1>1, <1>4, LenProperties, PipelineAssumption DEF Tiled
<1>6. QED
  BY <1>3, <1>5

(* The holes in the code are at every moment the jumps that pending parts of the
   walk remember, and a compiled program has none: no jump of compiled code,
   whatever the program, leaves the code (src/src/compiler.cpp, emitJump and
   patchJumpToHere). *)
THEOREM HolesAreFilled == Spec => []HolesArePending
<1>1. PipelineInvariant => HolesArePending
  <2> SUFFICES ASSUME PipelineInvariant
               PROVE  HolesArePending
    OBVIOUS
  <2>1. ASSUME stage = "compile", Len(chunk.code) < MaxOperand
        PROVE  Unpatched = ToBePatched
    BY <2>1, PendingHoles DEF PipelineInvariant
  <2>2. ASSUME Successful
        PROVE  Unpatched = {}
    BY <2>2, NoHoleIsLeft DEF PipelineInvariant, Successful
  <2>3. QED
    BY <2>1, <2>2 DEF HolesArePending
<1>2. QED
  BY <1>1, PipelineHolds, PTL

LEMMA ReadsNameTheirConstants ==
    ASSUME ChunkIsComplete
    PROVE  LET isRead(s) == T!Byte(chunk, s.offset) = T!OpCode.CONST
               reads == SubSequence(chunk.spans,
                                    {i \in DOMAIN chunk.spans : isRead(chunk.spans[i])})
           IN  [i \in DOMAIN reads |-> T!ReadOperand(chunk, reads[i].offset)]
               = [i \in DOMAIN chunk.constants |-> i - 1]
<1> DEFINE byRead == {i \in DOMAIN chunk.spans :
                          T!Byte(chunk, chunk.spans[i].offset) = T!OpCode.CONST}
           byOp == {i \in DOMAIN chunk.spans : OpOf(chunk, i) = 0}
           reads == Reads(chunk)
<1>1. IsChunk(chunk) /\ Tiled(chunk) /\ ReadsInOrder(chunk)
  BY DEF ChunkIsComplete
<1>2. PICK V1, E : chunk.constants \in Seq(V1) /\ chunk.spans \in Seq(E)
  BY <1>1, ChunkFields
<1>3. /\ DOMAIN chunk.spans = 1 .. Len(chunk.spans)
      /\ DOMAIN chunk.constants = 1 .. Len(chunk.constants)
  BY <1>2, LenProperties
<1>4. byRead = byOp
  BY DEF T!OpCode, T!Byte, OpOf
<1>5. /\ DOMAIN reads = 1 .. Len(reads)
      /\ \A i \in 1 .. Len(reads) :
             \E s \in 1 .. Len(chunk.spans) : reads[i] = chunk.spans[s]
  <2>1. PICK S : reads \in Seq(S)
    BY <1>1, ReadsAreConsts
  <2>2. \A i \in 1 .. Len(reads) :
            \E s \in 1 .. Len(chunk.spans) : reads[i] = chunk.spans[s]
    BY <1>1, ReadsAreConsts
  <2> HIDE DEF reads
  <2>3. QED
    BY <2>1, <2>2, LenProperties
<1>6. Len(reads) = Len(chunk.constants)
  BY <1>1 DEF ReadsInOrder
<1>7. ASSUME NEW i \in 1 .. Len(chunk.constants)
      PROVE  T!ReadOperand(chunk, reads[i].offset) = i - 1
  <2>1. PICK s \in 1 .. Len(chunk.spans) : reads[i] = chunk.spans[s]
    BY <1>5, <1>6
  <2>2. reads[i].offset = OffsetOf(chunk, s)
    BY <2>1 DEF OffsetOf
  <2>3. T!ReadOperand(chunk, OffsetOf(chunk, s)) = OperandAt(chunk, OffsetOf(chunk, s))
    BY <1>1, InstructionAt
  <2>4. OperandAt(chunk, reads[i].offset) = i - 1
    BY <1>1 DEF ReadsInOrder
  <2>5. QED
    BY <2>2, <2>3, <2>4
<1>8. reads = SubSequence(chunk.spans, byRead)
  BY <1>4 DEF Reads
<1> HIDE DEF reads, byRead, byOp
<1>9. [i \in DOMAIN reads |-> T!ReadOperand(chunk, reads[i].offset)]
      = [i \in DOMAIN chunk.constants |-> i - 1]
  BY <1>3, <1>5, <1>6, <1>7
<1>10. QED
  BY <1>8, <1>9 DEF byRead

(* Each occurrence of a literal has a pool entry of its own, and the CONSTs of
   compiled code read the entries one after the other (src/src/compiler.cpp,
   constantFor). *)
THEOREM ConstantsHaveOneReader == Spec => []ConstantsAreReadOnce
<1>1. PipelineInvariant => ConstantsAreReadOnce
  <2> SUFFICES ASSUME PipelineInvariant, Successful
               PROVE  ConstantsAreReadOnce
    BY DEF ConstantsAreReadOnce
  <2>1. ChunkIsComplete
    BY DEF PipelineInvariant, Successful
  <2>2. QED
    BY <2>1, ReadsNameTheirConstants DEF ConstantsAreReadOnce
<1>2. QED
  BY <1>1, PipelineHolds, PTL

-----------------------------------------------------------------------------

(* What an item of the walk does to the stack once it is compiled: the code of an
   item that runs with u temporaries leaves v. *)
EmitMoves(op, u, v) ==
    \/ op \in {8, 12} /\ u >= 1 /\ v = u
    \/ op \in BinaryOps /\ u >= 2 /\ v = u - 1
    \/ op \in {16, 17} /\ u = 1 /\ v = 0

CallMoves(arguments, u, v) == u >= arguments /\ v = u - arguments + 1

Moves(item, u, v) ==
    /\ item.do \in {"expression", "zero"} => v = u + 1
    /\ item.do = "emit" => EmitMoves(item.op, u, v)
    /\ item.do = "call" => CallMoves(Len(nodes[item.node].kids), u, v)
    /\ item.do \in {"store", "then", "loop", "end body"} => u = 1 /\ v = 0
    /\ item.do \in {"statement", "else", "end if", "end loop", "halt", "bodies", "body", "finish"} =>
           u = 0 /\ v = 0

Carries(walk, u, v) ==
    \E g \in [1 .. Len(walk) + 1 -> Nat] :
        /\ g[1] = u /\ g[Len(walk) + 1] = v
        /\ \A i \in 1 .. Len(walk) : Moves(walk[i], g[i], g[i + 1])

LEMMA CarriesNone ==
    ASSUME NEW u \in Nat
    PROVE  Carries(<<>>, u, u)
<1> DEFINE g == [i \in 1 .. 1 |-> u]
<1>1. g \in [1 .. 0 + 1 -> Nat] /\ g[1] = u /\ g[0 + 1] = u
  OBVIOUS
<1> HIDE DEF g
<1>2. Len(<<>>) = 0
  OBVIOUS
<1>3. QED
  BY <1>1, <1>2 DEF Carries

LEMMA CarriesAppend ==
    ASSUME NEW S, NEW w \in Seq(S), NEW x \in S, NEW u, NEW m, NEW v \in Nat,
           Carries(w, u, m), Moves(x, m, v)
    PROVE  Carries(Append(w, x), u, v)
<1> DEFINE n == Len(w)
           longer == Append(w, x)
<1>1. PICK g \in [1 .. n + 1 -> Nat] :
          /\ g[1] = u /\ g[n + 1] = m
          /\ \A i \in 1 .. n : Moves(w[i], g[i], g[i + 1])
  BY DEF Carries
<1>2. /\ n \in Nat /\ Len(longer) = n + 1
      /\ \A i \in 1 .. n : longer[i] = w[i]
      /\ longer[n + 1] = x
  BY LenProperties, AppendProperties
<1> DEFINE f == [i \in 1 .. n + 1 + 1 |-> IF i = n + 1 + 1 THEN v ELSE g[i]]
<1> HIDE DEF n, longer
<1>3. f \in [1 .. n + 1 + 1 -> Nat]
  BY <1>2
<1>4. f[n + 1 + 1] = v /\ \A i \in 1 .. n + 1 : f[i] = g[i]
  BY <1>2
<1> HIDE DEF f
<1>5. f[1] = u
  BY <1>1, <1>2, <1>4
<1>6. ASSUME NEW i \in 1 .. n + 1
      PROVE  Moves(longer[i], f[i], f[i + 1])
  <2>1. CASE i \in 1 .. n
    <3>1. i + 1 \in 1 .. n + 1
      BY <1>2, <2>1
    <3>2. QED
      BY <1>1, <1>2, <1>4, <2>1, <3>1
  <2>2. CASE i = n + 1
    BY <1>1, <1>2, <1>4, <2>2
  <2>3. QED
    BY <1>2, <2>1, <2>2
<1>7. Carries(longer, u, v)
  BY <1>2, <1>3, <1>4, <1>5, <1>6 DEF Carries
<1>8. QED
  BY <1>7 DEF longer

LEMMA CarriesJoin ==
    ASSUME NEW S, NEW w \in Seq(S), NEW x \in Seq(S), NEW u, NEW m, NEW v,
           Carries(w, u, m), Carries(x, m, v)
    PROVE  Carries(w \o x, u, v)
<1> DEFINE n == Len(w)
           r == Len(x)
           both == w \o x
<1>1. PICK g \in [1 .. n + 1 -> Nat] :
          /\ g[1] = u /\ g[n + 1] = m
          /\ \A i \in 1 .. n : Moves(w[i], g[i], g[i + 1])
  BY DEF Carries
<1>2. PICK h \in [1 .. r + 1 -> Nat] :
          /\ h[1] = m /\ h[r + 1] = v
          /\ \A i \in 1 .. r : Moves(x[i], h[i], h[i + 1])
  BY DEF Carries
<1>3. /\ n \in Nat /\ r \in Nat /\ Len(both) = n + r
      /\ \A i \in 1 .. n + r : both[i] = IF i <= n THEN w[i] ELSE x[i - n]
  BY LenProperties, ConcatProperties
<1> DEFINE f == [i \in 1 .. n + r + 1 |-> IF i <= n THEN g[i] ELSE h[i - n]]
<1> HIDE DEF n, r, both
<1>4. f \in [1 .. n + r + 1 -> Nat]
  <2>1. ASSUME NEW i \in 1 .. n + r + 1
        PROVE  (i <= n => g[i] \in Nat) /\ (~(i <= n) => h[i - n] \in Nat)
    <3>1. i <= n => i \in 1 .. n + 1
      BY <1>3
    <3>2. ~(i <= n) => i - n \in 1 .. r + 1
      BY <1>3
    <3>3. QED
      BY <3>1, <3>2
  <2>2. QED
    BY <2>1
<1>5. /\ \A i \in 1 .. n + 1 : f[i] = g[i]
      /\ \A i \in n + 1 .. n + r + 1 : f[i] = h[i - n]
  <2>1. \A i \in 1 .. n : f[i] = g[i]
    BY <1>3
  <2>2. \A i \in n + 1 .. n + r + 1 : f[i] = h[i - n]
    BY <1>3
  <2>3. f[n + 1] = g[n + 1]
    <3>1. n + 1 \in n + 1 .. n + r + 1 /\ n + 1 - n = 1
      BY <1>3
    <3> HIDE DEF f
    <3>2. f[n + 1] = h[n + 1 - n]
      BY <1>3, <2>2, <3>1
    <3>3. QED
      BY <1>1, <1>2, <3>1, <3>2
  <2>4. \A i \in 1 .. n + 1 : i \in 1 .. n \/ i = n + 1
    BY <1>3
  <2>5. QED
    BY <2>1, <2>2, <2>3, <2>4
<1> HIDE DEF f
<1>6. f[1] = u /\ f[n + r + 1] = v
  <2> DEFINE k == n + r + 1
  <2>1. 1 \in 1 .. n + 1 /\ k \in n + 1 .. n + r + 1 /\ k - n = r + 1
    BY <1>3
  <2> HIDE DEF k
  <2>2. f[1] = g[1] /\ f[k] = h[k - n]
    BY ONLY <1>5, <2>1
  <2>3. f[1] = u /\ f[k] = v
    BY ONLY <1>1, <1>2, <2>1, <2>2
  <2>4. QED
    BY <2>3 DEF k
<1>7. ASSUME NEW i \in 1 .. n + r
      PROVE  Moves(both[i], f[i], f[i + 1])
  <2>1. CASE i <= n
    <3>1. i \in 1 .. n /\ i \in 1 .. n + 1 /\ i + 1 \in 1 .. n + 1
      BY <1>3, <2>1
    <3>2. QED
      BY <1>1, <1>3, <1>5, <2>1, <3>1
  <2>2. CASE ~(i <= n)
    <3> DEFINE j == i - n
    <3>1. /\ j \in 1 .. r /\ i \in n + 1 .. n + r + 1 /\ i + 1 \in n + 1 .. n + r + 1
          /\ i + 1 - n = j + 1
      BY <1>3, <2>2
    <3>2. f[i] = h[j] /\ f[i + 1] = h[i + 1 - n]
      BY <1>3, <1>5, <3>1
    <3>3. both[i] = x[j]
      BY <1>3, <2>2
    <3> HIDE DEF j
    <3>4. Moves(x[j], h[j], h[j + 1])
      BY <1>2, <3>1
    <3>5. QED
      BY <3>1, <3>2, <3>3, <3>4
  <2>3. QED
    BY <2>1, <2>2
<1>8. Carries(both, u, v)
  BY <1>3, <1>4, <1>6, <1>7 DEF Carries
<1>9. QED
  BY <1>8 DEF both

LEMMA CarriesHead ==
    ASSUME NEW S, NEW w \in Seq(S), w # <<>>, NEW u, NEW v, Carries(w, u, v)
    PROVE  u \in Nat /\ \E m \in Nat : Moves(Head(w), u, m) /\ Carries(Tail(w), m, v)
<1> DEFINE n == Len(w)
           rest == Tail(w)
<1>1. PICK g \in [1 .. n + 1 -> Nat] :
          /\ g[1] = u /\ g[n + 1] = v
          /\ \A i \in 1 .. n : Moves(w[i], g[i], g[i + 1])
  BY DEF Carries
<1>2. /\ n \in Nat /\ n >= 1 /\ Head(w) = w[1] /\ Len(rest) = n - 1
      /\ \A i \in 1 .. n - 1 : rest[i] = w[i + 1]
  BY LenProperties, HeadTailProperties, EmptySeq
<1> DEFINE f == [i \in 1 .. n |-> g[i + 1]]
<1> HIDE DEF n, rest
<1>3. f \in [1 .. n -> Nat] /\ \A i \in 1 .. n : f[i] = g[i + 1]
  BY <1>2
<1> HIDE DEF f
<1>4. ASSUME NEW i \in 1 .. n - 1
      PROVE  Moves(rest[i], f[i], f[i + 1])
  <2>1. i + 1 \in 1 .. n /\ i \in 1 .. n
    BY <1>2
  <2>2. QED
    BY <1>1, <1>2, <1>3, <2>1
<1>5. n - 1 + 1 = n /\ 1 \in 1 .. n /\ n \in 1 .. n /\ 1 + 1 \in 1 .. n + 1 /\ 1 \in 1 .. n + 1
  BY <1>2
<1>6. Carries(rest, f[1], v)
  <2>1. f[n] = v
    BY <1>1, <1>3, <1>5
  <2>2. QED
    BY <1>2, <1>3, <1>4, <1>5, <2>1 DEF Carries
<1>7. Moves(Head(w), u, f[1]) /\ f[1] \in Nat /\ u \in Nat
  BY <1>1, <1>2, <1>3, <1>5
<1>8. QED
  BY <1>6, <1>7 DEF rest

LEMMA CarriesStill ==
    ASSUME NEW S, NEW w \in Seq(S), \A i \in 1 .. Len(w) : Moves(w[i], 0, 0)
    PROVE  Carries(w, 0, 0)
<1> DEFINE n == Len(w)
           g == [i \in 1 .. n + 1 |-> 0]
<1>1. n \in Nat
  BY LenProperties
<1>2. g \in [1 .. n + 1 -> Nat] /\ \A i \in 1 .. n + 1 : g[i] = 0
  OBVIOUS
<1> HIDE DEF g, n
<1>3. \A i \in 1 .. n : i \in 1 .. n + 1 /\ i + 1 \in 1 .. n + 1
  BY <1>1
<1>4. 1 \in 1 .. n + 1 /\ n + 1 \in 1 .. n + 1
  BY <1>1
<1>5. QED
  BY <1>2, <1>3, <1>4 DEF Carries, n

LEMMA CarriesExpressions ==
    ASSUME NEW S, NEW w \in Seq(S), \A i \in 1 .. Len(w) : w[i].do = "expression",
           NEW u \in Nat
    PROVE  Carries(w, u, u + Len(w))
<1> DEFINE n == Len(w)
           g == [i \in 1 .. n + 1 |-> u + i - 1]
<1>1. n \in Nat
  BY LenProperties
<1>2. g \in [1 .. n + 1 -> Nat] /\ \A i \in 1 .. n + 1 : g[i] = u + i - 1
  OBVIOUS
<1> HIDE DEF g
<1>3. ASSUME NEW i \in 1 .. n
      PROVE  Moves(w[i], g[i], g[i + 1])
  <2>1. i \in 1 .. n + 1 /\ i + 1 \in 1 .. n + 1
    BY <1>1
  <2>2. g[i + 1] = g[i] + 1
    BY <1>2, <2>1
  <2>3. w[i].do = "expression"
    OBVIOUS
  <2>4. QED
    BY <2>2, <2>3 DEF Moves
<1> HIDE DEF n
<1>4. 1 \in 1 .. n + 1 /\ n + 1 \in 1 .. n + 1
  BY <1>1
<1>5. g[1] = u /\ g[n + 1] = u + n
  BY <1>1, <1>2, <1>4
<1>6. QED
  BY <1>2, <1>3, <1>5 DEF Carries, n

(* Other items in the place of the head. *)
LEMMA CarriesOn ==
    ASSUME NEW S, NEW w \in Seq(S), w # <<>>, NEW u, NEW v, Carries(w, u, v),
           NEW items \in Seq(S), NEW u2,
           \A m \in Nat : Moves(Head(w), u, m) => Carries(items, u2, m)
    PROVE  Carries(items \o Tail(w), u2, v)
<1>1. PICK m \in Nat : Moves(Head(w), u, m) /\ Carries(Tail(w), m, v)
  BY CarriesHead
<1>2. Tail(w) \in Seq(S)
  BY HeadTailProperties
<1>3. Carries(items, u2, m)
  BY <1>1
<1>4. QED
  BY <1>1, <1>2, <1>3, CarriesJoin

-----------------------------------------------------------------------------

(* What emit, patchJumpToHere and addConstant leave of the tables. *)
LEMMA TablesStay ==
    ASSUME NEW k, IsChunk(k)
    PROVE  /\ \A op, operand, span, text : SameTables(k, C!Emit(k, op, operand, span, text))
           /\ \A offset, target : SameTables(k, C!PatchOperand(k, offset, target))
           /\ \A value : SameTables(k, C!AddConstant(k, value))
           /\ \A value : C!AddConstant(k, value).constants = Append(k.constants, value)
<1>1. PICK B, V1, E, F, N :
          k \in [code : B, constants : V1, spans : E, functions : F, programFrameSize : N]
  BY DEF IsChunk
<1>3. \A code : SameTables(k, [k EXCEPT !.code = code])
  BY <1>1 DEF SameTables
<1>4. \A constants : /\ SameTables(k, [k EXCEPT !.constants = constants])
                     /\ [k EXCEPT !.constants = constants].constants = constants
  BY <1>1 DEF SameTables
<1>5. ASSUME NEW op, NEW operand, NEW span, NEW text
      PROVE  SameTables(k, C!Emit(k, op, operand, span, text))
  BY <1>1 DEF C!Emit, SameTables
<1>6. ASSUME NEW offset, NEW target
      PROVE  SameTables(k, C!PatchOperand(k, offset, target))
  <2>1. PICK code : C!PatchOperand(k, offset, target) = [k EXCEPT !.code = code]
    BY <1>1 DEF C!PatchOperand
  <2>2. QED
    BY <1>3, <2>1
<1>7. ASSUME NEW value
      PROVE  /\ SameTables(k, C!AddConstant(k, value))
             /\ C!AddConstant(k, value).constants = Append(k.constants, value)
  <2>1. C!AddConstant(k, value) = [k EXCEPT !.constants = Append(k.constants, value)]
    BY DEF C!AddConstant
  <2>2. QED
    BY <1>4, <2>1
<1>8. QED
  BY <1>5, <1>6, <1>7

-----------------------------------------------------------------------------

(* The jumps the walk remembers, and the heads of its loops. *)
AwaitedIn(w) == {w[i].at : i \in {j \in 1 .. Len(w) : Patches(w[j])}}
HeadersIn(w) == {w[i].header : i \in {j \in 1 .. Len(w) : Loops(w[j])}}

DistinctJumps(w) ==
    \A i, j \in 1 .. Len(w) : Patches(w[i]) /\ Patches(w[j]) /\ i # j => w[i].at # w[j].at

LEMMA AwaitedAfter ==
    ASSUME NEW S, NEW w \in Seq(S), w # <<>>, DistinctJumps(w), NEW items \in Seq(S)
    PROVE  LET next == items \o Tail(w)
           IN  /\ \A a : a \in AwaitedIn(next) <=>
                      \/ a \in AwaitedIn(items)
                      \/ a \in AwaitedIn(w) /\ ~(Patches(Head(w)) /\ a = Head(w).at)
               /\ \A t \in HeadersIn(next) : t \in HeadersIn(items) \/ t \in HeadersIn(w)
               /\ Patches(Head(w)) => Head(w).at \in AwaitedIn(w)
               /\ Loops(Head(w)) => Head(w).header \in HeadersIn(w)
<1> DEFINE next == items \o Tail(w)
           n == Len(w)
           r == Len(items)
<1>1. /\ n \in Nat /\ r \in Nat /\ n >= 1 /\ Head(w) = w[1] /\ Len(next) = r + n - 1
      /\ \A i \in 1 .. r : next[i] = items[i]
      /\ \A i \in 2 .. n : next[r + i - 1] = w[i]
  BY LenProperties, HeadTailProperties, EmptySeq, ReplaceHead
<1> HIDE DEF next, n, r
<1>2. ASSUME NEW i \in 1 .. r + n - 1
      PROVE  \/ i \in 1 .. r /\ next[i] = items[i]
             \/ \E j \in 2 .. n : next[i] = w[j]
  <2>1. CASE i <= r
    BY <1>1, <2>1
  <2>2. CASE ~(i <= r)
    <3> DEFINE j == i - r + 1
    <3>1. j \in 2 .. n /\ r + j - 1 = i
      BY <1>1, <2>2
    <3>2. next[r + j - 1] = w[j]
      BY <1>1, <3>1
    <3>3. QED
      BY <3>1, <3>2
  <2>3. QED
    BY <2>1, <2>2
<1>3. \A i \in 1 .. r : i \in 1 .. r + n - 1
  BY <1>1
<1>4. \A j \in 2 .. n : r + j - 1 \in 1 .. r + n - 1 /\ j \in 1 .. n /\ j # 1
  BY <1>1
<1>5. \A a : a \in AwaitedIn(next) <=> \E i \in 1 .. r + n - 1 : Patches(next[i]) /\ next[i].at = a
  BY <1>1 DEF AwaitedIn
<1>6. \A a : a \in AwaitedIn(items) <=> \E i \in 1 .. r : Patches(items[i]) /\ items[i].at = a
  BY DEF AwaitedIn, r
<1>7. \A a : a \in AwaitedIn(w) <=> \E i \in 1 .. n : Patches(w[i]) /\ w[i].at = a
  BY DEF AwaitedIn, n
<1>8. ASSUME NEW a, a \in AwaitedIn(next)
      PROVE  \/ a \in AwaitedIn(items)
             \/ a \in AwaitedIn(w) /\ ~(Patches(Head(w)) /\ a = Head(w).at)
  <2>1. PICK i \in 1 .. r + n - 1 : Patches(next[i]) /\ next[i].at = a
    BY <1>5, <1>8
  <2>2. CASE i \in 1 .. r /\ next[i] = items[i]
    BY <1>6, <2>1, <2>2
  <2>3. CASE \E j \in 2 .. n : next[i] = w[j]
    <3>1. PICK j \in 2 .. n : next[i] = w[j]
      BY <2>3
    <3>2. Patches(w[j]) /\ w[j].at = a /\ j \in 1 .. n /\ j # 1 /\ 1 \in 1 .. n
      BY <1>1, <1>4, <2>1, <3>1
    <3>3. ~(Patches(w[1]) /\ a = w[1].at)
      BY <3>2 DEF DistinctJumps, n
    <3>4. QED
      BY <1>1, <1>7, <3>2, <3>3
  <2>4. QED
    BY <1>2, <2>2, <2>3
<1>9. ASSUME NEW a, a \in AwaitedIn(items)
      PROVE  a \in AwaitedIn(next)
  <2>1. PICK i \in 1 .. r : Patches(items[i]) /\ items[i].at = a
    BY <1>6, <1>9
  <2>2. QED
    BY <1>1, <1>3, <1>5, <2>1
<1>10. ASSUME NEW a, a \in AwaitedIn(w), ~(Patches(Head(w)) /\ a = Head(w).at)
       PROVE  a \in AwaitedIn(next)
  <2>1. PICK j \in 1 .. n : Patches(w[j]) /\ w[j].at = a
    BY <1>7, <1>10
  <2>2. j \in 2 .. n
    <3>1. j # 1
      BY <1>1, <1>10, <2>1
    <3>2. QED
      BY <1>1, <3>1
  <2>3. next[r + j - 1] = w[j] /\ r + j - 1 \in 1 .. r + n - 1
    BY <1>1, <1>4, <2>2
  <2>4. QED
    BY <1>5, <2>1, <2>3
<1>11. ASSUME NEW t, t \in HeadersIn(next)
       PROVE  t \in HeadersIn(items) \/ t \in HeadersIn(w)
  <2>1. PICK i \in 1 .. r + n - 1 : Loops(next[i]) /\ next[i].header = t
    BY <1>1, <1>11 DEF HeadersIn
  <2>2. CASE i \in 1 .. r /\ next[i] = items[i]
    BY <2>1, <2>2 DEF HeadersIn, r
  <2>3. CASE \E j \in 2 .. n : next[i] = w[j]
    <3>1. PICK j \in 2 .. n : next[i] = w[j]
      BY <2>3
    <3>2. j \in 1 .. n
      BY <1>4
    <3>3. QED
      BY <2>1, <3>1, <3>2 DEF HeadersIn, n
  <2>4. QED
    BY <1>2, <2>2, <2>3
<1>12. /\ Patches(Head(w)) => Head(w).at \in AwaitedIn(w)
       /\ Loops(Head(w)) => Head(w).header \in HeadersIn(w)
  <2>1. 1 \in 1 .. n /\ Head(w) = w[1]
    BY <1>1
  <2>2. QED
    BY <2>1 DEF AwaitedIn, HeadersIn, n
<1>13. QED
  BY <1>8, <1>9, <1>10, <1>11, <1>12 DEF next

-----------------------------------------------------------------------------

(* What is left of the walk, part by part: c is where the item is that closes the
   part in the making, and every item before it is of a node of that part.  The
   bodies of the functions after the b-th are still to come. *)
OwnedBy(n, b) ==
    /\ n \in Live
    /\ \E q \in 1 .. Len(program) :
           /\ LiesIn(n, q)
           /\ IF b = 0 THEN ~IsFunction(q) ELSE program[q] = C!Functions[b]

PartItem(item, b) ==
    /\ Waits(item)
    /\ \/ item.do \in {"emit", "zero"}
       \/ OwnedBy(item.node, b)
       \/ item.do = "statement" /\ nodes[item.node].type = "Function"
    /\ item.do = "call" => nodes[item.node].type = "Call"
    /\ item.do = "store" => nodes[item.node].type = "Assign"
    /\ item.do = "emit" /\ item.op = 16 => b # 0

PartItems(items, b) ==
    items \in Seq(CompilerItem) /\ \A i \in 1 .. Len(items) : PartItem(items[i], b)

BodiesToCome(W, b, c) ==
    \/ b = 0 /\ Len(W) = c + 1 /\ W[c + 1].do = "bodies"
    \/ /\ Len(W) = c + (Len(C!Functions) - b) + 1
       /\ \A j \in 1 .. Len(C!Functions) - b :
              W[c + j].do = "body" /\ W[c + j].node = C!Functions[b + j]
       /\ W[Len(W)].do = "finish"
       /\ b = 0 => c = 0

WalkOwned(W, b, c) ==
    /\ b \in 0 .. Len(C!Functions) /\ c \in Nat
    /\ W \in Seq(CompilerItem)
    /\ \A i \in 1 .. c - 1 : PartItem(W[i], b)
    /\ c # 0 => W[c].do = IF b = 0 THEN "halt" ELSE "end body"
    /\ BodiesToCome(W, b, c)

(* What the head of the walk says of where the walk is. *)
OwnedHead(W, b, c) ==
    /\ Waits(Head(W)) => c >= 2 /\ PartItem(Head(W), b)
    /\ Closes(Head(W)) => c = 1 /\ Head(W).do = IF b = 0 THEN "halt" ELSE "end body"
    /\ Head(W).do = "bodies" => c = 0 /\ b = 0 /\ Len(W) = 1
    /\ Head(W).do = "body" =>
           /\ c = 0 /\ b + 1 <= Len(C!Functions) /\ Head(W).node = C!Functions[b + 1]
           /\ Len(W) = c + (Len(C!Functions) - b) + 1
           /\ \A j \in 1 .. Len(C!Functions) - b :
                  W[c + j].do = "body" /\ W[c + j].node = C!Functions[b + j]
           /\ W[Len(W)].do = "finish"
    /\ Head(W).do = "finish" => c = 0 /\ b = Len(C!Functions) /\ Len(W) = 1

LEMMA WalkOwnedHead ==
    ASSUME ProgramIsSound, NEW W, W # <<>>, NEW b, NEW c, WalkOwned(W, b, c)
    PROVE  OwnedHead(W, b, c)
<1> DEFINE n == Len(C!Functions)
           F == C!Functions
           l == Len(W)
<1>0. W \in Seq(CompilerItem) /\ b \in 0 .. n /\ c \in Nat
  BY DEF WalkOwned
<1>1. n \in Nat /\ b \in 0 .. n /\ c \in Nat /\ l \in Nat /\ l >= 1 /\ Head(W) = W[1]
  BY <1>0, FunctionRoots, LenProperties, HeadTailProperties, EmptySeq
<1>2. /\ \A i \in 1 .. c - 1 : PartItem(W[i], b)
      /\ c # 0 => W[c].do = IF b = 0 THEN "halt" ELSE "end body"
      /\ \/ b = 0 /\ l = c + 1 /\ W[c + 1].do = "bodies"
         \/ /\ l = c + (n - b) + 1
            /\ \A j \in 1 .. n - b : W[c + j].do = "body" /\ W[c + j].node = F[b + j]
            /\ W[l].do = "finish"
            /\ b = 0 => c = 0
  BY DEF WalkOwned, BodiesToCome
<1> HIDE DEF n, l, F
<1>3. CASE c >= 2
  <2>1. 1 \in 1 .. c - 1
    BY <1>1, <1>3
  <2>2. PartItem(W[1], b) /\ Waits(W[1])
    BY <1>2, <2>1 DEF PartItem
  <2>3. W[1].do \notin {"halt", "end body", "bodies", "body", "finish"}
    BY <2>2 DEF Waits
  <2>4. QED
    BY <1>1, <1>3, <2>2, <2>3 DEF Closes, OwnedHead
<1>4. CASE c = 1
  <2>1. W[1].do = IF b = 0 THEN "halt" ELSE "end body"
    <3>1. c # 0 /\ W[c] = W[1]
      BY ONLY <1>4
    <3>2. W[c].do = IF b = 0 THEN "halt" ELSE "end body"
      BY ONLY <1>2, <3>1
    <3>3. QED
      BY ONLY <3>1, <3>2
  <2>2. ~Waits(W[1]) /\ W[1].do \notin {"bodies", "body", "finish"}
    BY <2>1 DEF Waits
  <2>3. QED
    BY <1>1, <1>4, <2>1, <2>2 DEF OwnedHead
<1>5. CASE c = 0
  <2>1. CASE b = 0 /\ l = c + 1 /\ W[c + 1].do = "bodies"
    <3>1. W[1].do = "bodies" /\ l = 1
      BY <1>1, <1>5, <2>1
    <3>2. ~Waits(W[1]) /\ ~Closes(W[1]) /\ W[1].do \notin {"body", "finish"}
      BY <3>1 DEF Waits, Closes
    <3>3. QED
      BY <1>1, <1>5, <2>1, <3>1, <3>2 DEF l, OwnedHead
  <2>2. CASE /\ l = c + (n - b) + 1
             /\ \A j \in 1 .. n - b : W[c + j].do = "body" /\ W[c + j].node = F[b + j]
             /\ W[l].do = "finish"
    <3>1. CASE b = n
      <4>1. l = 1 /\ W[1].do = "finish"
        BY <1>1, <1>5, <2>2, <3>1
      <4>2. ~Waits(W[1]) /\ ~Closes(W[1]) /\ W[1].do \notin {"body", "bodies"}
        BY <4>1 DEF Waits, Closes
      <4>3. QED
        BY <1>1, <1>5, <3>1, <4>1, <4>2 DEF l, n, OwnedHead
    <3>2. CASE b # n
      <4>1. 1 \in 1 .. n - b /\ b + 1 <= n /\ c + 1 = 1
        BY <1>1, <1>5, <3>2
      <4>2. W[c + 1].do = "body" /\ W[c + 1].node = F[b + 1]
        BY <2>2, <4>1
      <4>3. W[1].do = "body" /\ W[1].node = F[b + 1]
        BY <4>1, <4>2
      <4>4. ~Waits(W[1]) /\ ~Closes(W[1]) /\ W[1].do \notin {"finish", "bodies"}
        BY <4>3 DEF Waits, Closes
      <4>5. QED
        BY <1>1, <1>5, <2>2, <4>1, <4>3, <4>4 DEF n, F, l, OwnedHead
    <3>3. QED
      BY <3>1, <3>2
  <2>3. QED
    BY <1>2, <2>1, <2>2
<1>6. c >= 2 \/ c = 1 \/ c = 0
  BY <1>1
<1>7. QED
  BY ONLY <1>3, <1>4, <1>5, <1>6

(* The walk after a step within a part. *)
LEMMA WalkOwnedNext ==
    ASSUME ProgramIsSound, NEW W, W # <<>>, NEW b, NEW c, WalkOwned(W, b, c), c >= 1,
           NEW items, PartItems(items, b), c >= 2 \/ Len(items) = 0
    PROVE  WalkOwned(items \o Tail(W), b, Len(items) + c - 1)
<1> DEFINE n == Len(C!Functions)
           F == C!Functions
           l == Len(W)
           r == Len(items)
           next == items \o Tail(W)
           d == r + c - 1
<1>0. W \in Seq(CompilerItem) /\ b \in 0 .. n /\ c \in Nat /\ items \in Seq(CompilerItem)
  BY DEF WalkOwned, PartItems
<1>1. /\ n \in Nat /\ b \in 0 .. n /\ c \in Nat /\ l \in Nat /\ r \in Nat /\ Head(W) = W[1]
      /\ c >= 1
  BY <1>0, FunctionRoots, LenProperties, HeadTailProperties, EmptySeq
<1>2. /\ \A i \in 1 .. c - 1 : PartItem(W[i], b)
      /\ c # 0 => W[c].do = IF b = 0 THEN "halt" ELSE "end body"
      /\ \/ b = 0 /\ l = c + 1 /\ W[c + 1].do = "bodies"
         \/ /\ l = c + (n - b) + 1
            /\ \A j \in 1 .. n - b : W[c + j].do = "body" /\ W[c + j].node = F[b + j]
            /\ W[l].do = "finish"
            /\ b = 0 => c = 0
  BY DEF WalkOwned, BodiesToCome
<1>3. /\ next \in Seq(CompilerItem) /\ Len(next) = r + l - 1 /\ l >= 1
      /\ \A i \in 1 .. r : next[i] = items[i]
      /\ \A i \in 2 .. l : next[r + i - 1] = W[i]
  BY <1>0, LenProperties, EmptySeq, ReplaceHead
<1>4. \A i \in 1 .. r : PartItem(items[i], b)
  BY DEF PartItems
<1> HIDE DEF n, F, l, r, next
<1>5. d \in Nat /\ d + 1 = r + c /\ c <= l
  <2>1. d \in Nat /\ d + 1 = r + c
    BY ONLY <1>1
  <2>2. l = c + 1 \/ l = c + (n - b) + 1
    BY ONLY <1>2
  <2>3. c <= l
    BY ONLY <1>1, <2>2
  <2>4. QED
    BY ONLY <2>1, <2>3
<1>6. ASSUME NEW i \in 1 .. d - 1
      PROVE  PartItem(next[i], b)
  <2>1. CASE i <= r
    <3>1. i \in 1 .. r
      BY <1>1, <2>1
    <3>2. QED
      BY <1>3, <1>4, <3>1
  <2>2. CASE ~(i <= r)
    <3> DEFINE j == i - r + 1
    <3>1. j \in 2 .. l /\ j \in 1 .. c - 1 /\ r + j - 1 = i
      BY <1>1, <1>5, <2>2
    <3> HIDE DEF j
    <3>2. next[i] = W[j]
      BY <1>3, <3>1
    <3>3. QED
      BY <1>2, <3>1, <3>2
  <2>3. QED
    BY <2>1, <2>2
<1>7. d # 0 => next[d].do = IF b = 0 THEN "halt" ELSE "end body"
  <2>1. SUFFICES ASSUME d # 0 PROVE next[d] = W[c] /\ c # 0
    BY <1>2
  <2>2. r = 0 => c # 1
    BY ONLY <1>1, <2>1
  <2>3. r # 0 => c # 1
    BY <1>1 DEF r
  <2>4. c \in 2 .. l /\ c # 0
    BY ONLY <1>1, <1>5, <2>2, <2>3
  <2>5. QED
    BY <1>3, <2>4
<1>8. CASE b = 0 /\ l = c + 1 /\ W[c + 1].do = "bodies"
  <2>1. c + 1 \in 2 .. l /\ r + (c + 1) - 1 = d + 1
    BY <1>1, <1>8
  <2>2. next[d + 1] = W[c + 1]
    BY <1>3, <2>1
  <2>3. Len(next) = d + 1
    BY <1>1, <1>3, <1>8
  <2>4. BodiesToCome(next, b, d)
    BY <1>8, <2>2, <2>3 DEF BodiesToCome
  <2>5. QED
    BY <1>1, <1>3, <1>5, <1>6, <1>7, <2>4 DEF WalkOwned, n, r, next
<1>9. CASE /\ l = c + (n - b) + 1
           /\ \A j \in 1 .. n - b : W[c + j].do = "body" /\ W[c + j].node = F[b + j]
           /\ W[l].do = "finish"
           /\ b = 0 => c = 0
  <2>1. Len(next) = d + (n - b) + 1 /\ b # 0
    BY <1>1, <1>3, <1>9
  <2>2. ASSUME NEW j \in 1 .. n - b
        PROVE  next[d + j] = W[c + j]
    <3>1. c + j \in 2 .. l /\ r + (c + j) - 1 = d + j
      BY <1>1, <1>9
    <3>2. QED
      BY <1>3, <3>1
  <2>3. next[Len(next)] = W[l]
    <3>1. l \in 2 .. l /\ r + l - 1 = Len(next)
      BY <1>1, <1>3, <1>9
    <3>2. QED
      BY <1>3, <3>1
  <2>4. \A j \in 1 .. n - b : next[d + j].do = "body" /\ next[d + j].node = F[b + j]
    BY <1>9, <2>2
  <2>5. BodiesToCome(next, b, d)
    BY <1>9, <2>1, <2>3, <2>4 DEF BodiesToCome, n, F
  <2>6. QED
    BY <1>1, <1>3, <1>5, <1>6, <1>7, <2>5 DEF WalkOwned, n, r, next
<1>10. QED
  BY <1>2, <1>8, <1>9

-----------------------------------------------------------------------------

(* The tables of a chunk, filled before any code is emitted. *)
Declared(k, index) ==
    /\ programFrameSize \in 0 .. MaxOperand /\ k.programFrameSize = programFrameSize
    /\ k.constants \in Seq(T!Value)
    /\ k.functions \in Seq(T!FunctionEntry) /\ Len(k.functions) = Len(C!Functions)
    /\ \A i \in 1 .. Len(C!Functions) :
           /\ k.functions[i].arity = Len(nodes[C!Functions[i]].parameters)
           /\ k.functions[i].frameSize = nodes[C!Functions[i]].frameSize
           /\ index[NameOf(i)] = i - 1 /\ i - 1 <= MaxOperand

(* Typed code, and a walk that goes on from what the code leaves on the stack. *)
Compiling(k, W, h, own, b, c) ==
    /\ CodeTyped(k, AwaitedIn(W), HeadersIn(W), h, own, b,
                 Len(k.spans) + (IF c = 0 THEN 0 ELSE 1))
    /\ \E v : Carries(W, Top(k, h), v)
    /\ WalkOwned(W, b, c)

Compiles(k, W, index) ==
    Declared(k, index) /\ \E h, own, b, c : Compiling(k, W, h, own, b, c)

LEMMA DeclaredKept ==
    ASSUME NEW k, NEW index, Declared(k, index), NEW m, SameTables(k, m),
           m.constants = k.constants \/ m.constants \in Seq(T!Value)
    PROVE  Declared(m, index)
BY DEF Declared, SameTables

(* A step within a part of the code, whatever it does to the code. *)
LEMMA StepGoesOn ==
    ASSUME ProgramIsSound, NEW k, NEW W, W # <<>>, NEW h, NEW own, NEW b, NEW c,
           Compiling(k, W, h, own, b, c), c >= 1,
           NEW items, PartItems(items, b), c >= 2 \/ Len(items) = 0,
           NEW m, NEW g, NEW owner,
           CodeTyped(m, AwaitedIn(items \o Tail(W)), HeadersIn(items \o Tail(W)), g, owner, b,
                     Len(m.spans) + (IF Len(items) + c - 1 = 0 THEN 0 ELSE 1)),
           \A v \in Nat : Moves(Head(W), Top(k, h), v) =>
               Carries(items, Top(m, g), v)
    PROVE  Compiling(m, items \o Tail(W), g, owner, b, Len(items) + c - 1)
<1>1. WalkOwned(W, b, c) /\ \E v : Carries(W, Top(k, h), v)
  BY DEF Compiling
<1>2. W \in Seq(CompilerItem) /\ items \in Seq(CompilerItem)
  BY <1>1 DEF WalkOwned, PartItems
<1>3. WalkOwned(items \o Tail(W), b, Len(items) + c - 1)
  BY <1>1, WalkOwnedNext
<1>4. PICK v : Carries(W, Top(k, h), v)
  BY <1>1
<1>5. Carries(items \o Tail(W), Top(m, g), v)
  BY <1>2, <1>4, CarriesOn
<1>6. QED
  BY <1>3, <1>5 DEF Compiling

(* What the steps start from. *)
LEMMA CompilingFacts ==
    ASSUME NEW k, NEW W, NEW h, NEW own, NEW b, NEW c, Compiling(k, W, h, own, b, c)
    PROVE  /\ c \in Nat /\ b \in Nat /\ W \in Seq(CompilerItem) /\ WalkOwned(W, b, c)
           /\ IsChunk(k) /\ Tiled(k) /\ Len(k.spans) \in Nat /\ Len(k.code) \in Nat
           /\ Labels(k, h, own, b) /\ Top(k, h) \in Nat
           /\ c >= 1 => Growing(k, AwaitedIn(W), HeadersIn(W), h, own, b)
           /\ c = 0 => CodeTyped(k, AwaitedIn(W), HeadersIn(W), h, own, b, Len(k.spans))
<1>1. /\ WalkOwned(W, b, c)
      /\ CodeTyped(k, AwaitedIn(W), HeadersIn(W), h, own, b,
                   Len(k.spans) + (IF c = 0 THEN 0 ELSE 1))
  BY DEF Compiling
<1>2. /\ IsChunk(k) /\ Tiled(k) /\ Labels(k, h, own, b)
      /\ c \in Nat /\ W \in Seq(CompilerItem)
  BY <1>1 DEF CodeTyped, WalkOwned
<1>3. Len(k.spans) \in Nat /\ Len(k.code) \in Nat /\ b \in Nat
  BY <1>1, PlacesAre
<1>4. Len(k.spans) + 1 \in 1 .. Len(k.spans) + 1
  BY <1>3
<1>5. Top(k, h) \in Nat
  BY <1>1, <1>4, PlacesAre DEF Top
<1>6. c >= 1 => c # 0
  BY <1>2
<1>7. Len(k.spans) + 0 = Len(k.spans)
  BY <1>3
<1>8. c >= 1 => Growing(k, AwaitedIn(W), HeadersIn(W), h, own, b)
  BY <1>1, <1>6 DEF Growing
<1>9. c = 0 => CodeTyped(k, AwaitedIn(W), HeadersIn(W), h, own, b, Len(k.spans))
  BY <1>1, <1>7
<1>10. QED
  BY <1>1, <1>2, <1>3, <1>5, <1>8, <1>9

(* Items that remember no jump, and the jump an item remembers. *)
LEMMA AwaitedNone ==
    ASSUME NEW items, \A i \in 1 .. Len(items) : ~Patches(items[i])
    PROVE  \A a : a \notin AwaitedIn(items)
BY DEF AwaitedIn

LEMMA HeadersNone ==
    ASSUME NEW items, \A i \in 1 .. Len(items) : ~Loops(items[i])
    PROVE  \A t : t \notin HeadersIn(items)
BY DEF HeadersIn

(* A step that emits nothing. *)
LEMMA QuietStep ==
    ASSUME ProgramIsSound, NEW k, NEW index, Declared(k, index), NEW W, W # <<>>,
           DistinctJumps(W), NEW h, NEW own, NEW b, NEW c, Compiling(k, W, h, own, b, c),
           c >= 2, ~Patches(Head(W)), NEW items, PartItems(items, b),
           \A i \in 1 .. Len(items) :
               /\ ~Patches(items[i])
               /\ Loops(items[i]) => items[i].header = Len(k.code) /\ Top(k, h) = 0,
           \A v \in Nat : Moves(Head(W), Top(k, h), v) =>
               Carries(items, Top(k, h), v)
    PROVE  Compiles(k, items \o Tail(W), index)
<1> DEFINE next == items \o Tail(W)
<1>1. /\ c \in Nat /\ b \in Nat /\ W \in Seq(CompilerItem) /\ Labels(k, h, own, b)
      /\ Growing(k, AwaitedIn(W), HeadersIn(W), h, own, b)
      /\ items \in Seq(CompilerItem) /\ Len(items) \in Nat
  BY CompilingFacts, LenProperties DEF PartItems
<1>2. \A a : a \in AwaitedIn(next) <=> a \in AwaitedIn(items) \/ a \in AwaitedIn(W)
  BY <1>1, AwaitedAfter
<1>3. \A a : a \notin AwaitedIn(items)
  BY AwaitedNone
<1>4. AwaitedIn(next) = AwaitedIn(W)
  BY <1>2, <1>3
<1>5. \A t \in HeadersIn(next) : t \in HeadersIn(items) \/ t \in HeadersIn(W)
  BY <1>1, AwaitedAfter
<1>6. \A t \in HeadersIn(items) : Target(k, h, own, Len(k.spans) + 1, t, b)
  <2>1. ASSUME NEW t \in HeadersIn(items)
        PROVE  Target(k, h, own, Len(k.spans) + 1, t, b)
    <3>1. PICK i \in 1 .. Len(items) : Loops(items[i]) /\ t = items[i].header
      BY DEF HeadersIn
    <3>2. t = Len(k.code) /\ Top(k, h) = 0
      BY <3>1
    <3>3. QED
      BY <1>1, <3>2, TargetHere DEF Top
  <2>2. QED
    BY <2>1
<1>7. \A t \in HeadersIn(next) : t \in HeadersIn(W) \/ Target(k, h, own, Len(k.spans) + 1, t, b)
  BY <1>5, <1>6
<1>8. Growing(k, AwaitedIn(next), HeadersIn(next), h, own, b)
  BY <1>1, <1>4, <1>7, TypedHeaders DEF Growing
<1>9. Len(items) + c - 1 # 0 /\ c >= 1
  BY <1>1
<1>10. CodeTyped(k, AwaitedIn(next), HeadersIn(next), h, own, b,
                 Len(k.spans) + (IF Len(items) + c - 1 = 0 THEN 0 ELSE 1))
  BY <1>8, <1>9 DEF Growing
<1>11. Compiling(k, next, h, own, b, Len(items) + c - 1)
  BY <1>9, <1>10, StepGoesOn
<1>12. QED
  BY <1>11 DEF Compiles

(* A step that emits one instruction. *)
LEMMA EmitStep ==
    ASSUME ProgramIsSound, NEW k, NEW index, Declared(k, index), NEW W, W # <<>>,
           DistinctJumps(W), NEW h, NEW own, NEW b, NEW c, Compiling(k, W, h, own, b, c),
           c >= 1, ~Patches(Head(W)), NEW items, PartItems(items, b),
           NEW op, NEW operand, NEW span, NEW text, C!HasRoom(k, op),
           op \in WithOperand => operand \in 0 .. MaxOperand,
           c >= 2 \/ (Len(items) = 0 /\ op \in EndOps),
           OpFits(k, op, operand, Top(k, h), b),
           op \in JumpOps => Len(k.code) \in AwaitedIn(items),
           \A a \in AwaitedIn(items) : a = Len(k.code) /\ op \in JumpOps,
           \A t \in HeadersIn(items) : t \in HeadersIn(W),
           \A v \in Nat : Moves(Head(W), Top(k, h), v) =>
               Carries(items, Left(k, op, operand, Top(k, h)), v)
    PROVE  Compiles(C!Emit(k, op, operand, span, text), items \o Tail(W), index)
<1> DEFINE next == items \o Tail(W)
           m == C!Emit(k, op, operand, span, text)
           last == Len(m.spans) + (IF Len(items) + c - 1 = 0 THEN 0 ELSE 1)
<1>1. /\ c \in Nat /\ b \in Nat /\ W \in Seq(CompilerItem) /\ Labels(k, h, own, b)
      /\ IsChunk(k) /\ Tiled(k) /\ Len(k.spans) \in Nat
      /\ Growing(k, AwaitedIn(W), HeadersIn(W), h, own, b)
      /\ items \in Seq(CompilerItem) /\ Len(items) \in Nat
  BY CompilingFacts, LenProperties DEF PartItems
<1>2. HasEmitted(k, m, op, operand, span, text) /\ SameTables(k, m)
  BY <1>1, EmitFacts, TablesStay
<1>3. /\ \A a : a \in AwaitedIn(next) <=> a \in AwaitedIn(items) \/ a \in AwaitedIn(W)
      /\ \A t \in HeadersIn(next) : t \in HeadersIn(items) \/ t \in HeadersIn(W)
  BY <1>1, AwaitedAfter
<1>4. /\ AwaitedIn(W) \subseteq AwaitedIn(next)
      /\ \A a \in AwaitedIn(next) : a \in AwaitedIn(W) \/ (a = Len(k.code) /\ op \in JumpOps)
      /\ op \in JumpOps => Len(k.code) \in AwaitedIn(next)
  BY <1>3
<1>5. Len(m.spans) \in Nat /\ m.constants = k.constants
  BY <1>1, <1>2 DEF HasEmitted
<1> HIDE DEF next, m
<1>6. last \in {Len(m.spans), Len(m.spans) + 1} /\ (last = Len(m.spans) => op \in EndOps)
  <2>1. CASE Len(items) + c - 1 = 0
    <3>1. ~(c >= 2)
      BY <1>1, <2>1
    <3>2. op \in EndOps
      BY <3>1
    <3>3. last = Len(m.spans) + 0
      BY <2>1
    <3> HIDE DEF last
    <3>4. QED
      BY ONLY <1>5, <3>2, <3>3
  <2>2. CASE Len(items) + c - 1 # 0
    <3>1. last = Len(m.spans) + 1
      BY <2>2
    <3> HIDE DEF last
    <3>2. QED
      BY ONLY <1>5, <3>1
  <2>3. QED
    BY <2>1, <2>2
<1> HIDE DEF last
<1>7. PICK g, owner :
          /\ CodeTyped(m, AwaitedIn(next), HeadersIn(W), g, owner, b, last)
          /\ Top(m, g) = Left(k, op, operand, Top(k, h))
  <2> DEFINE A == AwaitedIn(W)
             L == HeadersIn(W)
             B == AwaitedIn(next)
  <2>1. Growing(k, A, L, h, own, b)
    BY <1>1
  <2>2. MayEmit(k, A, B, h, own, b, op, operand)
    BY <1>4 DEF MayEmit
  <2>3. MayEnd(m, op, last)
    BY <1>6 DEF MayEnd
  <2> HIDE DEF A, B, L
  <2>4. \E g, owner :
            /\ CodeTyped(m, B, L, g, owner, b, last)
            /\ Top(m, g) = Left(k, op, operand, Top(k, h))
    BY ONLY <1>2, <2>1, <2>2, <2>3, TypedEmit
  <2>5. QED
    BY <2>4 DEF B, L
<1>8. CodeTyped(m, AwaitedIn(next), HeadersIn(next), g, owner, b, last)
  BY <1>3, <1>7, TypedHeaders
<1>9. c >= 2 \/ Len(items) = 0
  OBVIOUS
<1>10. Compiling(m, next, g, owner, b, Len(items) + c - 1)
  BY <1>7, <1>8, <1>9, StepGoesOn DEF next, last
<1>11. Declared(m, index)
  <2>1. m.constants \in Seq(T!Value)
    BY <1>5 DEF Declared
  <2>2. QED
    BY <1>2, <2>1, DeclaredKept
<1>12. QED
  BY <1>10, <1>11 DEF Compiles, next, m

(* The jump the head remembers gets its target: what is emitted next. *)
LEMMA PatchTyped ==
    ASSUME NEW k, NEW A, NEW L, NEW h, NEW own, NEW b, Growing(k, A, L, h, own, b),
           Top(k, h) = 0, NEW a \in A
    PROVE  LET m == C!PatchToHere(k, a)
           IN  /\ Growing(m, A \ {a}, L, h, own, b) /\ Top(m, h) = 0
               /\ SameTables(k, m) /\ m.constants = k.constants
<1>1. IsChunk(k) /\ Tiled(k) /\ Awaits(k, own, b, a)
  BY DEF Growing, CodeTyped
<1>2. PICK s \in 1 .. Len(k.spans) : OffsetOf(k, s) = a /\ OpOf(k, s) \in JumpOps
  BY <1>1 DEF Awaits
<1>3. OpOf(k, s) \in WithOperand
  BY <1>2 DEF JumpOps, WithOperand
<1> DEFINE m == C!PatchOperand(k, a, Len(k.code))
<1>4. C!PatchToHere(k, a) = m
  BY DEF C!PatchToHere
<1>5. HasPatched(k, m, s, Len(k.code)) /\ SameTables(k, m)
  BY <1>1, <1>2, <1>3, PatchFacts, TablesStay
<1>6. m.constants = k.constants
  BY <1>5 DEF HasPatched
<1> HIDE DEF m
<1>7. Growing(m, A \ {OffsetOf(k, s)}, L, h, own, b) /\ Top(m, h) = 0
  BY <1>2, <1>5, TypedPatch
<1>8. QED
  BY <1>2, <1>4, <1>5, <1>6, <1>7

LEMMA AwaitedBefore ==
    ASSUME NEW k, NEW A, NEW L, NEW h, NEW own, NEW b, Growing(k, A, L, h, own, b), NEW a \in A
    PROVE  a # Len(k.code)
<1>1. CodeTyped(k, A, L, h, own, b, Len(k.spans) + 1) /\ Awaits(k, own, b, a)
  BY DEF Growing, CodeTyped
<1>2. PICK s \in 1 .. Len(k.spans) : OffsetOf(k, s) = a
  BY <1>1 DEF Awaits
<1>3. a < Len(k.code) /\ a \in 0 .. Len(k.code) /\ Len(k.code) \in Nat
  <2>1. Len(k.spans) \in Nat /\ s \in 1 .. Len(k.spans) + 1
    BY <1>1, PlacesAre
  <2>2. QED
    BY <1>1, <1>2, <2>1, PlacesAre
<1>4. QED
  BY <1>3

(* A step that patches the jump its head remembers. *)
LEMMA PatchStep ==
    ASSUME ProgramIsSound, NEW k, NEW index, Declared(k, index), NEW W, W # <<>>,
           DistinctJumps(W), NEW h, NEW own, NEW b, NEW c, Compiling(k, W, h, own, b, c),
           c >= 2, Patches(Head(W)), Top(k, h) = 0
    PROVE  Compiles(C!PatchToHere(k, Head(W).at), <<>> \o Tail(W), index)
<1> DEFINE next == <<>> \o Tail(W)
           m == C!PatchToHere(k, Head(W).at)
<1>1. /\ c \in Nat /\ b \in Nat /\ W \in Seq(CompilerItem)
      /\ Growing(k, AwaitedIn(W), HeadersIn(W), h, own, b)
      /\ <<>> \in Seq(CompilerItem) /\ Len(<<>>) = 0
  BY CompilingFacts, EmptySeq
<1>2. \A i \in 1 .. Len(<<>>) : FALSE
  BY <1>1
<1>3. Head(W).at \in AwaitedIn(W)
  BY <1>1, AwaitedAfter
<1>4. /\ Growing(m, AwaitedIn(W) \ {Head(W).at}, HeadersIn(W), h, own, b) /\ Top(m, h) = 0
      /\ SameTables(k, m) /\ m.constants = k.constants
  BY <1>1, <1>3, PatchTyped
<1>5. /\ \A a : a \in AwaitedIn(next) <=>
             \/ a \in AwaitedIn(<<>>)
             \/ a \in AwaitedIn(W) /\ ~(Patches(Head(W)) /\ a = Head(W).at)
      /\ \A t \in HeadersIn(next) : t \in HeadersIn(<<>>) \/ t \in HeadersIn(W)
  BY <1>1, AwaitedAfter
<1>6. (\A a : a \notin AwaitedIn(<<>>)) /\ \A t : t \notin HeadersIn(<<>>)
  BY <1>2, AwaitedNone, HeadersNone
<1>7. AwaitedIn(next) = AwaitedIn(W) \ {Head(W).at} /\ \A t \in HeadersIn(next) : t \in HeadersIn(W)
  BY <1>5, <1>6
<1> HIDE DEF next, m
<1>8. CodeTyped(m, AwaitedIn(next), HeadersIn(next), h, own, b, Len(m.spans) + 1)
  <2>1. CodeTyped(m, AwaitedIn(next), HeadersIn(W), h, own, b, Len(m.spans) + 1)
    BY <1>4, <1>7 DEF Growing
  <2>2. QED
    BY <1>7, <2>1, TypedHeaders
<1>9. Len(<<>>) + c - 1 # 0 /\ c >= 1 /\ PartItems(<<>>, b)
  BY <1>1, <1>2 DEF PartItems
<1>10. CodeTyped(m, AwaitedIn(next), HeadersIn(next), h, own, b,
                 Len(m.spans) + (IF Len(<<>>) + c - 1 = 0 THEN 0 ELSE 1))
  BY <1>8, <1>9
<1>11. \A v \in Nat : Moves(Head(W), Top(k, h), v) => Carries(<<>>, Top(m, h), v)
  <2>1. ASSUME NEW v \in Nat, Moves(Head(W), Top(k, h), v)
        PROVE  v = 0
    BY <2>1 DEF Moves, Patches
  <2>2. Carries(<<>>, 0, 0)
    BY CarriesNone
  <2>3. QED
    BY <1>4, <2>1, <2>2
<1>12. Compiling(m, next, h, own, b, Len(<<>>) + c - 1)
  BY <1>9, <1>10, <1>11, StepGoesOn DEF next
<1>13. Declared(m, index)
  BY <1>4, DeclaredKept
<1>14. QED
  BY <1>12, <1>13 DEF Compiles, next, m

(* A step that emits a JUMP first. *)
LEMMA EmitPatchStep ==
    ASSUME ProgramIsSound, NEW k, NEW index, Declared(k, index), NEW W, W # <<>>,
           DistinctJumps(W), NEW h, NEW own, NEW b, NEW c, Compiling(k, W, h, own, b, c),
           c >= 2, Patches(Head(W)), Top(k, h) = 0, NEW items, PartItems(items, b),
           NEW op, op = 13, NEW operand \in 0 .. MaxOperand, NEW span, NEW text,
           C!HasRoom(k, op),
           Len(k.code) \in AwaitedIn(items) \/ operand \in HeadersIn(W),
           \A a \in AwaitedIn(items) : a = Len(k.code),
           \A i \in 1 .. Len(items) : ~Loops(items[i]),
           Carries(items, 0, 0)
    PROVE  Compiles(C!PatchToHere(C!Emit(k, op, operand, span, text), Head(W).at),
                  items \o Tail(W), index)
<1> DEFINE next == items \o Tail(W)
           e == C!Emit(k, op, operand, span, text)
           m == C!PatchToHere(e, Head(W).at)
           A == AwaitedIn(W)
           L == HeadersIn(W)
           B == A \cup AwaitedIn(items)
<1>1. /\ c \in Nat /\ b \in Nat /\ W \in Seq(CompilerItem)
      /\ IsChunk(k) /\ Tiled(k) /\ Len(k.spans) \in Nat
      /\ Growing(k, A, L, h, own, b)
      /\ items \in Seq(CompilerItem) /\ Len(items) \in Nat
  BY CompilingFacts, LenProperties DEF PartItems
<1>2. HasEmitted(k, e, op, operand, span, text) /\ SameTables(k, e)
  BY <1>1, EmitFacts, TablesStay
<1>3. op \in JumpOps /\ op \in EndOps /\ op \in WithOperand
  BY DEF JumpOps, EndOps, WithOperand
<1>4. MayEmit(k, A, B, h, own, b, op, operand)
  <2>1. OpFits(k, op, operand, Top(k, h), b)
    BY DEF OpFits, TakenBy, BinaryOps, TakesOne
  <2>2. Len(k.code) \in B \/ Target(k, h, own, Len(k.spans) + 1, operand, b)
    BY <1>1 DEF Growing, CodeTyped
  <2>3. QED
    BY <1>3, <2>1, <2>2 DEF MayEmit
<1>5. Len(e.spans) \in Nat /\ e.constants = k.constants
  BY <1>1, <1>2 DEF HasEmitted
<1>6. MayEnd(e, op, Len(e.spans) + 1)
  BY <1>3, <1>5 DEF MayEnd
<1>7. Head(W).at \in A
  BY <1>1, AwaitedAfter
<1>8. /\ \A a : a \in AwaitedIn(next) <=>
             \/ a \in AwaitedIn(items)
             \/ a \in AwaitedIn(W) /\ ~(Patches(Head(W)) /\ a = Head(W).at)
      /\ \A t \in HeadersIn(next) : t \in HeadersIn(items) \/ t \in HeadersIn(W)
  BY <1>1, AwaitedAfter
<1>9. \A t : t \notin HeadersIn(items)
  BY HeadersNone
<1>10. Head(W).at \notin AwaitedIn(items)
  BY <1>1, <1>7, AwaitedBefore
<1>11. AwaitedIn(next) = B \ {Head(W).at} /\ \A t \in HeadersIn(next) : t \in L
  BY <1>8, <1>9, <1>10
<1>12. Head(W).at \in B
  BY <1>7
<1> HIDE DEF next, e, A, B, L
<1>13. PICK g, owner :
           /\ CodeTyped(e, B, L, g, owner, b, Len(e.spans) + 1)
           /\ Top(e, g) = Left(k, op, operand, Top(k, h))
  BY ONLY <1>1, <1>2, <1>4, <1>6, TypedEmit
<1>14. Growing(e, B, L, g, owner, b) /\ Top(e, g) = 0
  BY <1>3, <1>13 DEF Growing, Left
<1>15. /\ Growing(m, B \ {Head(W).at}, L, g, owner, b) /\ Top(m, g) = 0
       /\ SameTables(e, m) /\ m.constants = e.constants
  BY <1>12, <1>14, PatchTyped
<1> HIDE DEF m
<1>16. CodeTyped(m, AwaitedIn(next), HeadersIn(next), g, owner, b, Len(m.spans) + 1)
  <2>1. CodeTyped(m, AwaitedIn(next), L, g, owner, b, Len(m.spans) + 1)
    BY <1>11, <1>15 DEF Growing
  <2>2. QED
    BY <1>11, <2>1, TypedHeaders
<1>17. Len(items) + c - 1 # 0 /\ c >= 1
  BY <1>1
<1>18. CodeTyped(m, AwaitedIn(next), HeadersIn(next), g, owner, b,
                 Len(m.spans) + (IF Len(items) + c - 1 = 0 THEN 0 ELSE 1))
  BY <1>16, <1>17
<1>19. \A v \in Nat : Moves(Head(W), Top(k, h), v) => Carries(items, Top(m, g), v)
  <2>1. ASSUME NEW v \in Nat, Moves(Head(W), Top(k, h), v)
        PROVE  v = 0
    BY <2>1 DEF Moves, Patches
  <2>2. QED
    BY <1>15, <2>1
<1>20. Compiling(m, next, g, owner, b, Len(items) + c - 1)
  BY <1>17, <1>18, <1>19, StepGoesOn DEF next
<1>21. SameTables(k, m) /\ m.constants = k.constants
  BY <1>2, <1>5, <1>15 DEF SameTables
<1>22. Declared(m, index)
  BY <1>21, DeclaredKept
<1>23. QED
  BY <1>20, <1>22 DEF Compiles, next, m, e

-----------------------------------------------------------------------------

(* Where a node is, its children are. *)
LEMMA OwnedKids ==
    ASSUME TreesAreSound, ProgramIsSound, NEW n, NEW b, OwnedBy(n, b)
    PROVE  /\ n \in 1 .. Len(nodes)
           /\ \A i \in 1 .. Len(nodes[n].kids) : OwnedBy(nodes[n].kids[i], b)
<1>1. n \in 1 .. Len(nodes) /\ n \in Live
  BY DEF OwnedBy, Live
<1>2. ASSUME NEW i \in 1 .. Len(nodes[n].kids)
      PROVE  OwnedBy(nodes[n].kids[i], b)
  <2> DEFINE kid == nodes[n].kids[i]
  <2>1. kid \in 1 .. Len(nodes)
    BY <1>1, KidFacts DEF IsNode
  <2>2. ASSUME NEW D \in SUBSET (1 .. Len(nodes)), Closed(D)
        PROVE  kid \in D
    <3>1. n \in D
      BY <1>1, <2>2 DEF Live
    <3>2. QED
      BY <2>2, <3>1 DEF Closed
  <2>3. kid \in Live
    BY <2>1, <2>2 DEF Live
  <2>4. PICK q \in 1 .. Len(program) :
            /\ LiesIn(n, q)
            /\ IF b = 0 THEN ~IsFunction(q) ELSE program[q] = C!Functions[b]
    BY DEF OwnedBy
  <2>5. LiesIn(kid, q)
    BY <1>1, <2>4, KidsLieIn
  <2>6. QED
    BY <2>3, <2>4, <2>5 DEF OwnedBy
<1>3. QED
  BY <1>1, <1>2

(* Two functions of one name are one function. *)
LEMMA OneOfAName ==
    ASSUME ProgramIsSound, Collected, NEW i \in 1 .. Len(C!Functions),
           NEW j \in 1 .. Len(C!Functions), NameOf(i) = NameOf(j)
    PROVE  i = j
<1>1. Len(C!Functions) \in Nat
  BY FunctionRoots
<1>2. ~(i < j) /\ ~(j < i)
  BY DEF Collected
<1>3. QED
  BY <1>1, <1>2

(* What the resolver has settled, in the terms of the chunk's tables. *)
LEMMA OwnedFits ==
    ASSUME ProgramIsSound, TreeIsResolved, NEW k, NEW index, Declared(k, index),
           NEW n, NEW b \in 0 .. Len(C!Functions), OwnedBy(n, b)
    PROVE  /\ nodes[n].type \in {"Identifier", "Assign"} =>
                  nodes[n].slot \in 0 .. T!Width(k, b) - 1
           /\ nodes[n].type = "Call" =>
                  \E i \in 1 .. Len(C!Functions) :
                      /\ NameOf(i) = nodes[n].name
                      /\ Len(nodes[C!Functions[i]].parameters) = Len(nodes[n].kids)
           /\ nodes[n].type = "Return" => b # 0
<1>1. PICK q \in 1 .. Len(program) :
          /\ LiesIn(n, q)
          /\ IF b = 0 THEN ~IsFunction(q) ELSE program[q] = C!Functions[b]
  BY DEF OwnedBy
<1>2. n \in Live /\ n \in 1 .. Len(nodes) /\ n \in Nat
  BY DEF OwnedBy, Live
<1>3. PICK r \in 1 .. Len(program) : LiesIn(n, r) /\ FitsIn(n, r, SizeOf(r))
  BY <1>2 DEF TreeIsResolved
<1>4. r = q
  BY <1>1, <1>2, <1>3, LiesInOne
<1>5. FitsIn(n, q, SizeOf(q))
  BY <1>3, <1>4
<1>6. b # 0 => b \in 1 .. Len(C!Functions) /\ IsFunction(q)
  <2>1. Len(C!Functions) \in Nat
    BY FunctionRoots
  <2>2. ASSUME b # 0
        PROVE  b \in 1 .. Len(C!Functions)
    BY <2>1, <2>2
  <2>3. QED
    BY <1>1, <2>2, FunctionRoots DEF IsFunction
<1>7. T!Width(k, b) = SizeOf(q)
  <2>1. CASE b = 0
    BY <1>1, <2>1 DEF T!Width, SizeOf, Declared
  <2>2. CASE b # 0
    <3>1. k.functions[b].frameSize = nodes[program[q]].frameSize
      BY <1>1, <1>6, <2>2 DEF Declared
    <3>2. QED
      BY <1>6, <2>2, <3>1 DEF T!Width, SizeOf
  <2>3. QED
    BY <2>1, <2>2
<1>8. nodes[n].type \in {"Identifier", "Assign"} => nodes[n].slot \in 0 .. T!Width(k, b) - 1
  BY <1>5, <1>7 DEF FitsIn
<1>9. ASSUME nodes[n].type = "Call"
      PROVE  \E i \in 1 .. Len(C!Functions) :
                 /\ NameOf(i) = nodes[n].name
                 /\ Len(nodes[C!Functions[i]].parameters) = Len(nodes[n].kids)
  <2> DEFINE name == nodes[n].name
             arity == Len(nodes[n].kids)
             N == 1 .. Len(C!Functions)
  <2>1. name \in DOMAIN functionArity /\ functionArity[name] = arity
    BY <1>5, <1>9 DEF FitsIn
  <2> HIDE DEF name, arity
  <2>2. Collected
    BY DEF TreeIsResolved
  <2>3. functionArity = [f \in {NameOf(i) : i \in N} |->
            Len(nodes[C!Functions[CHOOSE i \in N : NameOf(i) = f]].parameters)]
    BY <2>2 DEF Collected
  <2>4. PICK i \in N : NameOf(i) = name
    BY <2>1, <2>3
  <2> DEFINE j == CHOOSE j \in N : NameOf(j) = name
  <2>5. j \in N /\ NameOf(j) = name
    BY <2>4
  <2>6. functionArity[name] = Len(nodes[C!Functions[j]].parameters)
    BY <2>1, <2>3
  <2> HIDE DEF j
  <2>7. QED
    BY <2>1, <2>5, <2>6 DEF name, arity
<1>10. nodes[n].type = "Return" => b # 0
  BY <1>1, <1>5 DEF FitsIn
<1>11. QED
  BY <1>8, <1>9, <1>10

-----------------------------------------------------------------------------

(* Items of one part, put together. *)
LEMMA NoPart == \A b : PartItems(<<>>, b) /\ Len(<<>>) = 0
<1> DEFINE none == <<>>
<1>1. none \in Seq(CompilerItem) /\ Len(none) = 0
  OBVIOUS
<1> HIDE DEF none
<1>2. \A b : PartItems(none, b)
  BY <1>1 DEF PartItems
<1>3. QED
  BY <1>1, <1>2 DEF none

LEMMA PairPart ==
    ASSUME NEW b, NEW x \in CompilerItem, NEW y \in CompilerItem, PartItem(x, b), PartItem(y, b)
    PROVE  /\ PartItems(<<x, y>>, b) /\ Len(<<x, y>>) = 2
           /\ <<x, y>>[1] = x /\ <<x, y>>[2] = y
           /\ \A i \in 1 .. Len(<<x, y>>) : <<x, y>>[i] = x \/ <<x, y>>[i] = y
<1> DEFINE pair == <<x, y>>
<1>1. pair \in Seq(CompilerItem) /\ Len(pair) = 2 /\ pair[1] = x /\ pair[2] = y
  OBVIOUS
<1> HIDE DEF pair
<1>2. \A i \in 1 .. Len(pair) : pair[i] = x \/ pair[i] = y
  BY <1>1
<1>3. PartItems(pair, b)
  BY <1>1, <1>2 DEF PartItems
<1>4. QED
  BY <1>1, <1>2, <1>3 DEF pair

LEMMA AppendPart ==
    ASSUME NEW b, NEW items, PartItems(items, b), NEW x \in CompilerItem, PartItem(x, b)
    PROVE  /\ PartItems(Append(items, x), b)
           /\ \A i \in 1 .. Len(Append(items, x)) :
                  Append(items, x)[i] = x
                  \/ \E j \in 1 .. Len(items) : Append(items, x)[i] = items[j]
<1>1. items \in Seq(CompilerItem) /\ Len(items) \in Nat
  BY LenProperties DEF PartItems
<1> DEFINE all == Append(items, x)
<1>2. /\ all \in Seq(CompilerItem) /\ Len(all) = Len(items) + 1 /\ all[Len(items) + 1] = x
      /\ \A i \in 1 .. Len(items) : all[i] = items[i]
  BY <1>1, AppendProperties
<1> HIDE DEF all
<1>3. ASSUME NEW i \in 1 .. Len(all)
      PROVE  PartItem(all[i], b) /\ (all[i] = x \/ \E j \in 1 .. Len(items) : all[i] = items[j])
  <2>1. i \in 1 .. Len(items) \/ i = Len(items) + 1
    BY <1>1, <1>2
  <2>2. QED
    BY <1>2, <2>1 DEF PartItems
<1>4. PartItems(all, b)
  BY <1>2, <1>3 DEF PartItems
<1>5. QED
  BY <1>3, <1>4 DEF all

LEMMA JoinPart ==
    ASSUME NEW b, NEW items, NEW others, PartItems(items, b), PartItems(others, b)
    PROVE  /\ PartItems(items \o others, b)
           /\ \A i \in 1 .. Len(items \o others) :
                  \/ \E j \in 1 .. Len(items) : (items \o others)[i] = items[j]
                  \/ \E j \in 1 .. Len(others) : (items \o others)[i] = others[j]
<1>1. /\ items \in Seq(CompilerItem) /\ others \in Seq(CompilerItem)
      /\ Len(items) \in Nat /\ Len(others) \in Nat
  BY LenProperties DEF PartItems
<1> DEFINE all == items \o others
<1>2. /\ all \in Seq(CompilerItem) /\ Len(all) = Len(items) + Len(others)
      /\ \A i \in 1 .. Len(items) + Len(others) :
             all[i] = IF i <= Len(items) THEN items[i] ELSE others[i - Len(items)]
  BY <1>1, ConcatProperties
<1> HIDE DEF all
<1>3. ASSUME NEW i \in 1 .. Len(all)
      PROVE  /\ PartItem(all[i], b)
             /\ \/ \E j \in 1 .. Len(items) : all[i] = items[j]
                \/ \E j \in 1 .. Len(others) : all[i] = others[j]
  <2>1. \/ i \in 1 .. Len(items) /\ all[i] = items[i]
        \/ i - Len(items) \in 1 .. Len(others) /\ all[i] = others[i - Len(items)]
    BY <1>1, <1>2
  <2>2. QED
    BY <2>1 DEF PartItems
<1>4. PartItems(all, b)
  BY <1>2, <1>3 DEF PartItems
<1>5. QED
  BY <1>3, <1>4 DEF all

(* One item, or two. *)
LEMMA CarriesTwo ==
    ASSUME NEW b, NEW x \in CompilerItem, NEW y \in CompilerItem, PartItem(x, b), PartItem(y, b),
           NEW u \in Nat, NEW m \in Nat, NEW v \in Nat, Moves(x, u, m), Moves(y, m, v)
    PROVE  Carries(<<x, y>>, u, v)
<1> DEFINE g == [i \in 1 .. 3 |-> IF i = 1 THEN u ELSE IF i = 2 THEN m ELSE v]
           pair == <<x, y>>
<1>1. g \in [1 .. 2 + 1 -> Nat] /\ g[1] = u /\ g[2] = m /\ g[2 + 1] = v
  OBVIOUS
<1>2. Len(pair) = 2 /\ pair[1] = x /\ pair[2] = y
  BY PairPart
<1> HIDE DEF g, pair
<1>3. ASSUME NEW i \in 1 .. 2
      PROVE  Moves(pair[i], g[i], g[i + 1])
  <2>1. i = 1 \/ i = 2
    OBVIOUS
  <2>2. CASE i = 1
    BY <1>1, <1>2, <2>2
  <2>3. CASE i = 2
    BY <1>1, <1>2, <2>3
  <2>4. QED
    BY <2>1, <2>2, <2>3
<1>4. Carries(pair, u, v)
  BY <1>1, <1>2, <1>3 DEF Carries
<1>5. QED
  BY <1>4 DEF pair

(* The items of the children of a node. *)
LEMMA ItemsAre ==
    ASSUME NEW do \in {"expression", "statement"}, NEW ids \in Seq(Nat)
    PROVE  /\ Len(C!Items(do, ids)) = Len(ids) /\ C!Items(do, ids) \in Seq(CompilerItem)
           /\ \A i \in 1 .. Len(ids) :
                  /\ C!Items(do, ids)[i] = C!Item(do, ids[i])
                  /\ C!Items(do, ids)[i].do = do /\ C!Items(do, ids)[i].node = ids[i]
<1> DEFINE E(i) == C!Item(do, ids[i])
           all == [i \in 1 .. Len(ids) |-> E(i)]
<1>1. DOMAIN ids = 1 .. Len(ids) /\ Len(ids) \in Nat
  BY LenProperties
<1>2. C!Items(do, ids) = all
  BY <1>1 DEF C!Items
<1>3. \A i \in 1 .. Len(ids) : E(i) \in CompilerItem /\ E(i).do = do /\ E(i).node = ids[i]
  <2>1. do \in CompilerWalks
    BY DEF CompilerWalks
  <2>2. \A i \in 1 .. Len(ids) : ids[i] \in Nat
    BY ElementOfSeq
  <2>3. QED
    BY <2>1, <2>2, ItemFields
<1>4. \A i \in 1 .. Len(ids) : E(i) = C!Item(do, ids[i])
  OBVIOUS
<1> HIDE DEF E
<1>5. all \in Seq(CompilerItem)
  BY <1>1, <1>3, IsASeq
<1>6. Len(all) = Len(ids) /\ \A i \in 1 .. Len(ids) : all[i] = E(i)
  BY <1>1
<1> HIDE DEF all
<1>7. QED
  BY <1>2, <1>3, <1>4, <1>5, <1>6

LEMMA PartKids ==
    ASSUME TreesAreSound, ProgramIsSound, NEW n, NEW b, OwnedBy(n, b),
           NEW do \in {"expression", "statement"}
    PROVE  LET items == C!Items(do, nodes[n].kids)
           IN  /\ PartItems(items, b) /\ Len(items) = Len(nodes[n].kids)
               /\ Len(nodes[n].kids) \in Nat
               /\ \A i \in 1 .. Len(items) : items[i].do = do
<1> DEFINE ids == nodes[n].kids
           items == C!Items(do, ids)
<1>1. n \in 1 .. Len(nodes) /\ \A i \in 1 .. Len(ids) : OwnedBy(ids[i], b)
  BY OwnedKids
<1>2. ids \in Seq(Nat)
  BY <1>1, KidFacts
<1> HIDE DEF ids
<1>3. /\ Len(items) = Len(ids) /\ items \in Seq(CompilerItem)
      /\ \A i \in 1 .. Len(ids) : items[i].do = do /\ items[i].node = ids[i]
  BY <1>2, ItemsAre
<1> HIDE DEF items
<1>4. ASSUME NEW i \in 1 .. Len(ids)
      PROVE  PartItem(items[i], b)
  <2>1. items[i].do \in {"expression", "statement"} /\ OwnedBy(items[i].node, b)
    BY <1>1, <1>3
  <2>2. QED
    BY <2>1 DEF PartItem, Waits
<1>5. PartItems(items, b)
  BY <1>3, <1>4 DEF PartItems
<1>6. Len(ids) \in Nat
  BY <1>2, LenProperties
<1>7. QED
  BY <1>3, <1>5, <1>6 DEF items, ids

-----------------------------------------------------------------------------

(* The head of the walk, for the part of the code it is in: what it needs on the
   stack is there. *)
AtHead(k, h, own, b, c, v) ==
    /\ Compiling(k, work, h, own, b, c)
    /\ b \in 0 .. Len(C!Functions) /\ c \in Nat
    /\ Top(k, h) \in Nat /\ v \in Nat /\ Moves(Head(work), Top(k, h), v)
    /\ Waits(Head(work)) => c >= 2 /\ PartItem(Head(work), b)
    /\ Closes(Head(work)) => c = 1 /\ Head(work).do = IF b = 0 THEN "halt" ELSE "end body"

CompilesHere ==
    /\ CompilerInvariant /\ TreesAreSound /\ ProgramIsSound /\ TreeIsResolved
    /\ Compiles(chunk, work, functionIndex)

Compiled == Compiles(chunk', work', functionIndex')

LEMMA CompilesHead ==
    ASSUME CompilesHere, NEW do, C!Visiting(do)
    PROVE  /\ work # <<>> /\ Head(work).do = do /\ DistinctJumps(work)
           /\ Declared(chunk, functionIndex)
           /\ \E h, own, b, c, v : AtHead(chunk, h, own, b, c, v)
<1>1. work # <<>> /\ Head(work).do = do
  BY CompilerVisits DEF CompilesHere
<1>2. DistinctJumps(work)
  BY DEF CompilesHere, CompilerInvariant, WalkIsSound, DistinctJumps
<1>3. Declared(chunk, functionIndex)
  BY DEF CompilesHere, Compiles
<1>4. PICK h, own, b, c : Compiling(chunk, work, h, own, b, c)
  BY DEF CompilesHere, Compiles
<1>5. c \in Nat /\ work \in Seq(CompilerItem) /\ WalkOwned(work, b, c)
  BY <1>4, CompilingFacts
<1>6. Top(chunk, h) \in Nat /\ \E v : v \in Nat /\ Moves(Head(work), Top(chunk, h), v)
  <2>1. PICK v : Carries(work, Top(chunk, h), v)
    BY <1>4 DEF Compiling
  <2>2. QED
    BY <1>1, <1>5, <2>1, CarriesHead
<1>7. b \in 0 .. Len(C!Functions)
  BY <1>5 DEF WalkOwned
<1>8. /\ Waits(Head(work)) => c >= 2 /\ PartItem(Head(work), b)
      /\ Closes(Head(work)) => c = 1 /\ Head(work).do = IF b = 0 THEN "halt" ELSE "end body"
  <2>1. ProgramIsSound
    BY DEF CompilesHere
  <2>2. OwnedHead(work, b, c)
    BY ONLY <1>1, <1>5, <2>1, WalkOwnedHead
  <2>3. QED
    BY <2>2 DEF OwnedHead
<1>9. PICK v : v \in Nat /\ Moves(Head(work), Top(chunk, h), v)
  BY <1>6
<1>10. AtHead(chunk, h, own, b, c, v)
  BY <1>4, <1>5, <1>6, <1>7, <1>8, <1>9 DEF AtHead
<1>11. QED
  BY <1>1, <1>2, <1>3, <1>10

LEMMA HeadMoves ==
    ASSUME NEW k, NEW h, NEW own, NEW b, NEW c, NEW v, AtHead(k, h, own, b, c, v)
    PROVE  /\ Compiling(k, work, h, own, b, c)
           /\ b \in 0 .. Len(C!Functions) /\ c \in Nat
           /\ Top(k, h) \in Nat /\ v \in Nat /\ Moves(Head(work), Top(k, h), v)
           /\ c >= 2 => c >= 1
<1>1. /\ Compiling(k, work, h, own, b, c)
      /\ b \in 0 .. Len(C!Functions) /\ c \in Nat
      /\ Top(k, h) \in Nat /\ v \in Nat /\ Moves(Head(work), Top(k, h), v)
  BY DEF AtHead
<1>2. c >= 2 => c >= 1
  BY ONLY <1>1
<1>3. QED
  BY <1>1, <1>2

(* An error leaves everything as it is. *)
LEMMA EmittedOrNot ==
    ASSUME CompilesHere, NEW onto, NEW op, NEW operand, NEW span, NEW text, NEW items,
           C!EmitOnto(onto, op, operand, span, text, items),
           C!HasRoom(onto, op) =>
               Compiles(C!Emit(onto, op, operand, span, text), items \o Tail(work), functionIndex)
    PROVE  Compiled
<1>1. CASE C!HasRoom(onto, op)
  <2>1. /\ chunk' = C!Emit(onto, op, operand, span, text) /\ work' = items \o Tail(work)
        /\ functionIndex' = functionIndex
    BY <1>1 DEF C!EmitOnto, C!Become
  <2>2. QED
    BY <1>1, <2>1 DEF Compiled
<1>2. CASE ~C!HasRoom(onto, op)
  <2>1. C!Fail(span, <<"program too large for one chunk">>)
    BY <1>2 DEF C!EmitOnto
  <2>2. chunk' = chunk /\ work' = work /\ functionIndex' = functionIndex
    BY <2>1 DEF C!Fail
  <2>3. QED
    BY <2>2 DEF CompilesHere, Compiled
<1>3. QED
  BY <1>1, <1>2

LEMMA ErrorCompiles ==
    ASSUME CompilesHere, NEW span, NEW message, C!Fail(span, message)
    PROVE  Compiled
<1>1. chunk' = chunk /\ work' = work /\ functionIndex' = functionIndex
  BY DEF C!Fail
<1>2. QED
  BY <1>1 DEF CompilesHere, Compiled

(* One instruction that is no jump, and nothing more to walk. *)
LEMMA PlainEmitCompiles ==
    ASSUME CompilesHere, work # <<>>, DistinctJumps(work), ~Patches(Head(work)),
           NEW onto, Declared(onto, functionIndex),
           NEW h, NEW own, NEW b, NEW c, NEW v, AtHead(onto, h, own, b, c, v), c >= 1,
           NEW op, NEW operand, NEW span, NEW text, op \notin JumpOps, c >= 2 \/ op \in EndOps,
           op \in WithOperand => operand \in 0 .. MaxOperand,
           OpFits(onto, op, operand, Top(onto, h), b),
           \A m \in Nat : Moves(Head(work), Top(onto, h), m) =>
               m = Left(onto, op, operand, Top(onto, h)),
           C!EmitOnto(onto, op, operand, span, text, <<>>)
    PROVE  Compiled
<1> DEFINE none == <<>>
           left == Left(onto, op, operand, Top(onto, h))
<1>1. /\ PartItems(none, b) /\ Len(none) = 0
      /\ \A a : a \notin AwaitedIn(none)
      /\ \A t : t \notin HeadersIn(none)
  <2>1. PartItems(none, b) /\ Len(none) = 0
    BY NoPart
  <2> HIDE DEF none
  <2>2. \A i \in 1 .. Len(none) : ~Patches(none[i]) /\ ~Loops(none[i])
    BY <2>1
  <2>3. QED
    BY <2>1, <2>2, AwaitedNone, HeadersNone
<1>2. \A m \in Nat : Moves(Head(work), Top(onto, h), m) => Carries(none, left, m)
  <2>1. \A m \in Nat : Carries(none, m, m)
    BY CarriesNone
  <2> HIDE DEF none
  <2>2. QED
    BY <2>1
<1>3. Compiling(onto, work, h, own, b, c)
  BY DEF AtHead
<1>4. ProgramIsSound
  BY DEF CompilesHere
<1> HIDE DEF none
<1>5. C!EmitOnto(onto, op, operand, span, text, none)
  BY DEF none
<1>6. ASSUME C!HasRoom(onto, op)
      PROVE  Compiles(C!Emit(onto, op, operand, span, text), none \o Tail(work), functionIndex)
  BY <1>1, <1>2, <1>3, <1>4, <1>6, EmitStep
<1>7. QED
  BY <1>5, <1>6, EmittedOrNot

(* What the instructions need, and what they leave on the stack. *)
Does(k, op, x, u, owner, v) == OpFits(k, op, x, u, owner) /\ Left(k, op, x, u) = v

LEMMA SlotsAndConstants ==
    ASSUME NEW k, NEW u \in Nat, NEW x \in Nat, NEW owner
    PROVE  /\ x < Len(k.constants) => Does(k, 0, x, u, owner, u + 1)
           /\ x < T!Width(k, owner) => Does(k, 1, x, u, owner, u + 1)
           /\ x < T!Width(k, owner) /\ u = 1 => Does(k, 2, x, u, owner, 0)
           /\ u = 1 => Does(k, 14, x, u, owner, 0)
           /\ u = 0 => Does(k, 13, x, u, owner, 0)
           /\ u = 0 => Does(k, 18, x, u, owner, 0)
<1>1. /\ TakenBy(k, 0, x) = 0 /\ TakenBy(k, 1, x) = 0 /\ TakenBy(k, 2, x) = 1
      /\ TakenBy(k, 14, x) = 1 /\ TakenBy(k, 13, x) = 0 /\ TakenBy(k, 18, x) = 0
  BY DEF TakenBy, BinaryOps, TakesOne
<1>2. /\ Left(k, 0, x, u) = u + 1 /\ Left(k, 1, x, u) = u + 1 /\ Left(k, 2, x, u) = u - 1
      /\ Left(k, 14, x, u) = u - 1 /\ Left(k, 13, x, u) = 0 /\ Left(k, 18, x, u) = 0
  BY <1>1 DEF Left, EndOps, PutsOne, BinaryOps
<1>3. x < Len(k.constants) => Does(k, 0, x, u, owner, u + 1)
  BY <1>1, <1>2 DEF Does, OpFits, WithOperand, JumpOps
<1>4. x < T!Width(k, owner) => Does(k, 1, x, u, owner, u + 1)
  BY <1>1, <1>2 DEF Does, OpFits, WithOperand, JumpOps
<1>5. x < T!Width(k, owner) /\ u = 1 => Does(k, 2, x, u, owner, 0)
  BY <1>1, <1>2 DEF Does, OpFits, WithOperand, JumpOps
<1>6. u = 1 => Does(k, 14, x, u, owner, 0)
  BY <1>1, <1>2 DEF Does, OpFits, WithOperand, JumpOps
<1>7. u = 0 => Does(k, 13, x, u, owner, 0) /\ Does(k, 18, x, u, owner, 0)
  BY <1>1, <1>2 DEF Does, OpFits, WithOperand, JumpOps
<1>8. QED
  BY <1>3, <1>4, <1>5, <1>6, <1>7

LEMMA OperationsDo ==
    ASSUME NEW k, NEW u \in Nat, NEW v \in Nat, NEW op \in PlainOps, NEW owner,
           EmitMoves(op, u, v), op = 16 => owner # 0
    PROVE  Does(k, op, 0, u, owner, v)
<1>1. op \in 0 .. 18 /\ op \notin WithOperand /\ op \notin JumpOps /\ op # 0 /\ op # 15
  BY DEF PlainOps, WithOperand, JumpOps
<1>2. CASE op \in {8, 12}
  <2>1. TakenBy(k, op, 0) = 1 /\ Left(k, op, 0, u) = u
    BY <1>2 DEF TakenBy, Left, BinaryOps, TakesOne, EndOps, PutsOne
  <2>2. u >= 1 /\ v = u
    BY <1>2 DEF EmitMoves, BinaryOps
  <2>3. QED
    BY <1>1, <1>2, <2>1, <2>2 DEF Does, OpFits, WithOperand
<1>3. CASE op \in BinaryOps
  <2>1. TakenBy(k, op, 0) = 2 /\ Left(k, op, 0, u) = u - 2 + 1
    BY <1>3 DEF TakenBy, Left, BinaryOps, EndOps, PutsOne
  <2>2. u >= 2 /\ v = u - 1
    BY <1>3 DEF EmitMoves, BinaryOps
  <2>3. op # 16 /\ op \notin {1, 2}
    BY <1>3 DEF BinaryOps
  <2>4. QED
    BY <1>1, <2>1, <2>2, <2>3 DEF Does, OpFits
<1>4. CASE op \in {16, 17}
  <2>1. TakenBy(k, op, 0) = 1
    BY <1>4 DEF TakenBy, BinaryOps, TakesOne
  <2>2. u = 1 /\ v = 0
    BY <1>4 DEF EmitMoves, BinaryOps
  <2>3. Left(k, op, 0, u) = 0
    BY <1>4, <2>1, <2>2 DEF Left, EndOps, PutsOne, BinaryOps
  <2>4. QED
    BY <1>1, <1>4, <2>1, <2>2, <2>3 DEF Does, OpFits
<1>5. QED
  BY <1>2, <1>3, <1>4 DEF PlainOps, BinaryOps

-----------------------------------------------------------------------------

(* A literal, or the 0 of a bare return. *)
LEMMA ConstantCompiles ==
    ASSUME CompilesHere, work # <<>>, Head(work).do \in {"expression", "zero"},
           DistinctJumps(work), Declared(chunk, functionIndex),
           NEW h, NEW own, NEW b, NEW c, NEW v, AtHead(chunk, h, own, b, c, v),
           NEW value \in T!Value, NEW span, C!EmitConstant(value, span, <<>>)
    PROVE  Compiled
<1>1. CASE C!PoolFull(chunk)
  BY <1>1, ErrorCompiles DEF C!EmitConstant
<1>2. CASE ~C!PoolFull(chunk)
  <2> DEFINE onto == C!AddConstant(chunk, value)
             op == C!OpCode.CONST
             operand == Len(chunk.constants)
             text == C!NoText
             u == Top(chunk, h)
  <2>1. C!EmitOnto(onto, op, operand, span, text, <<>>)
    BY <1>2 DEF C!EmitConstant
  <2>2. op = 0
    BY OpCodesAre
  <2>3. Compiling(chunk, work, h, own, b, c) /\ c \in Nat /\ u \in Nat /\ c >= 2
    BY DEF AtHead, Waits
  <2>4. /\ IsChunk(chunk) /\ Tiled(chunk) /\ IsChunk(onto) /\ Tiled(onto)
        /\ onto.code = chunk.code /\ onto.spans = chunk.spans /\ SameTables(chunk, onto)
        /\ Len(onto.constants) = operand + 1 /\ onto.constants = Append(chunk.constants, value)
    <3>1. IsChunk(chunk) /\ Tiled(chunk)
      BY <2>3, CompilingFacts
    <3>2. QED
      BY <3>1, AddConstantFacts, TablesStay
  <2>5. operand \in 0 .. MaxOperand
    <3>1. operand \in Nat
      BY <2>4, ChunkFields
    <3>2. QED
      BY <1>2, <3>1, PipelineAssumption DEF C!PoolFull
  <2>6. Declared(onto, functionIndex)
    <3>1. chunk.constants \in Seq(T!Value)
      BY DEF Declared
    <3>2. onto.constants \in Seq(T!Value)
      BY <2>4, <3>1, AppendProperties
    <3>3. QED
      BY <2>4, <3>2, DeclaredKept
  <2> HIDE DEF onto, op, text, operand
  <2>7. Top(onto, h) = u
    BY <2>4 DEF Top
  <2>8. AtHead(onto, h, own, b, c, v)
    <3> DEFINE A == AwaitedIn(work)
               L == HeadersIn(work)
               last == Len(chunk.spans) + (IF c = 0 THEN 0 ELSE 1)
    <3>1. CodeTyped(chunk, A, L, h, own, b, last)
      BY <2>3 DEF Compiling
    <3>2. last = Len(onto.spans) + (IF c = 0 THEN 0 ELSE 1)
      BY <2>4
    <3> HIDE DEF A, L, last
    <3>3. Len(chunk.constants) <= Len(onto.constants)
      BY <2>4, <2>5 DEF operand
    <3>4. CodeTyped(onto, A, L, h, own, b, last)
      BY ONLY <2>4, <3>1, <3>3, TypedConstant
    <3>5. Compiling(onto, work, h, own, b, c)
      BY <2>3, <2>7, <3>2, <3>4 DEF Compiling, A, L
    <3>6. QED
      BY <2>7, <3>5 DEF AtHead
  <2>9. Does(onto, op, operand, Top(onto, h), b, u + 1)
    <3>1. operand \in Nat /\ operand < Len(onto.constants)
      BY <2>4, <2>5, PipelineAssumption
    <3>2. QED
      BY <2>2, <2>3, <2>7, <3>1, SlotsAndConstants
  <2>10. \A m \in Nat : Moves(Head(work), u, m) => m = u + 1
    BY DEF Moves
  <2>11. ~Patches(Head(work)) /\ op \notin JumpOps
    <3>1. ~Patches(Head(work))
      BY DEF Patches
    <3>2. op \notin JumpOps
      BY <2>2 DEF JumpOps
    <3>3. QED
      BY <3>1, <3>2
  <2> HIDE DEF u
  <2>12. QED
    BY <2>1, <2>3, <2>5, <2>6, <2>7, <2>8, <2>9, <2>10, <2>11, PlainEmitCompiles DEF Does
<1>3. QED
  BY <1>1, <1>2

LEMMA LiteralCompiles ==
    ASSUME CompilesHere, C!CompileLiteral
    PROVE  Compiled
<1>1. C!Visiting("expression") /\ C!EmitConstant(C!This.value, C!This.span, <<>>)
  BY DEF C!CompileLiteral, C!VisitingA
<1>2. /\ work # <<>> /\ Head(work).do = "expression" /\ DistinctJumps(work)
      /\ Declared(chunk, functionIndex)
  BY <1>1, CompilesHead
<1>3. PICK h, own, b, c, v : AtHead(chunk, h, own, b, c, v)
  BY <1>1, CompilesHead
<1>4. C!This.value \in T!Value
  <2>1. C!This = nodes[Head(work).node] /\ Head(work).node \in 1 .. Len(nodes)
    BY <1>1, CompilerVisits DEF CompilesHere, Compilable, IsNode
  <2>2. nodes[Head(work).node] \in TreeNode
    BY <2>1, KidFacts DEF CompilesHere
  <2>3. QED
    BY <2>1, <2>2 DEF TreeNode, T!Value, Value, T!MinInt, MinInt
<1>5. QED
  BY <1>1, <1>2, <1>3, <1>4, ConstantCompiles

LEMMA ZeroCompiles ==
    ASSUME CompilesHere, C!EmitZero
    PROVE  Compiled
<1>1. C!Visiting("zero") /\ C!EmitConstant(C!Zero, C!This.span, <<>>)
  BY DEF C!EmitZero
<1>2. /\ work # <<>> /\ Head(work).do = "zero" /\ DistinctJumps(work)
      /\ Declared(chunk, functionIndex)
  BY <1>1, CompilesHead
<1>3. PICK h, own, b, c, v : AtHead(chunk, h, own, b, c, v)
  BY <1>1, CompilesHead
<1>4. C!Zero \in T!Value
  BY MaxIntAssumption DEF C!Zero, C!IntValue, T!Value, T!MinInt
<1>5. QED
  BY <1>1, <1>2, <1>3, <1>4, ConstantCompiles

LEMMA WidthIsNat ==
    ASSUME CompilesHere, Declared(chunk, functionIndex), NEW b \in 0 .. Len(C!Functions)
    PROVE  T!Width(chunk, b) \in Nat
<1>1. Len(C!Functions) \in Nat /\ Len(chunk.functions) = Len(C!Functions)
  BY FunctionRoots DEF CompilesHere, Declared
<1>2. CASE b = 0
  BY <1>2, PipelineAssumption DEF T!Width, Declared
<1>3. CASE b # 0
  <2>1. b \in 1 .. Len(chunk.functions)
    BY <1>1, <1>3
  <2>2. chunk.functions[b] \in T!FunctionEntry
    BY <2>1, ElementOfSeq DEF Declared
  <2>3. QED
    BY <1>3, <2>2, PipelineAssumption DEF T!Width, T!FunctionEntry
<1>4. QED
  BY <1>2, <1>3

(* The node at the head belongs to the part the code is of. *)
LEMMA HereIsOwned ==
    ASSUME CompilesHere, NEW do, C!Visiting(do),
           NEW k, NEW h, NEW own, NEW b, NEW c, NEW v, AtHead(k, h, own, b, c, v),
           \/ do \in {"expression", "call", "store", "then", "else", "end if", "loop", "end loop"}
           \/ do = "statement" /\ C!This.type # "Function"
    PROVE  /\ OwnedBy(C!Here, b) /\ C!Here \in 1 .. Len(nodes) /\ C!This = nodes[C!Here]
           /\ Waits(Head(work)) /\ c >= 2
           /\ do = "call" => C!This.type = "Call"
           /\ do = "store" => C!This.type = "Assign"
<1>1. Head(work).do = do /\ C!Here = Head(work).node /\ C!This = nodes[C!Here]
  BY CompilerVisits DEF CompilesHere
<1>2. Waits(Head(work))
  BY <1>1 DEF Waits
<1>3. PartItem(Head(work), b) /\ c >= 2
  BY <1>2 DEF AtHead
<1>4. OwnedBy(C!Here, b)
  BY <1>1, <1>3 DEF PartItem
<1>5. C!Here \in 1 .. Len(nodes)
  BY <1>4, OwnedKids DEF CompilesHere
<1>6. QED
  BY <1>1, <1>2, <1>3, <1>4, <1>5 DEF PartItem

(* A name, read or written. *)
LEMMA SlotCompiles ==
    ASSUME CompilesHere, work # <<>>, DistinctJumps(work), Declared(chunk, functionIndex),
           NEW h, NEW own, NEW b, NEW c, NEW v, AtHead(chunk, h, own, b, c, v), c >= 2,
           NEW op \in {1, 2}, op = 1 => Head(work).do = "expression",
           op = 2 => Head(work).do = "store",
           NEW slot \in 0 .. T!Width(chunk, b) - 1, NEW span, C!EmitSlot(op, slot, span)
    PROVE  Compiled
<1>1. CASE slot < 0 \/ slot > MaxOperand
  BY <1>1, ErrorCompiles DEF C!EmitSlot
<1>2. CASE ~(slot < 0 \/ slot > MaxOperand)
  <2> DEFINE text == C!NoText
             u == Top(chunk, h)
             left == Left(chunk, op, slot, u)
  <2>1. C!EmitOnto(chunk, op, slot, span, text, <<>>)
    BY <1>2 DEF C!EmitSlot, C!EmitHere
  <2>2. slot \in 0 .. MaxOperand /\ op \notin JumpOps
    BY <1>2, PipelineAssumption DEF JumpOps
  <2>3. u \in Nat /\ v \in Nat /\ Moves(Head(work), u, v) /\ slot \in Nat
    BY HeadMoves
  <2>4. slot < T!Width(chunk, b)
    <3> DEFINE w == T!Width(chunk, b)
    <3>1. w \in Nat
      BY WidthIsNat DEF AtHead
    <3> HIDE DEF w
    <3>2. slot \in 0 .. w - 1
      BY DEF w
    <3>3. slot < w
      BY <3>1, <3>2
    <3>4. QED
      BY <3>3 DEF w
  <2> HIDE DEF u, text
  <2>5. /\ OpFits(chunk, op, slot, u, b)
        /\ \A m \in Nat : Moves(Head(work), u, m) => m = left
    <3>1. CASE op = 1
      <4>1. Does(chunk, 1, slot, u, b, u + 1)
        BY <2>3, <2>4, SlotsAndConstants
      <4>2. \A m \in Nat : Moves(Head(work), u, m) => m = u + 1
        BY <3>1 DEF Moves
      <4>3. QED
        BY <3>1, <4>1, <4>2 DEF Does
    <3>2. CASE op = 2
      <4>1. u = 1
        BY <2>3, <3>2 DEF Moves
      <4>2. Does(chunk, 2, slot, u, b, 0)
        BY <2>3, <2>4, <4>1, SlotsAndConstants
      <4>3. \A m \in Nat : Moves(Head(work), u, m) => m = 0
        BY <3>2 DEF Moves
      <4>4. QED
        BY <3>2, <4>2, <4>3 DEF Does
    <3>3. QED
      BY <3>1, <3>2
  <2>6. ~Patches(Head(work))
    BY DEF Patches
  <2>7. c >= 1
    BY HeadMoves
  <2> HIDE DEF left
  <2>8. QED
    BY <2>1, <2>2, <2>5, <2>6, <2>7, PlainEmitCompiles DEF u, left
<1>3. QED
  BY <1>1, <1>2

LEMMA IdentifierCompiles ==
    ASSUME CompilesHere, C!CompileIdentifier
    PROVE  Compiled
<1>1. /\ C!Visiting("expression") /\ C!This.type = "Identifier"
      /\ C!EmitSlot(1, C!This.slot, C!This.span)
  BY OpCodesAre DEF C!CompileIdentifier, C!VisitingA, C!This, C!Here
<1>2. /\ work # <<>> /\ Head(work).do = "expression" /\ DistinctJumps(work)
      /\ Declared(chunk, functionIndex)
  BY <1>1, CompilesHead
<1>3. PICK h, own, b, c, v : AtHead(chunk, h, own, b, c, v)
  BY <1>1, CompilesHead
<1>4. OwnedBy(C!Here, b) /\ C!This = nodes[C!Here] /\ c >= 2
  BY <1>1, <1>3, HereIsOwned
<1>5. b \in 0 .. Len(C!Functions)
  BY <1>3 DEF AtHead
<1>6. C!This.slot \in 0 .. T!Width(chunk, b) - 1
  BY <1>1, <1>2, <1>4, <1>5, OwnedFits DEF CompilesHere
<1>7. QED
  BY <1>1, <1>2, <1>3, <1>4, <1>6, SlotCompiles

LEMMA StoreCompiles ==
    ASSUME CompilesHere, C!Visiting("store"), C!EmitSlot(2, C!This.slot, C!This.span)
    PROVE  Compiled
<1>1. /\ work # <<>> /\ Head(work).do = "store" /\ DistinctJumps(work)
      /\ Declared(chunk, functionIndex)
  BY CompilesHead
<1>2. PICK h, own, b, c, v : AtHead(chunk, h, own, b, c, v)
  BY CompilesHead
<1>3. OwnedBy(C!Here, b) /\ C!This = nodes[C!Here] /\ c >= 2 /\ C!This.type = "Assign"
  BY <1>2, HereIsOwned
<1>4. b \in 0 .. Len(C!Functions)
  BY <1>2 DEF AtHead
<1>5. C!This.slot \in 0 .. T!Width(chunk, b) - 1
  BY <1>1, <1>3, <1>4, OwnedFits DEF CompilesHere
<1>6. QED
  BY <1>1, <1>2, <1>3, <1>5, SlotCompiles

LEMMA OperationCompiles ==
    ASSUME CompilesHere, C!EmitOperation
    PROVE  Compiled
<1> DEFINE op == Head(work).op
           zero == 0
<1>1. C!Visiting("emit") /\ C!EmitHere(op, zero, C!This.span, C!This.name, <<>>)
  BY DEF C!EmitOperation
<1>2. /\ work # <<>> /\ Head(work).do = "emit" /\ DistinctJumps(work)
      /\ Declared(chunk, functionIndex)
  BY <1>1, CompilesHead
<1>3. PICK h, own, b, c, v : AtHead(chunk, h, own, b, c, v)
  BY <1>1, CompilesHead
<1>4. op \in PlainOps
  BY <1>1, CompilerVisits DEF CompilesHere, Compilable
<1>5. c >= 2 /\ (op = 16 => b # 0)
  <2>1. Waits(Head(work))
    BY <1>2 DEF Waits
  <2>2. QED
    BY <1>2, <1>3, <2>1 DEF AtHead, PartItem
<1> DEFINE u == Top(chunk, h)
<1>6. u \in Nat /\ v \in Nat /\ Moves(Head(work), u, v) /\ c >= 1
  BY <1>3, <1>5, HeadMoves
<1> HIDE DEF u
<1>7. \A m \in Nat : Moves(Head(work), u, m) => EmitMoves(op, u, m)
  BY <1>2 DEF Moves
<1> HIDE DEF op
<1>8. \A m \in Nat : Moves(Head(work), u, m) => Does(chunk, op, 0, u, b, m)
  BY <1>4, <1>5, <1>6, <1>7, OperationsDo
<1>9. ~Patches(Head(work)) /\ op \notin JumpOps /\ op \notin WithOperand
  <2>1. ~Patches(Head(work))
    BY <1>2 DEF Patches
  <2>2. QED
    BY <1>4, <2>1 DEF PlainOps, JumpOps, WithOperand
<1>10. /\ OpFits(chunk, op, zero, u, b)
       /\ \A m \in Nat : Moves(Head(work), u, m) => m = Left(chunk, op, zero, u)
  BY <1>6, <1>8 DEF Does
<1>11. C!EmitOnto(chunk, op, zero, C!This.span, C!This.name, <<>>)
  BY <1>1 DEF C!EmitHere
<1> HIDE DEF zero
<1>12. QED
  BY <1>2, <1>3, <1>5, <1>6, <1>9, <1>10, <1>11, PlainEmitCompiles DEF u

(* A call to a function of the table, with the arguments it takes. *)
LEMMA CallEmitCompiles ==
    ASSUME CompilesHere, C!Visiting("call"),
           C!EmitHere(C!OpCode.CALL, functionIndex[C!This.name], C!This.span, C!NoText, <<>>)
    PROVE  Compiled
<1> DEFINE op == C!OpCode.CALL
           operand == functionIndex[C!This.name]
           text == C!NoText
           arguments == Len(C!This.kids)
<1>1. /\ work # <<>> /\ Head(work).do = "call" /\ DistinctJumps(work)
      /\ Declared(chunk, functionIndex)
  BY CompilesHead
<1>2. PICK h, own, b, c, v : AtHead(chunk, h, own, b, c, v)
  BY CompilesHead
<1>3. OwnedBy(C!Here, b) /\ C!This = nodes[C!Here] /\ c >= 2 /\ C!This.type = "Call"
  BY <1>2, HereIsOwned
<1>4. b \in 0 .. Len(C!Functions)
  BY <1>2 DEF AtHead
<1>5. PICK i \in 1 .. Len(C!Functions) :
          NameOf(i) = C!This.name /\ Len(nodes[C!Functions[i]].parameters) = arguments
  BY <1>1, <1>3, <1>4, OwnedFits DEF CompilesHere
<1>6. /\ operand = i - 1 /\ i - 1 <= MaxOperand /\ Len(chunk.functions) = Len(C!Functions)
      /\ chunk.functions[i].arity = arguments
  BY <1>1, <1>5 DEF Declared
<1> DEFINE u == Top(chunk, h)
<1>7. u \in Nat /\ v \in Nat /\ Moves(Head(work), u, v) /\ c >= 1
  BY <1>2, <1>3, HeadMoves
<1>8. \A m \in Nat : Moves(Head(work), u, m) => CallMoves(arguments, u, m)
  BY <1>1, <1>3, CompilerVisits DEF Moves, CompilesHere
<1>9. arguments \in Nat
  BY <1>3, OwnedKids, KidFacts, LenProperties DEF CompilesHere
<1>10. op = 15 /\ op \notin JumpOps /\ op \in WithOperand /\ ~Patches(Head(work))
  <2>1. ~Patches(Head(work))
    BY <1>1 DEF Patches
  <2>2. op = 15
    BY OpCodesAre
  <2>3. QED
    BY <2>1, <2>2 DEF JumpOps, WithOperand
<1>11. C!EmitOnto(chunk, op, operand, C!This.span, text, <<>>)
  BY DEF C!EmitHere
<1> HIDE DEF u, op, operand, text, arguments
<1>12. operand + 1 = i /\ operand \in Nat /\ operand \in 0 .. MaxOperand
       /\ operand < Len(chunk.functions)
  <2>1. Len(C!Functions) \in Nat
    BY FunctionRoots DEF CompilesHere
  <2>2. QED
    BY <1>6, <2>1, PipelineAssumption
<1>13. TakenBy(chunk, op, operand) = arguments
  <2>1. op \notin BinaryOps /\ op \notin TakesOne
    BY <1>10 DEF BinaryOps, TakesOne
  <2>2. QED
    BY <1>6, <1>10, <1>12, <2>1 DEF TakenBy
<1>14. arguments <= u /\ \A m \in Nat : Moves(Head(work), u, m) => m = u - arguments + 1
  BY <1>7, <1>8, <1>9 DEF CallMoves
<1>15. OpFits(chunk, op, operand, u, b)
  BY <1>9, <1>10, <1>12, <1>13, <1>14 DEF OpFits
<1>16. Left(chunk, op, operand, u) = u - arguments + 1
  BY <1>10, <1>13 DEF Left, EndOps, PutsOne
<1>17. \A m \in Nat : Moves(Head(work), u, m) => m = Left(chunk, op, operand, u)
  BY <1>14, <1>16
<1>18. QED
  BY <1>1, <1>2, <1>3, <1>7, <1>10, <1>11, <1>12, <1>15, <1>17, PlainEmitCompiles DEF u

(* The end of the program, and of a body. *)
LEMMA HaltCompiles ==
    ASSUME CompilesHere, C!EmitHalt
    PROVE  Compiled
<1> DEFINE op == C!OpCode.HALT
           zero == 0
           span == IF program = <<>> THEN C!NoSpan ELSE nodes[program[Len(program)]].span
           text == C!NoText
<1>1. C!Visiting("halt") /\ C!EmitOnto(chunk, op, zero, span, text, <<>>)
  BY DEF C!EmitHalt, C!EmitHere
<1>2. /\ work # <<>> /\ Head(work).do = "halt" /\ DistinctJumps(work)
      /\ Declared(chunk, functionIndex)
  BY <1>1, CompilesHead
<1>3. PICK h, own, b, c, v : AtHead(chunk, h, own, b, c, v)
  BY <1>1, CompilesHead
<1>4. c = 1
  BY <1>2, <1>3 DEF AtHead, Closes
<1> DEFINE u == Top(chunk, h)
<1>5. u \in Nat /\ v \in Nat /\ Moves(Head(work), u, v)
  BY <1>3, HeadMoves
<1>6. u = 0 /\ \A m \in Nat : Moves(Head(work), u, m) => m = 0
  BY <1>2, <1>5 DEF Moves
<1>7. op = 18 /\ op \notin JumpOps /\ op \notin WithOperand /\ op \in EndOps
  BY OpCodesAre DEF JumpOps, WithOperand, EndOps
<1>8. ~Patches(Head(work))
  BY <1>2 DEF Patches
<1> HIDE DEF u, op, span, text
<1>9. Does(chunk, op, zero, u, b, 0)
  BY <1>5, <1>6, <1>7, SlotsAndConstants
<1> HIDE DEF zero
<1>10. c >= 1
  BY <1>4
<1>11. /\ OpFits(chunk, op, zero, u, b)
       /\ \A m \in Nat : Moves(Head(work), u, m) => m = Left(chunk, op, zero, u)
  BY <1>6, <1>9 DEF Does
<1>12. QED
  BY <1>1, <1>2, <1>3, <1>7, <1>8, <1>10, <1>11, PlainEmitCompiles DEF u

LEMMA EndBodyCompiles ==
    ASSUME CompilesHere, C!EndFunctionBody
    PROVE  Compiled
<1> DEFINE op == C!OpCode.RETURN
           zero == 0
           text == C!NoText
<1>1. C!Visiting("end body") /\ C!EmitOnto(chunk, op, zero, C!This.span, text, <<>>)
  BY DEF C!EndFunctionBody, C!EmitHere
<1>2. /\ work # <<>> /\ Head(work).do = "end body" /\ DistinctJumps(work)
      /\ Declared(chunk, functionIndex)
  BY <1>1, CompilesHead
<1>3. PICK h, own, b, c, v : AtHead(chunk, h, own, b, c, v)
  BY <1>1, CompilesHead
<1>4. c = 1 /\ b # 0
  BY <1>2, <1>3 DEF AtHead, Closes
<1> DEFINE u == Top(chunk, h)
<1>5. u \in Nat /\ v \in Nat /\ Moves(Head(work), u, v)
  BY <1>3, HeadMoves
<1>6. u = 1 /\ \A m \in Nat : Moves(Head(work), u, m) => m = 0
  BY <1>2, <1>5 DEF Moves
<1>7. op = 16 /\ op \notin JumpOps /\ op \notin WithOperand /\ op \in EndOps /\ op \in PlainOps
  BY OpCodesAre DEF JumpOps, WithOperand, EndOps, PlainOps
<1>8. ~Patches(Head(work))
  BY <1>2 DEF Patches
<1> HIDE DEF u, op, text
<1>9. Does(chunk, op, zero, u, b, zero)
  <2>1. EmitMoves(op, u, zero)
    BY <1>6, <1>7 DEF EmitMoves
  <2>2. QED
    BY <1>4, <1>5, <1>7, <2>1, OperationsDo
<1>10. c >= 1
  BY <1>4
<1>11. /\ OpFits(chunk, op, zero, u, b)
       /\ \A m \in Nat : Moves(Head(work), u, m) => m = Left(chunk, op, zero, u)
  BY <1>6, <1>9 DEF Does
<1> HIDE DEF zero
<1>12. QED
  BY <1>1, <1>2, <1>3, <1>7, <1>8, <1>10, <1>11, PlainEmitCompiles DEF u
=============================================================================
