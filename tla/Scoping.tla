------------------------------- MODULE Scoping -------------------------------
(***************************************************************************)
(* The scoping rules the resolver (src/src/resolver.cpp) implements with a *)
(* stack of frames and scopes, said of the finished tree instead: which    *)
(* assignment a name belongs to depends only on which blocks enclose the   *)
(* two.                                                                    *)
(*                                                                         *)
(* The parser numbers a node after its parts, so of two nodes neither of   *)
(* which is in the other, the one with the smaller number is written first.*)
(***************************************************************************)
EXTENDS Pipeline

Parents == [n \in DOMAIN nodes |-> {p \in DOMAIN nodes : n \in Range(nodes[p].kids)}]

Enclosing ==
    LET parents == Parents
        ancestors[n \in DOMAIN nodes] ==
            parents[n] \cup UNION {ancestors[p] : p \in parents[n]}
    IN  ancestors

Within(type, n, enclosing) == {p \in enclosing[n] : nodes[p].type = type}

(* The function a node belongs to, 0 for the program, and its innermost block,
   0 for the top level. *)
OwnerOf(n, enclosing) ==
    IF nodes[n].type = "Function" THEN n
    ELSE IF Within("Function", n, enclosing) = {} THEN 0
    ELSE Min(Within("Function", n, enclosing))

BlockOf(n, enclosing) ==
    IF Within("Block", n, enclosing) = {} THEN 0 ELSE Min(Within("Block", n, enclosing))

OfType(type) == {n \in DOMAIN nodes : nodes[n].type = type}

ParametersOf(owner) == IF owner = 0 THEN <<>> ELSE nodes[owner].parameters

(* The parameters of n's function that have n's name: at most one. *)
NamedParameters(n, enclosing) ==
    {i \in DOMAIN ParametersOf(OwnerOf(n, enclosing)) :
        ParametersOf(OwnerOf(n, enclosing))[i].name = nodes[n].name}

(* The earlier assignments to n's name in the same frame, and those of them
   whose block encloses n as well. *)
Earlier(n, enclosing) ==
    {a \in OfType("Assign") : /\ a < n
                              /\ nodes[a].name = nodes[n].name
                              /\ OwnerOf(a, enclosing) = OwnerOf(n, enclosing)}

InSight(n, enclosing) ==
    {a \in Earlier(n, enclosing) : BlockOf(a, enclosing) \in {0} \cup enclosing[n]}

(* An assignment that names a variable nothing in sight has named before. *)
Introduces(a, enclosing) ==
    NamedParameters(a, enclosing) = {} /\ InSight(a, enclosing) = {}

Introduced(owner, enclosing) ==
    {a \in OfType("Assign") : OwnerOf(a, enclosing) = owner /\ Introduces(a, enclosing)}

(* Parameters come first, then every variable in the order of its introduction;
   no two variables of a frame share a slot, even when their blocks are disjoint. *)
SlotOf(n, enclosing) ==
    LET owner == OwnerOf(n, enclosing)
        introduction == Min(InSight(n, enclosing) \cup {n})
    IN  IF NamedParameters(n, enclosing) # {}
        THEN Min(NamedParameters(n, enclosing)) - 1
        ELSE Len(ParametersOf(owner))
             + Cardinality({a \in Introduced(owner, enclosing) : a < introduction})

FrameSizeOf(owner, enclosing) ==
    Len(ParametersOf(owner)) + Cardinality(Introduced(owner, enclosing))

Named(name) == {f \in OfType("Function") : nodes[f].name = name}

WellScoped(enclosing) ==
    /\ \A n \in OfType("Identifier") :
           NamedParameters(n, enclosing) # {} \/ InSight(n, enclosing) # {}
    /\ \A n \in OfType("Call") :
           \E f \in Named(nodes[n].name) : Len(nodes[f].parameters) = Len(nodes[n].kids)
    /\ \A n \in OfType("Return") : OwnerOf(n, enclosing) # 0
    /\ \A f \in OfType("Function") :
           /\ Named(nodes[f].name) = {f}
           /\ \A i, j \in DOMAIN nodes[f].parameters :
                  nodes[f].parameters[i].name = nodes[f].parameters[j].name => i = j

(* Why a name that is read cannot be. *)
Reason(n, enclosing) ==
    IF Earlier(n, enclosing) # {}
    THEN "variable used outside the block that assigns it"
    ELSE IF /\ OwnerOf(n, enclosing) # 0
            /\ \E a \in OfType("Assign") : /\ a < n
                                           /\ nodes[a].name = nodes[n].name
                                           /\ BlockOf(a, enclosing) = 0
    THEN "variable used inside a function"
    ELSE IF Named(nodes[n].name) # {} THEN "a function, not a value"
    ELSE "variable used before assignment"

-----------------------------------------------------------------------------

(* The resolver passes exactly the well-scoped programs, however the walk met
   their names: calls before declarations, blocks left and entered again. *)
AcceptsExactlyTheWellScoped ==
    resolved # Running => (resolved = Finished) = WellScoped(Enclosing)

(* Every node that names a variable has the slot the rules give it, and every
   frame the size: nothing is left unresolved, and two names share a slot only
   if they are one variable. *)
SlotsFollowTheRules ==
    resolved = Finished =>
        LET enclosing == Enclosing
        IN  /\ \A n \in OfType("Identifier") \cup OfType("Assign") :
                   nodes[n].slot = SlotOf(n, enclosing)
            /\ \A f \in OfType("Function") :
                   /\ nodes[f].frameSize = FrameSizeOf(f, enclosing)
                   /\ \A i \in DOMAIN nodes[f].parameters : nodes[f].parameters[i].slot = i - 1
            /\ programFrameSize = FrameSizeOf(0, enclosing)

(* A refused name is refused for the reason that holds of the whole program,
   not for what the walk happened to have in its tables. *)
RefusedNamesSayWhy ==
    resolved.class = "compile" =>
        \A n \in OfType("Identifier") :
            nodes[n].span = resolved.span =>
                resolved.message = <<Reason(n, Enclosing), nodes[n].name>>
=============================================================================
