----------------------------- MODULE MCPipeline -----------------------------
(***************************************************************************)
(* Corpora for Pipeline: the programs of MCCorpus, every short body of a   *)
(* recursive function, and in MCOperators every operator on every pair of  *)
(* boundary values.                                                        *)
(***************************************************************************)
EXTENDS Meaning, MCCorpus

(* Calls of itself, prints and returns anywhere among blocks and loops, all of
   which end. *)
Step ==
    { <<"y","=","x">>, <<"y","=","f","(","x","-","1",")">>, <<"z","=","y">>, <<"print","z">>,
      <<"return","x">>, <<"{">>, <<"while","x",">","0","{","x","=","x","-","1">>, <<"}">> }

Recursing ==
    {<< <<"y","=","3","print","f","(","2",")","print","y">>,
        <<"fn","f","(","x",")","{","y","=","x","if","x","<","1","{","return","2","}">>
        \o FlattenSeq(b) \o <<"return","y","}">> >> : b \in Bodies(4, Step)}

MCPrograms == {TokensOf(p) : p \in Programs \cup Recursing}

(* Every operator over the ends of the range, its neighbours, 0 and booleans. *)
Boundary ==
    { <<"-","7","-","1">>, <<"-","7">>, <<"-","1">>, <<"0">>, <<"1">>, <<"2">>, <<"7">>,
      <<"true">>, <<"false">> }

BinaryOperators == {"+", "-", "*", "/", "<", "<=", ">", ">=", "==", "!="}

MCOperators ==
    {TokensOf(<< <<"x","=">> \o left \o <<"y","=">> \o right, <<"print","x",op,"y">> >>) :
        left \in Boundary, right \in Boundary, op \in BinaryOperators}
    \cup {TokensOf(<< <<"x","=">> \o operand, <<"print", op, "x">> >>) :
        operand \in Boundary, op \in {"-", "!"}}

-----------------------------------------------------------------------------

(* The operator the program's print applies. *)
Printed == nodes[nodes[Last(program)].kids[1]]

(* Each engine computes every operator exactly, or faults: on the operands that
   have no result - of the wrong type, a zero divisor, a result outside the
   range - and on no others.  `frames[1]` holds the operands the program
   assigned to its variables. *)
OperatorsAreExact ==
    BothEnded =>
        LET exact == Applied(Printed.name, frames[1])
        IN  /\ Outcome(treeOut, treeVerdict.message) = exact
            /\ Outcome(vmOut, vmVerdict.message) = exact
=============================================================================
