------------------------------ MODULE MCBlocks -------------------------------
(***************************************************************************)
(* Every short program of assignments, reads, blocks, branches and loops   *)
(* over two names, at the top level and in a function: the middle of the   *)
(* pipeline on all of them.                                                *)
(***************************************************************************)
EXTENDS Scoping, CodeShape, MCSource

Piece ==
    { <<"x","=","1">>, <<"y","=","x">>, <<"z","=","y">>,
      <<"{">>, <<"}">>, <<"if","x","<","2","{">>, <<"}","else","{">>,
      <<"while","y","==","2","{">> }

AtTopLevel == {<<FlattenSeq(b)>> : b \in Bodies(4, Piece)}

AfterAssignment ==
    {<< <<"x","=","0">> \o FlattenSeq(b) \o <<"print","x">> >> : b \in Bodies(4, Piece)}

InFunction ==
    {<< <<"x","=","2","print","f","(","x",")","fn","f","(","y",")","{">> \o FlattenSeq(b)
        \o <<"return","y","}">> >> : b \in Bodies(3, Piece)}

(* Calls, declarations and returns the resolver has to tell apart. *)
Declarations ==
    { << <<"print","g","(","1",")">> \o a \o b >> :
        a \in { <<"fn","g","(","a",")","{","return","a","}">>,
                <<"fn","g","(","a",",","a",")","{","}">>,
                <<"fn","g","(",")","{","return","}">>,
                <<"g","=","1">> },
        b \in { <<>>, <<"fn","g","(","b",")","{","}">>, <<"print","g">>, <<"g","=","g">>,
                <<"return","1">>, <<"{","g","=","2","}","fn","h","(",")","{","print","g","}">>,
                <<"{","w","=","2","}","print","w">>,
                <<"fn","h","(",")","{","print","g","(","g","(","2",")",")","}">> } }

MCBodies ==
    {TokensOf(p) : p \in AtTopLevel \cup AfterAssignment \cup InFunction \cup Declarations}
=============================================================================
