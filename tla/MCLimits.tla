------------------------------ MODULE MCLimits -------------------------------
(***************************************************************************)
(* Programs at and around every limit of the bytecode format and the VM:   *)
(* the size of the code, the width of a frame, the number of functions,    *)
(* the call depth and the operand stack.                                   *)
(***************************************************************************)
EXTENDS RunSafety, MCSource

Repeat(n, words) == FlattenSeq([i \in 1 .. n |-> words])

(* Assignments of six bytes and prints of four and five, and then a construct:
   between them each of its instructions lands on either side of the limit. *)
Constructs ==
    { <<"if","true","{","}">>, <<"if","true","{","}","else","{","x","=","2","}">>,
      <<"while","false","{","}">>, <<"while","false","{","x","=","2","}">>,
      <<"print","f","(",")","fn","f","(",")","{","return","}">>,
      <<"print","f","(",")","fn","f","(",")","{","return","1","<=","2","}">>,
      <<"x","=","!","true">> }

Sized ==
    {<< Repeat(a, <<"x","=","1">>) \o Repeat(b, <<"print","1">>) \o Repeat(c, <<"print","-","1">>)
        \o construct >> :
        a \in 4 .. 8, b \in 0 .. 1, c \in 0 .. 1, construct \in Constructs}

Name(i) == "v" \o ToString(i)

Assignments(n) == [i \in 1 .. n |-> <<Name(i), "=", "1">>]

Functions(n) == [i \in 1 .. n |-> <<"fn", Name(i), "(", ")", "{", "}">>]

(* A function of n parameters, each on a line of its own. *)
Taking(n) ==
    << <<"fn","f","(">> >> \o [i \in 1 .. n |-> (IF i = 1 THEN <<>> ELSE <<",">>) \o <<Name(i)>>]
    \o << <<")","{","}">> >>

Wide ==
    {Assignments(n) : n \in {8, 50, 51}} \cup {Taking(n) : n \in {50, 51}}
    \cup {Functions(n) : n \in {12, 13, 51, 52}} \cup {Taking(51) \o Functions(51)}

(* Recursion n deep in frames of one slot and `locals` more. *)
Recursion ==
    {<< <<"fn","r","(","n",")","{">>
        \o FlattenSeq(Assignments(locals))
        \o <<"if","n","==","0","{","return","n","}","return","r","(","n","-","1",")","}">>,
        <<"print","r","(",depth,")">> >> :
        locals \in 0 .. 1, depth \in {"3", "4", "5"}}
    \cup {<< <<"fn","r","(",")","{">>
             \o FlattenSeq(Assignments(locals))
             \o <<"return", "r", "(", ")", "}", "print", "r", "(", ")">> >> : locals \in {0, 5}}

MCSizes == {TokensOf(p) : p \in Sized \cup Wide \cup Recursion}

-----------------------------------------------------------------------------

(* A claim of src/tests/vm_test.cpp:130, which the recursions above refute:
   pushing in a loop is "the only way to exhaust the operand stack", and "No
   `.algo` program can express it". *)
NoProgramExhaustsTheStack == vmVerdict.message # <<"operand stack exhausted">>
==============================================================================
