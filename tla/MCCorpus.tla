------------------------------ MODULE MCCorpus -------------------------------
(***************************************************************************)
(* Programs for model checking, after the golden cases of src/tests and    *)
(* with what they leave out.                                               *)
(***************************************************************************)
EXTENDS MCSource

(* Recursion, mutual recursion and calls of functions declared further down. *)
Calling ==
    { << <<"fn","fib","(","n",")","{","if","n","<","2","{","return","n","}">>,
         <<"return","fib","(","n","-","1",")","+","fib","(","n","-","2",")","}">>,
         <<"print","fib","(","4",")">> >>,
      << <<"print","even","(","2",")">>,
         <<"fn","even","(","n",")","{","if","n","==","0","{","return","true","}">>,
         <<"return","odd","(","n","-","1",")","}">>,
         <<"fn","odd","(","n",")","{","return","n","!=","0","}">> >>,
      << <<"fn","f","(","a",",","b",")","{","c","=","a","-","b","return","c","}">>,
         <<"x","=","f","(","5",",","2",")","y","=","f","(","x",",","f","(","1",",","x",")",")">>,
         <<"print","y">> >>,
      << <<"fn","p","(","a",")","{","print","a","a","=","a","+","1","print","a","}">>,
         <<"a","=","3","b","=","p","(","a",")","print","a","print","b">> >>,
      (* the call depth at its limit and one past it *)
      << <<"fn","d","(","n",")","{","if","n","==","0","{","return","0","}">>,
         <<"return","d","(","n","-","1",")","}">>,
         <<"print","d","(","3",")","print","d","(","4",")">> >>,
      << <<"fn","g","(","n",")","{","return","1","+","h","(","n",")","}">>,
         <<"fn","h","(","n",")","{","print","n","return","g","(","n",")","}">>,
         <<"print","2","*","g","(","5",")">> >>,
      (* frames so wide that the operand stack ends before the depth does *)
      << <<"fn","w","(","n",")","{","a","=","1","b","=","2","c","=","3","e","=","4","f","=","5">>,
         <<"g","=","6","h","=","7","return","w","(","n",")","}">>,
         <<"i","=","0","print","w","(","1",")">> >> }

(* Blocks, loops, chains and returns out of the middle of them. *)
Control ==
    { << <<"i","=","0","t","=","0">>,
         <<"while","i","<=","2","{","t","=","t","+","i","i","=","i","+","1","}">>,
         <<"print","t">> >>,
      << <<"x","=","1">>,
         <<"{","y","=","x","+","1","print","y","x","=","y","}">>,
         <<"{","y","=","x","*","3","print","y","}","print","x">> >>,
      << <<"fn","k","(","n",")","{">>,
         <<"if","n","<","0","{","print","-","n","}","else","if","n","==","0">>,
         <<"{","return","}","else","{","return","n","}","}">>,
         <<"print","k","(","-","1",")","print","k","(","0",")","print","k","(","2",")">> >>,
      << <<"fn","s","(","n",")","{","i","=","0">>,
         <<"while","true","{","{","if","i","==","n","{","return","i","*","2","}","}">>,
         <<"i","=","i","+","1","}","}">>,
         <<"print","s","(","2",")","print","s","(","0",")">> >>,
      << <<"while","false","{","x","=","1","}","b","=","!","!","true","print","b">> >>,
      << <<"fn","r","(",")","{","return","print","4","}">>,
         <<"if","r","(",")","==","0","{","print","1","}","else","{","print","2","}">> >>,
      (* a return value left by an inner call must not be the outer one's *)
      << <<"fn","a","(",")","{","return","5","}">>,
         <<"fn","b","(",")","{","x","=","a","(",")","}">>,
         <<"fn","c","(",")","{","x","=","a","(",")","return","}">>,
         <<"print","b","(",")","print","c","(",")">> >>,
      << <<"x","=","0","while","x","<","3","{","y","=","x","x","=","x","+","1">>,
         <<"if","y","==","1","{","z","=","y","print","z","}","}","print","x">> >> }

(* Faults at run time, inside operands, conditions, arguments and loops. *)
Faulting ==
    { << <<"print","1","print","2","+","true">> >>,
      << <<"fn","f","(","n",")","{","return","7","/","n","}">>,
         <<"print","f","(","1",")">>, <<"print","1","+","f","(","0",")">> >>,
      << <<"i","=","5","while","i","{","i","=","i","-","1","}">> >>,
      << <<"b","=","false","if","b","<=","1","{","print","1","}">> >>,
      << <<"fn","n","(",")","{","{","return","-","true","}","}">>,
         <<"print","!","0","==","n","(",")">> >>,
      << <<"m","=","-","7","-","1","print","m","print","-","m">> >>,
      << <<"i","=","1","while","true","{","print","i">>, <<"i","=","i","*","3","}">> >>,
      << <<"if","1","==","2","{","}","else","if","3","-","2","{","}">> >>,
      << <<"fn","f","(","a",")","{","return","a","==","true","}">>,
         <<"print","f","(","false",")","!=","f","(","0",")">> >> }

(* What the parser and the resolver refuse. *)
Refused ==
    { << <<"x","=","x","+","1">> >>,
      << <<"{","x","=","1","}","print","x">> >>,
      << <<"x","=","1","fn","f","(",")","{","print","x","}">> >>,
      << <<"fn","f","(",")","{","}","print","f">> >>,
      << <<"x","=","1","print","x","(",")">> >>,
      << <<"print","u","(","1",")">> >>,
      << <<"fn","f","(","a",")","{","}","print","f","(",")">> >>,
      << <<"fn","f","(","a",",","a",")","{","}">> >>,
      << <<"fn","f","(",")","{","}","fn","f","(","a",")","{","}">> >>,
      << <<"return","1">> >>,
      << <<"{","fn","f","(",")","{","}","}">> >>,
      << <<"fn","f","(",")","{","return">>, <<"x","=","1","}">> >>,
      << <<"print","9">> >>,
      << <<"if","true","{","print","1">> >>,
      << <<"else">> >>, << <<"print","*">> >>, << <<"while","true","print","1">> >>,
      << <<"print","f","(","1">> >> }

Programs == Calling \cup Control \cup Faulting \cup Refused
=============================================================================
