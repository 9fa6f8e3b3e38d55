-------------------------------- MODULE Calls --------------------------------
(***************************************************************************)
(* What a call is, with no operand stack: every live call has variables    *)
(* and temporaries of its own, and only the innermost one can do anything. *)
(* Arguments move into the callee and one result moves out of it; nothing  *)
(* else passes between two calls.  The VM (src/src/vm.cpp) keeps all of it *)
(* in one vector of values; VmSafety says how the one is the other.        *)
(***************************************************************************)
EXTENDS Values, Sequences

CONSTANTS MaxSlots,   \* the widest frame a call can have
          MaxCalls    \* how many calls may be live, the program's own included

VARIABLES calls, out, running

vars == <<calls, out, running>>

Innermost == calls[Len(calls)]
Callers == SubSeq(calls, 1, Len(calls) - 1)

Temps == Innermost.temps
Kept(n) == SubSeq(Temps, 1, Len(Temps) - n)
LastTemps(n) == SubSeq(Temps, Len(Temps) - n + 1, Len(Temps))

Nothing(n) == [i \in 1 .. n |-> Zero]
NewCall(arguments, others) == [locals |-> arguments \o Nothing(others), temps |-> <<>>]

(* The innermost call uses up its last n temporaries, and may leave a value. *)
Compute ==
    /\ \E n \in 0 .. Len(Temps) :
           \/ calls' = Append(Callers, [Innermost EXCEPT !.temps = Kept(n)])
           \/ \E value \in Value :
                  calls' = Append(Callers, [Innermost EXCEPT !.temps = Append(Kept(n), value)])
    /\ UNCHANGED <<out, running>>

Assign ==
    /\ Temps # <<>>
    /\ \E slot \in DOMAIN Innermost.locals :
           calls' = Append(Callers, [Innermost EXCEPT !.temps = Kept(1),
                                                      !.locals[slot] = Temps[Len(Temps)]])
    /\ UNCHANGED <<out, running>>

Enter ==
    /\ Len(calls) < MaxCalls
    /\ \E arity \in 0 .. Len(Temps) : \E others \in 0 .. MaxSlots - arity :
           calls' = Callers \o << [Innermost EXCEPT !.temps = Kept(arity)],
                                   NewCall(LastTemps(arity), others) >>
    /\ UNCHANGED <<out, running>>

Leave ==
    /\ Len(calls) > 1 /\ Temps # <<>>
    /\ calls' = [Callers EXCEPT ![Len(Callers)].temps = Append(@, Temps[Len(Temps)])]
    /\ UNCHANGED <<out, running>>

Output ==
    /\ Temps # <<>>
    /\ out' = Append(out, Temps[Len(Temps)])
    /\ calls' = Append(Callers, [Innermost EXCEPT !.temps = Kept(1)])
    /\ UNCHANGED running

Stop ==
    /\ running' = FALSE
    /\ UNCHANGED <<calls, out>>

Init ==
    /\ \E slots \in 0 .. MaxSlots : calls = <<NewCall(<<>>, slots)>>
    /\ out = <<>>
    /\ running = TRUE

Next == running /\ (Compute \/ Assign \/ Enter \/ Leave \/ Output \/ Stop)

Spec == Init /\ [][Next]_vars
==============================================================================
