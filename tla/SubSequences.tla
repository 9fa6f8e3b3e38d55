---------------------------- MODULE SubSequences -----------------------------
(***************************************************************************)
(* What a loop that keeps some of the elements of a vector returns.        *)
(***************************************************************************)
EXTENDS Integers, Sequences

(* The elements of s at the given positions, in order: SelectSeq with a set for
   its test, written so that a proof can expand it. *)
SubSequence(s, positions) ==
    LET taken[i \in 0 .. Len(s)] ==
            IF i = 0 THEN <<>>
            ELSE IF i \in positions THEN Append(taken[i - 1], s[i])
            ELSE taken[i - 1]
    IN  taken[Len(s)]
==============================================================================
