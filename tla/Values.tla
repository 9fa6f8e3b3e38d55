------------------------------- MODULE Values -------------------------------
(***************************************************************************)
(* The values of the language (src/src/value.h): a tagged union of one     *)
(* 64-bit integer arm and one boolean arm.  Both arms are held in the      *)
(* field v, a boolean as 0 or 1, which is what makes values of different   *)
(* types comparable in a model.  MaxInt scales the width of the integer    *)
(* arm: the code's value is 2^63 - 1.                                      *)
(***************************************************************************)
EXTENDS Integers

CONSTANT MaxInt

ASSUME MaxIntAssumption == MaxInt \in Nat \ {0}

MinInt == -MaxInt - 1

(* What __builtin_add_overflow and its siblings do not report as overflow. *)
Fits(n) == n \in MinInt .. MaxInt

Value == [type : {"integer"}, v : MinInt .. MaxInt] \cup [type : {"boolean"}, v : {0, 1}]

IntValue(n) == [type |-> "integer", v |-> n]
BoolValue(b) == [type |-> "boolean", v |-> IF b THEN 1 ELSE 0]

IsInt(value) == value.type = "integer"
IsBool(value) == value.type = "boolean"
IsTrue(value) == value.v = 1

Zero == IntValue(0)

(* Only ever reached with operands of one type: both callers check first. *)
ValuesEqual(left, right) == left.v = right.v

Magnitude(n) == IF n < 0 THEN -n ELSE n

(* mutant: rounds toward minus infinity *)
FloorQuotient(n, d) ==
    IF (n < 0) = (d < 0)
    THEN Magnitude(n) \div Magnitude(d)
    ELSE -((Magnitude(n) + Magnitude(d) - 1) \div Magnitude(d))

(* The / of C++ on integers truncates toward zero; \div rounds down. *)
Quotient(n, d) ==
    LET q == Magnitude(n) \div Magnitude(d)
    IN  IF (n < 0) = (d < 0) THEN q ELSE -q
=============================================================================
