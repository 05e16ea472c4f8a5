--------------------------------- MODULE Words ---------------------------------
(***************************************************************************)
(* Unsigned integers of a fixed width, with the checked arithmetic the      *)
(* readers of files share.                                                  *)
(***************************************************************************)
EXTENDS Integers, Sequences

CONSTANT Word       \* bounds: how many values an integer has (2^64)

ASSUME WordAssumption == Word \in Nat \ {0}

\* What an operation gives when its result does not fit.
None == -1

CheckedAdd(a, b) == IF a # None /\ b # None /\ a <= Word - 1 - b THEN a + b ELSE None

\* (Fault) The product wraps.
CheckedMul_Wraps(a, b) == IF a # None /\ b # None THEN (a * b) % Word ELSE None

CheckedMul(a, b) ==
    IF a # None /\ b # None /\ (a # 0 => b <= (Word - 1) \div a) THEN a * b ELSE None

\* The numbers of a sequence added up and multiplied up; None once a result does not fit.
CheckedSum(s) ==
    LET upto[k \in 0..Len(s)] == IF k = 0 THEN 0 ELSE CheckedAdd(upto[k - 1], s[k])
    IN  upto[Len(s)]
CheckedProduct(s) ==
    LET upto[k \in 0..Len(s)] == IF k = 0 THEN 1 ELSE CheckedMul(upto[k - 1], s[k])
    IN  upto[Len(s)]

IsPowerOfTwo(n) == n > 0 /\ \E k \in 0..30 : n = 2^k

AlignUp(value, alignment) ==
    IF value = None THEN None
    ELSE IF value % alignment = 0 THEN value
    ELSE CheckedAdd(value, alignment - (value % alignment))
=============================================================================
