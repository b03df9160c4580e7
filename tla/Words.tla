-------------------------------- MODULE Words --------------------------------
(* The integers of Go as the keepers use them: int64 and uint64 wrap       *)
(* around, and int64(x) of a uint64 reads the same bits.                   *)
EXTENDS Integers

CONSTANT Half   \* 2^63 in the code

ASSUME WordsAssumption == Half \in Nat \ {0}

Word == Half + Half

Int64 == -Half .. Half - 1

Uint64 == 0 .. Word - 1

ToUint64(x) == x % Word

ToInt64(x) == ((x + Half) % Word) - Half

\* The quotient of int64 division rounds towards zero.
Quotient64(x, n) == IF x >= 0 THEN x \div n ELSE -((-x) \div n)
=============================================================================
