-------------------------------- MODULE Limbs --------------------------------
(***************************************************************************)
(* 256-bit amounts as four limbs, and the amounts that the gas oracle, the *)
(* cost model and the metrics read from them as floating point.  A limb    *)
(* has LimbBase values here, 2^64 in the program.  Floating point is exact *)
(* here: its rounding to 53 bits is left out.                              *)
(***************************************************************************)
EXTENDS Integers

CONSTANT LimbBase

ASSUME LimbAssumption == LimbBase \in Nat /\ LimbBase > 1

Word == LimbBase * LimbBase * LimbBase * LimbBase
Amounts == 0..(Word - 1)

\* The limbs of an amount, limb 0 the least significant.
Limb(x, i) == (x \div (CASE i = 0 -> 1 [] i = 1 -> LimbBase
                         [] i = 2 -> LimbBase * LimbBase
                         [] OTHER -> LimbBase * LimbBase * LimbBase)) % LimbBase

\* The number that the limbs a, b, c and d stand for, a the least significant.
Number(a, b, c, d) == a + LimbBase * (b + LimbBase * (c + LimbBase * d))

\* What x is read as when the limbs are taken from the last to the first while the weight
\* of a limb grows: an amount below one limb counts LimbBase^3 times its value.
Reversed(x) == Number(Limb(x, 3), Limb(x, 2), Limb(x, 1), Limb(x, 0))

SaturatingAdd(a, b) == IF a + b < Word THEN a + b ELSE Word - 1
=============================================================================
