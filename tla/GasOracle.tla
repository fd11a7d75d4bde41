------------------------------ MODULE GasOracle ------------------------------
(***************************************************************************)
(* The fees of a transaction: crates/execution-router/src/gas_oracle.rs.   *)
(* Fractions are in hundredths, so that 110 stands for 1.10.               *)
(***************************************************************************)
EXTENDS Limbs

Larger(a, b) == IF a >= b THEN a ELSE b

\* to_f64: the sum of the limbs, from the most significant to the least, by growing powers.
ToF64(x) == Reversed(x)

\* Mutant: the shift drops one limb more.
FromF64Narrow(x) == x % (Word \div LimbBase)

\* from_f64: the integer part; shl drops the bits that do not fit.
FromF64(x) == x % Word

Scale(x, pct) == IF pct <= 0 THEN 0 ELSE FromF64((ToF64(x) * pct) \div 100)

Estimate(baseFee, tipPct, headroomPct) ==
  LET tip == Scale(baseFee, Larger(tipPct, 0))
      basePlusTip == SaturatingAdd(baseFee, tip)
  IN  [baseFee |-> baseFee, tip |-> tip,
       maxFee |-> Larger(Scale(basePlusTip, 100 + headroomPct), basePlusTip)]
=============================================================================
