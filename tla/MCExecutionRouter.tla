-------------------------- MODULE MCExecutionRouter --------------------------
(* Two transactions, two relays, limbs of three values with base fees        *)
(* below and beyond one limb, a policy with too little headroom to cover the *)
(* tip by itself, and a clock that reads less or more than the time to live  *)
(* apart, in either direction.                                               *)
EXTENDS ExecutionRouter, TLC
CONSTANTS t1, t2
MCTxs == {t1, t2}
MCBaseFees == {1, 2, 3}
MCHeadroomPct == -50
MCClocks == {0, 2}
Symmetry == Permutations(MCTxs)
=============================================================================
