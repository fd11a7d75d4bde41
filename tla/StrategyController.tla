-------------------------- MODULE StrategyController --------------------------
(***************************************************************************)
(* contracts/src/StrategyController.sol for one vault: the executor        *)
(* whitelist and the allocation of each strategy.                          *)
(***************************************************************************)
EXTENDS Integers

CONSTANTS
  Strategies,         \* strategy identifiers
  AllocationChoices   \* the allocations the guardian considers

Allocations == [maxCapital : Nat, maxLossPerDay : Nat, maxDeployablePct : Nat, active : BOOLEAN]

ASSUME AllocationAssumption == AllocationChoices \subseteq Allocations

VARIABLES executorAllowed, allocations

controllerVars == <<executorAllowed, allocations>>

ControllerTypeOK ==
  /\ executorAllowed \in BOOLEAN
  /\ allocations \in [Strategies -> Allocations]

SetExecutor(allowed) ==
  /\ executorAllowed' = allowed
  /\ UNCHANGED allocations

SetAllocation(strategy, allocation) ==
  /\ allocations' = [allocations EXCEPT ![strategy] = allocation]
  /\ UNCHANGED executorAllowed

\* authorize, a view: TRUE when it does not revert.
Authorize(strategy, amount, vaultTvl) ==
  LET a == allocations[strategy]
  IN  /\ executorAllowed
      /\ a.active
      /\ a.maxCapital > 0 => amount <= a.maxCapital
      /\ a.maxDeployablePct > 0 /\ vaultTvl > 0
           => amount <= (vaultTvl * a.maxDeployablePct) \div 10000
=============================================================================
