----------------------------- MODULE RiskManager -----------------------------
(***************************************************************************)
(* contracts/src/RiskManager.sol for one vault: the policy the guardian    *)
(* sets and the check an execution must pass.  Every setter is guarded by  *)
(* GUARDIAN_ROLE, so the actions are the guardian's.                       *)
(***************************************************************************)
EXTENDS Integers

CONSTANTS
  ChainId, Chains,       \* the chain the contracts run on, and all chains
  Scopes,                \* the pausable scopes: the vault, the vault's executor
  BlacklistTargets,      \* the tokens and pools the guardian considers
  PolicyChoices,         \* the policies the guardian considers
  Losses, Days, MaxLoss  \* losses recorded, day buckets, bound on their sum

Policies == [maxLossPerTx : Nat, maxLossPerDay : Nat,
             maxTokenExposure : Nat, maxDexExposure : Nat]

ASSUME RiskAssumption ==
  /\ ChainId \in Chains
  /\ PolicyChoices \subseteq Policies
  /\ Losses \subseteq Nat /\ Days \subseteq Nat /\ MaxLoss \in Nat

VARIABLES allowedChains, pausedScopes, blacklist, policy, dailyLoss

riskVars == <<allowedChains, pausedScopes, blacklist, policy, dailyLoss>>

RiskTypeOK ==
  /\ allowedChains \subseteq Chains
  /\ pausedScopes \subseteq Scopes
  /\ blacklist \subseteq BlacklistTargets
  /\ policy \in Policies
  /\ dailyLoss \in [Scopes \X Days -> Nat]

-----------------------------------------------------------------------------
SetAllowedChain(chain, allowed) ==
  /\ allowedChains' = IF allowed THEN allowedChains \cup {chain} ELSE allowedChains \ {chain}
  /\ UNCHANGED <<pausedScopes, blacklist, policy, dailyLoss>>

SetBlacklist(target, blocked) ==
  /\ blacklist' = IF blocked THEN blacklist \cup {target} ELSE blacklist \ {target}
  /\ UNCHANGED <<allowedChains, pausedScopes, policy, dailyLoss>>

SetPolicy(p) ==
  /\ policy' = p
  /\ UNCHANGED <<allowedChains, pausedScopes, blacklist, dailyLoss>>

PauseScope(scope) ==
  /\ pausedScopes' = pausedScopes \cup {scope}
  /\ UNCHANGED <<allowedChains, blacklist, policy, dailyLoss>>

UnpauseScope(scope) ==
  /\ pausedScopes' = pausedScopes \ {scope}
  /\ UNCHANGED <<allowedChains, blacklist, policy, dailyLoss>>

\* Only the guardian may record a loss; no contract calls it.
RecordLoss(scope, loss, day) ==
  /\ dailyLoss[<<scope, day>>] + loss <= MaxLoss   \* bound
  /\ dailyLoss' = [dailyLoss EXCEPT ![<<scope, day>>] = @ + loss]
  /\ UNCHANGED <<allowedChains, pausedScopes, blacklist, policy>>

-----------------------------------------------------------------------------
(* checkExecution, a view: TRUE when it does not revert.  Of the policy it *)
(* reads only maxTokenExposure; a zero cap means no cap.                   *)

WithinCap(amount, cap) == cap > 0 => amount <= cap

CheckExecution(routeTokens, routePools, capital) ==
  /\ ChainId \in allowedChains
  /\ pausedScopes = {}
  /\ WithinCap(capital, policy.maxTokenExposure)
  /\ (routeTokens \cup routePools) \cap blacklist = {}
=============================================================================
