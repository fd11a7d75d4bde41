----------------------------- MODULE MCArbVault -----------------------------
(* A vault with one depositor, one other depositor that also serves as the  *)
(* treasury, and an executor that brings the profit.                         *)
EXTENDS ArbVault
CONSTANTS alice, treasury

MCAccounts == {alice, treasury}
MCInitialAsset == [a \in MCAccounts \cup {Vault, Executor} |->
                     IF a = alice THEN 3 ELSE IF a = Executor THEN 1 ELSE 0]
MCAmounts == 0..3
=============================================================================
