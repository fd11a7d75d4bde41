----------------------------- MODULE MCJobQueues -----------------------------
(* An opportunity with two simulations, or a backtest, each job delivered up *)
(* to twice.                                                                 *)
EXTENDS JobQueues
CONSTANTS o1, s1, s2, r1

MCSubject == [s \in Simulations |-> o1]

\* Simulations and backtests share no row and no job: either have their jobs, not both.
OneQueue ==
  \/ \A r \in Backtests : job[r] = "none"
  \/ \A s \in Simulations : job[s] = "none" /\ status[Subject[s]] = "absent"

MCSpec == Init /\ [][Next /\ OneQueue']_vars /\ Fairness
=============================================================================
