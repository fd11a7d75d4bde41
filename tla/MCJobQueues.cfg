SPECIFICATION MCSpec
CONSTANTS
  o1 = o1
  s1 = s1
  s2 = s2
  r1 = r1
  Opportunities = {o1}
  Simulations = {s1, s2}
  Backtests = {r1}
  Subject <- MCSubject
INVARIANTS TypeOK OnlyFailuresStrand CompletedIsDone
PROPERTIES RunIsTold
CHECK_DEADLOCK FALSE
