--------------------------- MODULE JobQueuesProofs ---------------------------
(***************************************************************************)
(* The queue's safety properties, for any opportunities and backtests:     *)
(* what a second delivery beside the first one can do to a row.            *)
(***************************************************************************)
EXTENDS JobQueues, TLAPS

\* A delivery is made once, the second after the first: it is idle until its turn comes, and
\* from then on no step makes it idle again.
DeliveredInTurn ==
  \A i \in Jobs, k \in Deliveries :
    /\ job[i] = "none" => stalls[i] = 0
    /\ run[i][k] = "idle" <=> \/ k > stalls[i] + 1
                              \/ k = stalls[i] + 1 /\ job[i] \in {"none", "waiting"}

\* Each delivery enqueues at most one execution, at its end.
OneExecutionEach ==
  \A s \in Simulations :
    executions[s] <= (IF run[s][1] = "ended" THEN 1 ELSE 0) + (IF run[s][2] = "ended" THEN 1 ELSE 0)

\* What CompletedIsDone leaves open: a delivery that goes on after its job has completed has
\* its first write behind it, if the run is not done.
UndoneGoesOn ==
  \A r \in Backtests :
    job[r] = "completed" /\ ~Lost(r) /\ (\A k \in Deliveries : run[r][k] # "written")
    => status[r] = "done"

QueueInv == TypeOK /\ DeliveredInTurn /\ OneExecutionEach /\ UndoneGoesOn /\ OnlyFailuresStrand

RunStates == {"idle", "started", "written", "ended", "dead", "lost"}

(* What a move of one delivery leaves of the others.                       *)
LEMMA MoveFacts ==
  ASSUME TypeOK, NEW i \in Jobs, NEW k \in Deliveries, NEW to \in RunStates, Moves(i, k, to)
  PROVE  /\ run' \in [Jobs -> [Deliveries -> RunStates]]
         /\ \A j \in Jobs, n \in Deliveries :
              run'[j][n] = IF j = i /\ n = k THEN to ELSE run[j][n]
<1>1. run \in [Jobs -> [Deliveries -> RunStates]]
  BY DEF TypeOK, RunStates
<1>2. run' = [run EXCEPT ![i][k] = to]
  BY DEF Moves
<1> QED
  BY <1>1, <1>2

(* The deliveries and jobs that a step of one delivery can leave behind.   *)
LEMMA CompletesFacts ==
  ASSUME TypeOK, NEW i \in Jobs, NEW k \in Deliveries, Completes(i, k)
  PROVE  /\ run' \in [Jobs -> [Deliveries -> RunStates]]
         /\ \A j \in Jobs, n \in Deliveries :
              run'[j][n] = IF j = i /\ n = k THEN "ended" ELSE run[j][n]
         /\ job' \in [Jobs -> {"none", "waiting", "active", "completed", "failed"}]
         /\ \A j \in Jobs : job'[j] = IF j = i /\ Holder(i, k) THEN "completed" ELSE job[j]
<1>1. Moves(i, k, "ended") /\ "ended" \in RunStates
  BY DEF Completes, RunStates
<1>2. job' = IF Holder(i, k) THEN [job EXCEPT ![i] = "completed"] ELSE job
  BY DEF Completes
<1> QED
  BY <1>1, <1>2, MoveFacts DEF TypeOK

LEMMA DiesFacts ==
  ASSUME TypeOK, NEW i \in Jobs, NEW k \in Deliveries, Dies(i, k)
  PROVE  /\ run' \in [Jobs -> [Deliveries -> RunStates]]
         /\ \A j \in Jobs, n \in Deliveries :
              run'[j][n] = IF j = i /\ n = k THEN IF Holder(i, k) THEN "dead" ELSE "lost"
                           ELSE run[j][n]
<1> DEFINE to == IF Holder(i, k) THEN "dead" ELSE "lost"
<1>1. Moves(i, k, to) /\ to \in RunStates
  BY DEF Dies, RunStates
<1> HIDE DEF to
<1>2. /\ run' \in [Jobs -> [Deliveries -> RunStates]]
      /\ \A j \in Jobs, n \in Deliveries :
           run'[j][n] = IF j = i /\ n = k THEN to ELSE run[j][n]
  BY <1>1, MoveFacts
<1> QED
  BY <1>2 DEF to

(* A step that enqueues no execution, and of no delivery that has ended,   *)
(* keeps OneExecutionEach.                                                 *)
LEMMA NoneEnqueued ==
  ASSUME TypeOK, OneExecutionEach, executions' = executions,
         \A i \in Jobs, n \in Deliveries : run[i][n] = "ended" => run'[i][n] = "ended"
  PROVE  OneExecutionEach'
<1> SUFFICES ASSUME NEW s \in Simulations
             PROVE  executions[s] <= (IF run'[s][1] = "ended" THEN 1 ELSE 0)
                                     + (IF run'[s][2] = "ended" THEN 1 ELSE 0)
  BY DEF OneExecutionEach
<1>1. executions[s] <= (IF run[s][1] = "ended" THEN 1 ELSE 0) + (IF run[s][2] = "ended" THEN 1 ELSE 0)
  BY DEF OneExecutionEach
<1>2. /\ run[s][1] = "ended" => run'[s][1] = "ended"
      /\ run[s][2] = "ended" => run'[s][2] = "ended"
  BY DEF Jobs, Deliveries
<1>3. executions[s] \in Nat
  BY DEF TypeOK
<1> QED
  BY <1>1, <1>2, <1>3

(* What a step must do to keep OnlyFailuresStrand: an opportunity that it  *)
(* marks simulated has a simulation in hand, and a simulation that it is   *)
(* done with leaves its opportunity unmarked, or dropped.                  *)
LEMMA NoneStranded ==
  ASSUME OnlyFailuresStrand, dropped \subseteq dropped',
         \A o \in Opportunities : status'[o] = "simulated" =>
           status[o] = "simulated" \/ \E s \in Simulations : Subject[s] = o /\ TakenFurther(s)',
         \A s \in Simulations :
           /\ Subject[s] \in Opportunities
           /\ TakenFurther(s) => \/ TakenFurther(s)'
                                \/ status'[Subject[s]] # "simulated"
                                \/ Subject[s] \in dropped'
  PROVE  OnlyFailuresStrand'
<1> SUFFICES ASSUME NEW o \in Opportunities, status'[o] = "simulated"
             PROVE  o \in dropped' \/ \E s \in Simulations : Subject[s] = o /\ TakenFurther(s)'
  BY DEF OnlyFailuresStrand
<1>1. CASE status[o] = "simulated"
  BY <1>1 DEF OnlyFailuresStrand
<1>2. CASE status[o] # "simulated"
  BY <1>2
<1> QED
  BY <1>1, <1>2

(* One lemma per action: it keeps the invariant.                           *)
LEMMA DiscoverKeeps ==
  ASSUME QueueInv, NEW s \in Simulations, Discover(s)
  PROVE  QueueInv'
<1>1. TypeOK'
  BY SMT DEF QueueInv, TypeOK, Discover, Jobs, Rows, queue, stream
<1>2. DeliveredInTurn'
  BY SMT DEF QueueInv, TypeOK, DeliveredInTurn, Discover, Jobs, Rows, queue, stream
<1>3. OneExecutionEach'
  BY SMT DEF QueueInv, TypeOK, OneExecutionEach, Discover, Jobs, Rows, queue, stream
<1>4. UndoneGoesOn'
  BY JobAssumption, SMT DEF QueueInv, TypeOK, UndoneGoesOn, Lost, Discover, Jobs, Rows, queue, stream
<1>5. OnlyFailuresStrand'
  BY SMT DEF QueueInv, TypeOK, OnlyFailuresStrand, TakenFurther, Lost, Discover, Jobs, Rows, queue, stream
<1> QED
  BY <1>1, <1>2, <1>3, <1>4, <1>5 DEF QueueInv

LEMMA ExecuteKeeps ==
  ASSUME QueueInv, NEW s \in Simulations, Execute(s)
  PROVE  QueueInv'
<1>1. /\ executions' \in [Simulations -> 0..2]
      /\ \A p \in Simulations : executions'[p] <= executions[p]
  <2>1. executions \in [Simulations -> 0..2]
    BY DEF QueueInv, TypeOK
  <2>2. executions[s] > 0 /\ executions' = [executions EXCEPT ![s] = executions[s] - 1]
    BY DEF Execute
  <2>3. executions[s] - 1 \in 0..2 /\ executions[s] - 1 <= executions[s]
    BY <2>1, <2>2
  <2>4. \A p \in Simulations : executions[p] \in 0..2
    BY <2>1
  <2> QED
    BY <2>1, <2>2, <2>3, <2>4
<1>2. TypeOK'
  BY <1>1, JobAssumption, SMT DEF QueueInv, TypeOK, Execute, Jobs, Rows, queue, stream
<1>3. DeliveredInTurn'
  BY <1>1, SMTT(30) DEF QueueInv, TypeOK, DeliveredInTurn, Execute, Jobs, Rows, queue, stream
<1>4. OneExecutionEach'
  BY <1>1, SMT DEF QueueInv, TypeOK, OneExecutionEach, Execute, Jobs, Rows, queue, stream
<1>5. UndoneGoesOn'
  BY <1>1, JobAssumption, SMT DEF QueueInv, TypeOK, UndoneGoesOn, Lost, Execute, Jobs, Rows, queue, stream
<1>6. OnlyFailuresStrand'
  BY <1>1, SMT DEF QueueInv, TypeOK, OnlyFailuresStrand, TakenFurther, Lost, Execute, Jobs, Rows, queue, stream
<1> QED
  BY <1>2, <1>3, <1>4, <1>5, <1>6 DEF QueueInv

LEMMA ExecuteAndCrashKeeps ==
  ASSUME QueueInv, NEW s \in Simulations, ExecuteAndCrash(s)
  PROVE  QueueInv'
<1>1. TypeOK'
  BY JobAssumption, SMT DEF QueueInv, TypeOK, ExecuteAndCrash, Jobs, Rows, queue, stream
<1>2. DeliveredInTurn'
  BY SMT DEF QueueInv, TypeOK, DeliveredInTurn, ExecuteAndCrash, Jobs, Rows, queue, stream
<1>3. OneExecutionEach'
  BY SMT DEF QueueInv, TypeOK, OneExecutionEach, ExecuteAndCrash, Jobs, Rows, queue, stream
<1>4. UndoneGoesOn'
  BY JobAssumption, SMT DEF QueueInv, TypeOK, UndoneGoesOn, Lost, ExecuteAndCrash, Jobs, Rows, queue, stream
<1>5. OnlyFailuresStrand'
  BY SMT DEF QueueInv, TypeOK, OnlyFailuresStrand, TakenFurther, Lost, ExecuteAndCrash, Jobs, Rows, queue, stream
<1> QED
  BY <1>1, <1>2, <1>3, <1>4, <1>5 DEF QueueInv

LEMMA ExecutionFailsKeeps ==
  ASSUME QueueInv, NEW s \in Simulations, ExecutionFails(s)
  PROVE  QueueInv'
<1>1. /\ executions' \in [Simulations -> 0..2]
      /\ \A p \in Simulations : executions'[p] <= executions[p]
  <2>1. executions \in [Simulations -> 0..2]
    BY DEF QueueInv, TypeOK
  <2>2. executions[s] > 0 /\ executions' = [executions EXCEPT ![s] = executions[s] - 1]
    BY DEF ExecutionFails
  <2>3. executions[s] - 1 \in 0..2 /\ executions[s] - 1 <= executions[s]
    BY <2>1, <2>2
  <2>4. \A p \in Simulations : executions[p] \in 0..2
    BY <2>1
  <2> QED
    BY <2>1, <2>2, <2>3, <2>4
<1>2. TypeOK'
  BY <1>1, JobAssumption, SMT DEF QueueInv, TypeOK, ExecutionFails, Jobs, Rows, queue, stream
<1>3. DeliveredInTurn'
  BY <1>1, SMTT(30) DEF QueueInv, TypeOK, DeliveredInTurn, ExecutionFails, Jobs, Rows, queue, stream
<1>4. OneExecutionEach'
  BY <1>1, SMT DEF QueueInv, TypeOK, OneExecutionEach, ExecutionFails, Jobs, Rows, queue, stream
<1>5. UndoneGoesOn'
  BY <1>1, JobAssumption, SMT DEF QueueInv, TypeOK, UndoneGoesOn, Lost, ExecutionFails, Jobs, Rows, queue, stream
<1>6. OnlyFailuresStrand'
  BY <1>1, SMT DEF QueueInv, TypeOK, OnlyFailuresStrand, TakenFurther, Lost, ExecutionFails, Jobs, Rows, queue, stream
<1> QED
  BY <1>2, <1>3, <1>4, <1>5, <1>6 DEF QueueInv

LEMMA EnqueueBacktestKeeps ==
  ASSUME QueueInv, NEW r \in Backtests, EnqueueBacktest(r)
  PROVE  QueueInv'
<1>1. TypeOK'
  BY SMT DEF QueueInv, TypeOK, EnqueueBacktest, Jobs, Rows, queue, stream
<1>2. DeliveredInTurn'
  BY SMT DEF QueueInv, TypeOK, DeliveredInTurn, EnqueueBacktest, Jobs, Rows, queue, stream
<1>3. OneExecutionEach'
  BY SMT DEF QueueInv, TypeOK, OneExecutionEach, EnqueueBacktest, Jobs, Rows, queue, stream
<1>4. UndoneGoesOn'
  BY SMT DEF QueueInv, TypeOK, UndoneGoesOn, Lost, EnqueueBacktest, Jobs, Rows, queue, stream
<1>5. OnlyFailuresStrand'
  BY SMT DEF QueueInv, TypeOK, OnlyFailuresStrand, TakenFurther, Lost, EnqueueBacktest, Jobs, Rows, queue, stream
<1> QED
  BY <1>1, <1>2, <1>3, <1>4, <1>5 DEF QueueInv

LEMMA PollKeeps ==
  ASSUME QueueInv, NEW r \in Backtests, Poll(r)
  PROVE  QueueInv'
<1>1. TypeOK'
  BY SMT DEF QueueInv, TypeOK, Poll, Jobs, Rows, queue, stream
<1>2. DeliveredInTurn'
  BY SMT DEF QueueInv, TypeOK, DeliveredInTurn, Poll, Jobs, Rows, queue, stream
<1>3. OneExecutionEach'
  BY SMT DEF QueueInv, TypeOK, OneExecutionEach, Poll, Jobs, Rows, queue, stream
<1>4. UndoneGoesOn'
  BY SMT DEF QueueInv, TypeOK, UndoneGoesOn, Lost, Poll, Jobs, Rows, queue, stream
<1>5. OnlyFailuresStrand'
  BY SMT DEF QueueInv, TypeOK, OnlyFailuresStrand, TakenFurther, Lost, Poll, Jobs, Rows, queue, stream
<1> QED
  BY <1>1, <1>2, <1>3, <1>4, <1>5 DEF QueueInv

LEMMA FeedFailsKeeps ==
  ASSUME QueueInv, NEW r \in Backtests, FeedFails(r)
  PROVE  QueueInv'
<1>1. TypeOK'
  BY SMT DEF QueueInv, TypeOK, FeedFails, Jobs, Rows, queue, stream
<1>2. DeliveredInTurn'
  BY SMT DEF QueueInv, TypeOK, DeliveredInTurn, FeedFails, Jobs, Rows, queue, stream
<1>3. OneExecutionEach'
  BY SMT DEF QueueInv, TypeOK, OneExecutionEach, FeedFails, Jobs, Rows, queue, stream
<1>4. UndoneGoesOn'
  BY SMT DEF QueueInv, TypeOK, UndoneGoesOn, Lost, FeedFails, Jobs, Rows, queue, stream
<1>5. OnlyFailuresStrand'
  BY SMT DEF QueueInv, TypeOK, OnlyFailuresStrand, TakenFurther, Lost, FeedFails, Jobs, Rows, queue, stream
<1> QED
  BY <1>1, <1>2, <1>3, <1>4, <1>5 DEF QueueInv

LEMMA DeliverKeeps ==
  ASSUME QueueInv, NEW i \in Jobs, Deliver(i)
  PROVE  QueueInv'
<1>1. /\ run' \in [Jobs -> [Deliveries -> RunStates]]
      /\ \A j \in Jobs, n \in Deliveries :
           run'[j][n] = IF j = i /\ n = stalls[i] + 1 THEN "started" ELSE run[j][n]
  <2>1. stalls[i] + 1 \in Deliveries
    BY DEF QueueInv, TypeOK, DeliveredInTurn, Deliveries
  <2> QED
    BY <2>1, MoveFacts DEF QueueInv, Deliver, RunStates
<1>2. TypeOK'
  BY <1>1, SMT DEF QueueInv, TypeOK, Deliver, Jobs, Rows, RunStates, Deliveries, Holder, queue, stream
<1>3. DeliveredInTurn'
  BY <1>1, SMTT(30) DEF QueueInv, TypeOK, DeliveredInTurn, Deliver, Jobs, Rows, RunStates, Deliveries, Holder, queue, stream
<1>4. OneExecutionEach'
  BY <1>1, SMTT(30) DEF QueueInv, TypeOK, DeliveredInTurn, OneExecutionEach, Deliver, Jobs, Rows, RunStates, Deliveries, Holder, queue, stream
<1>5. UndoneGoesOn'
  BY <1>1, SMTT(30) DEF QueueInv, TypeOK, DeliveredInTurn, UndoneGoesOn, Lost, Deliver, Jobs, Rows, RunStates, Deliveries, Holder, queue, stream
<1>6. OnlyFailuresStrand'
  BY <1>1, SMTT(30) DEF QueueInv, TypeOK, DeliveredInTurn, OnlyFailuresStrand, TakenFurther, Lost, Deliver, Jobs, Rows, RunStates, Deliveries, Holder, queue, stream
<1> QED
  BY <1>2, <1>3, <1>4, <1>5, <1>6 DEF QueueInv

LEMMA StallKeeps ==
  ASSUME QueueInv, NEW i \in Jobs, Stall(i)
  PROVE  QueueInv'
<1>1. /\ job' \in [Jobs -> {"none", "waiting", "active", "completed", "failed"}]
      /\ stalls' \in [Jobs -> 0..1]
      /\ \A j \in Jobs \ {i} : job'[j] = job[j] /\ stalls'[j] = stalls[j]
      /\ \/ stalls[i] = 0 /\ stalls'[i] = 1 /\ job'[i] = "waiting"
         \/ stalls[i] = 1 /\ stalls'[i] = 1 /\ job'[i] = "failed"
  <2>1. CASE stalls[i] = 0
    <3>1. job' = [job EXCEPT ![i] = "waiting"] /\ stalls' = [stalls EXCEPT ![i] = 1]
      BY <2>1 DEF Stall
    <3> QED
      BY <2>1, <3>1 DEF QueueInv, TypeOK
  <2>2. CASE stalls[i] # 0
    <3>1. job' = [job EXCEPT ![i] = "failed"] /\ stalls' = stalls
      BY <2>2 DEF Stall
    <3> QED
      BY <2>2, <3>1 DEF QueueInv, TypeOK
  <2> QED
    BY <2>1, <2>2
<1>2. UNCHANGED <<run, status, executions, dropped, feed>> /\ job[i] = "active"
  BY DEF Stall, stream
<1>3. TypeOK'
  BY <1>2, <1>1, SMT DEF QueueInv, TypeOK, Jobs
<1>4. DeliveredInTurn'
  BY <1>2, <1>1, SMTT(30) DEF QueueInv, TypeOK, DeliveredInTurn, Deliveries
<1>5. OneExecutionEach'
  BY <1>2, <1>1, SMT DEF QueueInv, TypeOK, OneExecutionEach, Stall, Jobs, Rows, queue, stream
<1>6. UndoneGoesOn'
  BY <1>2, <1>1, SMT DEF QueueInv, TypeOK, UndoneGoesOn, Lost, Stall, Jobs, Rows, queue, stream
<1>7. OnlyFailuresStrand'
  BY <1>2, <1>1, SMT DEF QueueInv, TypeOK, OnlyFailuresStrand, TakenFurther, Lost, Stall, Jobs, Rows, queue, stream
<1> QED
  BY <1>3, <1>4, <1>5, <1>6, <1>7 DEF QueueInv

LEMMA FindNothingKeeps ==
  ASSUME QueueInv, NEW s \in Simulations, NEW k \in Deliveries, FindNothing(s, k)
  PROVE  QueueInv'
<1>1. /\ run' \in [Jobs -> [Deliveries -> RunStates]]
      /\ \A j \in Jobs, n \in Deliveries :
           run'[j][n] = IF j = s /\ n = k THEN "ended" ELSE run[j][n]
      /\ job' \in [Jobs -> {"none", "waiting", "active", "completed", "failed"}]
      /\ \A j \in Jobs : job'[j] = IF j = s /\ Holder(s, k) THEN "completed" ELSE job[j]
  BY CompletesFacts DEF QueueInv, FindNothing, Jobs
<1>2. TypeOK'
  BY <1>1, SMT DEF QueueInv, TypeOK, FindNothing, Jobs, Rows, RunStates, Deliveries, Holder, queue, stream
<1>3. DeliveredInTurn'
  BY <1>1, SMTT(30) DEF QueueInv, TypeOK, DeliveredInTurn, FindNothing, Jobs, Rows, RunStates, Deliveries, Holder, queue, stream
<1>4. OneExecutionEach'
  <2>1. executions' = executions
    BY DEF FindNothing
  <2>2. \A j \in Jobs, n \in Deliveries : run[j][n] = "ended" => run'[j][n] = "ended"
    BY <1>1
  <2> QED
    BY <2>1, <2>2, NoneEnqueued DEF QueueInv
<1>5. UndoneGoesOn'
  BY <1>1, JobAssumption, SMTT(30) DEF QueueInv, TypeOK, DeliveredInTurn, UndoneGoesOn, Lost, FindNothing, Jobs, Rows, RunStates, Deliveries, Holder, queue, stream
<1>6. OnlyFailuresStrand'
  BY <1>1, SMTT(30) DEF QueueInv, TypeOK, DeliveredInTurn, OnlyFailuresStrand, TakenFurther, Lost, FindNothing, Jobs, Rows, RunStates, Deliveries, Holder, queue, stream
<1> QED
  BY <1>2, <1>3, <1>4, <1>5, <1>6 DEF QueueInv

LEMMA SimulateFirstKeeps ==
  ASSUME QueueInv, NEW s \in Simulations, NEW k \in Deliveries, SimulateFirst(s, k)
  PROVE  QueueInv'
<1>1. /\ run' \in [Jobs -> [Deliveries -> RunStates]]
      /\ \A j \in Jobs, n \in Deliveries :
           run'[j][n] = IF j = s /\ n = k THEN "written" ELSE run[j][n]
  <2>1. s \in Jobs /\ "written" \in RunStates /\ Moves(s, k, "written")
    BY DEF SimulateFirst, RunStates, Jobs
  <2> QED
    BY <2>1, MoveFacts DEF QueueInv
<1>2. TypeOK'
  BY <1>1, JobAssumption, SMT DEF QueueInv, TypeOK, SimulateFirst, Jobs, Rows, RunStates, Deliveries, Holder, queue, stream
<1>3. DeliveredInTurn'
  BY <1>1, SMTT(30) DEF QueueInv, TypeOK, DeliveredInTurn, SimulateFirst, Jobs, Rows, RunStates, Deliveries, Holder, queue, stream
<1>4. OneExecutionEach'
  <2>1. executions' = executions
    BY DEF SimulateFirst
  <2>2. \A j \in Jobs, n \in Deliveries : run[j][n] = "ended" => run'[j][n] = "ended"
    BY <1>1 DEF SimulateFirst
  <2> QED
    BY <2>1, <2>2, NoneEnqueued DEF QueueInv
<1>5. UndoneGoesOn'
  BY <1>1, JobAssumption, SMTT(30) DEF QueueInv, TypeOK, DeliveredInTurn, UndoneGoesOn, Lost, SimulateFirst, Jobs, Rows, RunStates, Deliveries, Holder, queue, stream
<1>6. OnlyFailuresStrand'
  BY <1>1, SMTT(30) DEF QueueInv, TypeOK, DeliveredInTurn, OnlyFailuresStrand, TakenFurther, Lost, SimulateFirst, Jobs, Rows, RunStates, Deliveries, Holder, queue, stream
<1> QED
  BY <1>2, <1>3, <1>4, <1>5, <1>6 DEF QueueInv

LEMMA SimulateThenKeeps ==
  ASSUME QueueInv, NEW s \in Simulations, NEW k \in Deliveries, SimulateThen(s, k)
  PROVE  QueueInv'
<1>1. /\ run' \in [Jobs -> [Deliveries -> RunStates]]
      /\ \A j \in Jobs, n \in Deliveries :
           run'[j][n] = IF j = s /\ n = k THEN "ended" ELSE run[j][n]
      /\ job' \in [Jobs -> {"none", "waiting", "active", "completed", "failed"}]
      /\ \A j \in Jobs : job'[j] = IF j = s /\ Holder(s, k) THEN "completed" ELSE job[j]
  BY CompletesFacts DEF QueueInv, SimulateThen, Jobs
<1>2. executions[s] <= 1 /\ executions[s] \in Nat
  <2>1. run[s][1] # "ended" \/ run[s][2] # "ended"
    BY DEF SimulateThen, Deliveries
  <2> QED
    BY <2>1 DEF QueueInv, TypeOK, OneExecutionEach
<1>3. /\ executions' \in [Simulations -> 0..2]
      /\ \A p \in Simulations : executions'[p] = IF p = s THEN executions[s] + 1 ELSE executions[p]
      /\ UNCHANGED <<stalls, status, dropped, feed>> /\ run[s][k] = "written"
  BY <1>2 DEF QueueInv, TypeOK, SimulateThen, stream
<1>4. TypeOK'
  BY <1>1, <1>3, SMT DEF QueueInv, TypeOK
<1>5. DeliveredInTurn'
  BY <1>1, <1>3, SMTT(30) DEF QueueInv, TypeOK, DeliveredInTurn, Deliveries, Holder
<1>6. OneExecutionEach'
  <2> SUFFICES ASSUME NEW p \in Simulations
               PROVE  executions'[p] <= (IF run'[p][1] = "ended" THEN 1 ELSE 0)
                                        + (IF run'[p][2] = "ended" THEN 1 ELSE 0)
    BY DEF OneExecutionEach
  <2>1. executions[p] <= (IF run[p][1] = "ended" THEN 1 ELSE 0) + (IF run[p][2] = "ended" THEN 1 ELSE 0)
    BY DEF QueueInv, OneExecutionEach
  <2>2. \A n \in Deliveries : run'[p][n] = IF p = s /\ n = k THEN "ended" ELSE run[p][n]
    BY <1>1 DEF Jobs
  <2>3. executions[p] \in Nat /\ executions'[p] = IF p = s THEN executions[p] + 1 ELSE executions[p]
    BY <1>3 DEF QueueInv, TypeOK
  <2> QED
    BY <2>1, <2>2, <2>3, <1>3 DEF Deliveries
<1>7. UndoneGoesOn'
  BY <1>1, <1>3, JobAssumption, SMTT(30) DEF QueueInv, TypeOK, DeliveredInTurn, UndoneGoesOn, Lost, SimulateThen, Jobs, Rows, RunStates, Deliveries, Holder, queue, stream
<1>8. OnlyFailuresStrand'
  <2>1. ASSUME NEW p \in Simulations, TakenFurther(p)
        PROVE  TakenFurther(p)'
    <3>1. CASE p = s
      BY <1>2, <1>3, <3>1 DEF TakenFurther
    <3>2. CASE p # s
      <4>1. /\ job'[p] = job[p] /\ executions'[p] = executions[p]
            /\ \A n \in Deliveries : run'[p][n] = run[p][n]
        BY <1>1, <1>3, <3>2 DEF Jobs
      <4> QED
        BY <2>1, <4>1 DEF TakenFurther, Lost
    <3> QED
      BY <3>1, <3>2
  <2> QED
    BY <1>3, <2>1, JobAssumption, NoneStranded DEF QueueInv
<1> QED
  BY <1>4, <1>5, <1>6, <1>7, <1>8 DEF QueueInv

LEMMA BacktestFirstKeeps ==
  ASSUME QueueInv, NEW r \in Backtests, NEW k \in Deliveries, BacktestFirst(r, k)
  PROVE  QueueInv'
<1>1. /\ run' \in [Jobs -> [Deliveries -> RunStates]]
      /\ \A j \in Jobs, n \in Deliveries :
           run'[j][n] = IF j = r /\ n = k THEN "written" ELSE run[j][n]
  <2>1. r \in Jobs /\ "written" \in RunStates /\ Moves(r, k, "written")
    BY DEF BacktestFirst, RunStates, Jobs
  <2> QED
    BY <2>1, MoveFacts DEF QueueInv
<1>2. TypeOK'
  BY <1>1, SMT DEF QueueInv, TypeOK, BacktestFirst, Jobs, Rows, RunStates, Deliveries, Holder, queue, stream
<1>3. DeliveredInTurn'
  BY <1>1, SMTT(30) DEF QueueInv, TypeOK, DeliveredInTurn, BacktestFirst, Jobs, Rows, RunStates, Deliveries, Holder, queue, stream
<1>4. OneExecutionEach'
  <2>1. executions' = executions
    BY DEF BacktestFirst
  <2>2. \A j \in Jobs, n \in Deliveries : run[j][n] = "ended" => run'[j][n] = "ended"
    BY <1>1 DEF BacktestFirst
  <2> QED
    BY <2>1, <2>2, NoneEnqueued DEF QueueInv
<1>5. UndoneGoesOn'
  BY <1>1, SMTT(30) DEF QueueInv, TypeOK, DeliveredInTurn, UndoneGoesOn, Lost, BacktestFirst, Jobs, Rows, RunStates, Deliveries, Holder, queue, stream
<1>6. OnlyFailuresStrand'
  BY <1>1, SMTT(30) DEF QueueInv, TypeOK, DeliveredInTurn, OnlyFailuresStrand, TakenFurther, Lost, BacktestFirst, Jobs, Rows, RunStates, Deliveries, Holder, queue, stream
<1> QED
  BY <1>2, <1>3, <1>4, <1>5, <1>6 DEF QueueInv

LEMMA BacktestThenKeeps ==
  ASSUME QueueInv, NEW r \in Backtests, NEW k \in Deliveries, BacktestThen(r, k)
  PROVE  QueueInv'
<1>1. /\ run' \in [Jobs -> [Deliveries -> RunStates]]
      /\ \A j \in Jobs, n \in Deliveries :
           run'[j][n] = IF j = r /\ n = k THEN "ended" ELSE run[j][n]
      /\ job' \in [Jobs -> {"none", "waiting", "active", "completed", "failed"}]
      /\ \A j \in Jobs : job'[j] = IF j = r /\ Holder(r, k) THEN "completed" ELSE job[j]
  BY CompletesFacts DEF QueueInv, BacktestThen, Jobs
<1>2. TypeOK'
  BY <1>1, SMT DEF QueueInv, TypeOK, BacktestThen, Jobs, Rows, RunStates, Deliveries, Holder, queue, stream
<1>3. DeliveredInTurn'
  BY <1>1, SMTT(30) DEF QueueInv, TypeOK, DeliveredInTurn, BacktestThen, Jobs, Rows, RunStates, Deliveries, Holder, queue, stream
<1>4. OneExecutionEach'
  <2>1. executions' = executions
    BY DEF BacktestThen
  <2>2. \A j \in Jobs, n \in Deliveries : run[j][n] = "ended" => run'[j][n] = "ended"
    BY <1>1
  <2> QED
    BY <2>1, <2>2, NoneEnqueued DEF QueueInv
<1>5. UndoneGoesOn'
  BY <1>1, SMTT(30) DEF QueueInv, TypeOK, DeliveredInTurn, UndoneGoesOn, Lost, BacktestThen, Jobs, Rows, RunStates, Deliveries, Holder, queue, stream
<1>6. OnlyFailuresStrand'
  <2>1. ASSUME NEW p \in Simulations
        PROVE  TakenFurther(p) <=> TakenFurther(p)'
    <3>1. /\ job'[p] = job[p] /\ executions'[p] = executions[p]
          /\ \A n \in Deliveries : run'[p][n] = run[p][n]
      BY <1>1, JobAssumption DEF BacktestThen, Jobs
    <3> QED
      BY <3>1 DEF TakenFurther, Lost
  <2>2. \A o \in Opportunities : status'[o] = status[o]
    BY JobAssumption DEF BacktestThen, QueueInv, TypeOK, Rows
  <2>3. dropped' = dropped
    BY DEF BacktestThen
  <2> QED
    BY <2>1, <2>2, <2>3, JobAssumption, NoneStranded DEF QueueInv
<1> QED
  BY <1>2, <1>3, <1>4, <1>5, <1>6 DEF QueueInv

LEMMA CrashKeeps ==
  ASSUME QueueInv, NEW i \in Jobs, NEW k \in Deliveries, Crash(i, k)
  PROVE  QueueInv'
<1>1. /\ run' \in [Jobs -> [Deliveries -> RunStates]]
      /\ \A j \in Jobs, n \in Deliveries :
           run'[j][n] = IF j = i /\ n = k THEN IF Holder(i, k) THEN "dead" ELSE "lost"
                        ELSE run[j][n]
  BY DiesFacts DEF QueueInv, Crash, Jobs
<1>2. TypeOK'
  BY <1>1, SMT DEF QueueInv, TypeOK, Crash, Jobs, Rows, RunStates, Deliveries, Holder, queue, stream
<1>3. DeliveredInTurn'
  BY <1>1, SMTT(30) DEF QueueInv, TypeOK, DeliveredInTurn, Crash, Jobs, Rows, RunStates, Deliveries, Holder, queue, stream
<1>4. OneExecutionEach'
  <2>1. executions' = executions
    BY DEF Crash
  <2>2. \A j \in Jobs, n \in Deliveries : run[j][n] = "ended" => run'[j][n] = "ended"
    BY <1>1 DEF Crash
  <2> QED
    BY <2>1, <2>2, NoneEnqueued DEF QueueInv
<1>5. UndoneGoesOn'
  BY <1>1, SMTT(30) DEF QueueInv, TypeOK, DeliveredInTurn, UndoneGoesOn, Lost, Crash, Jobs, Rows, RunStates, Deliveries, Holder, queue, stream
<1>6. OnlyFailuresStrand'
  BY <1>1, SMTT(30) DEF QueueInv, TypeOK, DeliveredInTurn, OnlyFailuresStrand, TakenFurther, Lost, Crash, Jobs, Rows, RunStates, Deliveries, Holder, queue, stream
<1> QED
  BY <1>2, <1>3, <1>4, <1>5, <1>6 DEF QueueInv

LEMMA ThrowKeeps ==
  ASSUME QueueInv, NEW i \in Jobs, NEW k \in Deliveries, Throw(i, k)
  PROVE  QueueInv'
<1>1. /\ run' \in [Jobs -> [Deliveries -> RunStates]]
      /\ \A j \in Jobs, n \in Deliveries :
           run'[j][n] = IF j = i /\ n = k THEN IF Holder(i, k) THEN "dead" ELSE "lost"
                        ELSE run[j][n]
  BY DiesFacts DEF QueueInv, Throw, Jobs
<1>2. TypeOK'
  BY <1>1, SMT DEF QueueInv, TypeOK, Throw, Jobs, Rows, RunStates, Deliveries, Holder, queue, stream
<1>3. DeliveredInTurn'
  BY <1>1, SMTT(30) DEF QueueInv, TypeOK, DeliveredInTurn, Throw, Jobs, Rows, RunStates, Deliveries, Holder, queue, stream
<1>4. OneExecutionEach'
  <2>1. executions' = executions
    BY DEF Throw
  <2>2. \A j \in Jobs, n \in Deliveries : run[j][n] = "ended" => run'[j][n] = "ended"
    BY <1>1 DEF Throw
  <2> QED
    BY <2>1, <2>2, NoneEnqueued DEF QueueInv
<1>5. UndoneGoesOn'
  BY <1>1, SMTT(30) DEF QueueInv, TypeOK, DeliveredInTurn, UndoneGoesOn, Lost, Throw, Jobs, Rows, RunStates, Deliveries, Holder, queue, stream
<1>6. OnlyFailuresStrand'
  BY <1>1, SMTT(30) DEF QueueInv, TypeOK, DeliveredInTurn, OnlyFailuresStrand, TakenFurther, Lost, Throw, Jobs, Rows, RunStates, Deliveries, Holder, queue, stream
<1> QED
  BY <1>2, <1>3, <1>4, <1>5, <1>6 DEF QueueInv

LEMMA InitKeeps == Init => QueueInv
<1> SUFFICES ASSUME Init PROVE QueueInv
  OBVIOUS
<1>1. TypeOK
  BY DEF Init, TypeOK, Jobs, Deliveries
<1>2. DeliveredInTurn /\ OneExecutionEach /\ UndoneGoesOn
  BY JobAssumption DEF Init, DeliveredInTurn, OneExecutionEach, UndoneGoesOn, Jobs, Deliveries
<1>3. OnlyFailuresStrand
  BY JobAssumption DEF Init, OnlyFailuresStrand, Rows
<1> QED
  BY <1>1, <1>2, <1>3 DEF QueueInv

LEMMA NextKeeps == QueueInv /\ [Next]_vars => QueueInv'
<1> SUFFICES ASSUME QueueInv, [Next]_vars PROVE QueueInv'
  OBVIOUS
<1>1. ASSUME NEW s \in Simulations,
             Discover(s) \/ Execute(s) \/ ExecuteAndCrash(s) \/ ExecutionFails(s)
      PROVE  QueueInv'
  BY <1>1, DiscoverKeeps, ExecuteKeeps, ExecuteAndCrashKeeps, ExecutionFailsKeeps
<1>2. ASSUME NEW r \in Backtests, EnqueueBacktest(r) \/ Poll(r) \/ FeedFails(r)
      PROVE  QueueInv'
  BY <1>2, EnqueueBacktestKeeps, PollKeeps, FeedFailsKeeps
<1>3. ASSUME NEW i \in Jobs, Deliver(i) \/ Stall(i)
      PROVE  QueueInv'
  BY <1>3, DeliverKeeps, StallKeeps
<1>4. ASSUME NEW i \in Jobs, NEW k \in Deliveries, Handle(i, k) \/ Crash(i, k) \/ Throw(i, k)
      PROVE  QueueInv'
  BY <1>4, FindNothingKeeps, SimulateFirstKeeps, SimulateThenKeeps, BacktestFirstKeeps,
     BacktestThenKeeps, CrashKeeps, ThrowKeeps DEF Handle
<1>5. CASE UNCHANGED vars
  BY <1>5 DEF QueueInv, TypeOK, DeliveredInTurn, OneExecutionEach, UndoneGoesOn,
              OnlyFailuresStrand, TakenFurther, Lost, vars, queue, stream
<1> QED
  BY <1>1, <1>2, <1>3, <1>4, <1>5 DEF Next

(* The invariant holds in every reachable state.                           *)
LEMMA QueueInvariant == Spec => []QueueInv
  BY InitKeeps, NextKeeps, PTL DEF Spec

(* Every variable keeps its type; never more than two of the               *)
(* execution jobs of a simulation wait at once, one from each delivery      *)
(* (queueWorkers.ts:76-107).                                               *)
THEOREM JobTypes == Spec => []TypeOK
<1>1. QueueInv => TypeOK
  BY DEF QueueInv
<1> QED
  BY <1>1, QueueInvariant, PTL

(* An opportunity is left simulated with nothing to take it further only   *)
(* by a failure, whatever crashes and overlaps there have been             *)
(* (queueWorkers.ts:88-107).                                               *)
THEOREM FailuresStrand == Spec => []OnlyFailuresStrand
<1>1. QueueInv => OnlyFailuresStrand
  BY DEF QueueInv
<1> QED
  BY <1>1, QueueInvariant, PTL

(* A backtest whose job has completed is done, however its deliveries have *)
(* overlapped (queueWorkers.ts:156-178).                                   *)
THEOREM CompletedRunsAreDone == Spec => []CompletedIsDone
<1>1. QueueInv => CompletedIsDone
  BY DEF QueueInv, UndoneGoesOn, CompletedIsDone
<1> QED
  BY <1>1, QueueInvariant, PTL
=============================================================================
