------------------------------ MODULE JobQueues ------------------------------
(***************************************************************************)
(* The BullMQ workers of apps/workers/src/workers/queueWorkers.ts that     *)
(* write to the database, and the stream that tells a client of a backtest *)
(* (backtestFeed in apps/api/src/routes.ts).  Redis, BullMQ and Postgres   *)
(* are external.  BullMQ delivers at least once: a job whose worker stops, *)
(* or only holds it for too long, is delivered a second time, beside the   *)
(* first run if that goes on, and fails at the second such stall.  An      *)
(* error of a handler fails its job at once, because no attempts are asked *)
(* for.                                                                    *)
(*                                                                         *)
(* A simulation and a backtest both write twice, with an await in between. *)
(* The opportunity worker is delivered at least once too, and enqueues     *)
(* each simulation without a job id: an opportunity it finds twice has two *)
(* simulations.  The execution worker looks for a model named by the first *)
(* part of an opportunity's id, which is "opp" (atomicAmm.ts:70): there is *)
(* none, and it rejects.                                                   *)
(***************************************************************************)
EXTENDS Naturals, FiniteSets

CONSTANTS
  Opportunities, Backtests,  \* the rows of opportunities and of backtest_runs
  Simulations,               \* the simulation jobs
  Subject                    \* the opportunity of each

ASSUME JobAssumption ==
  /\ Opportunities \cap Backtests = {} /\ Simulations \cap Backtests = {}
  /\ Subject \in [Simulations -> Opportunities]

Rows == Opportunities \cup Backtests
Jobs == Simulations \cup Backtests      \* a backtest has one job
Deliveries == {1, 2}

VARIABLES
  job,         \* of each job: "none", "waiting", "active", "completed", "failed"
  stalls,      \* how often it has been found stalled
  run,         \* of each delivery: "idle", "started", "written" (after its first write),
               \* "ended"; "dead", or "lost" when its job was no longer its own
  status,      \* the rows of opportunities and backtest_runs
  executions,  \* the execution jobs waiting that a simulation has enqueued
  dropped,     \* the opportunities with an execution job that failed
  feed,        \* of each backtest's stream: "open", "ended" or "broken"
  told         \* the last status it has sent

queue == <<job, stalls, run>>
stream == <<feed, told>>
vars == <<queue, status, executions, dropped, stream>>

Init ==
  /\ job = [i \in Jobs |-> "none"] /\ stalls = [i \in Jobs |-> 0]
  /\ run = [i \in Jobs |-> [k \in Deliveries |-> "idle"]]
  /\ status = [i \in Rows |-> IF i \in Backtests THEN "queued" ELSE "absent"]
  /\ executions = [s \in Simulations |-> 0] /\ dropped = {}
  /\ feed = [r \in Backtests |-> "open"] /\ told = [r \in Backtests |-> "none"]

Holder(i, k) == job[i] = "active" /\ k = stalls[i] + 1
Moves(i, k, to) == run' = [run EXCEPT ![i][k] = to]
Dies(i, k) == Moves(i, k, IF Holder(i, k) THEN "dead" ELSE "lost")

-----------------------------------------------------------------------------
(* Producers.                                                              *)

\* An opportunity is inserted, unless it is there, and a simulation enqueued; an error of the
\* insertion is logged and the job is enqueued all the same, an error of the enqueueing
\* leaves the row without a job.
Discover(s) ==
  /\ job[s] = "none"
  /\ \/ /\ status[Subject[s]] = "absent"
        /\ status' = [status EXCEPT ![Subject[s]] = "discovered"]
     \/ UNCHANGED status
  /\ \E j \in {"waiting", "none"} : job' = [job EXCEPT ![s] = j]
  /\ UNCHANGED <<stalls, run, executions, dropped, stream>>

\* The route only inserts the run; its job comes from elsewhere, if at all.
EnqueueBacktest(r) ==
  /\ job[r] = "none"
  /\ job' = [job EXCEPT ![r] = "waiting"]
  /\ UNCHANGED <<stalls, run, status, executions, dropped, stream>>

-----------------------------------------------------------------------------
(* Deliveries.                                                             *)

Deliver(i) ==
  /\ job[i] = "waiting"
  /\ job' = [job EXCEPT ![i] = "active"]
  /\ Moves(i, stalls[i] + 1, "started")
  /\ UNCHANGED <<stalls, status, executions, dropped, stream>>

Completes(i, k) ==
  /\ Moves(i, k, "ended")
  /\ job' = IF Holder(i, k) THEN [job EXCEPT ![i] = "completed"] ELSE job

\* Mutant: a stalled job is delivered again however often it has stalled.
StallForever(i) ==
  /\ job[i] = "active"
  /\ job' = [job EXCEPT ![i] = "waiting"]
  /\ stalls' = [stalls EXCEPT ![i] = @ + 1]
  /\ UNCHANGED <<run, status, executions, dropped, stream>>

\* A crash or a lost lock: the job is delivered again, once.
Stall(i) ==
  /\ job[i] = "active"
  /\ IF stalls[i] = 0
     THEN /\ job' = [job EXCEPT ![i] = "waiting"]
          /\ stalls' = [stalls EXCEPT ![i] = 1]
     ELSE job' = [job EXCEPT ![i] = "failed"] /\ UNCHANGED stalls
  /\ UNCHANGED <<run, status, executions, dropped, stream>>

Crash(i, k) ==
  /\ run[i][k] \in {"started", "written"}
  /\ Dies(i, k)
  /\ UNCHANGED <<job, stalls, status, executions, dropped, stream>>

Throw(i, k) ==
  /\ run[i][k] \in {"started", "written"}
  /\ Dies(i, k)
  /\ job' = IF Holder(i, k) THEN [job EXCEPT ![i] = "failed"] ELSE job
  /\ UNCHANGED <<stalls, status, executions, dropped, stream>>

-----------------------------------------------------------------------------
(* The handlers.                                                           *)

\* A simulation of an opportunity that is not there does nothing.
FindNothing(s, k) ==
  /\ run[s][k] = "started" /\ status[Subject[s]] = "absent"
  /\ Completes(s, k)
  /\ UNCHANGED <<stalls, status, executions, dropped, stream>>

\* Mutant: an opportunity that is simulated already is left to the delivery that did it.
SimulateFirstOnce(s, k) ==
  /\ run[s][k] = "started" /\ status[Subject[s]] # "absent"
  /\ IF status[Subject[s]] = "simulated"
     THEN Completes(s, k) /\ UNCHANGED status
     ELSE /\ status' = [status EXCEPT ![Subject[s]] = "simulated"]
          /\ Moves(s, k, "written") /\ UNCHANGED job
  /\ UNCHANGED <<stalls, executions, dropped, stream>>

SimulateFirst(s, k) ==
  /\ run[s][k] = "started" /\ status[Subject[s]] # "absent"
  /\ status' = [status EXCEPT ![Subject[s]] = "simulated"]
  /\ Moves(s, k, "written")
  /\ UNCHANGED <<job, stalls, executions, dropped, stream>>

SimulateThen(s, k) ==
  /\ run[s][k] = "written"
  /\ executions' = [executions EXCEPT ![s] = @ + 1]
  /\ Completes(s, k)
  /\ UNCHANGED <<stalls, status, dropped, stream>>

\* Mutant: a run that is running already is left to the delivery that started it.
BacktestFirstOnce(r, k) ==
  /\ run[r][k] = "started"
  /\ IF status[r] = "running"
     THEN Completes(r, k) /\ UNCHANGED status
     ELSE /\ status' = [status EXCEPT ![r] = "running"]
          /\ Moves(r, k, "written") /\ UNCHANGED job
  /\ UNCHANGED <<stalls, executions, dropped, stream>>

\* A run that is done already is running again.
BacktestFirst(r, k) ==
  /\ run[r][k] = "started"
  /\ status' = [status EXCEPT ![r] = "running"]
  /\ Moves(r, k, "written")
  /\ UNCHANGED <<job, stalls, executions, dropped, stream>>

\* One statement writes the status, the metrics and the time.
BacktestThen(r, k) ==
  /\ run[r][k] = "written"
  /\ status' = [status EXCEPT ![r] = "done"]
  /\ Completes(r, k)
  /\ UNCHANGED <<stalls, executions, dropped, stream>>

\* An execution job, whose worker may stop after the update: it is then delivered again.
Execute(s) ==
  /\ executions[s] > 0
  /\ status' = [status EXCEPT ![Subject[s]] = "rejected"]
  /\ executions' = [executions EXCEPT ![s] = @ - 1]
  /\ UNCHANGED <<queue, dropped, stream>>

ExecuteAndCrash(s) ==
  /\ executions[s] > 0
  /\ status' = [status EXCEPT ![Subject[s]] = "rejected"]
  /\ UNCHANGED <<queue, executions, dropped, stream>>

ExecutionFails(s) ==
  /\ executions[s] > 0
  /\ executions' = [executions EXCEPT ![s] = @ - 1]
  /\ dropped' = dropped \cup {Subject[s]}
  /\ UNCHANGED <<queue, status, stream>>

-----------------------------------------------------------------------------
(* The stream of a backtest.                                               *)

Poll(r) ==
  /\ feed[r] = "open" /\ status[r] # told[r]
  /\ told' = [told EXCEPT ![r] = status[r]]
  /\ feed' = IF status[r] = "done" THEN [feed EXCEPT ![r] = "ended"] ELSE feed
  /\ UNCHANGED <<queue, status, executions, dropped>>

FeedFails(r) ==
  /\ feed[r] = "open"
  /\ feed' = [feed EXCEPT ![r] = "broken"]
  /\ UNCHANGED <<queue, status, executions, dropped, told>>

Handle(i, k) ==
  \/ i \in Simulations /\ (FindNothing(i, k) \/ SimulateFirst(i, k) \/ SimulateThen(i, k))
  \/ i \in Backtests /\ (BacktestFirst(i, k) \/ BacktestThen(i, k))

Next ==
  \/ \E s \in Simulations : Discover(s) \/ Execute(s) \/ ExecuteAndCrash(s) \/ ExecutionFails(s)
  \/ \E r \in Backtests : EnqueueBacktest(r) \/ Poll(r) \/ FeedFails(r)
  \/ \E i \in Jobs : Deliver(i) \/ Stall(i)
  \/ \E i \in Jobs, k \in Deliveries : Handle(i, k) \/ Crash(i, k) \/ Throw(i, k)

\* Workers take what waits and go on with what they run, BullMQ finds the jobs of dead
\* workers, and the stream polls.
Fairness ==
  /\ \A i \in Jobs : WF_vars(Deliver(i)) /\ WF_vars(Stall(i))
  /\ \A i \in Jobs, k \in Deliveries : WF_vars(Handle(i, k))
  /\ \A s \in Simulations : WF_vars(Execute(s))
  /\ \A r \in Backtests : WF_vars(Poll(r))

Spec == Init /\ [][Next]_vars /\ Fairness

-----------------------------------------------------------------------------
(* Properties.                                                             *)

\* Every variable has its type.
TypeOK ==
  /\ job \in [Jobs -> {"none", "waiting", "active", "completed", "failed"}]
  /\ stalls \in [Jobs -> 0..1]
  /\ run \in [Jobs -> [Deliveries -> {"idle", "started", "written", "ended", "dead", "lost"}]]
  /\ status \in [Rows -> {"absent", "discovered", "simulated", "rejected",
                           "queued", "running", "done"}]
  /\ executions \in [Simulations -> 0..2] /\ dropped \subseteq Opportunities
  /\ feed \in [Backtests -> {"open", "ended", "broken"}]

Lost(i) == \E k \in Deliveries : run[i][k] = "lost"

\* A simulation is not finished with, or has failed.
TakenFurther(s) ==
  \/ executions[s] > 0
  \/ \E k \in Deliveries : run[s][k] = "written"
  \/ job[s] \in {"waiting", "active", "failed"}
  \/ Lost(s)

\* An opportunity is left simulated, with no job that will take it further, only when a job
\* has failed or a delivery has died that had outlived its job: not by a crash, by
\* redelivery, by two deliveries at once or by two simulations (queueWorkers.ts:43-46,
\* 88-107).
OnlyFailuresStrand ==
  \A o \in Opportunities : status[o] = "simulated" =>
    o \in dropped \/ \E s \in Simulations : Subject[s] = o /\ TakenFurther(s)

\* A run whose job has completed is done, however its deliveries have overlapped, once none
\* of them goes on; unless one died that had outlived its job (queueWorkers.ts:156-178).
CompletedIsDone ==
  \A r \in Backtests :
    /\ job[r] = "completed" /\ ~Lost(r)
    /\ \A k \in Deliveries : run[r][k] \notin {"started", "written"}
    => status[r] = "done"

\* A backtest that has a job is told done to the client that watches it, also when its
\* worker crashes and the job is delivered again; unless the job fails, the stream breaks,
\* or a delivery dies that had outlived its job (queueWorkers.ts:156-180,
\* routes.ts:257-276).
RunIsTold ==
  \A r \in Backtests :
    job[r] # "none" ~>
      (told[r] = "done" \/ job[r] = "failed" \/ feed[r] = "broken" \/ Lost(r))
=============================================================================
