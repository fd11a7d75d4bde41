------------------------------ MODULE RiskWatch ------------------------------
(***************************************************************************)
(* Risk events from the worker that finds them to the client that is told: *)
(* startRiskWorker (apps/workers/src/workers/queueWorkers.ts), the table   *)
(* risk_events, and the stream that polls it (riskFeed and sseStream in    *)
(* apps/api/src/routes.ts).  Postgres, Redis and the client are external.  *)
(*                                                                         *)
(* The table is kept as the feed can still see it: the rows created after  *)
(* its cursor, oldest first.  Creation times matter only as they compare   *)
(* with the cursor, which has milliseconds where the table has             *)
(* microseconds.  So a row records whether it is the first of its          *)
(* millisecond, and whether it falls exactly on it.                        *)
(***************************************************************************)
EXTENDS Naturals, Sequences, FiniteSets

CONSTANTS
  Vaults, None,   \* the active vaults (nothing changes a vault's status); None is none of them
  Limit,       \* the LIMIT of the feed's query
  MaxVisible, MaxPerMs   \* bounds on the rows past the cursor, and on those of a millisecond

Idle == MaxVisible + 1

ASSUME WatchAssumption == None \notin Vaults /\ Limit \in Nat \ {0} /\ MaxVisible \in Nat /\ MaxPerMs \in Nat

Streams == {"open", "left", "failed"}
Rows == [vault : Vaults, newMs : BOOLEAN, onMs : BOOLEAN, sent : BOOLEAN]

VARIABLES
  breached,    \* the vaults with a risk:breach flag in Redis
  todo,        \* what is left of the worker's list
  checking,    \* the vault whose flag it has read, until its event is inserted
  visible,     \* the rows past the feed's cursor
  asked,       \* how many of them a running query has seen, or Idle
  stream,      \* "open"; "left" by its client; "failed", its feed stopped by an error
  received     \* the vaults the client has been told about since their flag was set

workerVars == <<todo, checking>>
feedVars == <<asked, received>>
vars == <<breached, workerVars, visible, feedVars, stream>>

\* The stream opens with a cursor of 0; rows from before are those inserted before its
\* first query.
Init ==
  /\ breached = {}
  /\ todo = {} /\ checking = None
  /\ visible = <<>> /\ asked = Idle
  /\ stream = "open" /\ received = {}

-----------------------------------------------------------------------------
(* The worker's loop: a list of the active vaults, then for each of them   *)
(* its flag, and an event if it is set.                                    *)

StartRound ==
  /\ todo = {} /\ checking = None
  /\ todo' = Vaults
  /\ UNCHANGED <<breached, checking, visible, feedVars, stream>>

CheckFlag(v) ==
  /\ checking = None /\ v \in todo
  /\ Len(visible) < MaxVisible   \* bound, for the insertion that may follow
  /\ todo' = todo \ {v}
  /\ checking' = IF v \in breached THEN v ELSE None
  /\ UNCHANGED <<breached, visible, feedVars, stream>>

\* The rows of the newest row's millisecond.
LastMs == {i \in DOMAIN visible : \A j \in (i + 1)..Len(visible) : ~visible[j].newMs}

InsertEvent(v) ==
  /\ checking = v
  /\ \E newMs, onMs \in BOOLEAN :
       /\ onMs => newMs
       /\ newMs \/ Cardinality(LastMs) < MaxPerMs   \* bound
       /\ visible' = Append(visible, [vault |-> v, newMs |-> newMs, onMs |-> onMs,
                                      sent |-> FALSE])
  /\ checking' = None
  /\ UNCHANGED <<breached, todo, feedVars, stream>>

\* A query fails: the rest of the round is skipped.  A restart of the worker is the same.
AbortRound ==
  /\ todo # {} \/ checking # None
  /\ todo' = {} /\ checking' = None
  /\ UNCHANGED <<breached, visible, feedVars, stream>>

-----------------------------------------------------------------------------
(* The feed: a query for the newest rows past the cursor; what it returns  *)
(* is sent oldest first, and the newest row gives the next cursor.         *)

\* Of the n rows a query saw, those it returned.
Batch(n) == {i \in 1..n : i > n - Limit}

\* The rows past a cursor set from row n: those of its millisecond, except one exactly
\* on it, and all that came later.
PastCursor(n) ==
  {i \in DOMAIN visible :
     \/ i > n
     \/ /\ \A j \in (i + 1)..n : ~visible[j].newMs
        /\ ~visible[i].onMs}

Marked(n) ==
  [i \in DOMAIN visible |-> IF i \in Batch(n) THEN [visible[i] EXCEPT !.sent = TRUE] ELSE visible[i]]

\* The rows i of a set that is an interval up to the end.
Kept(rows, n) == LET gone == Len(visible) - Cardinality(rows)
                 IN  SubSeq(Marked(n), gone + 1, Len(visible))

\* The vaults a connected client hears of when rows are sent.
Heard(rows) == IF stream = "open" THEN {visible[i].vault : i \in rows} ELSE {}

Ask ==
  /\ stream # "failed" /\ asked = Idle
  /\ asked' = Len(visible)
  /\ UNCHANGED <<breached, workerVars, visible, received, stream>>

\* Mutant: rows are reversed in a copy, so that the last one is the oldest.
CursorFromOldest(n) == IF n > Limit THEN PastCursor(n - Limit + 1) ELSE PastCursor(1)

\* Mutant: the cursor is the time of the poll, not that of the newest row.
CursorFromClock(n) == {}

\* The rows that remain past the cursor when a batch of the n rows has been sent.
NextCursor(n) == PastCursor(n)

\* Mutant: the answer is kept for the next turn of the loop.
DeliverKeepsAnswer ==
  /\ asked # Idle
  /\ visible' = IF asked = 0 THEN visible ELSE Kept(NextCursor(asked), asked)
  /\ received' = received \cup Heard(Batch(asked))
  /\ UNCHANGED <<breached, workerVars, asked, stream>>

Deliver ==
  /\ asked # Idle
  /\ visible' = IF asked = 0 THEN visible ELSE Kept(NextCursor(asked), asked)
  /\ received' = received \cup Heard(Batch(asked))
  /\ asked' = Idle
  /\ UNCHANGED <<breached, workerVars, stream>>

\* An error of the query is caught by nothing and ends the feed: the client gets no more.
FeedFails ==
  /\ asked # Idle
  /\ asked' = Idle /\ stream' = "failed"
  /\ UNCHANGED <<breached, workerVars, visible, received>>

-----------------------------------------------------------------------------
(* The environment: flags are set and cleared, and the client leaves, which *)
(* the feed does not notice.                                               *)

SetFlag(v) ==
  /\ v \notin breached
  /\ breached' = breached \cup {v}
  /\ received' = received \ {v}
  /\ UNCHANGED <<workerVars, visible, asked, stream>>

ClearFlag(v) ==
  /\ breached' = breached \ {v}
  /\ UNCHANGED <<workerVars, visible, feedVars, stream>>

Leave ==
  /\ stream = "open" /\ stream' = "left"
  /\ UNCHANGED <<breached, workerVars, visible, feedVars>>

Worker == StartRound \/ \E v \in Vaults : CheckFlag(v) \/ InsertEvent(v)
Feed == Ask \/ Deliver
Environment == Leave \/ \E v \in Vaults : SetFlag(v) \/ ClearFlag(v)
Next == Worker \/ AbortRound \/ Feed \/ FeedFails \/ Environment

\* The two loops never end, and every vault of a round that is not aborted has its turn;
\* errors are transient, so that a vault's event is not prevented for ever.
Fairness ==
  /\ WF_vars(StartRound) /\ WF_vars(Feed)
  /\ \A v \in Vaults : SF_vars(CheckFlag(v)) /\ SF_vars(InsertEvent(v))

Spec == Init /\ [][Next]_vars /\ Fairness

-----------------------------------------------------------------------------
(* Properties.                                                             *)

\* Every variable has its type; a running query has seen only rows that are still
\* past the cursor.
TypeOK ==
  /\ breached \subseteq Vaults /\ todo \subseteq Vaults
  /\ checking \in Vaults \cup {None}
  /\ visible \in Seq(Rows)
  /\ asked = Idle \/ asked \in 0..Len(visible)
  /\ stream \in Streams /\ received \subseteq Vaults

\* Rows that will be sent again are all of one millisecond, the cursor's: whatever is
\* inserted while the stream sends, it never goes back further (routes.ts:222-223).
OnlyLastMsRepeats ==
  \A i \in DOMAIN visible : visible[i].sent =>
    \A j \in 2..i : ~visible[j].newMs

\* The cursor never passes a row that no query has seen: rows inserted between a query
\* and its answer are left for the next one (routes.ts:218-223).
SeenBeforePassed ==
  [][asked # Idle /\ asked' = Idle => Len(visible) - Len(visible') <= asked]_vars

Burst == asked # Idle /\ asked > Limit

\* A breach that persists reaches a connected client, unless more
\* rows than the limit arrive between two polls (queueWorkers.ts:194-215 through
\* routes.ts:217-225).
BreachIsTold ==
  \A v \in Vaults :
    v \in breached ~> (v \in received \/ v \notin breached \/ stream # "open" \/ Burst)
=============================================================================
