--------------------------- MODULE ExecutionRouter ---------------------------
(***************************************************************************)
(* crates/execution-router: the nonce tracker, the builder of              *)
(* transactions, the relay multiplexer and the life cycle of what was      *)
(* submitted.  The worker that drives them is external, and so are the     *)
(* relays and the chain: it does what lifecycle.rs:1-5 and                 *)
(* nonce_tracker.rs:1-5 say of it, with readings of the chain that may be  *)
(* stale when it uses them.  Every transaction is sent by a task of its    *)
(* own, and all of them share one tracker.                                 *)
(***************************************************************************)
EXTENDS GasOracle, FiniteSets

CONSTANTS
  Txs,          \* the transactions sent between two restarts
  NRelays,      \* the relays of the multiplexer, in its order
  Ttl,          \* after how long a transaction expires
  ClockWord,    \* the values of a u64 number of seconds
  BaseFees, TipPct, HeadroomPct,   \* the base fees seen, and the policy
  Clocks,       \* the readings of the clock that are tried
  MaxNonce, MaxAttempts   \* bounds

ASSUME RouterAssumption ==
  /\ NRelays \in Nat /\ Ttl \in Nat /\ ClockWord \in Nat \ {0}
  /\ BaseFees \subseteq Amounts
  /\ TipPct \in Int /\ HeadroomPct \in Int
  /\ MaxNonce \in Nat /\ MaxAttempts \in Nat /\ Clocks \subseteq Nat

States == {"submitted", "pending", "confirmed", "failed", "expired"}
Settled == {"confirmed", "failed", "expired"}
Relays == 1..NRelays
NoAnswer == NRelays + 1    \* every relay has been asked and rejected the bundle
Accepted == 0              \* a relay has accepted it
NoReading == -1

Lives == [state : States, submittedAt : Clocks, attempts : Nat]

VARIABLES
  pending,      \* the tracker's counter
  reading,      \* a confirmed nonce read from the chain, not yet reconciled
  sent,         \* the transactions built since the last restart
  nonce, fees, life,   \* of each of them: its nonce, its fees, its TxLifecycle
  asking,       \* the relay to ask next, Accepted or NoAnswer
  holders,      \* the relays that hold its bundle
  receipt,      \* what the chain has made of it
  confirmed,    \* the account's nonce on the chain
  clock         \* Utc::now()

routing == <<asking, holders>>
chain == <<receipt, confirmed>>
vars == <<pending, reading, sent, nonce, fees, life, routing, chain, clock>>

Init ==
  /\ confirmed \in 0..MaxNonce /\ pending = confirmed
  /\ reading = NoReading
  /\ sent = {} /\ nonce = <<>> /\ fees = <<>> /\ life = <<>>
  /\ asking = <<>> /\ holders = <<>> /\ receipt = <<>>
  /\ clock \in Clocks

With(f, t, v) == [u \in DOMAIN f \cup {t} |-> IF u = t THEN v ELSE f[u]]

-----------------------------------------------------------------------------
(* The life cycle.                                                         *)

NewLife(now) == [state |-> "submitted", submittedAt |-> now, attempts |-> 1]

\* submittedAt stays that of the first submission.  last_state_change is read by nothing.
Transition(l, next, now) ==
  [l EXCEPT !.state = next, !.attempts = @ + (IF next = "submitted" THEN 1 ELSE 0)]

\* Mutant: a settled transaction expires too.
ExpiredWhateverState(l, now) == (now - l.submittedAt) % ClockWord > Ttl

\* The difference is cast to u64: a negative one becomes a huge one.
IsExpired(l, now) ==
  l.state \notin Settled /\ (now - l.submittedAt) % ClockWord > Ttl

-----------------------------------------------------------------------------
(* The tracker.                                                            *)

ReadChainNonce ==
  /\ reading = NoReading
  /\ reading' = confirmed
  /\ UNCHANGED <<pending, sent, nonce, fees, life, routing, chain, clock>>

\* Mutant: the counter is set to what was read, higher or lower.
ReconciledToChain(p, chainNonce) == chainNonce

Reconciled(p, chainNonce) == IF p < chainNonce THEN chainNonce ELSE p

Reconcile ==
  /\ reading # NoReading
  /\ pending' = Reconciled(pending, reading)
  /\ reading' = NoReading
  /\ UNCHANGED <<sent, nonce, fees, life, routing, chain, clock>>

\* A task reserves the next nonce, builds the transaction with the fees of the moment,
\* and hands it to the multiplexer.
Send(t, baseFee) ==
  /\ t \notin sent
  /\ pending < MaxNonce   \* bound
  /\ pending' = pending + 1
  /\ sent' = sent \cup {t}
  /\ nonce' = With(nonce, t, pending)
  /\ fees' = With(fees, t, Estimate(baseFee, TipPct, HeadroomPct))
  /\ life' = With(life, t, NewLife(clock))
  /\ asking' = With(asking, t, 1)
  /\ holders' = With(holders, t, {})
  /\ receipt' = With(receipt, t, "none")
  /\ UNCHANGED <<reading, confirmed, clock>>

-----------------------------------------------------------------------------
(* The multiplexer: the relays in their order, until one accepts.          *)

\* What follows the acceptance by a relay.
AfterAccept(relay) == Accepted

Ask(t, accepts) ==
  /\ t \in sent /\ asking[t] \in Relays
  /\ asking' = [asking EXCEPT ![t] = IF accepts THEN AfterAccept(@) ELSE @ + 1]
  /\ holders' = IF accepts THEN [holders EXCEPT ![t] = @ \cup {asking[t]}] ELSE holders
  /\ UNCHANGED <<pending, reading, sent, nonce, fees, life, chain, clock>>

-----------------------------------------------------------------------------
(* The worker's polling.                                                   *)

Move(t, next) ==
  /\ life' = [life EXCEPT ![t] = Transition(@, next, clock)]
  /\ UNCHANGED <<pending, reading, sent, nonce, fees, holders, chain, clock>>

Accept(t) ==
  /\ t \in sent /\ life[t].state = "submitted" /\ asking[t] = Accepted
  /\ Move(t, "pending") /\ UNCHANGED asking

\* A receipt settles a transaction that is still followed.
Settle(t) ==
  /\ t \in sent /\ life[t].state \in {"submitted", "pending"} /\ asking[t] \notin Relays
  /\ receipt[t] # "none"
  /\ Move(t, IF receipt[t] = "success" THEN "confirmed" ELSE "failed")
  /\ UNCHANGED asking

\* The worker saw no receipt when it looked, which may be a while ago.
Expire(t) ==
  /\ t \in sent /\ asking[t] \notin Relays
  /\ IsExpired(life[t], clock)
  /\ Move(t, "expired") /\ UNCHANGED asking

Resubmit(t) ==
  /\ t \in sent /\ life[t].state = "expired" /\ asking[t] \notin Relays
  /\ life[t].attempts < MaxAttempts   \* bound
  /\ Move(t, "submitted")
  /\ asking' = [asking EXCEPT ![t] = 1]

-----------------------------------------------------------------------------
(* The environment: blocks, other senders of the account, the clock, and a *)
(* restart, after which the tracker starts from the confirmed nonce.       *)

Include(t, outcome) ==
  /\ t \in sent /\ holders[t] # {} /\ receipt[t] = "none" /\ nonce[t] = confirmed
  /\ receipt' = [receipt EXCEPT ![t] = outcome]
  /\ confirmed' = confirmed + 1
  /\ UNCHANGED <<pending, reading, sent, nonce, fees, life, routing, clock>>

\* A transaction this process has not sent: another holder of the key, or itself before
\* a restart.
IncludeOther ==
  /\ confirmed < MaxNonce   \* bound
  /\ confirmed' = confirmed + 1
  /\ UNCHANGED <<pending, reading, sent, nonce, fees, life, routing, receipt, clock>>

Tick ==
  /\ clock' \in Clocks \ {clock}
  /\ UNCHANGED <<pending, reading, sent, nonce, fees, life, routing, chain>>

\* Mutant: the life cycles are kept, and nothing else of their transactions.
RestartKeepsLives ==
  /\ pending' = confirmed /\ reading' = NoReading
  /\ sent' = {} /\ nonce' = <<>> /\ fees' = <<>> /\ life' = life
  /\ asking' = <<>> /\ holders' = <<>> /\ receipt' = <<>>
  /\ UNCHANGED <<confirmed, clock>>

Restart ==
  /\ pending' = confirmed /\ reading' = NoReading
  /\ sent' = {} /\ nonce' = <<>> /\ fees' = <<>> /\ life' = <<>>
  /\ asking' = <<>> /\ holders' = <<>> /\ receipt' = <<>>
  /\ UNCHANGED <<confirmed, clock>>

Worker(t) ==
  \/ \E baseFee \in BaseFees : Send(t, baseFee)
  \/ \E accepts \in BOOLEAN : Ask(t, accepts)
  \/ Accept(t) \/ Settle(t) \/ Expire(t) \/ Resubmit(t)

Next ==
  \/ ReadChainNonce \/ Reconcile
  \/ \E t \in Txs : Worker(t)
  \/ \E t \in Txs, outcome \in {"success", "reverted"} : Include(t, outcome)
  \/ IncludeOther \/ Tick \/ Restart

Spec == Init /\ [][Next]_vars

-----------------------------------------------------------------------------
(* Properties.                                                             *)

\* Every variable has its type.
TypeOK ==
  /\ pending \in Nat /\ confirmed \in Nat /\ clock \in Clocks
  /\ reading \in Nat \cup {NoReading}
  /\ sent \subseteq Txs
  /\ nonce \in [sent -> Nat]
  /\ life \in [sent -> Lives]
  /\ asking \in [sent -> Relays \cup {Accepted, NoAnswer}]
  /\ holders \in [sent -> SUBSET Relays]
  /\ receipt \in [sent -> {"none", "success", "reverted"}]
  /\ DOMAIN fees = sent

\* No two transactions of a process get the same nonce, however old the confirmed nonce
\* is that the tracker is reconciled with, and whoever else uses the account
\* (nonce_tracker.rs:25-39).
NoncesDistinct == \A t, u \in sent : t # u => nonce[t] # nonce[u]

\* What has been confirmed or has failed stays so: it never expires and is never sent
\* again (lifecycle.rs:48-51).
SettledIsFinal ==
  [][\A t \in sent \cap sent' :
       life[t].state \in {"confirmed", "failed"} => life'[t].state = life[t].state]_vars

WithinLimb(baseFee) == baseFee < LimbBase /\ baseFee * TipPct < 100 * LimbBase

\* A transaction sent at a higher base fee never bids a lower tip than another, as long
\* as the base fees and their tips are within one limb: what the reversed limbs make of
\* an amount keeps the order of bids there, though not their size (gas_oracle.rs:21-31,
\* 40-80).
TipFollowsBaseFee ==
  \A t, u \in sent :
    /\ WithinLimb(fees[t].baseFee) /\ WithinLimb(fees[u].baseFee)
    /\ fees[t].baseFee <= fees[u].baseFee
    => fees[t].tip <= fees[u].tip
=============================================================================
