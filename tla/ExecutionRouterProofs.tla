----------------------- MODULE ExecutionRouterProofs -----------------------
(***************************************************************************)
(* The router's properties, for any number of transactions and relays, any *)
(* time to live, clock and limb size, and every interleaving with a stale  *)
(* reading of the chain.                                                   *)
(***************************************************************************)
EXTENDS ExecutionRouter, TLAPS

\* The strengthening: every nonce given out lies below the counter.
NoncesBelow == \A t \in sent : nonce[t] < pending

RouterInv ==
  /\ TypeOK
  /\ NoncesBelow
  /\ NoncesDistinct

-----------------------------------------------------------------------------
(* Functions that grow by one transaction.                                 *)

LEMMA EmptyFunction == ASSUME NEW S PROVE <<>> \in [{} -> S]
  BY SMT

LEMMA WithType ==
  ASSUME NEW D, NEW S, NEW f \in [D -> S], NEW t, NEW v \in S
  PROVE  With(f, t, v) \in [D \cup {t} -> S]
  BY DEF With

LEMMA WithDomain ==
  ASSUME NEW f, NEW t, NEW v
  PROVE  DOMAIN With(f, t, v) = DOMAIN f \cup {t}
  BY DEF With

(* What a change of state keeps of a life cycle.                           *)
LEMMA TransitionType ==
  ASSUME NEW l \in Lives, NEW next \in States, NEW now
  PROVE  /\ Transition(l, next, now) \in Lives
         /\ Transition(l, next, now).state = next
         /\ Transition(l, next, now).attempts =
              l.attempts + (IF next = "submitted" THEN 1 ELSE 0)
<1>1. l.attempts + (IF next = "submitted" THEN 1 ELSE 0) \in Nat
  BY DEF Lives
<1>2. l = [state |-> l.state, submittedAt |-> l.submittedAt, attempts |-> l.attempts]
  BY DEF Lives
<1> QED
  BY <1>1, <1>2 DEF Lives, Transition

LEMMA SettledStates ==
  /\ States = {"submitted", "pending", "confirmed", "failed", "expired"}
  /\ Settled \subseteq States
  /\ NoAnswer \in Nat /\ NoAnswer \notin Relays /\ NoAnswer # Accepted
  /\ Accepted \notin Relays
  /\ \A r \in Relays : r + 1 \in Relays \cup {NoAnswer}
  /\ 1 \in Relays \cup {NoAnswer}
  BY RouterAssumption DEF States, Settled, NoAnswer, Relays, Accepted

-----------------------------------------------------------------------------
(* The invariant.                                                          *)

LEMMA InitEstablishes == Init => RouterInv
<1> SUFFICES ASSUME Init PROVE RouterInv
  OBVIOUS
<1>1. /\ nonce \in [sent -> Nat] /\ life \in [sent -> Lives]
      /\ asking \in [sent -> Relays \cup {Accepted, NoAnswer}]
      /\ holders \in [sent -> SUBSET Relays]
      /\ receipt \in [sent -> {"none", "success", "reverted"}]
  BY EmptyFunction DEF Init
<1>2. DOMAIN fees = sent
  BY EmptyFunction DEF Init
<1>3. /\ pending \in Nat /\ confirmed \in Nat /\ clock \in Clocks
      /\ reading \in Nat \cup {NoReading} /\ sent = {}
  BY RouterAssumption DEF Init
<1> QED
  BY <1>1, <1>2, <1>3
     DEF RouterInv, TypeOK, NoncesBelow, NoncesDistinct

LEMMA ReconcileKeeps ==
  ASSUME RouterInv, Reconcile
  PROVE  RouterInv'
<1> USE DEF RouterInv, TypeOK, Reconcile, routing, chain
<1>1. reading \in Nat /\ pending' \in Nat /\ pending' >= pending /\ reading' = NoReading
  BY DEF Reconciled
<1>2. TypeOK'
  BY <1>1
<1>3. NoncesBelow'
  BY <1>1 DEF NoncesBelow
<1>4. NoncesDistinct'
  BY DEF NoncesDistinct
<1> QED
  BY <1>2, <1>3, <1>4

LEMMA SendKeeps ==
  ASSUME RouterInv, NEW t \in Txs, NEW baseFee \in BaseFees, Send(t, baseFee)
  PROVE  RouterInv'
<1> USE DEF RouterInv
<1>1. /\ t \notin sent /\ sent' = sent \cup {t} /\ pending' = pending + 1
      /\ pending \in Nat /\ sent \subseteq Txs
  BY DEF Send, TypeOK
<1>2. /\ nonce' = With(nonce, t, pending) /\ nonce \in [sent -> Nat]
      /\ life' = With(life, t, NewLife(clock)) /\ life \in [sent -> Lives]
      /\ asking' = With(asking, t, 1) /\ asking \in [sent -> Relays \cup {Accepted, NoAnswer}]
      /\ holders' = With(holders, t, {}) /\ holders \in [sent -> SUBSET Relays]
      /\ receipt' = With(receipt, t, "none")
      /\ receipt \in [sent -> {"none", "success", "reverted"}]
      /\ fees' = With(fees, t, Estimate(baseFee, TipPct, HeadroomPct)) /\ DOMAIN fees = sent
  BY DEF Send, TypeOK
<1>3. NewLife(clock) \in Lives /\ NewLife(clock).attempts = 1
  BY DEF NewLife, Lives, States, TypeOK
<1>4. TypeOK'
  <2>1. /\ nonce' \in [sent' -> Nat] /\ life' \in [sent' -> Lives]
        /\ asking' \in [sent' -> Relays \cup {Accepted, NoAnswer}]
        /\ holders' \in [sent' -> SUBSET Relays]
        /\ receipt' \in [sent' -> {"none", "success", "reverted"}]
    BY <1>1, <1>2, <1>3, WithType, SettledStates
  <2>2. DOMAIN fees' = sent'
    BY <1>1, <1>2, WithDomain
  <2> QED
    BY <1>1, <2>1, <2>2 DEF TypeOK, Send
<1>5. \A u \in sent : u # t /\ nonce'[u] = nonce[u] /\ life'[u] = life[u]
                      /\ asking'[u] = asking[u] /\ holders'[u] = holders[u]
  <2>1. \A u \in sent : u # t
    BY <1>1
  <2>2. \A u \in sent : nonce'[u] = nonce[u]
    BY <1>2, <2>1 DEF With
  <2>3. \A u \in sent : life'[u] = life[u]
    BY <1>2, <2>1 DEF With
  <2>4. \A u \in sent : asking'[u] = asking[u]
    BY <1>2, <2>1 DEF With
  <2>5. \A u \in sent : holders'[u] = holders[u]
    BY <1>2, <2>1 DEF With
  <2> QED
    BY <2>1, <2>2, <2>3, <2>4, <2>5
<1>6. /\ nonce'[t] = pending /\ life'[t] = NewLife(clock)
      /\ asking'[t] = 1 /\ holders'[t] = {}
  <2>1. nonce'[t] = pending
    BY <1>2 DEF With
  <2>2. life'[t] = NewLife(clock)
    BY <1>2 DEF With
  <2>3. asking'[t] = 1
    BY <1>2 DEF With
  <2>4. holders'[t] = {}
    BY <1>2 DEF With
  <2> QED
    BY <2>1, <2>2, <2>3, <2>4
<1>7. NoncesBelow'
  BY <1>1, <1>2, <1>5, <1>6 DEF NoncesBelow
<1>8. NoncesDistinct'
  <2>1. \A u \in sent : nonce[u] # pending
    BY <1>1, <1>2 DEF NoncesBelow
  <2> QED
    BY <1>1, <1>5, <1>6, <2>1 DEF NoncesDistinct
<1> QED
  BY <1>4, <1>7, <1>8

LEMMA AskKeeps ==
  ASSUME RouterInv, NEW t \in Txs, NEW accepts \in BOOLEAN, Ask(t, accepts)
  PROVE  RouterInv'
<1> USE DEF RouterInv
<1>1. /\ t \in sent /\ asking[t] \in Relays
      /\ asking' = [asking EXCEPT ![t] = IF accepts THEN Accepted ELSE asking[t] + 1]
      /\ holders' = IF accepts THEN [holders EXCEPT ![t] = holders[t] \cup {asking[t]}]
                                ELSE holders
      /\ UNCHANGED <<pending, reading, sent, nonce, fees, life, receipt, confirmed, clock>>
  BY DEF Ask, AfterAccept, chain
<1>2. /\ asking \in [sent -> Relays \cup {Accepted, NoAnswer}]
      /\ holders \in [sent -> SUBSET Relays] /\ life \in [sent -> Lives]
  BY DEF TypeOK
<1>3. TypeOK'
  <2>1. asking' \in [sent' -> Relays \cup {Accepted, NoAnswer}]
    BY <1>1, <1>2, SettledStates
  <2>2. holders' \in [sent' -> SUBSET Relays]
    BY <1>1, <1>2
  <2> QED
    BY <1>1, <2>1, <2>2 DEF TypeOK
<1>4. NoncesBelow' /\ NoncesDistinct'
  BY <1>1 DEF NoncesBelow, NoncesDistinct
<1> QED
  BY <1>3, <1>4

\* The worker's moves: the relays asked are those of a new submission, or none.
LEMMA MoveKeeps ==
  ASSUME RouterInv, NEW t \in sent, NEW next \in States, Move(t, next),
         \/ asking' = asking
         \/ next = "submitted" /\ asking' = [asking EXCEPT ![t] = 1]
  PROVE  RouterInv'
<1> USE DEF RouterInv
<1>1. /\ life' = [life EXCEPT ![t] = Transition(life[t], next, clock)]
      /\ UNCHANGED <<pending, reading, sent, nonce, fees, holders, receipt, confirmed, clock>>
  BY DEF Move, chain
<1>2. /\ life \in [sent -> Lives] /\ holders \in [sent -> SUBSET Relays]
      /\ asking \in [sent -> Relays \cup {Accepted, NoAnswer}]
  BY DEF TypeOK
<1>3. /\ life'[t] \in Lives
      /\ life'[t].attempts = life[t].attempts + (IF next = "submitted" THEN 1 ELSE 0)
      /\ life' \in [sent -> Lives]
  BY <1>1, <1>2, TransitionType
<1>4. asking' \in [sent -> Relays \cup {Accepted, NoAnswer}]
  BY <1>2, SettledStates
<1>5. TypeOK'
  BY <1>1, <1>3, <1>4 DEF TypeOK
<1>6. NoncesBelow' /\ NoncesDistinct'
  BY <1>1 DEF NoncesBelow, NoncesDistinct
<1> QED
  BY <1>5, <1>6

LEMMA IncludeKeeps ==
  ASSUME RouterInv, NEW t \in Txs, NEW outcome \in {"success", "reverted"}, Include(t, outcome)
  PROVE  RouterInv'
<1>1. /\ receipt' = [receipt EXCEPT ![t] = outcome] /\ confirmed' = confirmed + 1
      /\ UNCHANGED <<pending, reading, sent, nonce, fees, life, asking, holders, clock>>
  BY DEF Include, routing
<1>2. receipt' \in [sent -> {"none", "success", "reverted"}]
  BY <1>1 DEF RouterInv, TypeOK
<1>3. TypeOK'
  BY <1>1, <1>2 DEF RouterInv, TypeOK
<1> QED
  BY <1>1, <1>3 DEF RouterInv, NoncesBelow, NoncesDistinct

LEMMA RestartKeeps ==
  ASSUME RouterInv, Restart
  PROVE  RouterInv'
<1>1. /\ nonce' \in [sent' -> Nat] /\ life' \in [sent' -> Lives]
      /\ asking' \in [sent' -> Relays \cup {Accepted, NoAnswer}]
      /\ holders' \in [sent' -> SUBSET Relays]
      /\ receipt' \in [sent' -> {"none", "success", "reverted"}]
  BY EmptyFunction DEF Restart
<1>2. DOMAIN fees' = sent'
  BY EmptyFunction DEF Restart
<1>3. /\ pending' \in Nat /\ confirmed' \in Nat /\ clock' \in Clocks
      /\ reading' \in Nat \cup {NoReading} /\ sent' = {}
  BY DEF Restart, RouterInv, TypeOK
<1> QED
  BY <1>1, <1>2, <1>3
     DEF RouterInv, TypeOK, NoncesBelow, NoncesDistinct

\* What the environment changes of the account and the clock disturbs no invariant.
LEMMA OthersKeep ==
  ASSUME RouterInv, ReadChainNonce \/ IncludeOther \/ Tick \/ UNCHANGED vars
  PROVE  RouterInv'
<1>1. /\ UNCHANGED <<pending, sent, nonce, fees, life, asking, holders, receipt>>
      /\ reading' \in {reading, confirmed} /\ confirmed' \in {confirmed, confirmed + 1}
      /\ clock' \in Clocks
  BY DEF RouterInv, TypeOK, ReadChainNonce, IncludeOther, Tick, vars, routing, chain
<1>2. TypeOK'
  BY <1>1 DEF RouterInv, TypeOK
<1> QED
  BY <1>1, <1>2 DEF RouterInv, NoncesBelow, NoncesDistinct

LEMMA NextKeeps == RouterInv /\ [Next]_vars => RouterInv'
<1> SUFFICES ASSUME RouterInv, [Next]_vars PROVE RouterInv'
  OBVIOUS
<1>1. CASE Reconcile
  BY <1>1, ReconcileKeeps
<1>2. CASE \E t \in Txs : Worker(t)
  <2> PICK t \in Txs : Worker(t)
    BY <1>2
  <2>1. CASE \E baseFee \in BaseFees : Send(t, baseFee)
    BY <2>1, SendKeeps
  <2>2. CASE \E accepts \in BOOLEAN : Ask(t, accepts)
    BY <2>2, AskKeeps
  <2>3. CASE Accept(t)
    BY <2>3, MoveKeeps DEF Accept, States
  <2>4. CASE Settle(t)
    <3>1. \E next \in States : Move(t, next)
      BY <2>4 DEF Settle, States
    <3> QED
      BY <2>4, <3>1, MoveKeeps DEF Settle
  <2>5. CASE Expire(t)
    BY <2>5, MoveKeeps DEF Expire, States
  <2>6. CASE Resubmit(t)
    BY <2>6, MoveKeeps DEF Resubmit, States
  <2> QED
    BY <2>1, <2>2, <2>3, <2>4, <2>5, <2>6 DEF Worker
<1>3. CASE \E t \in Txs, outcome \in {"success", "reverted"} : Include(t, outcome)
  BY <1>3, IncludeKeeps
<1>4. CASE Restart
  BY <1>4, RestartKeeps
<1>5. CASE ReadChainNonce \/ IncludeOther \/ Tick \/ UNCHANGED vars
  BY <1>5, OthersKeep
<1> QED
  BY <1>1, <1>2, <1>3, <1>4, <1>5 DEF Next

LEMMA RouterInvariant == Spec => []RouterInv
  BY InitEstablishes, NextKeeps, PTL DEF Spec

\* The router's variables keep their types: every nonce is a number, every life has a state
\* of the life cycle, and the multiplexer never asks a relay it does not have.
THEOREM RouterTypeCorrect == Spec => []TypeOK
<1>1. RouterInv => TypeOK
  BY DEF RouterInv
<1> QED
  BY <1>1, RouterInvariant, PTL

\* No nonce is given out twice between two restarts, however many tasks ask for one and
\* however stale the readings are that the tracker is reconciled with.
THEOREM NoncesNeverReused == Spec => []NoncesDistinct
<1>1. RouterInv => NoncesDistinct
  BY DEF RouterInv
<1> QED
  BY <1>1, RouterInvariant, PTL

-----------------------------------------------------------------------------
(* What is settled.                                                        *)

\* No step moves a life cycle out of confirmed or failed.
LEMMA StepsKeepSettled ==
  ASSUME RouterInv, [Next]_vars, NEW t \in sent \cap sent',
         life[t].state \in {"confirmed", "failed"}
  PROVE  life'[t].state = life[t].state
<1> USE DEF RouterInv, TypeOK
<1>1. CASE \E u \in Txs : Worker(u)
  <2> PICK u \in Txs : Worker(u)
    BY <1>1
  <2>1. CASE \E baseFee \in BaseFees : Send(u, baseFee)
    <3>1. u # t /\ t \in sent /\ life \in [sent -> Lives] /\ life' = With(life, u, NewLife(clock))
      BY <2>1 DEF Send
    <3>2. life'[t] = life[t]
      BY <3>1 DEF With
    <3> QED
      BY <3>2
  <2>2. CASE \E accepts \in BOOLEAN : Ask(u, accepts)
    BY <2>2 DEF Ask
  <2>3. CASE Accept(u) \/ Settle(u) \/ Expire(u) \/ Resubmit(u)
    <3>1. u # t
      BY <2>3 DEF Accept, Settle, Expire, Resubmit, IsExpired, Settled
    <3>2. \E next \in States : life' = [life EXCEPT ![u] = Transition(life[u], next, clock)]
      BY <2>3 DEF Accept, Settle, Expire, Resubmit, Move, States
    <3> QED
      BY <3>1, <3>2
  <2> QED
    BY <2>1, <2>2, <2>3 DEF Worker
<1>2. CASE Restart
  BY <1>2 DEF Restart
<1>3. CASE \E u \in Txs, outcome \in {"success", "reverted"} : Include(u, outcome)
  BY <1>3 DEF Include
<1>4. CASE ReadChainNonce \/ Reconcile \/ IncludeOther \/ Tick \/ UNCHANGED vars
  BY <1>4 DEF ReadChainNonce, Reconcile, IncludeOther, Tick, vars
<1> QED
  BY <1>1, <1>2, <1>3, <1>4 DEF Next

\* A transaction that was confirmed or failed is so for good: it never expires and is never
\* submitted again, wherever the clock goes.
THEOREM SettledForGood == Spec => SettledIsFinal
<1>1. RouterInv /\ [Next]_vars =>
        [\A t \in sent \cap sent' :
           life[t].state \in {"confirmed", "failed"} => life'[t].state = life[t].state]_vars
  BY StepsKeepSettled
<1> QED
  BY <1>1, RouterInvariant, PTL DEF Spec, SettledIsFinal

-----------------------------------------------------------------------------
(* The fees.                                                               *)

LEMMA WordPositive == LimbBase * LimbBase \in Nat \ {0} /\ Word \in Nat \ {0}
<1>1. \A a, b \in Nat \ {0} : a * b \in Nat \ {0}
  BY SMT
<1>2. LimbBase \in Nat \ {0}
  BY LimbAssumption
<1>3. LimbBase * LimbBase \in Nat \ {0}
  BY <1>1, <1>2
<1>4. LimbBase * LimbBase * LimbBase \in Nat \ {0}
  BY <1>1, <1>2, <1>3
<1> QED
  BY <1>1, <1>2, <1>3, <1>4 DEF Word

\* Below one limb the reversed limbs are the number times the weight of the top limb.
LEMMA SmallReversed ==
  ASSUME NEW x \in Nat, x < LimbBase
  PROVE  Reversed(x) = x * (LimbBase * LimbBase * LimbBase)
<1> DEFINE B == LimbBase
<1>1. B \in Nat /\ B > 1 /\ B * B \in Nat /\ B * B * B \in Nat
  BY LimbAssumption
<1>2. B <= B * B /\ B * B <= B * B * B
  BY <1>1, SMT
<1>3. x \div 1 = x /\ x % B = x
  BY <1>1, SMT
<1> HIDE DEF B
<1>4. \A d \in Nat : d >= B => x \div d = 0
  BY <1>1, SMT DEF B
<1>5. x \div B = 0 /\ x \div (B * B) = 0 /\ x \div (B * B * B) = 0 /\ 0 % B = 0
  BY <1>1, <1>2, <1>4, SMT
<1>6. Limb(x, 0) = x /\ Limb(x, 1) = 0 /\ Limb(x, 2) = 0 /\ Limb(x, 3) = 0
  BY <1>3, <1>5 DEF Limb, B
<1>7. Reversed(x) = 0 + B * (0 + B * (0 + B * x))
  BY <1>6 DEF Reversed, Number, B
<1>8. 0 + B * (0 + B * (0 + B * x)) = x * (B * B * B)
  BY <1>1, SMT
<1> QED
  BY <1>7, <1>8 DEF B

\* The tip of a base fee within one limb: the fraction of the base fee, times the weight
\* of the top limb, and small enough for a word.
LEMMA SmallTip ==
  ASSUME NEW x \in Nat, TipPct > 0, WithinLimb(x)
  PROVE  Estimate(x, TipPct, HeadroomPct).tip
           = ((x * (LimbBase * LimbBase * LimbBase)) * TipPct) \div 100
<1> DEFINE Top == LimbBase * LimbBase * LimbBase
           n == (x * Top) * TipPct
<1>1. /\ LimbBase \in Nat /\ TipPct \in Int /\ Top \in Nat /\ Top > 0
      /\ Word = LimbBase * Top
  <2>1. LimbBase \in Nat /\ LimbBase > 1 /\ LimbBase * LimbBase \in Nat /\ LimbBase * LimbBase > 0
    BY LimbAssumption, SMT
  <2>2. Top \in Nat /\ Top > 0
    BY <2>1, SMT
  <2>3. Word = LimbBase * Top
    BY <2>1, SMT DEF Word
  <2> QED
    BY <2>1, <2>2, <2>3, RouterAssumption
<1> HIDE DEF Top
<1>2. x < LimbBase /\ x * TipPct < 100 * LimbBase
  BY DEF WithinLimb
<1>3. n \in Nat /\ n < 100 * Word
  <2>1. n = (x * TipPct) * Top /\ n \in Int
    BY <1>1, SMT
  <2>2. x * TipPct \in Nat
    BY <1>1, SMT
  <2>3. (x * TipPct) * Top < (100 * LimbBase) * Top
    BY <1>1, <1>2, <2>2, SMT
  <2>4. (x * TipPct) * Top \in Nat
    BY <1>1, <2>2, SMT
  <2>5. (100 * LimbBase) * Top = 100 * Word
    BY <1>1, SMT
  <2> QED
    BY <2>1, <2>3, <2>4, <2>5
<1>4. n \div 100 \in Nat /\ n \div 100 < Word
  <2>1. Word \in Nat
    BY <1>1, SMT
  <2> HIDE DEF n
  <2> QED
    BY <1>3, <2>1, SMT
<1>5. FromF64(n \div 100) = n \div 100
  <2>1. Word \in Nat \ {0}
    BY WordPositive
  <2> HIDE DEF n
  <2> QED
    BY <1>4, <2>1, SMT DEF FromF64
<1>6. Reversed(x) = x * Top
  BY <1>2, SmallReversed DEF Top
<1>7. Larger(TipPct, 0) = TipPct
  BY <1>1 DEF Larger
<1>8. Scale(x, TipPct) = FromF64((Reversed(x) * TipPct) \div 100)
  BY <1>1 DEF Scale, ToF64
<1>9. Scale(x, TipPct) = n \div 100
  BY <1>5, <1>6, <1>8
<1>10. Estimate(x, TipPct, HeadroomPct).tip = Scale(x, Larger(TipPct, 0))
  BY DEF Estimate
<1> QED
  BY <1>7, <1>9, <1>10 DEF Top

\* Within one limb, tips are in the order of the base fees.
LEMMA TipsInOrder ==
  ASSUME NEW x \in Nat, NEW y \in Nat, x <= y, WithinLimb(x), WithinLimb(y)
  PROVE  Estimate(x, TipPct, HeadroomPct).tip <= Estimate(y, TipPct, HeadroomPct).tip
<1>1. CASE TipPct > 0
  <2> DEFINE Top == LimbBase * LimbBase * LimbBase
  <2>1. Top \in Nat /\ TipPct \in Nat
    <3>1. LimbBase \in Nat /\ LimbBase * LimbBase \in Nat
      BY LimbAssumption, SMT
    <3> QED
      BY <1>1, <3>1, RouterAssumption, SMT
  <2>2. /\ Estimate(x, TipPct, HeadroomPct).tip = ((x * Top) * TipPct) \div 100
        /\ Estimate(y, TipPct, HeadroomPct).tip = ((y * Top) * TipPct) \div 100
    BY <1>1, SmallTip
  <2> HIDE DEF Top
  <2>3. x * Top \in Nat /\ y * Top \in Nat /\ x * Top <= y * Top
    BY <2>1, SMT
  <2>4. /\ (x * Top) * TipPct \in Nat /\ (y * Top) * TipPct \in Nat
        /\ (x * Top) * TipPct <= (y * Top) * TipPct
    BY <2>1, <2>3, SMT
  <2>5. \A a, b \in Nat : a <= b => a \div 100 <= b \div 100
    BY SMT
  <2> QED
    BY <2>2, <2>4, <2>5
<1>2. CASE ~(TipPct > 0)
  <2>1. Larger(TipPct, 0) = 0
    BY <1>2, RouterAssumption DEF Larger
  <2>2. Scale(x, 0) = 0 /\ Scale(y, 0) = 0
    BY DEF Scale
  <2> QED
    BY <2>1, <2>2 DEF Estimate
<1> QED
  BY <1>1, <1>2

\* A transaction's fees come from an estimate.
FeesEstimated ==
  \A t \in sent : \E baseFee \in BaseFees : fees[t] = Estimate(baseFee, TipPct, HeadroomPct)

LEMMA StepsKeepEstimated == RouterInv /\ FeesEstimated /\ [Next]_vars => FeesEstimated'
<1> SUFFICES ASSUME RouterInv, FeesEstimated, [Next]_vars PROVE FeesEstimated'
  OBVIOUS
<1>1. CASE \E t \in Txs, b \in BaseFees : Send(t, b)
  <2> PICK t \in Txs, b \in BaseFees : Send(t, b)
    BY <1>1
  <2>1. /\ sent' = sent \cup {t} /\ t \notin sent /\ DOMAIN fees = sent
        /\ fees' = With(fees, t, Estimate(b, TipPct, HeadroomPct))
    BY DEF Send, RouterInv, TypeOK
  <2>2. fees'[t] = Estimate(b, TipPct, HeadroomPct)
    BY <2>1 DEF With
  <2>3. \A u \in sent : fees'[u] = fees[u]
    BY <2>1 DEF With
  <2> QED
    BY <2>1, <2>2, <2>3 DEF FeesEstimated
<1>2. CASE Restart
  BY <1>2 DEF Restart, FeesEstimated
<1>3. CASE UNCHANGED <<sent, fees>>
  BY <1>3 DEF FeesEstimated
<1>4. \/ \E t \in Txs, b \in BaseFees : Send(t, b)
      \/ Restart
      \/ UNCHANGED <<sent, fees>>
  BY DEF Next, Worker, ReadChainNonce, Reconcile, Ask, Accept, Settle, Expire, Resubmit, Move,
         Include, IncludeOther, Tick, vars
<1> QED
  BY <1>1, <1>2, <1>3, <1>4

\* Whichever tasks send them and whenever, of two transactions the one at the higher
\* base fee never bids less, for every size of limbs, tip and headroom, as long as both
\* base fees are within one limb.
THEOREM TipsFollowBaseFees == Spec => []TipFollowsBaseFee
<1>1. Init => FeesEstimated
  BY DEF Init, FeesEstimated
<1>2. FeesEstimated => TipFollowsBaseFee
  <2> SUFFICES ASSUME FeesEstimated, NEW t \in sent, NEW u \in sent,
                      WithinLimb(fees[t].baseFee), WithinLimb(fees[u].baseFee),
                      fees[t].baseFee <= fees[u].baseFee
               PROVE  fees[t].tip <= fees[u].tip
    BY DEF TipFollowsBaseFee
  <2>1. PICK x \in BaseFees : fees[t] = Estimate(x, TipPct, HeadroomPct)
    BY DEF FeesEstimated
  <2>2. PICK y \in BaseFees : fees[u] = Estimate(y, TipPct, HeadroomPct)
    BY DEF FeesEstimated
  <2>3. fees[t].baseFee = x /\ fees[u].baseFee = y
    BY <2>1, <2>2 DEF Estimate
  <2>4. x \in Nat /\ y \in Nat
    BY RouterAssumption DEF Amounts
  <2> QED
    BY <2>1, <2>2, <2>3, <2>4, TipsInOrder
<1> QED
  BY <1>1, <1>2, StepsKeepEstimated, RouterInvariant, PTL DEF Spec
=============================================================================
