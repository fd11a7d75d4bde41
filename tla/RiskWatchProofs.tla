--------------------------- MODULE RiskWatchProofs ---------------------------
(***************************************************************************)
(* The cursor of the risk feed, for any vaults, limit and bounds: what it  *)
(* passes and what it sends again.                                         *)
(***************************************************************************)
EXTENDS RiskWatch, SequenceTheorems, FiniteFacts

\* A row exactly on a millisecond is the first of it.
OnMsIsFirst == \A i \in DOMAIN visible : visible[i].onMs => visible[i].newMs

WatchInv == TypeOK /\ OnMsIsFirst /\ OnlyLastMsRepeats

LEMMA VisibleFacts ==
  ASSUME TypeOK
  PROVE  /\ Len(visible) \in Nat /\ DOMAIN visible = 1..Len(visible)
         /\ \A i \in 1..Len(visible) : visible[i] \in Rows
  BY DEF TypeOK

(* The rows past a cursor set from row n are the last ones, at least those *)
(* after n.                                                                *)
LEMMA PastCursorIsTail ==
  ASSUME WatchInv, NEW n \in 1..Len(visible)
  PROVE  \E g \in 0..n : PastCursor(n) = (g + 1)..Len(visible)
<1> DEFINE L == Len(visible)
           T == PastCursor(n) \cup {L + 1}
<1>1. L \in Nat /\ DOMAIN visible = 1..L
  BY VisibleFacts DEF WatchInv
<1>2. PastCursor(n) \subseteq 1..L
  BY <1>1 DEF PastCursor
<1>3. PICK m \in T : \A y \in T : m <= y
  <2>1. T \in SUBSET Nat /\ T # {}
    BY <1>1, <1>2
  <2> HIDE DEF T
  <2> QED
    BY <2>1, LeastNatural
<1>4. m \in 1..(n + 1)
  <2>1. n + 1 \in T
    BY <1>1 DEF PastCursor
  <2>2. m \in 1..(L + 1)
    BY <1>1, <1>2
  <2> QED
    BY <1>1, <1>3, <2>1, <2>2
<1>5. ASSUME NEW j \in m..L PROVE j \in PastCursor(n)
  <2>1. CASE j > n
    BY <1>1, <1>4, <2>1 DEF PastCursor
  <2>2. CASE ~(j > n) /\ j = m
    BY <1>1, <1>4, <2>2
  <2>3. CASE ~(j > n) /\ j # m
    <3>1. m \in PastCursor(n) /\ ~(m > n)
      BY <1>1, <1>4, <2>3
    <3>2. \A k \in (m + 1)..n : ~visible[k].newMs
      BY <3>1 DEF PastCursor
    <3>3. j \in (m + 1)..n /\ j \in 1..L
      BY <1>1, <1>4, <2>3
    <3>4. ~visible[j].onMs
      BY <1>1, <3>2, <3>3 DEF WatchInv, OnMsIsFirst
    <3>5. \A k \in (j + 1)..n : ~visible[k].newMs
      BY <1>4, <3>2, <3>3
    <3> QED
      BY <1>1, <3>3, <3>4, <3>5 DEF PastCursor
  <2> QED
    BY <2>1, <2>2, <2>3
<1>6. PastCursor(n) = m..L
  <2>1. \A j \in PastCursor(n) : j \in m..L
    BY <1>1, <1>2, <1>3, <1>4
  <2> QED
    BY <1>5, <2>1
<1> QED
  BY <1>1, <1>4, <1>6

(* What a cursor set from row n leaves: the rows after some g <= n, the    *)
(* ones just sent marked as such.                                          *)
LEMMA KeptFacts ==
  ASSUME WatchInv, NEW n \in 1..Len(visible)
  PROVE  \E g \in 0..n :
           /\ PastCursor(n) = (g + 1)..Len(visible)
           /\ Kept(PastCursor(n), n) \in Seq(Rows)
           /\ Len(Kept(PastCursor(n), n)) = Len(visible) - g
           /\ \A i \in 1..(Len(visible) - g) :
                Kept(PastCursor(n), n)[i] =
                  IF g + i \in Batch(n) THEN [visible[g + i] EXCEPT !.sent = TRUE]
                  ELSE visible[g + i]
<1> DEFINE L == Len(visible)
<1>1. L \in Nat /\ DOMAIN visible = 1..L /\ \A i \in 1..L : visible[i] \in Rows
  BY VisibleFacts DEF WatchInv
<1>2. PICK g \in 0..n : PastCursor(n) = (g + 1)..L
  BY PastCursorIsTail
<1>3. L - Cardinality(PastCursor(n)) = g
  <2>1. g + 1 \in Int /\ L \in Int
    BY <1>1
  <2> HIDE DEF L
  <2>2. Cardinality((g + 1)..L) = IF g + 1 > L THEN 0 ELSE L - (g + 1) + 1
    BY <2>1, FS_Interval
  <2>3. g <= L
    BY DEF L
  <2> QED
    BY <1>1, <1>2, <2>2, <2>3
<1>4. Kept(PastCursor(n), n) = SubSeq(Marked(n), g + 1, L)
  BY <1>3 DEF Kept
<1>5. /\ Marked(n) \in Seq(Rows) /\ Len(Marked(n)) = L
      /\ \A i \in 1..L : Marked(n)[i] = IF i \in Batch(n) THEN [visible[i] EXCEPT !.sent = TRUE]
                                       ELSE visible[i]
  <2>1. \A i \in 1..L : /\ visible[i] \in Rows
                        /\ [visible[i] EXCEPT !.sent = TRUE] \in Rows
    BY <1>1 DEF Rows
  <2>2. Marked(n) \in [1..L -> Rows]
    BY <1>1, <2>1 DEF Marked
  <2>3. Marked(n) \in Seq(Rows) /\ Len(Marked(n)) = L
    BY <1>1, <2>2
  <2> QED
    BY <1>1, <2>3 DEF Marked
<1>6. /\ SubSeq(Marked(n), g + 1, L) \in Seq(Rows)
      /\ Len(SubSeq(Marked(n), g + 1, L)) = L - g
      /\ \A i \in 1..(L - g) : SubSeq(Marked(n), g + 1, L)[i] = Marked(n)[g + i]
  <2>1. g \in 0..L /\ g + 1 \in 1..(L + 1)
    BY <1>1
  <2> HIDE DEF L
  <2> QED
    BY <1>1, <1>5, <2>1
<1>7. \A i \in 1..(L - g) : g + i \in 1..L
  BY <1>1
<1> QED
  BY <1>2, <1>4, <1>5, <1>6, <1>7

-----------------------------------------------------------------------------
(* The two actions that change what is past the cursor.                    *)

LEMMA InsertEventKeeps ==
  ASSUME WatchInv, NEW v \in Vaults, InsertEvent(v)
  PROVE  WatchInv'
<1> DEFINE L == Len(visible)
<1>1. L \in Nat /\ DOMAIN visible = 1..L /\ \A i \in 1..L : visible[i] \in Rows
  BY VisibleFacts DEF WatchInv
<1>2. PICK newMs \in BOOLEAN, onMs \in BOOLEAN :
        /\ onMs => newMs
        /\ visible' = Append(visible, [vault |-> v, newMs |-> newMs, onMs |-> onMs, sent |-> FALSE])
  BY DEF InsertEvent
<1> DEFINE row == [vault |-> v, newMs |-> newMs, onMs |-> onMs, sent |-> FALSE]
<1>3. row \in Rows /\ row.sent = FALSE /\ (row.onMs => row.newMs)
  BY <1>2 DEF Rows
<1> HIDE DEF row
<1>4. /\ visible' \in Seq(Rows) /\ Len(visible') = L + 1 /\ DOMAIN visible' = 1..(L + 1)
      /\ \A i \in 1..L : visible'[i] = visible[i]
      /\ visible'[L + 1] = row
  BY <1>1, <1>2, <1>3 DEF row, WatchInv, TypeOK
<1>5. TypeOK'
  BY <1>1, <1>4 DEF InsertEvent, WatchInv, TypeOK, feedVars
<1>6. OnMsIsFirst'
  <2>1. ASSUME NEW i \in 1..(L + 1) PROVE visible'[i].onMs => visible'[i].newMs
    <3>1. CASE i \in 1..L
      BY <1>1, <1>4, <3>1 DEF WatchInv, OnMsIsFirst
    <3>2. CASE i = L + 1
      BY <1>3, <1>4, <3>2
    <3> QED
      BY <1>1, <3>1, <3>2
  <2> QED
    BY <1>4, <2>1 DEF OnMsIsFirst
<1>7. OnlyLastMsRepeats'
  <2>1. ASSUME NEW i \in 1..(L + 1), visible'[i].sent, NEW j \in 2..i
        PROVE  ~visible'[j].newMs
    <3>1. i \in 1..L
      BY <1>1, <1>3, <1>4, <2>1
    <3>2. visible[i].sent /\ j \in 1..L
      BY <1>1, <1>4, <2>1, <3>1
    <3>3. ~visible[j].newMs
      BY <1>1, <3>1, <3>2 DEF WatchInv, OnlyLastMsRepeats
    <3> QED
      BY <1>4, <3>2, <3>3
  <2> QED
    BY <1>4, <2>1 DEF OnlyLastMsRepeats
<1> QED
  BY <1>5, <1>6, <1>7 DEF WatchInv

LEMMA DeliverKeeps ==
  ASSUME WatchInv, Deliver
  PROVE  WatchInv' /\ Len(visible) - Len(visible') <= asked
<1> DEFINE L == Len(visible)
<1>1. L \in Nat /\ DOMAIN visible = 1..L /\ \A i \in 1..L : visible[i] \in Rows
  BY VisibleFacts DEF WatchInv
<1>2. asked \in 0..L /\ asked' = Idle
  BY DEF Deliver, WatchInv, TypeOK
<1>3. received' \subseteq Vaults
  <2>1. Batch(asked) \subseteq 1..L
    BY <1>1, <1>2 DEF Batch
  <2>2. \A i \in Batch(asked) : visible[i].vault \in Vaults
    BY <1>1, <2>1 DEF Rows
  <2> QED
    BY <2>2 DEF Deliver, WatchInv, TypeOK, Heard
<1>4. breached' \subseteq Vaults /\ todo' \subseteq Vaults /\ checking' \in Vaults \cup {None}
      /\ stream' \in Streams
  BY DEF Deliver, WatchInv, TypeOK, workerVars
<1>5. CASE asked = 0
  <2>1. visible' = visible
    BY <1>5 DEF Deliver
  <2> QED
    BY <1>1, <1>2, <1>3, <1>4, <1>5, <2>1 DEF WatchInv, TypeOK, OnMsIsFirst, OnlyLastMsRepeats
<1>6. CASE asked # 0
  <2>1. asked \in 1..L
    BY <1>1, <1>2, <1>6
  <2>2. PICK g \in 0..asked :
          /\ PastCursor(asked) = (g + 1)..L
          /\ Kept(PastCursor(asked), asked) \in Seq(Rows)
          /\ Len(Kept(PastCursor(asked), asked)) = L - g
          /\ \A i \in 1..(L - g) :
               Kept(PastCursor(asked), asked)[i] =
                 IF g + i \in Batch(asked) THEN [visible[g + i] EXCEPT !.sent = TRUE]
                 ELSE visible[g + i]
    BY <2>1, KeptFacts
  <2>3. visible' = Kept(PastCursor(asked), asked)
    BY <1>6 DEF Deliver, NextCursor
  <2>4. g \in Nat /\ g <= asked /\ \A i \in 1..(L - g) : g + i \in 1..L
    BY <1>1, <2>1
  <2>5. /\ visible' \in Seq(Rows) /\ Len(visible') = L - g /\ DOMAIN visible' = 1..(L - g)
        /\ \A i \in 1..(L - g) : visible'[i] = IF g + i \in Batch(asked)
                                             THEN [visible[g + i] EXCEPT !.sent = TRUE]
                                             ELSE visible[g + i]
    BY <2>2, <2>3
  <2>6. \A i \in 1..(L - g) :
          /\ visible'[i].newMs <=> visible[g + i].newMs
          /\ visible'[i].onMs <=> visible[g + i].onMs
          /\ visible'[i].sent => g + i \in Batch(asked) \/ visible[g + i].sent
    BY <1>1, <2>4, <2>5 DEF Rows
  <2>7. TypeOK'
    BY <1>2, <1>3, <1>4, <2>5 DEF TypeOK
  <2>8. OnMsIsFirst'
    BY <1>1, <2>4, <2>5, <2>6 DEF WatchInv, OnMsIsFirst
  <2>9. ASSUME NEW i \in 1..(L - g), visible'[i].sent, NEW j \in 2..i
        PROVE  ~visible'[j].newMs
    <3>1. /\ j \in 1..(L - g) /\ g + j \in 1..L /\ g + i \in 1..L
          /\ g + j \in 2..(g + i) /\ g + 1 \in (g + 1)..L
      BY <1>1, <2>4, <2>9
    <3>2. CASE visible[g + i].sent
      <4>1. ~visible[g + j].newMs
        BY <1>1, <3>1, <3>2 DEF WatchInv, OnlyLastMsRepeats
      <4> QED
        BY <2>6, <3>1, <4>1
    <3>3. CASE g + i \in Batch(asked)
      <4>1. g + i <= asked /\ ~(g + 1 > asked)
        BY <1>1, <1>2, <2>4, <3>1, <3>3 DEF Batch
      <4>2. g + 1 \in PastCursor(asked)
        BY <2>2, <3>1
      <4>3. \A k \in ((g + 1) + 1)..asked : ~visible[k].newMs
        BY <4>1, <4>2 DEF PastCursor
      <4>4. g + j \in ((g + 1) + 1)..asked
        BY <1>1, <1>2, <2>4, <3>1, <4>1
      <4> QED
        BY <2>6, <3>1, <4>3, <4>4
    <3> QED
      BY <2>6, <2>9, <3>2, <3>3
  <2>10. OnlyLastMsRepeats'
    BY <2>5, <2>9 DEF OnlyLastMsRepeats
  <2>11. L - Len(visible') <= asked
    BY <1>1, <2>4, <2>5
  <2> QED
    BY <2>7, <2>8, <2>10, <2>11 DEF WatchInv
<1> QED
  BY <1>5, <1>6

-----------------------------------------------------------------------------
LEMMA InitIsSound == Init => WatchInv
<1> SUFFICES ASSUME Init PROVE WatchInv
  OBVIOUS
<1>1. visible = <<>> /\ DOMAIN visible = {}
  BY DEF Init
<1> QED
  BY <1>1 DEF Init, WatchInv, TypeOK, OnMsIsFirst, OnlyLastMsRepeats, Streams

\* The steps that leave the rows alone keep the invariant if they keep the types.
LEMMA SameRows ==
  ASSUME WatchInv, visible' = visible, TypeOK'
  PROVE  WatchInv'
  BY DEF WatchInv, OnMsIsFirst, OnlyLastMsRepeats

LEMMA NextKeeps == WatchInv /\ [Next]_vars => WatchInv'
<1> SUFFICES ASSUME WatchInv, [Next]_vars PROVE WatchInv'
  OBVIOUS
<1> USE DEF workerVars, feedVars
<1>1. CASE StartRound
  BY <1>1, SameRows DEF StartRound, WatchInv, TypeOK
<1>2. ASSUME NEW v \in Vaults, CheckFlag(v) PROVE WatchInv'
  BY <1>2, SameRows DEF CheckFlag, WatchInv, TypeOK
<1>3. ASSUME NEW v \in Vaults, InsertEvent(v) PROVE WatchInv'
  BY <1>3, InsertEventKeeps
<1>4. CASE AbortRound
  BY <1>4, SameRows DEF AbortRound, WatchInv, TypeOK
<1>5. CASE Ask
  <2>1. Len(visible) \in 0..Len(visible)
    BY VisibleFacts DEF WatchInv
  <2> QED
    BY <1>5, <2>1, SameRows DEF Ask, WatchInv, TypeOK
<1>6. CASE Deliver
  BY <1>6, DeliverKeeps
<1>7. CASE FeedFails
  BY <1>7, SameRows DEF FeedFails, WatchInv, TypeOK, Streams
<1>8. CASE Leave
  BY <1>8, SameRows DEF Leave, WatchInv, TypeOK, Streams
<1>9. ASSUME NEW v \in Vaults, SetFlag(v) \/ ClearFlag(v) PROVE WatchInv'
  BY <1>9, SameRows DEF SetFlag, ClearFlag, WatchInv, TypeOK
<1>10. CASE UNCHANGED vars
  BY <1>10, SameRows DEF vars, WatchInv, TypeOK
<1> QED
  BY <1>1, <1>2, <1>3, <1>4, <1>5, <1>6, <1>7, <1>8, <1>9, <1>10
  DEF Next, Worker, Feed, Environment

LEMMA WatchInvariant == Spec => []WatchInv
  BY InitIsSound, NextKeeps, PTL DEF Spec

(* Every variable keeps its type, and what a running query has seen is     *)
(* still past the cursor when its answer moves it (routes.ts:217-225).     *)
THEOREM WatchTypes == Spec => []TypeOK
<1>1. WatchInv => TypeOK
  BY DEF WatchInv
<1> QED
  BY <1>1, WatchInvariant, PTL

(* For any number of rows, of vaults, of rows a millisecond and for any    *)
(* limit, only rows of the cursor's own millisecond are sent again         *)
(* (routes.ts:222-223).                                                    *)
THEOREM OnlyTheLastMsRepeats == Spec => []OnlyLastMsRepeats
<1>1. WatchInv => OnlyLastMsRepeats
  BY DEF WatchInv
<1> QED
  BY <1>1, WatchInvariant, PTL

(* The cursor never passes a row that no query has seen, whatever the      *)
(* worker inserts between the query and its answer (routes.ts:218-223).    *)
THEOREM CursorPassesTheSeen == Spec => SeenBeforePassed
<1> DEFINE Step == asked # Idle /\ asked' = Idle => Len(visible) - Len(visible') <= asked
<1>1. ASSUME WatchInv, [Next]_vars PROVE Step
  <2> SUFFICES ASSUME asked # Idle, asked' = Idle PROVE Len(visible) - Len(visible') <= asked
    OBVIOUS
  <2> USE DEF workerVars, feedVars
  <2>1. asked \in 0..Len(visible) /\ Len(visible) \in Nat
    BY <1>1, VisibleFacts DEF WatchInv, TypeOK
  <2>2. CASE Deliver
    BY <2>2, <1>1, DeliverKeeps
  <2>3. CASE FeedFails
    BY <2>1, <2>3 DEF FeedFails
  <2>4. CASE asked' = asked
    BY <2>4
  <2>5. StartRound \/ AbortRound \/ Ask \/ Leave \/ (\E v \in Vaults : \/ CheckFlag(v) \/ InsertEvent(v)
                                                  \/ SetFlag(v) \/ ClearFlag(v))
          => asked' = asked
    BY DEF StartRound, AbortRound, Ask, Leave, CheckFlag, InsertEvent, SetFlag, ClearFlag
  <2> QED
    BY <1>1, <2>2, <2>3, <2>4, <2>5 DEF Next, Worker, Feed, Environment, vars
<1>2. WatchInv /\ [Next]_vars => [Step]_vars
  BY <1>1
<1> QED
  BY <1>2, WatchInvariant, PTL DEF Spec, SeenBeforePassed
=============================================================================
