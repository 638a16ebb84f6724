---------------------- MODULE MessageCollectionProofs ----------------------
(***************************************************************************)
(* Proofs about MessageCollection, for any number of queues, subscriptions, *)
(* messages and faults, and for every budget.                              *)
(***************************************************************************)
EXTENDS MessageCollection, TLAPS

-----------------------------------------------------------------------------
(* The inductive invariant.                                                *)

\* Messages are in the hands of an attempt that runs, and it has a session.
InHand ==
  /\ pc \in {"idle", "again"} => \A q \in Queues : drained[q] = 0
  /\ pc \notin {"idle", "again"} => connected

\* The kept values are the newest read; the records hold no others, and from the
\* end of the stream on, all of them.
Newest ==
  \A t \in Topics :
    /\ cache[t] = taken[t]
    /\ records[t] # None => records[t] = taken[t]
    /\ pc \in {"fallback", "return"} => records[t] = taken[t]

IInv ==
  /\ TypeOK
  /\ MessagesAreDivided
  /\ InHand
  /\ Newest
  /\ EveryClassIsCovered

\* The initial state.
LEMMA InvInit == Init => IInv
<1> SUFFICES ASSUME Init PROVE IInv
  OBVIOUS
<1> USE DEF Init, NoCount, NoValue
<1>1. queue \in [Queues -> Seq({"good", "bad"})] /\ backlog \in [Topics -> Seq(AllValues)]
  OBVIOUS
<1>2. TypeOK
  BY <1>1, MessageCollectionAssumption DEF TypeOK
<1>3. MessagesAreDivided
  BY DEF MessagesAreDivided
<1>4. InHand /\ Newest /\ EveryClassIsCovered
  BY DEF InHand, Newest, EveryClassIsCovered
<1>5. QED
  BY <1>2, <1>3, <1>4 DEF IInv

\* Where GotoQueue leads.
LEMMA QueueReached ==
  ASSUME NEW i \in Nat, i > 0, GotoQueue(i)
  PROVE  /\ pc' \in {"queue", "stream"}
         /\ pos' \in Nat
         /\ pc' = "queue" => pos' \in Queues
<1>1. NumQueues \in Nat
  BY MessageCollectionAssumption
<1>2. CASE i <= NumQueues
  <2>1. pc' = "queue" /\ pos' = i
    BY <1>2 DEF GotoQueue, Goto
  <2>2. QED
    BY <1>1, <1>2, <2>1 DEF Queues
<1>3. CASE ~(i <= NumQueues)
  <2>1. pc' = "stream" /\ pos' = 1
    BY <1>3 DEF GotoQueue, Goto
  <2>2. QED
    BY <2>1
<1>4. QED
  BY <1>2, <1>3

\* An attempt that fails keeps the invariant, whether the poll raises or reconnects.
LEMMA DropStep == IInv /\ AttemptFails /\ faults' \in Nat /\ mode' = mode => IInv'
<1> SUFFICES ASSUME IInv, AttemptFails, faults' \in Nat, mode' = mode PROVE IInv'
  OBVIOUS
<1>1. /\ pc' \in {"idle", "again"} /\ pos' = 1 /\ result' \in {"none", "ok", "failed"}
      /\ retried' \in BOOLEAN
  BY DEF AttemptFails, Raises, Reconnects, Goto, IInv, TypeOK
<1>2. SessionDropped
  BY DEF AttemptFails, Raises, Reconnects
<1> USE DEF IInv, SessionDropped, AttemptEnds, NoCount, NoValue
<1>3. TypeOK'
  <2>1. /\ backlog' \in [Topics -> Seq(AllValues)]
        /\ lost' \in [Queues -> Nat] /\ drained' \in [Queues -> Nat]
    BY <1>2 DEF TypeOK
  <2>2. /\ cache' \in [Topics -> AllValues \cup {None}]
        /\ taken' \in [Topics -> AllValues \cup {None}]
        /\ records' \in [Topics -> AllValues \cup {None}]
    BY <1>2
  <2>3. QED
    BY <1>1, <1>2, <2>1, <2>2 DEF TypeOK
<1>4. MessagesAreDivided'
  BY <1>1, <1>2 DEF TypeOK, MessagesAreDivided
<1>5. InHand'
  BY <1>1, <1>2 DEF InHand
<1>6. Newest'
  BY <1>1, <1>2 DEF Newest
<1>7. EveryClassIsCovered'
  BY <1>1 DEF EveryClassIsCovered
<1>8. QED
  BY <1>3, <1>4, <1>5, <1>6, <1>7

\* One message less in the queue is one more elsewhere.
LEMMA OneMoves ==
  \A n, d, r, l, o \in Nat : n + d + r + l + o = (n - 1) + d + r + l + (o + 1)
  OBVIOUS

\* One message more in the queue is one put more.
LEMMA OneComes ==
  \A n, d, r, l, o \in Nat : n + d + r + l + o + 1 = (n + 1) + d + r + l + o
  OBVIOUS

\* Every step of a poll and of its environment keeps the invariant.
LEMMA InvStep == IInv /\ [Next]_vars => IInv'
<1> SUFFICES ASSUME IInv, [Next]_vars PROVE IInv'
  OBVIOUS
<1>0. UNCHANGED mode
  BY DEF Next, vars
<1> USE <1>0 DEF IInv, control, adminVars, streamVars, fallbackVars
<1>1. /\ None \notin AllValues /\ NumQueues \in Nat
      /\ \A t \in Topics : Values[t] \subseteq AllValues
  BY MessageCollectionAssumption DEF AllValues
<1>2. CASE AttemptStarts
  <2>1. TypeOK'
    BY <1>1, <1>2 DEF AttemptStarts, Goto, TypeOK
  <2>2. MessagesAreDivided'
    BY <1>1, <1>2 DEF AttemptStarts, Goto, TypeOK, MessagesAreDivided, InHand
  <2>3. InHand'
    BY <1>1, <1>2 DEF AttemptStarts, Goto, TypeOK, InHand
  <2>4. Newest'
    BY <1>1, <1>2 DEF AttemptStarts, Goto, TypeOK, Newest
  <2>5. EveryClassIsCovered'
    BY <1>1, <1>2 DEF AttemptStarts, Goto, TypeOK, EveryClassIsCovered
  <2>6. QED
    BY <2>1, <2>2, <2>3, <2>4, <2>5
<1>3. CASE StartFails
  BY <1>3, DropStep, SMTT(30) DEF StartFails, FaultHappens, TypeOK
<1>4. CASE InquireQueues
  <2>1. TypeOK'
    <3>1. required' \subseteq Topics
      BY <1>4, MessageCollectionAssumption DEF InquireQueues, Observes, TypeOK
    <3>2. QED
      BY <1>4, <3>1 DEF InquireQueues, Goto, TypeOK
  <2>2. MessagesAreDivided'
    BY <1>1, <1>4 DEF InquireQueues, Goto, Observes, TypeOK, MessagesAreDivided, InHand
  <2>3. InHand'
    BY <1>1, <1>4 DEF InquireQueues, Goto, Observes, TypeOK, InHand
  <2>4. Newest'
    BY <1>1, <1>4 DEF InquireQueues, Goto, Observes, TypeOK, Newest
  <2>5. EveryClassIsCovered'
    BY <1>1, <1>4 DEF InquireQueues, Goto, Observes, TypeOK, EveryClassIsCovered
  <2>6. QED
    BY <2>1, <2>2, <2>3, <2>4, <2>5
<1>5. CASE InquireOthers
  <2>1. TypeOK'
    <3>1. GotoQueue(1)
      BY <1>5 DEF InquireOthers
    <3>2. QED
      BY <1>5, <3>1, QueueReached DEF InquireOthers, TypeOK
  <2>2. MessagesAreDivided'
    BY <1>1, <1>5 DEF InquireOthers, Goto, GotoQueue, TypeOK, MessagesAreDivided, InHand
  <2>3. InHand'
    BY <1>1, <1>5 DEF InquireOthers, Goto, GotoQueue, TypeOK, InHand
  <2>4. Newest'
    BY <1>1, <1>5 DEF InquireOthers, Goto, GotoQueue, TypeOK, Newest
  <2>5. EveryClassIsCovered'
    BY <1>1, <1>5 DEF InquireOthers, Goto, GotoQueue, TypeOK, EveryClassIsCovered
  <2>6. QED
    BY <2>1, <2>2, <2>3, <2>4, <2>5
<1>6. CASE InquiryFails
  <2>1. AttemptFails /\ faults' \in Nat
    BY <1>6 DEF InquiryFails, FaultHappens, TypeOK
  <2>2. QED
    BY <2>1, DropStep
<1>7. CASE GetMessage
  <2>1. TypeOK'
    <3>1. pos \in Queues /\ queue[pos] \in Seq({"good", "bad"}) /\ queue[pos] # <<>>
      BY <1>7 DEF GetMessage, TypeOK
    <3>2. Tail(queue[pos]) \in Seq({"good", "bad"})
      BY <3>1
    <3>3. queue' \in [Queues -> Seq({"good", "bad"})]
      BY <1>7, <3>2 DEF GetMessage, TypeOK
    <3>4. drained' \in [Queues -> Nat]
      BY <1>7 DEF GetMessage, TypeOK
    <3>5. pc' \in {"queue", "undecodable"} /\ pos' = pos
      BY <1>7 DEF GetMessage
    <3>6. required' \subseteq Topics
      <4>1. ApplicationsOf(pos, Head(queue[pos])) \subseteq Topics
        BY MessageCollectionAssumption DEF ApplicationsOf
      <4>2. QED
        BY <1>7, <4>1 DEF GetMessage, Observes, TypeOK
    <3>7. QED
      BY <1>7, <3>1, <3>3, <3>4, <3>5, <3>6 DEF GetMessage, TypeOK
  <2>2. MessagesAreDivided'
    BY <1>1, <1>7 DEF GetMessage, TypeOK, MessagesAreDivided, InHand
  <2>3. InHand'
    BY <1>1, <1>7 DEF GetMessage, TypeOK, InHand
  <2>4. Newest'
    BY <1>1, <1>7 DEF GetMessage, TypeOK, Newest
  <2>5. EveryClassIsCovered'
    BY <1>1, <1>7 DEF GetMessage, TypeOK, EveryClassIsCovered
  <2>6. QED
    BY <2>1, <2>2, <2>3, <2>4, <2>5
<1>8. CASE QueueFails
  <2>1. TypeOK'
    BY <1>1, <1>8, SMTT(30) DEF QueueFails, FaultHappens, TypeOK
  <2>2. MessagesAreDivided'
    BY <1>1, <1>8 DEF QueueFails, FaultHappens, TypeOK, MessagesAreDivided, InHand
  <2>3. InHand'
    BY <1>1, <1>8 DEF QueueFails, FaultHappens, TypeOK, InHand
  <2>4. Newest'
    BY <1>1, <1>8 DEF QueueFails, FaultHappens, TypeOK, Newest
  <2>5. EveryClassIsCovered'
    BY <1>1, <1>8 DEF QueueFails, FaultHappens, TypeOK, EveryClassIsCovered
  <2>6. QED
    BY <2>1, <2>2, <2>3, <2>4, <2>5
<1>9. CASE NoMessage
  <2>1. TypeOK'
    <3>1. pos + 1 \in Nat /\ pos + 1 > 0 /\ GotoQueue(pos + 1)
      BY <1>9 DEF NoMessage, TypeOK
    <3>2. QED
      BY <1>9, <3>1, QueueReached DEF NoMessage, TypeOK
  <2>2. MessagesAreDivided'
    BY <1>1, <1>9 DEF NoMessage, Goto, GotoQueue, TypeOK, MessagesAreDivided, InHand
  <2>3. InHand'
    BY <1>1, <1>9 DEF NoMessage, Goto, GotoQueue, TypeOK, InHand
  <2>4. Newest'
    BY <1>1, <1>9 DEF NoMessage, Goto, GotoQueue, TypeOK, Newest
  <2>5. EveryClassIsCovered'
    BY <1>1, <1>9 DEF NoMessage, Goto, GotoQueue, TypeOK, EveryClassIsCovered
  <2>6. QED
    BY <2>1, <2>2, <2>3, <2>4, <2>5
<1>10. CASE GiveUp
  <2>1. CASE AttemptFails
    BY <1>10, <2>1, DropStep DEF GiveUp, TypeOK
  <2>2. CASE PassOver /\ pc \in {"giveUp", "undecodable"}
    <3>1. TypeOK'
      <4>1. pos \in Queues /\ lost' \in [Queues -> Nat] /\ drained' \in [Queues -> Nat]
        BY <2>2 DEF PassOver, TypeOK
      <4>2. /\ pc' \in {"queue", "stream"} /\ pos' \in Nat
            /\ pc' = "queue" => pos' \in Queues
        <5>1. pos + 1 \in Nat /\ pos + 1 > 0 /\ GotoQueue(pos + 1)
          BY <2>2 DEF PassOver, TypeOK
        <5>2. QED
          BY <5>1, QueueReached
      <4>3. QED
        BY <1>10, <2>2, <4>1, <4>2 DEF GiveUp, PassOver, TypeOK
    <3>2. MessagesAreDivided'
      BY <1>1, <1>10, <2>2 DEF GiveUp, PassOver, Goto, GotoQueue, TypeOK, MessagesAreDivided, InHand
    <3>3. InHand'
      BY <1>1, <1>10, <2>2 DEF GiveUp, PassOver, Goto, GotoQueue, TypeOK, InHand
    <3>4. Newest'
      BY <1>1, <1>10, <2>2 DEF GiveUp, PassOver, Goto, GotoQueue, TypeOK, Newest
    <3>5. EveryClassIsCovered'
      BY <1>1, <1>10, <2>2 DEF GiveUp, PassOver, Goto, GotoQueue, TypeOK, EveryClassIsCovered
    <3>6. QED
      BY <3>1, <3>2, <3>3, <3>4, <3>5
  <2>3. QED
    BY <1>10, <2>1, <2>2 DEF GiveUp, AttemptFails
<1>11. CASE GetPublication
  <2>1. TypeOK'
    <3>1. pos \in Topics /\ backlog[pos] \in Seq(AllValues) /\ backlog[pos] # <<>>
      BY <1>11 DEF GetPublication, TypeOK
    <3>2. Head(backlog[pos]) \in AllValues /\ Tail(backlog[pos]) \in Seq(AllValues)
      BY <3>1
    <3>3. backlog' \in [Topics -> Seq(AllValues)] /\ spent' \in Nat
      BY <1>11, <3>2 DEF GetPublication, TypeOK
    <3>4. /\ records' \in [Topics -> AllValues \cup {None}]
          /\ cache' \in [Topics -> AllValues \cup {None}]
          /\ taken' \in [Topics -> AllValues \cup {None}]
      BY <1>11, <3>2 DEF GetPublication, TypeOK
    <3>5. QED
      BY <1>11, <3>3, <3>4 DEF GetPublication, TypeOK
  <2>2. MessagesAreDivided'
    BY <1>1, <1>11 DEF GetPublication, TypeOK, MessagesAreDivided, InHand
  <2>3. InHand'
    BY <1>1, <1>11 DEF GetPublication, TypeOK, InHand
  <2>4. Newest'
    BY <1>1, <1>11 DEF GetPublication, TypeOK, Newest
  <2>5. EveryClassIsCovered'
    BY <1>1, <1>11 DEF GetPublication, TypeOK, EveryClassIsCovered
  <2>6. QED
    BY <2>1, <2>2, <2>3, <2>4, <2>5
<1>12. CASE NextSubscription
  <2>1. TypeOK'
    BY <1>1, <1>12, SMTT(30) DEF NextSubscription, TypeOK
  <2>2. MessagesAreDivided'
    BY <1>1, <1>12 DEF NextSubscription, TypeOK, MessagesAreDivided, InHand
  <2>3. InHand'
    BY <1>1, <1>12 DEF NextSubscription, TypeOK, InHand
  <2>4. Newest'
    BY <1>1, <1>12 DEF NextSubscription, TypeOK, Newest
  <2>5. EveryClassIsCovered'
    BY <1>1, <1>12 DEF NextSubscription, TypeOK, EveryClassIsCovered
  <2>6. QED
    BY <2>1, <2>2, <2>3, <2>4, <2>5
<1>13. CASE StreamFails
  <2>1. AttemptFails /\ faults' \in Nat
    BY <1>13 DEF StreamFails, FaultHappens, TypeOK
  <2>2. QED
    BY <2>1, DropStep
<1>14. CASE StreamEnds
  <2>1. TypeOK'
    BY <1>1, <1>14 DEF StreamEnds, Goto, TypeOK
  <2>2. MessagesAreDivided'
    BY <1>1, <1>14 DEF StreamEnds, Goto, TypeOK, MessagesAreDivided, InHand
  <2>3. InHand'
    BY <1>1, <1>14 DEF StreamEnds, Goto, TypeOK, InHand
  <2>4. Newest'
    BY <1>1, <1>14 DEF StreamEnds, Goto, TypeOK, Newest
  <2>5. EveryClassIsCovered'
    BY <1>1, <1>14 DEF StreamEnds, Goto, TypeOK, EveryClassIsCovered
  <2>6. QED
    BY <2>1, <2>2, <2>3, <2>4, <2>5
<1>15. CASE Fallback
  <2>1. TypeOK'
    <3>1. fallback' \subseteq Topics /\ fresh' \subseteq Topics
      BY <1>15 DEF Fallback, Missing, Measured, TypeOK
    <3>2. extra' \subseteq Topics
      BY <1>15 DEF Fallback, Missing, TypeOK
    <3>3. QED
      BY <1>15, <3>1, <3>2 DEF Fallback, Goto, TypeOK
  <2>2. MessagesAreDivided'
    BY <1>1, <1>15 DEF Fallback, Missing, Goto, TypeOK, MessagesAreDivided, InHand
  <2>3. InHand'
    BY <1>1, <1>15 DEF Fallback, Missing, Goto, TypeOK, InHand
  <2>4. Newest'
    BY <1>1, <1>15 DEF Fallback, Missing, Goto, TypeOK, Newest
  <2>5. EveryClassIsCovered'
    BY <1>1, <1>15 DEF Fallback, Missing, Goto, TypeOK, EveryClassIsCovered
  <2>6. QED
    BY <2>1, <2>2, <2>3, <2>4, <2>5
<1>16. CASE MeasureUncached
  <2>1. TypeOK'
    BY <1>16 DEF MeasureUncached, Measured, Goto, TypeOK
  <2>2. MessagesAreDivided'
    BY <1>1, <1>16 DEF MeasureUncached, Goto, TypeOK, MessagesAreDivided, InHand
  <2>3. InHand'
    BY <1>1, <1>16 DEF MeasureUncached, Goto, TypeOK, InHand
  <2>4. Newest'
    BY <1>1, <1>16 DEF MeasureUncached, Goto, TypeOK, Newest
  <2>5. EveryClassIsCovered'
    BY <1>16 DEF MeasureUncached, EveryClassIsCovered
  <2>6. QED
    BY <2>1, <2>2, <2>3, <2>4, <2>5
<1>17. CASE Return
  <2>1. TypeOK'
    <3>1. reported' \in [Queues -> Nat] /\ drained' \in [Queues -> Nat]
      BY <1>17 DEF Return, AttemptEnds, NoCount, TypeOK
    <3>2. records' \in [Topics -> AllValues \cup {None}]
      BY <1>17 DEF Return, AttemptEnds, NoValue
    <3>3. QED
      BY <1>17, <3>1, <3>2 DEF Return, AttemptEnds, Goto, TypeOK
  <2>2. MessagesAreDivided'
    BY <1>1, <1>17 DEF Return, AttemptEnds, NoCount, NoValue, Goto, TypeOK, MessagesAreDivided, InHand
  <2>3. InHand'
    BY <1>1, <1>17 DEF Return, AttemptEnds, NoCount, NoValue, Goto, TypeOK, InHand
  <2>4. Newest'
    BY <1>1, <1>17 DEF Return, AttemptEnds, NoCount, NoValue, Goto, TypeOK, Newest
  <2>5. EveryClassIsCovered'
    BY <1>1, <1>17 DEF Return, AttemptEnds, NoCount, NoValue, Goto, TypeOK, EveryClassIsCovered
  <2>6. QED
    BY <2>1, <2>2, <2>3, <2>4, <2>5
<1>18. ASSUME NEW q \in Queues, OtherConsumer(q) PROVE IInv'
  <2>1. TypeOK'
    <3>1. queue[q] \in Seq({"good", "bad"}) /\ queue[q] # <<>>
      BY <1>18 DEF OtherConsumer, TypeOK
    <3>2. Tail(queue[q]) \in Seq({"good", "bad"})
      BY <3>1
    <3>3. QED
      BY <1>18, <3>2, SMTT(30) DEF OtherConsumer, TypeOK
  <2>2. MessagesAreDivided'
    <3>1. queue[q] \in Seq({"good", "bad"}) /\ queue[q] # <<>>
      BY <1>18 DEF OtherConsumer, TypeOK
    <3>2. Len(queue[q]) \in Nat /\ Len(Tail(queue[q])) = Len(queue[q]) - 1
      BY <3>1
    <3>3. other'[q] = other[q] + 1 /\ Len(queue'[q]) = Len(queue[q]) - 1
      BY <1>18, <3>2 DEF OtherConsumer, TypeOK
    <3>4. \A r \in Queues \ {q} : other'[r] = other[r] /\ queue'[r] = queue[r]
      BY <1>18 DEF OtherConsumer, TypeOK
    <3>5. puts' = puts /\ drained' = drained /\ reported' = reported /\ lost' = lost
      BY <1>18 DEF OtherConsumer
    <3>6. \A r \in Queues : /\ drained[r] \in Nat /\ reported[r] \in Nat
                           /\ lost[r] \in Nat /\ other[r] \in Nat
      BY DEF TypeOK
    <3>7. ASSUME NEW r \in Queues
          PROVE  puts'[r] = Len(queue'[r]) + drained'[r] + reported'[r] + lost'[r]
                              + other'[r]
      <4>1. puts[r] = Len(queue[r]) + drained[r] + reported[r] + lost[r] + other[r]
        BY <1>1 DEF MessagesAreDivided
      <4>2. CASE r = q
        <5>1. puts'[r] = puts[r] /\ drained'[r] = drained[r] /\ reported'[r] = reported[r]
              /\ lost'[r] = lost[r]
          BY <3>5
        <5>2. Len(queue'[r]) = Len(queue[r]) - 1 /\ other'[r] = other[r] + 1
          BY <3>3, <4>2
        <5>3. Len(queue[r]) \in Nat
          BY <3>2, <4>2
        <5>4. /\ drained[r] \in Nat /\ reported[r] \in Nat
              /\ lost[r] \in Nat /\ other[r] \in Nat
          BY <3>6
        <5>5. \A l, o \in Nat :
                Len(queue[r]) + drained[r] + reported[r] + l + o
                  = (Len(queue[r]) - 1) + drained[r] + reported[r] + l + (o + 1)
          <6>1. \A a, l, o \in Nat :
                  Len(queue[r]) + drained[r] + a + l + o
                    = (Len(queue[r]) - 1) + drained[r] + a + l + (o + 1)
            BY <5>3, <5>4, OneMoves
          <6>2. QED
            BY <5>4, <6>1
        <5>6. QED
          BY <4>1, <5>1, <5>2, <5>4, <5>5
      <4>3. CASE r # q
        BY <3>4, <3>5, <4>1, <4>3
      <4>4. QED
        BY <4>2, <4>3
    <3>8. QED
      BY <3>7 DEF MessagesAreDivided
  <2>3. InHand'
    BY <1>1, <1>18 DEF OtherConsumer, TypeOK, InHand
  <2>4. Newest'
    BY <1>1, <1>18 DEF OtherConsumer, TypeOK, Newest
  <2>5. EveryClassIsCovered'
    BY <1>1, <1>18 DEF OtherConsumer, TypeOK, EveryClassIsCovered
  <2>6. QED
    BY <2>1, <2>2, <2>3, <2>4, <2>5
<1>19. ASSUME NEW q \in Queues, NEW m \in {"good", "bad"}, Put(q, m) PROVE IInv'
  <2>1. TypeOK'
    <3>1. queue' \in [Queues -> Seq({"good", "bad"})]
      BY <1>19 DEF Put, TypeOK
    <3>2. puts' \in [Queues -> Nat]
      BY <1>19 DEF Put, TypeOK
    <3>3. QED
      BY <1>19, <3>1, <3>2 DEF Put, TypeOK
  <2>2. MessagesAreDivided'
    <3>1. Len(queue[q]) \in Nat /\ Len(Append(queue[q], m)) = Len(queue[q]) + 1
      BY DEF TypeOK
    <3>2. puts'[q] = puts[q] + 1 /\ Len(queue'[q]) = Len(queue[q]) + 1
      BY <1>19, <3>1 DEF Put, TypeOK
    <3>3. \A r \in Queues \ {q} : puts'[r] = puts[r] /\ queue'[r] = queue[r]
      BY <1>19 DEF Put, TypeOK
    <3>4. drained' = drained /\ reported' = reported /\ lost' = lost /\ other' = other
      BY <1>19 DEF Put
    <3>5. \A r \in Queues : /\ drained[r] \in Nat /\ reported[r] \in Nat
                           /\ lost[r] \in Nat /\ other[r] \in Nat
      BY DEF TypeOK
    <3>6. ASSUME NEW r \in Queues
          PROVE  puts'[r] = Len(queue'[r]) + drained'[r] + reported'[r] + lost'[r]
                              + other'[r]
      <4>1. puts[r] = Len(queue[r]) + drained[r] + reported[r] + lost[r] + other[r]
        BY <1>1 DEF MessagesAreDivided
      <4>2. CASE r = q
        <5>1. /\ Len(queue[r]) \in Nat
              /\ drained[r] \in Nat /\ reported[r] \in Nat
              /\ lost[r] \in Nat /\ other[r] \in Nat
          BY <3>1, <3>5, <4>2
        <5>2. \A d, a, l, o \in Nat :
                Len(queue[r]) + d + a + l + o + 1 = (Len(queue[r]) + 1) + d + a + l + o
          BY <5>1, OneComes
        <5>3. \A a, l, o \in Nat :
                Len(queue[r]) + drained[r] + a + l + o + 1
                  = (Len(queue[r]) + 1) + drained[r] + a + l + o
          BY <5>1, <5>2
        <5>4. \A l, o \in Nat :
                Len(queue[r]) + drained[r] + reported[r] + l + o + 1
                  = (Len(queue[r]) + 1) + drained[r] + reported[r] + l + o
          BY <5>1, <5>3
        <5>5. Len(queue[r]) + drained[r] + reported[r] + lost[r] + other[r] + 1
                = (Len(queue[r]) + 1) + drained[r] + reported[r] + lost[r] + other[r]
          BY <5>1, <5>4
        <5>6. puts'[r] = puts[r] + 1 /\ Len(queue'[r]) = Len(queue[r]) + 1
          BY <3>2, <4>2
        <5>7. /\ drained'[r] = drained[r] /\ reported'[r] = reported[r]
              /\ lost'[r] = lost[r] /\ other'[r] = other[r]
          BY <3>4
        <5>8. QED
          BY <4>1, <5>5, <5>6, <5>7, Zenon
      <4>3. CASE r # q
        BY <3>3, <3>4, <4>1, <4>3
      <4>4. QED
        BY <4>2, <4>3
    <3>7. QED
      BY <3>6 DEF MessagesAreDivided
  <2>3. InHand'
    BY <1>1, <1>19 DEF Put, TypeOK, InHand
  <2>4. Newest'
    BY <1>1, <1>19 DEF Put, TypeOK, Newest
  <2>5. EveryClassIsCovered'
    BY <1>1, <1>19 DEF Put, TypeOK, EveryClassIsCovered
  <2>6. QED
    BY <2>1, <2>2, <2>3, <2>4, <2>5
<1>20. ASSUME NEW t \in Topics, IntervalEnds(t) PROVE IInv'
  <2>1. TypeOK'
    BY <1>1, <1>20 DEF IntervalEnds, TypeOK
  <2>2. MessagesAreDivided'
    BY <1>1, <1>20 DEF IntervalEnds, TypeOK, MessagesAreDivided, InHand
  <2>3. InHand'
    BY <1>1, <1>20 DEF IntervalEnds, TypeOK, InHand
  <2>4. Newest'
    BY <1>1, <1>20 DEF IntervalEnds, TypeOK, Newest
  <2>5. EveryClassIsCovered'
    BY <1>1, <1>20 DEF IntervalEnds, TypeOK, EveryClassIsCovered
  <2>6. QED
    BY <2>1, <2>2, <2>3, <2>4, <2>5
<1>21. ASSUME NEW t \in Topics, NEW v \in Values[t], Publish(t, v) PROVE IInv'
  <2>1. TypeOK'
    BY <1>1, <1>21 DEF Publish, TypeOK
  <2>2. MessagesAreDivided'
    BY <1>1, <1>21 DEF Publish, TypeOK, MessagesAreDivided, InHand
  <2>3. InHand'
    BY <1>1, <1>21 DEF Publish, TypeOK, InHand
  <2>4. Newest'
    BY <1>1, <1>21 DEF Publish, TypeOK, Newest
  <2>5. EveryClassIsCovered'
    BY <1>1, <1>21 DEF Publish, TypeOK, EveryClassIsCovered
  <2>6. QED
    BY <2>1, <2>2, <2>3, <2>4, <2>5
<1>22. CASE UNCHANGED vars
  BY <1>22 DEF vars, control, adminVars, streamVars, fallbackVars, TypeOK,
     MessagesAreDivided, InHand, Newest, EveryClassIsCovered
<1>23. QED
  BY <1>2, <1>3, <1>4, <1>5, <1>6, <1>7, <1>8, <1>9, <1>10, <1>11, <1>12, <1>13,
     <1>14, <1>15, <1>16, <1>17, <1>18, <1>19, <1>20, <1>21, <1>22
  DEF Next, PollStep, InquiryStep, AdminStep, StreamStep, Environment

\* Every reachable state satisfies the invariant.
LEMMA Invariance == Spec => []IInv
  BY InvInit, InvStep, PTL DEF Spec

\* Every variable keeps its type.
THEOREM TypeCorrect == Spec => []TypeOK
<1>1. IInv => TypeOK
  BY DEF IInv
<1>2. QED
  BY <1>1, Invariance, PTL

\* Each message ends in one place: one poll's records, another consumer, a failure.
THEOREM NoMessageTwice == Spec => []MessagesAreDivided
<1>1. IInv => MessagesAreDivided
  BY DEF IInv
<1>2. QED
  BY <1>1, Invariance, PTL

\* A poll returns the newest value read in its session for every topic.
THEOREM PollsReturnTheNewest == Spec => []NewestIsReturned
<1>1. IInv => NewestIsReturned
  BY DEF IInv, Newest, NewestIsReturned
<1>2. QED
  BY <1>1, Invariance, PTL

\* A poll that succeeds covers every required class, unless amqsruac has just failed to.
THEOREM ClassesAreCovered == Spec => []EveryClassIsCovered
<1>1. IInv => EveryClassIsCovered
  BY DEF IInv
<1>2. QED
  BY <1>1, Invariance, PTL

\* In mode "fallback" amqsruac is run for required classes only, and for none that
\* publications have brought in the session; nor are its records returned beside theirs.
THEOREM PublicationsComeFirst == Spec => AmqsruacIsLastResort
<1>1. ASSUME IInv, [Next]_vars, mode = "fallback",
             NEW t \in (fresh' \ fresh) \cup (extra' \ extra)
      PROVE  t \in required /\ taken[t] = None
  <2>1. CASE Fallback
    <3>1. t \in Missing /\ pc = "fallback"
      BY <1>1, <2>1 DEF Fallback, IInv, TypeOK
    <3>2. QED
      BY <1>1, <3>1 DEF Missing, IInv, TypeOK, Newest
  <2>2. CASE ~Fallback
    <3>1. \/ UNCHANGED fresh /\ extra' \subseteq extra
          \/ \E u \in Topics : IntervalEnds(u)
      BY <1>1, <2>2
      DEF Next, PollStep, InquiryStep, InquireQueues, InquireOthers, InquiryFails,
          AdminStep, StreamStep, Environment, AttemptStarts, StartFails,
          AttemptFails, Raises, Reconnects, SessionDropped, AttemptEnds, GetMessage,
          QueueFails, NoMessage, GiveUp, PassOver, GetPublication, NextSubscription,
          StreamFails, StreamEnds, MeasureUncached, Return, OtherConsumer, Put, Publish,
          vars, fallbackVars
    <3>2. CASE UNCHANGED fresh /\ extra' \subseteq extra
      BY <1>1, <3>2
    <3>3. ASSUME NEW u \in Topics, IntervalEnds(u) PROVE FALSE
      BY <1>1, <3>3 DEF IntervalEnds
    <3>4. QED
      BY <3>1, <3>2, <3>3
  <2>3. QED
    BY <2>1, <2>2
<1>2. IInv /\ [Next]_vars
        => [mode = "fallback" =>
              \A t \in (fresh' \ fresh) \cup (extra' \ extra) :
                t \in required /\ taken[t] = None]_vars
  BY <1>1
<1>3. QED
  BY <1>2, Invariance, PTL DEF Spec, AmqsruacIsLastResort

\* Accounting, statistics and activity messages are lost only with the session.
THEOREM LossesDropTheSession == Spec => LossDropsSession
<1>1. ASSUME IInv, [Next]_vars, NEW q \in Strict, lost'[q] > lost[q]
      PROVE  connected /\ ~connected'
  <2>1. q \in Queues /\ lost[q] \in Nat /\ drained[q] \in Nat
    BY <1>1, MessageCollectionAssumption DEF Strict, Queues, IInv, TypeOK
  <2>2. CASE AttemptFails
    <3>1. lost'[q] = lost[q] + drained[q] /\ ~connected'
      BY <2>1, <2>2 DEF AttemptFails, Raises, Reconnects, SessionDropped
    <3>2. drained[q] # 0
      BY <1>1, <2>1, <3>1
    <3>3. QED
      BY <1>1, <2>1, <3>1, <3>2 DEF IInv, InHand
  <2>3. CASE ~AttemptFails
    <3>1. UNCHANGED lost \/ PassOver
      BY <1>1, <2>3
      DEF Next, PollStep, InquiryStep, InquireQueues, InquireOthers, InquiryFails,
          AdminStep, StreamStep, Environment, AttemptStarts, StartFails,
          AttemptFails, GetMessage, QueueFails, NoMessage, GiveUp, GetPublication,
          NextSubscription, StreamFails, StreamEnds, Fallback, MeasureUncached, Return,
          OtherConsumer, Put, Publish, IntervalEnds, vars, adminVars
    <3>2. lost'[q] = lost[q]
      BY <1>1, <2>1, <3>1 DEF PassOver, IInv, TypeOK
    <3>3. QED
      BY <1>1, <2>1, <3>2
  <2>4. QED
    BY <2>2, <2>3
<1>2. IInv /\ [Next]_vars
        => [\A q \in Strict : lost'[q] > lost[q] => connected /\ ~connected']_vars
  BY <1>1
<1>3. QED
  BY <1>2, Invariance, PTL DEF Spec, LossDropsSession

=============================================================================
