----------------------- MODULE CollectorSessionProofs -----------------------
(***************************************************************************)
(* Proofs about CollectorSession, for any number of queue managers, worker *)
(* threads, handles and faults.                                            *)
(***************************************************************************)
EXTENDS CollectorSession, TLAPS

-----------------------------------------------------------------------------
(* The inductive invariant.                                                *)

\* Which labels a thread may be at, and what it has in hand there.
Control ==
  /\ pc[Main] \in {"serving", "names", "closed"} \cup Releasing
  /\ \A q \in QMs : /\ pc[q] \notin {"serving", "names", "closed"}
                    /\ pc[q] \in Building \cup {"use"} => mine[q] # None
                    /\ pc[q] = "stream" => mine[q].stream = None
                    /\ pc[q] = "idle" <=> worker[q] = None
                    /\ \A r \in QMs \ {q} : worker[q] # None => worker[r] # worker[q]
  /\ \A t \in Threads : doomed[t] # None <=> pc[t] \in Releasing
  /\ \A t \in Threads : pc[t] = "drop_qmgr" =>
       \A h \in Handles : Owner[h] \in QMs /\ h \in HandlesOf(doomed[t]) =>
         link[h] = "none" \/ h = doomed[t].qmgr

\* What the table holds for a queue manager while its poll is at a label.
Table ==
  \A q \in QMs :
    /\ pc[q] \in Building \cup Releasing \cup {"connect"} => sessions[q] = None
    /\ pc[q] = "use" => sessions[q] = mine[q] \/ (sessions[q] = None /\ q \in late)

\* What close() may still come upon.
Closing ==
  /\ pc[Main] = "serving" => late = {}
  /\ pc[Main] # "serving" =>
       \A q \in QMs \ late : pc[q] = "idle" /\ (sessions[q] # None => q \in names)
  /\ pc[Main] = "closed" => names = {}

\* A shareable handle never comes to another queue manager's session.
Owned ==
  \A q \in QMs : \A h \in Handles :
    Owner[h] \in QMs /\ h \in HandlesOf(sessions[q]) \cup HandlesOf(mine[q])
                                \cup HandlesOf(doomed[q]) => Owner[h] = q

\* A shareable handle of a session that is in the table or being built is connected
\* and not being released; a released one is released by one thread.
Exclusive ==
  /\ \A q \in QMs : \A h \in Handles :
       /\ Owner[h] \in QMs
       /\ \/ h \in HandlesOf(sessions[q])
          \/ pc[q] \in Building /\ h \in HandlesOf(mine[q])
       => /\ link[h] # "none"
          /\ \A t \in Threads : h \notin HandlesOf(doomed[t])
  /\ \A t \in Threads : \A u \in Threads \ {t} : \A h \in Handles :
       Owner[h] \in QMs /\ h \in HandlesOf(doomed[t]) => h \notin HandlesOf(doomed[u])

\* How many sessions a poll has asked for when it is at a label.
Attempts ==
  \A q \in QMs :
    /\ tries[q] <= 2
    /\ pc[q] = "idle" => tries[q] = 0 /\ ~retried[q]
    /\ pc[q] = "lookup" => tries[q] = IF retried[q] THEN 1 ELSE 0
    /\ pc[q] \in Building \cup {"connect", "use"} =>
         tries[q] = IF retried[q] THEN 2 ELSE 1
    /\ again[q] => /\ pc[q] \in Releasing \cup {"pop"}
                   /\ tries[q] = 1 /\ retried[q]

\* HandlesAreHeld, handle by handle.
Held(h) ==
  \/ \E q \in QMs : h \in HandlesOf(sessions[q])
  \/ \E q \in QMs : pc[q] \in Building /\ h \in HandlesOf(mine[q])
  \/ \E t \in Threads : pc[t] \in Releasing /\ h \in HandlesOf(doomed[t])

AllHeld == \A h \in Handles : Owner[h] \in QMs /\ link[h] # "none" => Held(h)

IInv ==
  /\ TypeOK
  /\ Control
  /\ Table
  /\ Closing
  /\ Owned
  /\ Exclusive
  /\ Attempts
  /\ AllHeld
  /\ FailureDropsSession

-----------------------------------------------------------------------------
(* Handles.                                                                *)

\* The handles of a session, and of no session.
LEMMA SessionHandles ==
  /\ HandlesOf(None) = {}
  /\ \A s \in Session \cup {None} : HandlesOf(s) \subseteq Handles
  BY CollectorSessionAssumption DEF HandlesOf, Session

\* MQ answers a connect with an unused handle of the name or of the thread, or with
\* the one that the thread has already.
LEMMA AnswerIsOwn ==
  ASSUME NEW q \in QMs, worker[q] \in Workers, Answers(q) # {}
  PROVE  /\ Handle(q) \in Handles
         /\ IF link[Handle(q)] = "none"
            THEN Unused(Handle(q)) /\ (Owner[Handle(q)] = q \/ Owner[Handle(q)] \in Workers)
            ELSE Owner[Handle(q)] \in Workers
<1>1. Handle(q) \in Answers(q)
  BY DEF Handle
<1>2. QED
  BY <1>1 DEF Answers, Unused

-----------------------------------------------------------------------------
\* The initial state.
LEMMA InvInit == Init => IInv
  BY CollectorSessionAssumption, SessionHandles
  DEF Init, IInv, TypeOK, Control, Table, Closing, Owned, Exclusive, Attempts, AllHeld,
      FailureDropsSession, Threads, HandleStates, Labels, Building, Releasing

\* Every step of a poll, of close() and of the network keeps the invariant.
LEMMA InvStep == IInv /\ [Next]_vars => IInv'
<1> SUFFICES ASSUME IInv, [Next]_vars PROVE IInv'
  OBVIOUS
<1>1. /\ QMs \subseteq Threads /\ Main \in Threads /\ Main \notin QMs
      /\ None \notin Session /\ None \notin Workers /\ None \notin Handles
      /\ QMs \cap Workers = {} /\ Owner \in [Handles -> QMs \cup Workers]
      /\ (\A t \in Threads : t = Main \/ t \in QMs)
      /\ HandlesOf(None) = {}
  BY CollectorSessionAssumption, SessionHandles DEF Threads
<1> USE DEF IInv, Goto, handles, retry, HandleStates, Labels, Building, Releasing
<1>2. ASSUME NEW q \in QMs, PollStarts(q) PROVE IInv'
  <2>1. TypeOK'
    BY <1>1, <1>2 DEF PollStarts, TypeOK
  <2>2. Control'
    BY <1>1, <1>2 DEF PollStarts, TypeOK, Control
  <2>3. Table'
    BY <1>1, <1>2 DEF PollStarts, TypeOK, Control, Table
  <2>4. Closing'
    BY <1>1, <1>2 DEF PollStarts, TypeOK, Control, Table, Closing
  <2>5. Owned'
    BY <1>1, <1>2 DEF PollStarts, TypeOK, Control, Owned
  <2>6. Exclusive'
    BY <1>1, <1>2 DEF PollStarts, TypeOK, Control, Table, Owned, Exclusive
  <2>7. Attempts'
    BY <1>1, <1>2 DEF PollStarts, TypeOK, Control, Attempts
  <2>8. AllHeld'
    BY SMTT(30), <1>1, <1>2 DEF PollStarts, TypeOK, Control, Table, AllHeld, Held
  <2>9. FailureDropsSession'
    BY <1>1, <1>2 DEF PollStarts, TypeOK, Control, Table, FailureDropsSession
  <2>10. QED
    BY <2>1, <2>2, <2>3, <2>4, <2>5, <2>6, <2>7, <2>8, <2>9
<1>3. ASSUME NEW q \in QMs, Lookup(q) PROVE IInv'
  <2>1. TypeOK'
    BY <1>1, <1>3 DEF Lookup, TypeOK
  <2>2. Control'
    BY <1>1, <1>3 DEF Lookup, TypeOK, Control
  <2>3. Table'
    BY <1>1, <1>3 DEF Lookup, TypeOK, Control, Table
  <2>4. Closing'
    BY <1>1, <1>3 DEF Lookup, TypeOK, Control, Table, Closing
  <2>5. Owned'
    BY <1>1, <1>3 DEF Lookup, TypeOK, Control, Owned
  <2>6. Exclusive'
    BY <1>1, <1>3 DEF Lookup, TypeOK, Control, Table, Owned, Exclusive
  <2>7. Attempts'
    BY <1>1, <1>3 DEF Lookup, TypeOK, Control, Attempts
  <2>8. AllHeld'
    BY SMTT(30), <1>1, <1>3 DEF Lookup, TypeOK, Control, Table, AllHeld, Held
  <2>9. FailureDropsSession'
    BY <1>1, <1>3 DEF Lookup, TypeOK, Control, Table, FailureDropsSession
  <2>10. QED
    BY <2>1, <2>2, <2>3, <2>4, <2>5, <2>6, <2>7, <2>8, <2>9
<1>4. ASSUME NEW q \in QMs, Connect(q) PROVE IInv'
  <2> DEFINE h == Handle(q)
  <2>a. /\ h \in Handles
        /\ IF link[h] = "none"
           THEN Unused(h) /\ (Owner[h] = q \/ Owner[h] \in Workers)
           ELSE Owner[h] \in Workers
    BY <1>4, <1>1, AnswerIsOwn DEF Connect, IInv, TypeOK, Control
  <2>b. /\ pc[q] = "connect"
        /\ link' = [link EXCEPT ![h] = IF @ = "none" THEN "open" ELSE @]
        /\ mine' = [mine EXCEPT ![q] = [qmgr |-> h, stream |-> None]]
        /\ pc' = [pc EXCEPT ![q] = IF q \in StreamQMs THEN "stream" ELSE "install"]
        /\ UNCHANGED <<local, sessions, worker, retry, doomed, names, result, late, faults>>
    BY <1>4 DEF Connect, Linked
  <2> HIDE DEF h
  <2>c. mine'[q] \in Session /\ h # None /\ mine'[q] # None
        /\ (pc'[q] = "stream" => mine'[q].stream = None)
    BY <1>1, <2>a, <2>b DEF TypeOK, Control, Session
  <2>d. HandlesOf(mine'[q]) = {h}
    BY <1>1, <2>a, <2>b, <2>c DEF HandlesOf, TypeOK
  <2>1. TypeOK'
    BY <1>1, <2>a, <2>b, <2>c, <2>d DEF Unused, TypeOK
  <2>2. Control'
    BY <1>1, <2>a, <2>b, <2>c, <2>d DEF Unused, TypeOK, Control
  <2>3. Table'
    BY <1>1, <2>a, <2>b, <2>c, <2>d DEF Unused, TypeOK, Control, Table
  <2>4. Closing'
    BY <1>1, <2>a, <2>b, <2>c, <2>d DEF Unused, TypeOK, Control, Table, Closing
  <2>5. Owned'
    BY <1>1, <2>a, <2>b, <2>c, <2>d DEF Unused, TypeOK, Control, Owned
  <2>6. Exclusive'
    BY <1>1, <2>a, <2>b, <2>c, <2>d DEF Unused, TypeOK, Control, Table, Owned,
       Exclusive
  <2>7. Attempts'
    BY <1>1, <2>a, <2>b, <2>c, <2>d DEF Unused, TypeOK, Control, Attempts
  <2>8. AllHeld'
    <3>1. SUFFICES ASSUME NEW g \in Handles, Owner[g] \in QMs, link'[g] # "none"
                   PROVE  Held(g)'
      BY DEF AllHeld
    <3>2. CASE g = h
      BY <1>1, <2>a, <2>b, <2>c, <2>d, <3>1, <3>2 DEF Unused, TypeOK, Held
    <3>3. CASE g # h
      <4>1. CASE \E r \in QMs : g \in HandlesOf(sessions[r])
        BY <1>1, <2>a, <2>b, <2>c, <2>d, <3>1, <3>3, <4>1 DEF Unused, TypeOK,
           Control, Held
      <4>2. CASE \E r \in QMs : pc[r] \in Building /\ g \in HandlesOf(mine[r])
        BY <1>1, <2>a, <2>b, <2>c, <2>d, <3>1, <3>3, <4>2 DEF Unused, TypeOK,
           Control, Held
      <4>3. CASE \E t \in Threads : pc[t] \in Releasing /\ g \in HandlesOf(doomed[t])
        BY <1>1, <2>a, <2>b, <2>c, <2>d, <3>1, <3>3, <4>3 DEF Unused, TypeOK,
           Control, Held
      <4>4. QED
        BY <1>1, <2>a, <2>b, <2>c, <2>d, <3>1, <3>3, <4>1, <4>2, <4>3
           DEF Unused, TypeOK, AllHeld, Held
    <3>4. QED
      BY <3>2, <3>3
  <2>9. FailureDropsSession'
    BY <1>1, <2>a, <2>b, <2>c, <2>d DEF Unused, TypeOK, Control, Table,
       FailureDropsSession
  <2>10. QED
    BY <2>1, <2>2, <2>3, <2>4, <2>5, <2>6, <2>7, <2>8, <2>9
<1>5. ASSUME NEW q \in QMs, ConnectFails(q) PROVE IInv'
  <2>1. TypeOK'
    BY <1>1, <1>5 DEF ConnectFails, PollEnds, FaultHappens, TypeOK
  <2>2. Control'
    BY <1>1, <1>5 DEF ConnectFails, PollEnds, FaultHappens, TypeOK, Control
  <2>3. Table'
    BY <1>1, <1>5 DEF ConnectFails, PollEnds, FaultHappens, TypeOK, Control, Table
  <2>4. Closing'
    BY <1>1, <1>5 DEF ConnectFails, PollEnds, FaultHappens, TypeOK, Control, Table,
       Closing
  <2>5. Owned'
    BY <1>1, <1>5 DEF ConnectFails, PollEnds, FaultHappens, TypeOK, Control, Owned
  <2>6. Exclusive'
    BY <1>1, <1>5 DEF ConnectFails, PollEnds, FaultHappens, TypeOK, Control, Table,
       Owned, Exclusive
  <2>7. Attempts'
    BY <1>1, <1>5 DEF ConnectFails, PollEnds, FaultHappens, TypeOK, Control, Attempts
  <2>8. AllHeld'
    BY SMTT(30), <1>1, <1>5 DEF ConnectFails, PollEnds, FaultHappens, TypeOK, Control, Table,
       AllHeld, Held
  <2>9. FailureDropsSession'
    BY <1>1, <1>5 DEF ConnectFails, PollEnds, FaultHappens, TypeOK, Control, Table,
       FailureDropsSession
  <2>10. QED
    BY <2>1, <2>2, <2>3, <2>4, <2>5, <2>6, <2>7, <2>8, <2>9
<1>6. ASSUME NEW q \in QMs, ConnectStream(q) PROVE IInv'
  <2> DEFINE h == Handle(q)
  <2>a. /\ h \in Handles
        /\ IF link[h] = "none"
           THEN Unused(h) /\ (Owner[h] = q \/ Owner[h] \in Workers)
           ELSE Owner[h] \in Workers
    BY <1>6, <1>1, AnswerIsOwn DEF ConnectStream, IInv, TypeOK, Control
  <2>b. /\ pc[q] = "stream"
        /\ link' = [link EXCEPT ![h] = IF @ = "none" THEN "open" ELSE @]
        /\ mine' = [mine EXCEPT ![q] = [qmgr |-> mine[q].qmgr, stream |-> h]]
        /\ pc' = [pc EXCEPT ![q] = "subscribe"]
        /\ UNCHANGED <<local, sessions, worker, retry, doomed, names, result, late, faults>>
    BY <1>6 DEF ConnectStream, Linked
  <2> HIDE DEF h
  <2>c. mine'[q] \in Session /\ h # None /\ mine'[q] # None
        /\ (pc'[q] = "stream" => mine'[q].stream = None)
    BY <1>1, <2>a, <2>b DEF TypeOK, Control, Session
  <2>d. HandlesOf(mine'[q]) = HandlesOf(mine[q]) \cup {h}
    BY <1>1, <2>a, <2>b, <2>c DEF HandlesOf, TypeOK, Control
  <2>1. TypeOK'
    BY <1>1, <2>a, <2>b, <2>c, <2>d DEF Unused, TypeOK
  <2>2. Control'
    BY <1>1, <2>a, <2>b, <2>c, <2>d DEF Unused, TypeOK, Control
  <2>3. Table'
    BY <1>1, <2>a, <2>b, <2>c, <2>d DEF Unused, TypeOK, Control, Table
  <2>4. Closing'
    BY <1>1, <2>a, <2>b, <2>c, <2>d DEF Unused, TypeOK, Control, Table, Closing
  <2>5. Owned'
    BY <1>1, <2>a, <2>b, <2>c, <2>d DEF Unused, TypeOK, Control, Owned
  <2>6. Exclusive'
    BY <1>1, <2>a, <2>b, <2>c, <2>d DEF Unused, TypeOK, Control, Table, Owned,
       Exclusive
  <2>7. Attempts'
    BY <1>1, <2>a, <2>b, <2>c, <2>d DEF Unused, TypeOK, Control, Attempts
  <2>8. AllHeld'
    <3>1. SUFFICES ASSUME NEW g \in Handles, Owner[g] \in QMs, link'[g] # "none"
                   PROVE  Held(g)'
      BY DEF AllHeld
    <3>2. CASE g = h
      BY <1>1, <2>a, <2>b, <2>c, <2>d, <3>1, <3>2 DEF Unused, TypeOK, Held
    <3>3. CASE g # h
      <4>1. CASE \E r \in QMs : g \in HandlesOf(sessions[r])
        BY <1>1, <2>a, <2>b, <2>c, <2>d, <3>1, <3>3, <4>1 DEF Unused, TypeOK,
           Control, Held
      <4>2. CASE \E r \in QMs : pc[r] \in Building /\ g \in HandlesOf(mine[r])
        BY <1>1, <2>a, <2>b, <2>c, <2>d, <3>1, <3>3, <4>2 DEF Unused, TypeOK,
           Control, Held
      <4>3. CASE \E t \in Threads : pc[t] \in Releasing /\ g \in HandlesOf(doomed[t])
        BY <1>1, <2>a, <2>b, <2>c, <2>d, <3>1, <3>3, <4>3 DEF Unused, TypeOK,
           Control, Held
      <4>4. QED
        BY <1>1, <2>a, <2>b, <2>c, <2>d, <3>1, <3>3, <4>1, <4>2, <4>3
           DEF Unused, TypeOK, AllHeld, Held
    <3>4. QED
      BY <3>2, <3>3
  <2>9. FailureDropsSession'
    BY <1>1, <2>a, <2>b, <2>c, <2>d DEF Unused, TypeOK, Control, Table,
       FailureDropsSession
  <2>10. QED
    BY <2>1, <2>2, <2>3, <2>4, <2>5, <2>6, <2>7, <2>8, <2>9
<1>7. ASSUME NEW q \in QMs, Subscribe(q) PROVE IInv'
  <2>1. TypeOK'
    BY <1>1, <1>7 DEF Subscribe, TypeOK
  <2>2. Control'
    BY <1>1, <1>7 DEF Subscribe, TypeOK, Control
  <2>3. Table'
    BY <1>1, <1>7 DEF Subscribe, TypeOK, Control, Table
  <2>4. Closing'
    BY <1>1, <1>7 DEF Subscribe, TypeOK, Control, Table, Closing
  <2>5. Owned'
    BY <1>1, <1>7 DEF Subscribe, TypeOK, Control, Owned
  <2>6. Exclusive'
    BY <1>1, <1>7 DEF Subscribe, TypeOK, Control, Table, Owned, Exclusive
  <2>7. Attempts'
    BY <1>1, <1>7 DEF Subscribe, TypeOK, Control, Attempts
  <2>8. AllHeld'
    BY SMTT(30), <1>1, <1>7 DEF Subscribe, TypeOK, Control, Table, AllHeld, Held
  <2>9. FailureDropsSession'
    BY <1>1, <1>7 DEF Subscribe, TypeOK, Control, Table, FailureDropsSession
  <2>10. QED
    BY <2>1, <2>2, <2>3, <2>4, <2>5, <2>6, <2>7, <2>8, <2>9
<1>8. ASSUME NEW q \in QMs, BuildFails(q) PROVE IInv'
  <2>1. TypeOK'
    BY <1>1, <1>8 DEF BuildFails, BuildFaults, FaultHappens, TypeOK
  <2>2. Control'
    BY <1>1, <1>8 DEF BuildFails, BuildFaults, FaultHappens, TypeOK, Control
  <2>3. Table'
    BY <1>1, <1>8 DEF BuildFails, BuildFaults, FaultHappens, TypeOK, Control, Table
  <2>4. Closing'
    BY <1>1, <1>8 DEF BuildFails, BuildFaults, FaultHappens, TypeOK, Control, Table,
       Closing
  <2>5. Owned'
    BY <1>1, <1>8 DEF BuildFails, BuildFaults, FaultHappens, TypeOK, Control, Owned
  <2>6. Exclusive'
    BY <1>1, <1>8 DEF BuildFails, BuildFaults, FaultHappens, TypeOK, Control, Table,
       Owned, Exclusive
  <2>7. Attempts'
    BY <1>1, <1>8 DEF BuildFails, BuildFaults, FaultHappens, TypeOK, Control, Attempts
  <2>8. AllHeld'
    BY SMTT(30), <1>1, <1>8 DEF BuildFails, BuildFaults, FaultHappens, TypeOK, Control, Table,
       AllHeld, Held
  <2>9. FailureDropsSession'
    BY <1>1, <1>8 DEF BuildFails, BuildFaults, FaultHappens, TypeOK, Control, Table,
       FailureDropsSession
  <2>10. QED
    BY <2>1, <2>2, <2>3, <2>4, <2>5, <2>6, <2>7, <2>8, <2>9
<1>9. ASSUME NEW q \in QMs, Install(q) PROVE IInv'
  <2>1. TypeOK'
    BY <1>1, <1>9 DEF Install, TypeOK
  <2>2. Control'
    BY <1>1, <1>9 DEF Install, TypeOK, Control
  <2>3. Table'
    BY <1>1, <1>9 DEF Install, TypeOK, Control, Table
  <2>4. Closing'
    BY <1>1, <1>9 DEF Install, TypeOK, Control, Table, Closing
  <2>5. Owned'
    BY <1>1, <1>9 DEF Install, TypeOK, Control, Owned
  <2>6. Exclusive'
    BY <1>1, <1>9 DEF Install, TypeOK, Control, Table, Owned, Exclusive
  <2>7. Attempts'
    BY <1>1, <1>9 DEF Install, TypeOK, Control, Attempts
  <2>8. AllHeld'
    BY SMTT(30), <1>1, <1>9 DEF Install, TypeOK, Control, Table, AllHeld, Held
  <2>9. FailureDropsSession'
    BY <1>1, <1>9 DEF Install, TypeOK, Control, Table, FailureDropsSession
  <2>10. QED
    BY <2>1, <2>2, <2>3, <2>4, <2>5, <2>6, <2>7, <2>8, <2>9
<1>10. ASSUME NEW q \in QMs, UseSucceeds(q) PROVE IInv'
  <2>1. TypeOK'
    BY <1>1, <1>10 DEF UseSucceeds, PollEnds, TypeOK
  <2>2. Control'
    BY <1>1, <1>10 DEF UseSucceeds, PollEnds, TypeOK, Control
  <2>3. Table'
    BY <1>1, <1>10 DEF UseSucceeds, PollEnds, TypeOK, Control, Table
  <2>4. Closing'
    BY <1>1, <1>10 DEF UseSucceeds, PollEnds, TypeOK, Control, Table, Closing
  <2>5. Owned'
    BY <1>1, <1>10 DEF UseSucceeds, PollEnds, TypeOK, Control, Owned
  <2>6. Exclusive'
    BY <1>1, <1>10 DEF UseSucceeds, PollEnds, TypeOK, Control, Table, Owned, Exclusive
  <2>7. Attempts'
    BY <1>1, <1>10 DEF UseSucceeds, PollEnds, TypeOK, Control, Attempts
  <2>8. AllHeld'
    BY SMTT(30), <1>1, <1>10 DEF UseSucceeds, PollEnds, TypeOK, Control, Table, AllHeld, Held
  <2>9. FailureDropsSession'
    BY <1>1, <1>10 DEF UseSucceeds, PollEnds, TypeOK, Control, Table,
       FailureDropsSession
  <2>10. QED
    BY <2>1, <2>2, <2>3, <2>4, <2>5, <2>6, <2>7, <2>8, <2>9
<1>11. ASSUME NEW q \in QMs, UseBroken(q) PROVE IInv'
  <2>1. TypeOK'
    BY <1>1, <1>11 DEF UseBroken, TypeOK
  <2>2. Control'
    BY <1>1, <1>11 DEF UseBroken, TypeOK, Control
  <2>3. Table'
    BY <1>1, <1>11 DEF UseBroken, TypeOK, Control, Table
  <2>4. Closing'
    BY <1>1, <1>11 DEF UseBroken, TypeOK, Control, Table, Closing
  <2>5. Owned'
    BY <1>1, <1>11 DEF UseBroken, TypeOK, Control, Owned
  <2>6. Exclusive'
    BY <1>1, <1>11 DEF UseBroken, TypeOK, Control, Table, Owned, Exclusive
  <2>7. Attempts'
    BY <1>1, <1>11 DEF UseBroken, TypeOK, Control, Attempts
  <2>8. AllHeld'
    BY SMTT(30), <1>1, <1>11 DEF UseBroken, TypeOK, Control, Table, AllHeld, Held
  <2>9. FailureDropsSession'
    BY <1>1, <1>11 DEF UseBroken, TypeOK, Control, Table, FailureDropsSession
  <2>10. QED
    BY <2>1, <2>2, <2>3, <2>4, <2>5, <2>6, <2>7, <2>8, <2>9
<1>12. ASSUME NEW q \in QMs, UseFails(q) PROVE IInv'
  <2>1. TypeOK'
    BY <1>1, <1>12 DEF UseFails, FaultHappens, TypeOK
  <2>2. Control'
    BY <1>1, <1>12 DEF UseFails, FaultHappens, TypeOK, Control
  <2>3. Table'
    BY <1>1, <1>12 DEF UseFails, FaultHappens, TypeOK, Control, Table
  <2>4. Closing'
    BY <1>1, <1>12 DEF UseFails, FaultHappens, TypeOK, Control, Table, Closing
  <2>5. Owned'
    BY <1>1, <1>12 DEF UseFails, FaultHappens, TypeOK, Control, Owned
  <2>6. Exclusive'
    BY <1>1, <1>12 DEF UseFails, FaultHappens, TypeOK, Control, Table, Owned,
       Exclusive
  <2>7. Attempts'
    BY <1>1, <1>12 DEF UseFails, FaultHappens, TypeOK, Control, Attempts
  <2>8. AllHeld'
    BY SMTT(30), <1>1, <1>12 DEF UseFails, FaultHappens, TypeOK, Control, Table, AllHeld, Held
  <2>9. FailureDropsSession'
    BY <1>1, <1>12 DEF UseFails, FaultHappens, TypeOK, Control, Table,
       FailureDropsSession
  <2>10. QED
    BY <2>1, <2>2, <2>3, <2>4, <2>5, <2>6, <2>7, <2>8, <2>9
<1>13. ASSUME NEW q \in QMs, Pop(q) PROVE IInv'
  <2>1. CASE sessions[q] # None
    <3>a. /\ pc[q] = "pop" /\ q \in Threads
        /\ sessions' = [sessions EXCEPT ![q] = None]
        /\ doomed' = [doomed EXCEPT ![q] = sessions[q]]
        /\ pc' = [pc EXCEPT ![q] = "drop_stream"]
        /\ UNCHANGED <<handles, worker, mine, retry, result, names, late, faults>>
      BY <1>1, <1>13, <2>1 DEF Pop, ReleaseOrContinue, Continue, PollEnds, TypeOK
    <3>1. TypeOK'
      BY <1>1, <2>1, <3>a DEF TypeOK
    <3>2. Control'
      BY <1>1, <2>1, <3>a DEF TypeOK, Control
    <3>3. Table'
      BY <1>1, <2>1, <3>a DEF TypeOK, Control, Table
    <3>4. Closing'
      BY <1>1, <2>1, <3>a DEF TypeOK, Control, Table, Closing
    <3>5. Owned'
      BY <1>1, <2>1, <3>a DEF TypeOK, Control, Owned
    <3>6. Exclusive'
      BY <1>1, <2>1, <3>a DEF TypeOK, Control, Table, Owned, Exclusive
    <3>7. Attempts'
      BY <1>1, <2>1, <3>a DEF TypeOK, Control, Attempts
    <3>8. AllHeld'
      BY SMTT(30), <1>1, <2>1, <3>a DEF TypeOK, Control, Table, AllHeld, Held
    <3>9. FailureDropsSession'
      BY <1>1, <2>1, <3>a DEF TypeOK, Control, Table, FailureDropsSession
    <3>10. QED
      BY <3>1, <3>2, <3>3, <3>4, <3>5, <3>6, <3>7, <3>8, <3>9
  <2>2. CASE sessions[q] = None /\ again[q]
    <3>a. /\ pc[q] = "pop" /\ q \in Threads /\ UNCHANGED sessions
        /\ again' = [again EXCEPT ![q] = FALSE]
        /\ pc' = [pc EXCEPT ![q] = "lookup"] /\ mine' = [mine EXCEPT ![q] = None]
        /\ UNCHANGED <<worker, retried, tries, result>>
        /\ UNCHANGED <<handles, doomed, names, late, faults>>
      BY <1>1, <1>13, <2>2 DEF Pop, ReleaseOrContinue, Continue, PollEnds, TypeOK
    <3>1. TypeOK'
      BY <1>1, <2>2, <3>a DEF TypeOK
    <3>2. Control'
      BY <1>1, <2>2, <3>a DEF TypeOK, Control
    <3>3. Table'
      BY <1>1, <2>2, <3>a DEF TypeOK, Control, Table
    <3>4. Closing'
      BY <1>1, <2>2, <3>a DEF TypeOK, Control, Table, Closing
    <3>5. Owned'
      BY <1>1, <2>2, <3>a DEF TypeOK, Control, Owned
    <3>6. Exclusive'
      BY <1>1, <2>2, <3>a DEF TypeOK, Control, Table, Owned, Exclusive
    <3>7. Attempts'
      BY <1>1, <2>2, <3>a DEF TypeOK, Control, Attempts
    <3>8. AllHeld'
      BY SMTT(30), <1>1, <2>2, <3>a DEF TypeOK, Control, Table, AllHeld, Held
    <3>9. FailureDropsSession'
      BY <1>1, <2>2, <3>a DEF TypeOK, Control, Table, FailureDropsSession
    <3>10. QED
      BY <3>1, <3>2, <3>3, <3>4, <3>5, <3>6, <3>7, <3>8, <3>9
  <2>3. CASE sessions[q] = None /\ ~again[q]
    <3>a. /\ pc[q] = "pop" /\ q \in Threads /\ UNCHANGED sessions
        /\ again' = [again EXCEPT ![q] = FALSE]
        /\ pc' = [pc EXCEPT ![q] = "idle"] /\ mine' = [mine EXCEPT ![q] = None]
        /\ worker' = [worker EXCEPT ![q] = None]
        /\ retried' = [retried EXCEPT ![q] = FALSE] /\ tries' = [tries EXCEPT ![q] = 0]
        /\ result' = [result EXCEPT ![q] = "failed"]
        /\ UNCHANGED <<handles, doomed, names, late, faults>>
      BY <1>1, <1>13, <2>3 DEF Pop, ReleaseOrContinue, Continue, PollEnds, TypeOK
    <3>1. TypeOK'
      BY <1>1, <2>3, <3>a DEF TypeOK
    <3>2. Control'
      BY <1>1, <2>3, <3>a DEF TypeOK, Control
    <3>3. Table'
      BY <1>1, <2>3, <3>a DEF TypeOK, Control, Table
    <3>4. Closing'
      BY <1>1, <2>3, <3>a DEF TypeOK, Control, Table, Closing
    <3>5. Owned'
      BY <1>1, <2>3, <3>a DEF TypeOK, Control, Owned
    <3>6. Exclusive'
      BY <1>1, <2>3, <3>a DEF TypeOK, Control, Table, Owned, Exclusive
    <3>7. Attempts'
      BY <1>1, <2>3, <3>a DEF TypeOK, Control, Attempts
    <3>8. AllHeld'
        <4>1. SUFFICES ASSUME NEW g \in Handles, Owner[g] \in QMs, link'[g] # "none"
                       PROVE  Held(g)'
          BY DEF AllHeld
        <4>2. CASE \E r \in QMs : g \in HandlesOf(sessions[r])
          BY <1>1, <2>3, <3>a, <4>1, <4>2 DEF TypeOK, Control, Held
        <4>3. CASE \E r \in QMs : pc[r] \in Building /\ g \in HandlesOf(mine[r])
          BY <1>1, <2>3, <3>a, <4>1, <4>3 DEF TypeOK, Control, Held
        <4>4. CASE \E u \in Threads : pc[u] \in Releasing /\ g \in HandlesOf(doomed[u])
          BY <1>1, <2>3, <3>a, <4>1, <4>4 DEF TypeOK, Control, Held
        <4>5. QED
          BY <1>1, <2>3, <3>a, <4>1, <4>2, <4>3, <4>4 DEF TypeOK, AllHeld, Held
    <3>9. FailureDropsSession'
      BY <1>1, <2>3, <3>a DEF TypeOK, Control, Table, FailureDropsSession
    <3>10. QED
      BY <3>1, <3>2, <3>3, <3>4, <3>5, <3>6, <3>7, <3>8, <3>9
  <2>4. QED
    BY <1>1, <2>1, <2>2, <2>3
<1>14. CASE Close
  <2>1. TypeOK'
    BY <1>1, <1>14 DEF Close, TypeOK
  <2>2. Control'
    BY <1>1, <1>14 DEF Close, TypeOK, Control
  <2>3. Table'
    BY <1>1, <1>14 DEF Close, TypeOK, Control, Table
  <2>4. Closing'
    BY <1>1, <1>14 DEF Close, TypeOK, Control, Table, Closing
  <2>5. Owned'
    BY <1>1, <1>14 DEF Close, TypeOK, Control, Owned
  <2>6. Exclusive'
    BY <1>1, <1>14 DEF Close, TypeOK, Control, Table, Owned, Exclusive
  <2>7. Attempts'
    BY <1>1, <1>14 DEF Close, TypeOK, Control, Attempts
  <2>8. AllHeld'
    BY SMTT(30), <1>1, <1>14 DEF Close, TypeOK, Control, Table, AllHeld, Held
  <2>9. FailureDropsSession'
    BY <1>1, <1>14 DEF Close, TypeOK, Control, Table, FailureDropsSession
  <2>10. QED
    BY <2>1, <2>2, <2>3, <2>4, <2>5, <2>6, <2>7, <2>8, <2>9
<1>15. ASSUME NEW q \in QMs, CloseName(q) PROVE IInv'
  <2>1. CASE sessions[q] # None
    <3>a. /\ pc[Main] = "names" /\ q \in names /\ names' = names \ {q}
        /\ sessions' = [sessions EXCEPT ![q] = None]
        /\ doomed' = [doomed EXCEPT ![Main] = sessions[q]]
        /\ pc' = [pc EXCEPT ![Main] = "drop_stream"]
        /\ UNCHANGED <<handles, worker, mine, retry, result, late, faults>>
      BY <1>1, <1>15, <2>1 DEF CloseName, TypeOK
    <3>1. TypeOK'
      BY <1>1, <2>1, <3>a DEF TypeOK
    <3>2. Control'
      BY <1>1, <2>1, <3>a DEF TypeOK, Control
    <3>3. Table'
      BY <1>1, <2>1, <3>a DEF TypeOK, Control, Table, Closing
    <3>4. Closing'
      BY <1>1, <2>1, <3>a DEF TypeOK, Control, Table, Closing
    <3>5. Owned'
      BY <1>1, <2>1, <3>a DEF TypeOK, Control, Owned
    <3>6. Exclusive'
      BY <1>1, <2>1, <3>a DEF TypeOK, Control, Table, Owned, Exclusive
    <3>7. Attempts'
      BY <1>1, <2>1, <3>a DEF TypeOK, Control, Attempts
    <3>8. AllHeld'
      BY SMTT(30), <1>1, <2>1, <3>a DEF TypeOK, Control, Table, AllHeld, Held
    <3>9. FailureDropsSession'
      BY <1>1, <2>1, <3>a DEF TypeOK, Control, Table, FailureDropsSession
    <3>10. QED
      BY <3>1, <3>2, <3>3, <3>4, <3>5, <3>6, <3>7, <3>8, <3>9
  <2>2. CASE sessions[q] = None
    <3>a. /\ pc[Main] = "names" /\ q \in names /\ names' = names \ {q}
        /\ UNCHANGED <<sessions, doomed, pc, handles, worker, mine, retry, result, late, faults>>
      BY <1>1, <1>15, <2>2 DEF CloseName, TypeOK
    <3>1. TypeOK'
      BY <1>1, <2>2, <3>a DEF TypeOK
    <3>2. Control'
      BY <1>1, <2>2, <3>a DEF TypeOK, Control
    <3>3. Table'
      BY <1>1, <2>2, <3>a DEF TypeOK, Control, Table, Closing
    <3>4. Closing'
      BY <1>1, <2>2, <3>a DEF TypeOK, Control, Table, Closing
    <3>5. Owned'
      BY <1>1, <2>2, <3>a DEF TypeOK, Control, Owned
    <3>6. Exclusive'
      BY <1>1, <2>2, <3>a DEF TypeOK, Control, Table, Owned, Exclusive
    <3>7. Attempts'
      BY <1>1, <2>2, <3>a DEF TypeOK, Control, Attempts
    <3>8. AllHeld'
      BY SMTT(30), <1>1, <2>2, <3>a DEF TypeOK, Control, Table, AllHeld, Held
    <3>9. FailureDropsSession'
      BY <1>1, <2>2, <3>a DEF TypeOK, Control, Table, FailureDropsSession
    <3>10. QED
      BY <3>1, <3>2, <3>3, <3>4, <3>5, <3>6, <3>7, <3>8, <3>9
  <2>3. QED
    BY <1>1, <2>1, <2>2
<1>16. CASE CloseReturns
  <2>1. TypeOK'
    BY <1>1, <1>16 DEF CloseReturns, TypeOK
  <2>2. Control'
    BY <1>1, <1>16 DEF CloseReturns, TypeOK, Control
  <2>3. Table'
    BY <1>1, <1>16 DEF CloseReturns, TypeOK, Control, Table
  <2>4. Closing'
    BY <1>1, <1>16 DEF CloseReturns, TypeOK, Control, Table, Closing
  <2>5. Owned'
    BY <1>1, <1>16 DEF CloseReturns, TypeOK, Control, Owned
  <2>6. Exclusive'
    BY <1>1, <1>16 DEF CloseReturns, TypeOK, Control, Table, Owned, Exclusive
  <2>7. Attempts'
    BY <1>1, <1>16 DEF CloseReturns, TypeOK, Control, Attempts
  <2>8. AllHeld'
    BY SMTT(30), <1>1, <1>16 DEF CloseReturns, TypeOK, Control, Table, AllHeld, Held
  <2>9. FailureDropsSession'
    BY <1>1, <1>16 DEF CloseReturns, TypeOK, Control, Table, FailureDropsSession
  <2>10. QED
    BY <2>1, <2>2, <2>3, <2>4, <2>5, <2>6, <2>7, <2>8, <2>9
<1>17. ASSUME NEW t \in Threads, DropStream(t) PROVE IInv'
  <2>a. /\ doomed[t] \in Session /\ pc[t] = "drop_stream" /\ pc' = [pc EXCEPT ![t] = "drop_qmgr"]
        /\ UNCHANGED <<local, sessions, worker, mine, retry, doomed, names, result, late, faults>>
    BY <1>17, <1>1 DEF DropStream, TypeOK, Control
  <2>b. /\ link' \in [Handles -> HandleStates]
        /\ \A h \in Handles : link'[h] # link[h] =>
             link'[h] = "none" /\ h = doomed[t].stream /\ h \in HandlesOf(doomed[t])
        /\ \A h \in Handles : Owner[h] \in QMs /\ h \in HandlesOf(doomed[t]) =>
             link'[h] = "none" \/ h = doomed[t].qmgr
    BY <1>17, <1>1, <2>a DEF DropStream, Disconnect, Reaches, TypeOK, HandlesOf, Session
  <2>1. TypeOK'
    BY <1>1, <2>a, <2>b DEF TypeOK
  <2>2. Control'
    BY <1>1, <2>a, <2>b DEF TypeOK, Control
  <2>3. Table'
    BY <1>1, <2>a, <2>b DEF TypeOK, Control, Table
  <2>4. Closing'
    BY <1>1, <2>a, <2>b DEF TypeOK, Control, Table, Closing
  <2>5. Owned'
    BY <1>1, <2>a, <2>b DEF TypeOK, Control, Owned
  <2>6. Exclusive'
    BY <1>1, <2>a, <2>b DEF TypeOK, Control, Table, Owned, Exclusive
  <2>7. Attempts'
    BY <1>1, <2>a, <2>b DEF TypeOK, Control, Attempts
  <2>8. AllHeld'
    BY SMTT(30), <1>1, <2>a, <2>b DEF TypeOK, Control, Table, AllHeld, Held
  <2>9. FailureDropsSession'
    BY <1>1, <2>a, <2>b DEF TypeOK, Control, Table, FailureDropsSession
  <2>10. QED
    BY <2>1, <2>2, <2>3, <2>4, <2>5, <2>6, <2>7, <2>8, <2>9
<1>18. ASSUME NEW t \in Threads, DropQmgr(t) PROVE IInv'
  <2>a. /\ doomed[t] \in Session /\ doomed[t].qmgr \in Handles
        /\ \A h \in HandlesOf(doomed[t]) : h = doomed[t].qmgr \/ (h = doomed[t].stream /\ h # None)
    BY <1>18, <1>1 DEF DropQmgr, TypeOK, Control, Session, HandlesOf
  <2>b. /\ link' \in [Handles -> HandleStates]
        /\ \A h \in Handles : link'[h] # link[h] =>
             link'[h] = "none" /\ h = doomed[t].qmgr /\ h \in HandlesOf(doomed[t])
        /\ Owner[doomed[t].qmgr] \in QMs => link'[doomed[t].qmgr] = "none"
    BY <1>18, <1>1, <2>a DEF DropQmgr, Disconnect, Reaches, TypeOK, HandlesOf
  <2>1. CASE t = Main
    <3>a. /\ pc[Main] = "drop_qmgr" /\ doomed' = [doomed EXCEPT ![Main] = None]
        /\ pc' = [pc EXCEPT ![Main] = "names"]
        /\ UNCHANGED <<local, sessions, worker, mine, retry, result, names, late, faults>>
      BY <1>1, <1>18, <2>1 DEF DropQmgr, Continue, PollEnds, TypeOK
    <3>1. TypeOK'
      BY <1>1, <2>a, <2>b, <2>1, <3>a DEF TypeOK
    <3>2. Control'
      BY <1>1, <2>a, <2>b, <2>1, <3>a DEF TypeOK, Control
    <3>3. Table'
      BY <1>1, <2>a, <2>b, <2>1, <3>a DEF TypeOK, Control, Table
    <3>4. Closing'
      BY <1>1, <2>a, <2>b, <2>1, <3>a DEF TypeOK, Control, Table, Closing
    <3>5. Owned'
      BY <1>1, <2>a, <2>b, <2>1, <3>a DEF TypeOK, Control, Owned
    <3>6. Exclusive'
      BY <1>1, <2>a, <2>b, <2>1, <3>a DEF TypeOK, Control, Table, Owned, Exclusive
    <3>7. Attempts'
      BY <1>1, <2>a, <2>b, <2>1, <3>a DEF TypeOK, Control, Attempts
    <3>8. AllHeld'
      BY SMTT(30), <1>1, <2>a, <2>b, <2>1, <3>a DEF TypeOK, Control, Table, AllHeld, Held
    <3>9. FailureDropsSession'
      BY <1>1, <2>a, <2>b, <2>1, <3>a DEF TypeOK, Control, Table, FailureDropsSession
    <3>10. QED
      BY <3>1, <3>2, <3>3, <3>4, <3>5, <3>6, <3>7, <3>8, <3>9
  <2>2. CASE t # Main /\ again[t]
    <3>a. /\ pc[t] = "drop_qmgr" /\ t \in QMs /\ doomed' = [doomed EXCEPT ![t] = None]
        /\ again' = [again EXCEPT ![t] = FALSE]
        /\ pc' = [pc EXCEPT ![t] = "lookup"] /\ mine' = [mine EXCEPT ![t] = None]
        /\ UNCHANGED <<worker, retried, tries, result>>
        /\ UNCHANGED <<local, sessions, names, late, faults>>
      BY <1>1, <1>18, <2>2 DEF DropQmgr, Continue, PollEnds, TypeOK
    <3>1. TypeOK'
      BY <1>1, <2>a, <2>b, <2>2, <3>a DEF TypeOK
    <3>2. Control'
      BY <1>1, <2>a, <2>b, <2>2, <3>a DEF TypeOK, Control
    <3>3. Table'
      BY <1>1, <2>a, <2>b, <2>2, <3>a DEF TypeOK, Control, Table
    <3>4. Closing'
      BY <1>1, <2>a, <2>b, <2>2, <3>a DEF TypeOK, Control, Table, Closing
    <3>5. Owned'
      BY <1>1, <2>a, <2>b, <2>2, <3>a DEF TypeOK, Control, Owned
    <3>6. Exclusive'
      BY <1>1, <2>a, <2>b, <2>2, <3>a DEF TypeOK, Control, Table, Owned, Exclusive
    <3>7. Attempts'
      BY <1>1, <2>a, <2>b, <2>2, <3>a DEF TypeOK, Control, Attempts
    <3>8. AllHeld'
      BY SMTT(30), <1>1, <2>a, <2>b, <2>2, <3>a DEF TypeOK, Control, Table, AllHeld, Held
    <3>9. FailureDropsSession'
      BY <1>1, <2>a, <2>b, <2>2, <3>a DEF TypeOK, Control, Table, FailureDropsSession
    <3>10. QED
      BY <3>1, <3>2, <3>3, <3>4, <3>5, <3>6, <3>7, <3>8, <3>9
  <2>3. CASE t # Main /\ ~again[t]
    <3>a. /\ pc[t] = "drop_qmgr" /\ t \in QMs /\ doomed' = [doomed EXCEPT ![t] = None]
        /\ again' = [again EXCEPT ![t] = FALSE]
        /\ pc' = [pc EXCEPT ![t] = "idle"] /\ mine' = [mine EXCEPT ![t] = None]
        /\ worker' = [worker EXCEPT ![t] = None]
        /\ retried' = [retried EXCEPT ![t] = FALSE] /\ tries' = [tries EXCEPT ![t] = 0]
        /\ result' = [result EXCEPT ![t] = "failed"]
        /\ UNCHANGED <<local, sessions, names, late, faults>>
      BY <1>1, <1>18, <2>3 DEF DropQmgr, Continue, PollEnds, TypeOK
    <3>1. TypeOK'
      BY <1>1, <2>a, <2>b, <2>3, <3>a DEF TypeOK
    <3>2. Control'
      BY <1>1, <2>a, <2>b, <2>3, <3>a DEF TypeOK, Control
    <3>3. Table'
      BY <1>1, <2>a, <2>b, <2>3, <3>a DEF TypeOK, Control, Table
    <3>4. Closing'
      BY <1>1, <2>a, <2>b, <2>3, <3>a DEF TypeOK, Control, Table, Closing
    <3>5. Owned'
      BY <1>1, <2>a, <2>b, <2>3, <3>a DEF TypeOK, Control, Owned
    <3>6. Exclusive'
      BY <1>1, <2>a, <2>b, <2>3, <3>a DEF TypeOK, Control, Table, Owned, Exclusive
    <3>7. Attempts'
      BY <1>1, <2>a, <2>b, <2>3, <3>a DEF TypeOK, Control, Attempts
    <3>8. AllHeld'
      BY SMTT(30), <1>1, <2>a, <2>b, <2>3, <3>a DEF TypeOK, Control, Table, AllHeld, Held
    <3>9. FailureDropsSession'
      BY <1>1, <2>a, <2>b, <2>3, <3>a DEF TypeOK, Control, Table, FailureDropsSession
    <3>10. QED
      BY <3>1, <3>2, <3>3, <3>4, <3>5, <3>6, <3>7, <3>8, <3>9
  <2>4. QED
    BY <1>1, <2>1, <2>2, <2>3
<1>19. ASSUME NEW h \in Handles, Break(h) PROVE IInv'
  <2>1. TypeOK'
    BY <1>1, <1>19 DEF Break, FaultHappens, TypeOK
  <2>2. Control'
    BY <1>1, <1>19 DEF Break, FaultHappens, TypeOK, Control
  <2>3. Table'
    BY <1>1, <1>19 DEF Break, FaultHappens, TypeOK, Control, Table
  <2>4. Closing'
    BY <1>1, <1>19 DEF Break, FaultHappens, TypeOK, Control, Table, Closing
  <2>5. Owned'
    BY <1>1, <1>19 DEF Break, FaultHappens, TypeOK, Control, Owned
  <2>6. Exclusive'
    BY <1>1, <1>19 DEF Break, FaultHappens, TypeOK, Control, Table, Owned, Exclusive
  <2>7. Attempts'
    BY <1>1, <1>19 DEF Break, FaultHappens, TypeOK, Control, Attempts
  <2>8. AllHeld'
    BY SMTT(30), <1>1, <1>19 DEF Break, FaultHappens, TypeOK, Control, Table, AllHeld, Held
  <2>9. FailureDropsSession'
    BY <1>1, <1>19 DEF Break, FaultHappens, TypeOK, Control, Table,
       FailureDropsSession
  <2>10. QED
    BY <2>1, <2>2, <2>3, <2>4, <2>5, <2>6, <2>7, <2>8, <2>9
<1>20. CASE UNCHANGED vars
  BY <1>20 DEF vars, handles, TypeOK, Control, Table, Closing, Owned, Exclusive, Attempts,
     AllHeld, Held, FailureDropsSession
<1>21. QED
  BY <1>1, <1>2, <1>3, <1>4, <1>5, <1>6, <1>7, <1>8, <1>9, <1>10, <1>11, <1>12, <1>13,
     <1>14, <1>15, <1>16, <1>17, <1>18, <1>19, <1>20
  DEF Next, PollStep, Build, Use, Release, CloseStep


\* Every reachable state satisfies the invariant.
LEMMA Invariance == Spec => []IInv
  BY InvInit, InvStep, PTL DEF Spec

\* Every variable keeps its type, for any number of queue managers and faults.
THEOREM TypeCorrect == Spec => []TypeOK
<1>1. IInv => TypeOK
  BY DEF IInv
<1>2. QED
  BY <1>1, Invariance, PTL

\* No failure while a session is built, used or dropped, and no interleaving with
\* close(), leaks a connection.
THEOREM NoConnectionLeaks == Spec => []HandlesAreHeld
<1>1. IInv => HandlesAreHeld
  BY CollectorSessionAssumption DEF IInv, AllHeld, Held, HandlesAreHeld
<1>2. QED
  BY <1>1, Invariance, PTL

\* A step that leaves a poll in use is not the poll's own.
LEMMA StepsOfOthers ==
  ASSUME IInv, Next, NEW q \in QMs, pc[q] = "use", pc'[q] = "use"
  PROVE  mine'[q] = mine[q]
<1>1. /\ QMs \subseteq Threads /\ Main \in Threads /\ Main \notin QMs
      /\ \A t \in Threads : t = Main \/ t \in QMs
  BY CollectorSessionAssumption DEF Threads
<1> USE DEF IInv, TypeOK, Control, Goto, handles, retry, Releasing, Building
<1>2. CASE \E r \in QMs : PollStarts(r) \/ Build(r)
  BY <1>1, <1>2
  DEF PollStarts, Build, Lookup, Connect, ConnectFails, PollEnds, ConnectStream, Subscribe,
      BuildFails, BuildFaults, Install
<1>3. CASE \E r \in QMs : Use(r) \/ Pop(r)
  BY <1>1, <1>3
  DEF Use, UseSucceeds, UseBroken, UseFails, Pop, ReleaseOrContinue, Continue, PollEnds
<1>4. CASE \E t \in Threads : Release(t)
  BY <1>1, <1>4 DEF Release, DropStream, DropQmgr, Continue, PollEnds
<1>5. CASE CloseStep \/ \E h \in Handles : Break(h)
  BY <1>1, <1>5 DEF CloseStep, Close, CloseName, CloseReturns, Break
<1>6. QED
  BY <1>1, <1>2, <1>3, <1>4, <1>5 DEF Next, PollStep

\* A handle is disconnected by a thread that releases its session and that MQ lets
\* disconnect it.
LEMMA OnlyReleaseDisconnects ==
  ASSUME IInv, Next, NEW h \in Handles, link[h] # "none", link'[h] = "none"
  PROVE  \E t \in Threads : /\ pc[t] \in Releasing /\ h \in HandlesOf(doomed[t])
                            /\ Reaches(t, h)
<1>1. /\ QMs \subseteq Threads /\ Main \in Threads
      /\ None \notin Session /\ None \notin Handles
  BY CollectorSessionAssumption DEF Threads
<1> USE DEF IInv, TypeOK, handles, retry
<1>2. CASE \E q \in QMs : PollStarts(q) \/ Build(q)
  BY <1>1, <1>2
  DEF PollStarts, Build, Lookup, Connect, ConnectFails, PollEnds, ConnectStream, Subscribe,
      BuildFails, Install, Linked
<1>3. CASE \E q \in QMs : Use(q) \/ Pop(q)
  BY <1>1, <1>3 DEF Use, UseSucceeds, UseBroken, UseFails, Pop
<1>4. ASSUME NEW t \in Threads, DropStream(t)
      PROVE  h \in HandlesOf(doomed[t]) /\ Reaches(t, h) /\ pc[t] \in Releasing
  BY <1>1, <1>4 DEF DropStream, Disconnect, HandlesOf, Control, Releasing
<1>5. ASSUME NEW t \in Threads, DropQmgr(t)
      PROVE  h \in HandlesOf(doomed[t]) /\ Reaches(t, h) /\ pc[t] \in Releasing
  BY <1>1, <1>5 DEF DropQmgr, Disconnect, HandlesOf, Control, Releasing
<1>6. CASE CloseStep \/ \E g \in Handles : Break(g)
  BY <1>1, <1>6 DEF CloseStep, Close, CloseName, CloseReturns, Break
<1>7. QED
  BY <1>1, <1>2, <1>3, <1>4, <1>5, <1>6 DEF Next, PollStep, Release

\* No step but those of close() disconnects a connection that a running poll may
\* use: a poll's clean-up reaches the handles of its own session and of its own
\* thread only, and no two polls run on one thread.
THEOREM PollsDoNotDisturbEachOther == Spec => OnlyCloseDisconnectsInUse
<1> DEFINE Step == \A q \in QMs \ late : InUse(q) /\ pc'[q] = "use" => ~Closed(mine[q])'
<1>1. ASSUME IInv, [Next]_vars PROVE [Step]_vars
  <2>1. CASE UNCHANGED vars
    BY <2>1
  <2>2. SUFFICES ASSUME Next,
                        NEW q \in QMs, q \notin late, InUse(q), pc'[q] = "use",
                        NEW h \in HandlesOf(mine'[q]), link'[h] = "none"
                 PROVE  FALSE
    BY <1>1, <2>1 DEF Closed
  <2>3. /\ mine'[q] = mine[q] /\ sessions[q] = mine[q] /\ h \in Handles
        /\ link[h] # "none" /\ Reaches(q, h) /\ worker[q] # None
    BY <1>1, <2>2, StepsOfOthers, SessionHandles
    DEF InUse, IInv, TypeOK, Control, Table
  <2>4. PICK t \in Threads : /\ pc[t] \in Releasing /\ h \in HandlesOf(doomed[t])
                             /\ Reaches(t, h)
    BY <1>1, <2>2, <2>3, OnlyReleaseDisconnects
  <2>5. Owner[h] \notin QMs
    BY <1>1, <2>2, <2>3, <2>4 DEF IInv, Exclusive
  <2>6. t \in QMs /\ worker[t] = worker[q] /\ t # q
    BY <2>2, <2>3, <2>4, <2>5 DEF Reaches, InUse, Releasing
  <2>7. QED
    BY <1>1, <2>3, <2>6 DEF IInv, Control
<1>2. QED
  BY <1>1, Invariance, PTL DEF Spec, OnlyCloseDisconnectsInUse

\* What a failed poll has seen is never left in the table for the next one.
THEOREM FailedSessionsAreDropped == Spec => []FailureDropsSession
<1>1. IInv => FailureDropsSession
  BY DEF IInv
<1>2. QED
  BY <1>1, Invariance, PTL

\* A poll asks for at most two sessions, however many faults there are.
THEOREM PollsRetryOnce == Spec => []RetriesOnce
<1>1. IInv => RetriesOnce
  BY DEF IInv, Attempts, RetriesOnce
<1>2. QED
  BY <1>1, Invariance, PTL

\* close() leaves a session to no queue manager without a poll in flight.
THEOREM CloseLeavesNoIdleSession == Spec => []CloseIsComplete
<1>1. IInv => CloseIsComplete
  BY DEF IInv, Closing, CloseIsComplete
<1>2. QED
  BY <1>1, Invariance, PTL

=============================================================================
