-------------------------- MODULE CollectorSession --------------------------
(***************************************************************************)
(* The MQ sessions of the collector: the _sessions table, how collect()    *)
(* looks up, builds, uses, drops and rebuilds a queue manager's session,   *)
(* and close(), which the main thread runs at shutdown while polls may     *)
(* still be in flight.                                                     *)
(*                                                                         *)
(* A queue manager has at most one poll at a time (PollScheduler), so its  *)
(* name stands for the poll, and worker says which thread runs it. A       *)
(* session has one or two QueueManager objects (qmgr, stream_qmgr), each   *)
(* with a connection handle; the managed subscriptions live and end with   *)
(* the second. A handle got over a channel may be used by every thread     *)
(* (MQCNO_HANDLE_SHARE_BLOCK). One got without a channel belongs to its    *)
(* thread: elsewhere it is answered with MQRC_HCONN_ERROR, and a thread    *)
(* that connects again is given the handle it has, with                    *)
(* MQRC_ALREADY_CONNECTED. What is collected with a session is left out.   *)
(***************************************************************************)
EXTENDS Naturals, FiniteSets

CONSTANTS
  QMs,       \* configured queue managers (unique names)
  StreamQMs, \* those with include_system_topic_stream
  Workers,   \* threads of the pool
  Owner,     \* connection handles: the worker thread one belongs to or, of a
             \* shareable one, the queue manager that may be given it; a handle is
             \* used again when nothing refers to it
  Locals,    \* configurations: the names without a channel, all of one local
             \* queue manager
  Main,      \* the thread that calls close()
  MaxFaults, \* bound: faults of the queue managers and the network
  None

Handles == DOMAIN Owner
Session == [qmgr : Handles, stream : Handles \cup {None}]
Threads == QMs \cup {Main}

ASSUME CollectorSessionAssumption ==
  /\ StreamQMs \subseteq QMs
  /\ Locals \subseteq SUBSET QMs
  /\ Owner \in [Handles -> QMs \cup Workers]
  /\ QMs \cap Workers = {}
  /\ Main \notin QMs
  /\ None \notin Workers /\ None \notin Handles /\ None \notin Session
  /\ MaxFaults \in Nat

VARIABLES
  local,     \* the configuration: names without a channel
  sessions,  \* _sessions
  link,      \* handles: state of the connection
  pc,        \* threads: program counter
  worker,    \* polls: the thread that runs it
  mine,      \* polls: the session in hand
  retried,   \* polls: retried_after_reconnect
  again,     \* polls: whether the loop goes on when the session is released
  doomed,    \* threads: the session being released
  names,     \* close: names left
  result,    \* history: how the last poll ended
  tries,     \* history: sessions the poll has asked for
  late,      \* history: queue managers with a poll in flight since close() began
  faults     \* faults left

handles == <<local, link>>
retry == <<retried, again, tries>>
vars == <<sessions, handles, pc, worker, mine, retry, doomed, names, result, late,
          faults>>

Init ==
  /\ local \in Locals
  /\ sessions = [q \in QMs |-> None]
  /\ link = [h \in Handles |-> "none"]
  /\ pc = [t \in Threads |-> IF t = Main THEN "serving" ELSE "idle"]
  /\ worker = [q \in QMs |-> None]
  /\ mine = [q \in QMs |-> None]
  /\ retried = [q \in QMs |-> FALSE]
  /\ doomed = [t \in Threads |-> None]
  /\ again = [q \in QMs |-> FALSE]
  /\ names = {}
  /\ result = [q \in QMs |-> "none"]
  /\ tries = [q \in QMs |-> 0]
  /\ late = {}
  /\ faults = MaxFaults

HandlesOf(s) == IF s = None THEN {} ELSE {s.qmgr, s.stream} \ {None}

\* A handle nothing refers to.
Unused(h) ==
  /\ link[h] = "none"
  /\ \A q \in QMs : h \notin HandlesOf(sessions[q]) \cup HandlesOf(mine[q])
  /\ \A t \in Threads : h \notin HandlesOf(doomed[t])

\* Whether MQ lets a poll, or close(), use or disconnect a handle.
Reaches(t, h) == Owner[h] \in QMs \/ (t \in QMs /\ Owner[h] = worker[t])

Closed(s) == \E h \in HandlesOf(s) : link[h] = "none"

\* A session whose calls succeed unless a fault happens.
Intact(q) ==
  /\ link[mine[q].qmgr] = "open"
  /\ \A h \in HandlesOf(mine[q]) : Reaches(q, h) /\ link[h] # "broken"

FaultHappens ==
  /\ faults > 0
  /\ faults' = faults - 1

Goto(t, label) == pc' = [pc EXCEPT ![t] = label]

-----------------------------------------------------------------------------
(* collect()                                                               *)

PollStarts(q) ==
  /\ pc[q] = "idle"
  /\ \E w \in Workers :
       /\ \A r \in QMs : worker[r] # w
       /\ worker' = [worker EXCEPT ![q] = w]
  /\ Goto(q, "lookup")
  /\ late' = IF pc[Main] = "serving" THEN late ELSE late \cup {q}
  /\ UNCHANGED <<sessions, handles, mine, retry, doomed, names, result, faults>>

Lookup(q) ==
  /\ pc[q] = "lookup"
  /\ mine' = [mine EXCEPT ![q] = sessions[q]]
  /\ tries' = [tries EXCEPT ![q] = @ + 1]
  /\ Goto(q, IF sessions[q] = None THEN "connect" ELSE "use")
  /\ UNCHANGED <<sessions, handles, worker, retried, again, doomed, names, result, late,
                 faults>>

PollEnds(q, how) ==
  /\ Goto(q, "idle")
  /\ mine' = [mine EXCEPT ![q] = None]
  /\ worker' = [worker EXCEPT ![q] = None]
  /\ retried' = [retried EXCEPT ![q] = FALSE]
  /\ tries' = [tries EXCEPT ![q] = 0]
  /\ result' = [result EXCEPT ![q] = how]

\* What MQCONNX may answer with. MQRC_ALREADY_CONNECTED is no failure: the
\* QueueManager object is used with the handle that the thread has already, even
\* with one whose connection is broken.
Answers(q) ==
  LET had == {h \in Handles : q \in local /\ Owner[h] = worker[q] /\ link[h] # "none"}
      new == {h \in Handles : Unused(h) /\ Owner[h] = IF q \in local THEN worker[q] ELSE q}
  IN  IF had # {} THEN had ELSE new

\* Which of the unused handles stands for the new one does not matter.
Handle(q) == CHOOSE h \in Answers(q) : TRUE

Linked(h) == link' = [link EXCEPT ![h] = IF @ = "none" THEN "open" ELSE @]

Connect(q) ==
  /\ pc[q] = "connect"
  /\ Answers(q) # {}
  /\ Linked(Handle(q))
  /\ mine' = [mine EXCEPT ![q] = [qmgr |-> Handle(q), stream |-> None]]
  /\ Goto(q, IF q \in StreamQMs THEN "stream" ELSE "install")
  /\ UNCHANGED <<local, sessions, worker, retry, doomed, names, result, late, faults>>

ConnectFails(q) ==
  /\ pc[q] = "connect"
  /\ FaultHappens
  /\ PollEnds(q, "failed")
  /\ UNCHANGED <<sessions, handles, again, doomed, names, late>>

ConnectStream(q) ==
  /\ pc[q] = "stream"
  /\ Answers(q) # {}
  /\ Linked(Handle(q))
  /\ mine' = [mine EXCEPT ![q] = [qmgr |-> mine[q].qmgr, stream |-> Handle(q)]]
  /\ Goto(q, "subscribe")
  /\ UNCHANGED <<local, sessions, worker, retry, doomed, names, result, late, faults>>

Subscribe(q) ==
  /\ pc[q] = "subscribe"
  /\ link[mine[q].stream] = "open"
  /\ Goto(q, "install")
  /\ UNCHANGED <<sessions, handles, worker, mine, retry, doomed, names, result,
                 late, faults>>

BuildFaults(q) ==
  \/ pc[q] \in {"stream", "subscribe"} /\ FaultHappens
  \/ pc[q] = "subscribe" /\ link[mine[q].stream] # "open" /\ UNCHANGED faults

ForgetConnections(q) ==              \* mutant: no disconnect in the except clause
  /\ BuildFaults(q)
  /\ PollEnds(q, "failed")
  /\ UNCHANGED <<sessions, handles, again, doomed, names, late>>

\* The second connection or one of its subscriptions fails: what is open is
\* disconnected and the exception goes on.
BuildFails(q) ==
  /\ BuildFaults(q)
  /\ doomed' = [doomed EXCEPT ![q] = mine[q]]
  /\ Goto(q, "drop_stream")
  /\ UNCHANGED <<sessions, handles, worker, mine, retry, names, result, late>>

InstallSwapped(q) ==                 \* mutant: qmgr and stream_qmgr the wrong way round
  /\ pc[q] = "install"
  /\ sessions' = [sessions EXCEPT ![q] = [qmgr |-> mine[q].stream, stream |-> mine[q].qmgr]]
  /\ Goto(q, "use")
  /\ UNCHANGED <<handles, worker, mine, retry, doomed, names, result, late, faults>>

Install(q) ==
  /\ pc[q] = "install"
  /\ sessions' = [sessions EXCEPT ![q] = mine[q]]
  /\ Goto(q, "use")
  /\ UNCHANGED <<handles, worker, mine, retry, doomed, names, result, late, faults>>

\* A connection that breaks while a poll needs it no more, or only in the drain
\* of the event queues, which swallows the error, is one that breaks afterwards.
UseSucceeds(q) ==
  /\ pc[q] = "use"
  /\ Intact(q)
  /\ PollEnds(q, "ok")
  /\ UNCHANGED <<sessions, handles, again, doomed, names, late, faults>>

RetryAlways(q) ==                                \* mutant: retried never set
  /\ pc[q] = "use"
  /\ ~Intact(q)
  /\ again' = [again EXCEPT ![q] = TRUE]
  /\ Goto(q, "pop")
  /\ UNCHANGED <<sessions, handles, worker, mine, retried, tries, doomed, names, result, late,
                 faults>>

\* MQRC_CONNECTION_BROKEN or MQRC_HCONN_ERROR: one retry with a new session.
UseBroken(q) ==
  /\ pc[q] = "use"
  /\ ~Intact(q)
  /\ again' = [again EXCEPT ![q] = ~retried[q]]
  /\ retried' = [retried EXCEPT ![q] = TRUE]
  /\ Goto(q, "pop")
  /\ UNCHANGED <<sessions, handles, worker, mine, doomed, names, result, tries, late,
                 faults>>

SessionKept(q) ==                 \* mutant: _invalidate_session for broken ones only
  /\ pc[q] = "use"
  /\ FaultHappens \/ (Closed(mine[q]) /\ UNCHANGED faults)
  /\ PollEnds(q, "failed")
  /\ UNCHANGED <<sessions, handles, again, doomed, names, late>>

\* Any other error: a failing inquiry, or pymqi's own for a QueueManager object
\* that has been disconnected.
UseFails(q) ==
  /\ pc[q] = "use"
  /\ FaultHappens \/ (Closed(mine[q]) /\ UNCHANGED faults)
  /\ Goto(q, "pop")
  /\ UNCHANGED <<sessions, handles, worker, mine, retry, doomed, names, result, late>>

-----------------------------------------------------------------------------
(* _invalidate_session(): pop under the lock, release without it.          *)

Continue(q) ==
  /\ again' = [again EXCEPT ![q] = FALSE]
  /\ IF again[q]
     THEN /\ Goto(q, "lookup")
          /\ mine' = [mine EXCEPT ![q] = None]
          /\ UNCHANGED <<worker, retried, tries, result>>
     ELSE PollEnds(q, "failed")

\* What pop() has returned is released.
ReleaseOrContinue(q, session) ==
  IF session = None
  THEN Continue(q) /\ UNCHANGED doomed
  ELSE /\ doomed' = [doomed EXCEPT ![q] = session]
       /\ Goto(q, "drop_stream")
       /\ UNCHANGED <<worker, mine, retry, result>>

PopItem(q) ==                    \* mutant: popitem(), any entry
  /\ pc[q] = "pop"
  /\ \E r \in QMs :
       /\ sessions' = [sessions EXCEPT ![r] = None]
       /\ ReleaseOrContinue(q, sessions[r])
  /\ UNCHANGED <<handles, names, late, faults>>

PeekOnly(q) ==                         \* mutant: get in place of pop
  /\ pc[q] = "pop"
  /\ ReleaseOrContinue(q, sessions[q])
  /\ UNCHANGED <<sessions, handles, names, late, faults>>

Pop(q) ==
  /\ pc[q] = "pop"
  /\ sessions' = [sessions EXCEPT ![q] = None]
  /\ ReleaseOrContinue(q, sessions[q])
  /\ UNCHANGED <<handles, names, late, faults>>

\* Errors of close and disconnect are swallowed, so that a handle another thread
\* owns stays connected.
Disconnect(t, h) ==
  link' = IF h # None /\ Reaches(t, h) THEN [link EXCEPT ![h] = "none"] ELSE link

DropStream(t) ==
  /\ pc[t] = "drop_stream"
  /\ Disconnect(t, doomed[t].stream)
  /\ Goto(t, "drop_qmgr")
  /\ UNCHANGED <<local, sessions, worker, mine, retry, doomed, names,
                 result, late, faults>>

DropQmgr(t) ==
  /\ pc[t] = "drop_qmgr"
  /\ Disconnect(t, doomed[t].qmgr)
  /\ doomed' = [doomed EXCEPT ![t] = None]
  /\ IF t = Main
     THEN Goto(Main, "names") /\ UNCHANGED <<worker, mine, retry, result>>
     ELSE Continue(t)
  /\ UNCHANGED <<local, sessions, names, late, faults>>

-----------------------------------------------------------------------------
(* close()                                                                 *)

Close ==
  /\ pc[Main] = "serving"
  /\ names' = {q \in QMs : sessions[q] # None}
  /\ late' = {q \in QMs : pc[q] # "idle"}
  /\ Goto(Main, "names")
  /\ UNCHANGED <<sessions, handles, worker, mine, retry, doomed, result, faults>>

CloseUnpopped(q) ==                \* mutant: the entry stays in the table
  /\ pc[Main] = "names" /\ q \in names
  /\ names' = names \ {q}
  /\ IF sessions[q] = None
     THEN UNCHANGED <<doomed, pc>>
     ELSE /\ doomed' = [doomed EXCEPT ![Main] = sessions[q]]
          /\ Goto(Main, "drop_stream")
  /\ UNCHANGED <<sessions, handles, worker, mine, retry, result, late, faults>>

CloseName(q) ==
  /\ pc[Main] = "names" /\ q \in names
  /\ names' = names \ {q}
  /\ sessions' = [sessions EXCEPT ![q] = None]
  /\ IF sessions[q] = None
     THEN UNCHANGED <<doomed, pc>>
     ELSE /\ doomed' = [doomed EXCEPT ![Main] = sessions[q]]
          /\ Goto(Main, "drop_stream")
  /\ UNCHANGED <<handles, worker, mine, retry, result, late, faults>>

CloseReturns ==
  /\ pc[Main] = "names" /\ names = {}
  /\ Goto(Main, "closed")
  /\ UNCHANGED <<sessions, handles, worker, mine, retry, doomed, names, result,
                 late, faults>>

-----------------------------------------------------------------------------
(* The environment.                                                        *)

Break(h) ==
  /\ link[h] = "open"
  /\ FaultHappens
  /\ link' = [link EXCEPT ![h] = "broken"]
  /\ UNCHANGED <<local, sessions, pc, worker, mine, retry, doomed, names,
                 result, late>>

-----------------------------------------------------------------------------
Build(q) == \/ Lookup(q) \/ Connect(q) \/ ConnectFails(q) \/ ConnectStream(q)
            \/ Subscribe(q) \/ BuildFails(q) \/ Install(q)
Use(q) == UseSucceeds(q) \/ UseBroken(q) \/ UseFails(q)
Release(t) == DropStream(t) \/ DropQmgr(t)
CloseStep == Close \/ (\E q \in QMs : CloseName(q)) \/ CloseReturns

PollStep(q) == Build(q) \/ Use(q) \/ Pop(q) \/ Release(q)

Next ==
  \/ \E q \in QMs : PollStarts(q) \/ PollStep(q)
  \/ CloseStep \/ Release(Main)
  \/ \E h \in Handles : Break(h)

Spec == Init /\ [][Next]_vars

\* Calls to MQ return; while the exporter serves, the scheduler polls again.
Fairness ==
  /\ \A q \in QMs : WF_vars(PollStep(q))
  /\ \A q \in QMs : WF_vars(pc[Main] = "serving" /\ PollStarts(q))

LiveSpec == Spec /\ Fairness

-----------------------------------------------------------------------------
(* Properties.                                                             *)

HandleStates == {"none", "open", "broken"}
Building == {"stream", "subscribe", "install"}
Releasing == {"drop_stream", "drop_qmgr"}
Labels == {"serving", "names", "closed", "idle", "lookup", "connect", "use", "pop"}
          \cup Building \cup Releasing

\* Every variable keeps its type.
TypeOK ==
  /\ local \subseteq QMs
  /\ sessions \in [QMs -> Session \cup {None}]
  /\ link \in [Handles -> HandleStates]
  /\ pc \in [Threads -> Labels]
  /\ worker \in [QMs -> Workers \cup {None}]
  /\ mine \in [QMs -> Session \cup {None}]
  /\ retried \in [QMs -> BOOLEAN]
  /\ again \in [QMs -> BOOLEAN]
  /\ doomed \in [Threads -> Session \cup {None}]
  /\ names \subseteq QMs
  /\ result \in [QMs -> {"none", "ok", "failed"}]
  /\ late \subseteq QMs
  /\ tries \in [QMs -> Nat]
  /\ faults \in Nat

\* No connection leaks: whatever fails and whenever close() runs, the handle of a
\* connected QueueManager object is in the table, with the poll that builds the
\* session, or with the thread that releases it. A handle that belongs to a worker
\* thread is excepted: only that thread can disconnect it, and it is given the
\* handle again when it next connects.
HandlesAreHeld ==
  {h \in Handles : Owner[h] \in QMs /\ link[h] # "none"} \subseteq
    UNION ({HandlesOf(sessions[q]) : q \in QMs}
           \cup {HandlesOf(mine[q]) : q \in {r \in QMs : pc[r] \in Building}}
           \cup {HandlesOf(doomed[t]) : t \in {u \in Threads : pc[u] \in Releasing}})

\* The poll is in the middle of its MQ calls and MQ lets its thread make them.
InUse(q) ==
  /\ pc[q] = "use"
  /\ \A h \in HandlesOf(mine[q]) : link[h] # "none" /\ Reaches(q, h)

\* A connection is disconnected under a running poll by close() only, never by
\* another poll's clean-up, also when the two polls' sessions share the handle of a
\* worker thread.
OnlyCloseDisconnectsInUse ==
  [][\A q \in QMs \ late : InUse(q) /\ pc'[q] = "use" => ~Closed(mine[q])']_vars

\* No session that a failed poll has seen is left for the next poll, so that a
\* stale handle cannot fail every poll from then on.
FailureDropsSession ==
  \A q \in QMs : pc[q] = "idle" /\ result[q] = "failed" => sessions[q] = None

\* When close() has returned, no queue manager without a poll in flight since
\* close() began has a session left.
CloseIsComplete ==
  pc[Main] = "closed" => \A q \in QMs \ late : sessions[q] = None

\* A poll asks for two sessions at most, however often its queue manager breaks
\* the connection: a flapping queue manager cannot keep a worker to itself.
RetriesOnce == \A q \in QMs : tries[q] <= 2

\* When the faults stop, polls succeed again: a broken session is replaced.
RecoversFromFaults ==
  \A q \in QMs : <>[](pc[Main] = "serving" => result[q] = "ok")
=============================================================================
