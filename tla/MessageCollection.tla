------------------------- MODULE MessageCollection -------------------------
(***************************************************************************)
(* What one queue manager's poll does with messages: it drains the         *)
(* administration queues, whose messages are gone once they are read, and  *)
(* the queues of the system-topic subscriptions, whose newest values it    *)
(* keeps with the session, and has amqsruac measure the classes that no    *)
(* publication has brought yet, or all of them, or none (amqsruac_mode).   *)
(*                                                                         *)
(* A poll is one thread; publishers, event sources and other consumers run *)
(* beside it. Sessions are CollectorSession's subject: here there is one   *)
(* or none, and a failed attempt drops it.                                 *)
(* A publication is the value it carries, a topic the class it belongs to. *)
(***************************************************************************)
EXTENDS Naturals, Sequences

CONSTANTS
  NumQueues,  \* administration queues, numbered in the order they are drained
  NumStrict,  \* those before the event queues
  NamingQueues, \* those of the strict ones whose messages name applications
  NumTopics,  \* subscriptions, numbered in the order of session.subscriptions
  QueueClasses, AppClasses, \* the topics of STATQ and of STATAPP
  Values,     \* topics: what publications carry
  None,
  Budget,     \* system_topic_max_messages_per_poll
  MaxPuts,    \* bound: messages put to the administration queues
  MaxDepth,   \* bound: publications waiting for one subscription
  MaxFaults,  \* bound: MQ calls that fail
  Modes       \* the values of amqsruac_mode

Queues == 1..NumQueues
Strict == 1..NumStrict
Topics == 1..NumTopics
AllValues == UNION {Values[t] : t \in Topics}

ASSUME MessageCollectionAssumption ==
  /\ NumQueues \in Nat /\ NumTopics \in Nat
  /\ NumStrict \in 0..NumQueues /\ NamingQueues \subseteq Strict
  /\ QueueClasses \subseteq Topics /\ AppClasses \subseteq Topics
  /\ Budget \in Nat
  /\ MaxPuts \in Nat /\ MaxDepth \in Nat /\ MaxFaults \in Nat
  /\ None \notin AllValues

VARIABLES
  pc,         \* where the poll is
  pos,        \* its queue or subscription
  connected,  \* there is a session
  retried,    \* retried_after_reconnect
  result,     \* how the last poll ended
  queue,      \* administration queues: their messages, "good" or undecodable
  drained,    \* messages taken in this poll whose records it holds
  puts, reported, lost, other,   \* history: messages put, in the records of a
              \* poll that succeeded, gone with a failure, taken by another consumer
  backlog,    \* subscriptions: publications not yet read
  spent,      \* publications read in this poll
  records,    \* topics: the last value in the poll's list of records
  cache,      \* session.system_topic_records
  taken,      \* history: topics: the newest value read in this session
  required,   \* required_classes: _observed_queues and _observed_applications decide
  fallback,   \* classes of which _amqsruac_fallback_records holds something
  fresh,      \* classes refreshed less than an interval ago
  extra,      \* classes the poll takes from the fallback cache or has measured itself
  mode,       \* amqsruac_mode
  faults      \* faults left

adminVars == <<queue, drained, puts, reported, lost, other>>
streamVars == <<backlog, spent, records, cache, taken>>
fallbackVars == <<required, fallback, fresh, extra>>
control == <<pc, pos, connected, retried, result>>
vars == <<control, adminVars, streamVars, fallbackVars, mode, faults>>

NoValue == [t \in Topics |-> None]
NoCount == [q \in Queues |-> 0]

Init ==
  /\ pc = "idle" /\ pos = 1 /\ connected = FALSE
  /\ retried = FALSE /\ result = "none"
  /\ queue = [q \in Queues |-> <<>>]
  /\ drained = NoCount /\ puts = NoCount /\ reported = NoCount
  /\ lost = NoCount /\ other = NoCount
  /\ backlog = [t \in Topics |-> <<>>]
  /\ spent = 0
  /\ records = NoValue /\ cache = NoValue /\ taken = NoValue
  /\ required = Topics \ (QueueClasses \cup AppClasses)
  /\ fallback = {} /\ fresh = {} /\ extra = {}
  /\ mode \in Modes
  /\ faults = MaxFaults

FaultHappens ==
  /\ faults > 0
  /\ faults' = faults - 1

Goto(label, i) == pc' = label /\ pos' = i

GotoNext(i) == Goto("queue", i)            \* mutant: no end of the queues

\* Where the poll goes on when it is done with the queues before i.
GotoQueue(i) == IF i <= NumQueues THEN Goto("queue", i) ELSE Goto("stream", 1)

\* The local variables of an attempt end with it.
AttemptEnds ==
  /\ spent' = 0
  /\ records' = NoValue
  /\ extra' = {}
  /\ drained' = NoCount

\* _invalidate_session(): with the session go its subscriptions and kept values.
SessionDropped ==
  /\ AttemptEnds
  /\ connected' = FALSE
  /\ lost' = [q \in Queues |-> lost[q] + drained[q]]
  /\ backlog' = [t \in Topics |-> <<>>]
  /\ cache' = NoValue /\ taken' = NoValue
  /\ UNCHANGED <<queue, puts, reported, other, required, fallback, fresh>>

Raises ==
  /\ SessionDropped
  /\ Goto("idle", 1)
  /\ retried' = FALSE
  /\ result' = "failed"

\* The first error of a poll that speaks of a broken connection.
Reconnects ==
  /\ ~retried
  /\ SessionDropped
  /\ Goto("again", 1)
  /\ retried' = TRUE
  /\ UNCHANGED result

\* An MQ call has failed, for a broken connection or another reason.
AttemptFails == Raises \/ Reconnects

-----------------------------------------------------------------------------
(* collect(), up to the first message: nothing is read destructively yet.  *)

\* A class whose objects a poll has seen is required from then on, whatever becomes of
\* the poll and of its session.
Observes(classes) == required' \in {required, required \cup classes}

\* A session, if there is none.
AttemptStarts ==
  /\ pc \in {"idle", "again"}
  /\ connected' = TRUE
  /\ Goto("inquireQueues", 1)
  /\ UNCHANGED <<retried, result, adminVars, streamVars, fallbackVars, faults>>

StartFails ==
  /\ pc \in {"idle", "again"}
  /\ FaultHappens
  /\ AttemptFails

\* The inquiries of the queue manager and of the queues: the queues they return are
\* remembered even if a later pattern's inquiry fails.
InquireQueues ==
  /\ pc = "inquireQueues"
  /\ Observes(QueueClasses)
  /\ Goto("inquireOthers", 1)
  /\ UNCHANGED <<connected, retried, result, adminVars, streamVars, fallback, fresh,
                 extra, faults>>

\* Those of topics and channels.
InquireOthers ==
  /\ pc = "inquireOthers"
  /\ GotoQueue(1)
  /\ UNCHANGED <<connected, retried, result, adminVars, streamVars, fallbackVars, faults>>

\* _call_pcf() passes every MQ error on: one pattern's inquiry fails the attempt.
InquiryFails ==
  /\ pc \in {"inquireQueues", "inquireOthers"}
  /\ FaultHappens
  /\ AttemptFails

-----------------------------------------------------------------------------
(* _collect_admin_queue_metrics() and _collect_event_metrics().            *)

\* The classes a message makes required if it names an application: accounting and
\* activity-trace messages may, once they are decoded; statistics and events do not.
ApplicationsOf(q, message) ==
  IF message = "good" /\ q \in NamingQueues THEN AppClasses ELSE {}

BrowseMessage ==                             \* mutant: MQGMO_BROWSE_NEXT
  /\ pc = "queue" /\ queue[pos] # <<>>
  /\ drained' = [drained EXCEPT ![pos] = @ + 1]
  /\ pc' = IF Head(queue[pos]) = "good" THEN "queue" ELSE "undecodable"
  /\ Observes(ApplicationsOf(pos, Head(queue[pos])))
  /\ UNCHANGED <<pos, connected, retried, result, queue, puts, reported, lost, other,
                 streamVars, fallback, fresh, extra, faults>>

BackOut ==                    \* mutant: under syncpoint, backed out when undecodable
  /\ pc = "queue" /\ queue[pos] # <<>>
  /\ IF Head(queue[pos]) = "good"
     THEN /\ queue' = [queue EXCEPT ![pos] = Tail(@)]
          /\ drained' = [drained EXCEPT ![pos] = @ + 1]
          /\ UNCHANGED pc
     ELSE pc' = "undecodable" /\ UNCHANGED <<queue, drained>>
  /\ Observes(ApplicationsOf(pos, Head(queue[pos])))
  /\ UNCHANGED <<pos, connected, retried, result, puts, reported, lost, other, streamVars,
                 fallback, fresh, extra, faults>>

\* MQGET without a syncpoint: the message is gone, even if it cannot be decoded.
GetMessage ==
  /\ pc = "queue" /\ queue[pos] # <<>>
  /\ queue' = [queue EXCEPT ![pos] = Tail(@)]
  /\ drained' = [drained EXCEPT ![pos] = @ + 1]
  /\ pc' = IF Head(queue[pos]) = "good" THEN "queue" ELSE "undecodable"
  /\ Observes(ApplicationsOf(pos, Head(queue[pos])))
  /\ UNCHANGED <<pos, connected, retried, result, puts, reported, lost, other, streamVars,
                 fallback, fresh, extra, faults>>

\* The queue cannot be opened or read.
QueueFails ==
  /\ pc = "queue"
  /\ FaultHappens
  /\ pc' = "giveUp"
  /\ UNCHANGED <<pos, connected, retried, result, adminVars, streamVars, fallbackVars>>

NoMessage ==
  /\ pc = "queue" /\ queue[pos] = <<>>
  /\ GotoQueue(pos + 1)
  /\ UNCHANGED <<connected, retried, result, adminVars, streamVars, fallbackVars, faults>>

\* An event queue that fails is passed over without what it gave.
PassOver ==
  /\ pos \notin Strict
  /\ lost' = [lost EXCEPT ![pos] = @ + drained[pos]]
  /\ drained' = [drained EXCEPT ![pos] = 0]
  /\ GotoQueue(pos + 1)
  /\ UNCHANGED <<connected, retried, result, queue, puts, reported, other, streamVars,
                 fallbackVars>>

PassOverAny ==                        \* mutant: the except clause for every queue
  /\ pc \in {"giveUp", "undecodable"}
  /\ lost' = [lost EXCEPT ![pos] = @ + drained[pos]]
  /\ drained' = [drained EXCEPT ![pos] = 0]
  /\ GotoQueue(pos + 1)
  /\ UNCHANGED <<connected, retried, result, queue, puts, reported, other, streamVars,
                 fallbackVars, faults>>

GiveUp ==
  /\ \/ pc \in {"giveUp", "undecodable"} /\ PassOver
     \/ pc = "giveUp" /\ pos \in Strict /\ AttemptFails
     \/ pc = "undecodable" /\ pos \in Strict /\ Raises
  /\ UNCHANGED faults

-----------------------------------------------------------------------------
(* _collect_system_topic_stream_metrics()                                  *)

KeepsFirst ==                                \* mutant: setdefault()
  /\ pc = "stream" /\ pos \in Topics /\ spent < Budget /\ backlog[pos] # <<>>
  /\ LET value == Head(backlog[pos])
     IN /\ records' = [records EXCEPT ![pos] = value]
        /\ cache' = [cache EXCEPT ![pos] = IF @ = None THEN value ELSE @]
        /\ taken' = [taken EXCEPT ![pos] = value]
  /\ backlog' = [backlog EXCEPT ![pos] = Tail(@)]
  /\ spent' = spent + 1
  /\ UNCHANGED <<control, adminVars, fallbackVars, faults>>

GetPublication ==
  /\ pc = "stream" /\ pos \in Topics /\ spent < Budget /\ backlog[pos] # <<>>
  /\ LET value == Head(backlog[pos])
     IN /\ records' = [records EXCEPT ![pos] = value]
        /\ cache' = [cache EXCEPT ![pos] = value]
        /\ taken' = [taken EXCEPT ![pos] = value]
  /\ backlog' = [backlog EXCEPT ![pos] = Tail(@)]
  /\ spent' = spent + 1
  /\ UNCHANGED <<control, adminVars, fallbackVars, faults>>

NextSubscription ==
  /\ pc = "stream" /\ pos \in Topics /\ spent < Budget /\ backlog[pos] = <<>>
  /\ pos' = pos + 1
  /\ UNCHANGED <<pc, connected, retried, result, adminVars, streamVars, fallbackVars, faults>>

StreamFails ==
  /\ pc = "stream" /\ pos \in Topics /\ spent < Budget
  /\ FaultHappens
  /\ AttemptFails

\* The records end with the values kept for what this poll did not bring.
StreamEnds ==
  /\ pc = "stream" /\ (pos \notin Topics \/ spent >= Budget)
  /\ records' = [t \in Topics |-> IF records[t] = None THEN cache[t] ELSE records[t]]
  /\ Goto("fallback", 1)
  /\ UNCHANGED <<connected, retried, result, adminVars, backlog, spent, cache, taken,
                 fallbackVars, faults>>

-----------------------------------------------------------------------------
(* amqsruac_mode and _collect_cached_amqsruac_fallback()                   *)

Missing == {t \in required : records[t] = None}

\* The classes amqsruac may bring records of when it is run for those due: its runs
\* may fail or time out one by one, all of them if it is not installed.
Measured(due) == SUBSET due

RefreshAll ==                       \* mutant: every class whose interval is over
  /\ pc = "fallback" /\ mode = "fallback"
  /\ LET due == Topics \ fresh
     IN \E found \in Measured(due) :
          /\ fallback' = (fallback \ due) \cup found
          /\ fresh' = fresh \cup due
  /\ extra' = Missing \cap fallback'
  /\ Goto("return", 1)
  /\ UNCHANGED <<connected, retried, result, adminVars, streamVars, required, faults>>

RefreshTogether ==           \* mutant: one refresh time for the queue manager
  /\ pc = "fallback" /\ mode = "fallback"
  /\ LET due == IF fresh = {} THEN Missing ELSE {}
     IN \E found \in Measured(due) :
          /\ fallback' = (fallback \ due) \cup found
          /\ fresh' = fresh \cup due
  /\ extra' = Missing \cap fallback'
  /\ Goto("return", 1)
  /\ UNCHANGED <<connected, retried, result, adminVars, streamVars, required, faults>>

\* amqsruac is run for the due classes; what was cached for those it brings nothing
\* of is gone.
Fallback ==
  /\ pc = "fallback" /\ mode = "fallback"
  /\ LET due == Missing \ fresh
     IN \E found \in Measured(due) :
          /\ fallback' = (fallback \ due) \cup found
          /\ fresh' = fresh \cup due
  /\ extra' = Missing \cap fallback'
  /\ Goto("return", 1)
  /\ UNCHANGED <<connected, retried, result, adminVars, streamVars, required, faults>>

\* The other modes: amqsruac is run for every class, or not at all. No cache is kept.
MeasureUncached ==
  /\ pc = "fallback" /\ mode # "fallback"
  /\ extra' \in Measured(IF mode = "always" THEN required ELSE {})
  /\ Goto("return", 1)
  /\ UNCHANGED <<connected, retried, result, adminVars, streamVars, required, fallback,
                 fresh, faults>>

Return ==
  /\ pc = "return"
  /\ AttemptEnds
  /\ Goto("idle", 1)
  /\ retried' = FALSE
  /\ result' = "ok"
  /\ reported' = [q \in Queues |-> reported[q] + drained[q]]
  /\ UNCHANGED <<connected, queue, puts, lost, other, backlog, cache, taken, required,
                 fallback, fresh, faults>>

-----------------------------------------------------------------------------
(* The queue manager, the applications and time.                           *)

Put(q, message) ==
  /\ puts[q] < MaxPuts
  /\ puts' = [puts EXCEPT ![q] = @ + 1]
  /\ queue' = [queue EXCEPT ![q] = Append(@, message)]
  /\ UNCHANGED <<control, drained, reported, lost, other, streamVars, fallbackVars,
                 faults>>

OtherConsumer(q) ==
  /\ queue[q] # <<>>
  /\ queue' = [queue EXCEPT ![q] = Tail(@)]
  /\ other' = [other EXCEPT ![q] = @ + 1]
  /\ UNCHANGED <<control, drained, puts, reported, lost, streamVars, fallbackVars,
                 faults>>

Publish(t, value) ==
  /\ connected /\ Len(backlog[t]) < MaxDepth
  /\ backlog' = [backlog EXCEPT ![t] = Append(@, value)]
  /\ UNCHANGED <<control, adminVars, spent, records, cache, taken, fallbackVars, faults>>

\* A poll reads the clock once: an interval that ends in a poll has ended before it.
IntervalEnds(t) ==
  /\ pc = "idle" /\ t \in fresh
  /\ fresh' = fresh \ {t}
  /\ UNCHANGED <<control, adminVars, streamVars, required, fallback, extra, faults>>

-----------------------------------------------------------------------------
AdminStep == GetMessage \/ QueueFails \/ NoMessage \/ GiveUp
StreamStep == GetPublication \/ NextSubscription \/ StreamFails \/ StreamEnds
InquiryStep == InquireQueues \/ InquireOthers \/ InquiryFails
PollStep ==
  \/ AttemptStarts \/ StartFails \/ InquiryStep \/ AdminStep \/ StreamStep
  \/ Fallback \/ MeasureUncached \/ Return

Environment ==
  \/ \E q \in Queues : OtherConsumer(q) \/ \E m \in {"good", "bad"} : Put(q, m)
  \/ \E t \in Topics : IntervalEnds(t) \/ \E v \in Values[t] : Publish(t, v)

Next == (PollStep \/ Environment) /\ UNCHANGED mode

Spec == Init /\ [][Next]_vars

\* The scheduler polls again and again, and calls to MQ return.
LiveSpec == Spec /\ WF_vars(PollStep /\ UNCHANGED mode)

-----------------------------------------------------------------------------
(* Properties.                                                             *)

\* Every variable keeps its type; a poll is at one of its queues or topics.
TypeOK ==
  /\ pc \in {"idle", "again", "inquireQueues", "inquireOthers", "queue", "giveUp",
             "undecodable", "stream", "fallback", "return"}
  /\ pos \in Nat
  /\ pc \in {"queue", "giveUp", "undecodable"} => pos \in Queues
  /\ connected \in BOOLEAN /\ retried \in BOOLEAN
  /\ result \in {"none", "ok", "failed"}
  /\ queue \in [Queues -> Seq({"good", "bad"})]
  /\ drained \in [Queues -> Nat]
  /\ puts \in [Queues -> Nat]
  /\ reported \in [Queues -> Nat]
  /\ lost \in [Queues -> Nat]
  /\ other \in [Queues -> Nat]
  /\ backlog \in [Topics -> Seq(AllValues)]
  /\ spent \in Nat
  /\ records \in [Topics -> AllValues \cup {None}]
  /\ cache \in [Topics -> AllValues \cup {None}]
  /\ taken \in [Topics -> AllValues \cup {None}]
  /\ required \subseteq Topics
  /\ fallback \subseteq Topics /\ fresh \subseteq Topics /\ extra \subseteq Topics
  /\ mode \in Modes
  /\ faults \in Nat

\* The records of the administration queues are divided between the consumers:
\* each message is in one poll's records or another consumer's, or went with a
\* failure, however polls fail, are repeated and share the queues.
MessagesAreDivided ==
  \A q \in Queues :
    puts[q] = Len(queue[q]) + drained[q] + reported[q] + lost[q] + other[q]

\* Accounting, statistics and activity messages are lost only along with the
\* session: an event queue that fails costs no more than its own messages.
LossDropsSession ==
  [][\A q \in Strict : lost'[q] > lost[q] => connected /\ ~connected']_vars

\* The count of messages in a poll's records is that of the messages it consumed: a
\* poll that has lost some does not go on.
LossEndsThePoll == [][\A q \in Strict : lost'[q] > lost[q] => pc' = "idle"]_vars

\* What a poll returns for a topic is the newest value read in this session, this
\* poll's or an earlier one's, and no topic seen once is missing later.
NewestIsReturned == pc = "return" => \A t \in Topics : records[t] = taken[t]

\* In mode "fallback" a poll that succeeds has records of every class required by then,
\* those of objects it has seen itself included, unless amqsruac brought none within the
\* last refresh interval.
EveryClassIsCovered ==
  pc = "return" /\ mode = "fallback" =>
    \A t \in required : records[t] # None \/ t \in extra \/ t \in fresh \ fallback

\* In mode "fallback" amqsruac is run for required classes only, and not for one that
\* publications have brought in this session; nor are its cached records returned beside
\* theirs. (In mode "always" it is run for every required class in every poll.)
AmqsruacIsLastResort ==
  [][mode = "fallback" =>
       \A t \in (fresh' \ fresh) \cup (extra' \ extra) :
         t \in required /\ taken[t] = None]_vars

\* A message that cannot be decoded, and calls that fail now and then, do not stop
\* the collection: when they have been used up, polls succeed for good.
PollsRecover == <>[](result = "ok")
=============================================================================
