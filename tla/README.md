# TLA+ models of mq-pymqi-exporter

This directory specifies the core of the Prometheus exporter for IBM MQ under
`src/mq_exporter/`: the polling engine, the metric cache, the MQ sessions, what a
poll does with messages, and the start and stop of the process; and the sample
`amqsruaa.c` that the exporter starts as `amqsruac`. TLC checks the modules on small
instances; TLAPS proves the main safety properties for every value of the constants.
Line numbers are those of `src/mq_exporter/<file>` unless a path is given (in what is
said of the sample, those of `amqsruaa.c`); README.md with a line number is the
exporter's own README.

## 1. The system

The exporter is one Python process. The main thread starts an HTTP thread and the
polling engine and waits for a signal. The engine is a scheduler thread and a pool
of worker threads around one work queue. A worker polls one queue manager at a
time: it asks the collector for records (MQ calls over a session kept from poll to
poll) and hands them to the metric store, which the HTTP thread's scrapes read.

| Component | State it keeps | Operations | Talks to |
| --- | --- | --- | --- |
| Poll scheduler and worker pool (`scheduler.py`) | job table (`running`, `next_run`), work queue, stop event, threads | `_run_loop`, `_submit`, `_worker_loop`, `_poll_once`, `_complete`, `start`, `stop` | collector (call), metric store and runtime state (updates) |
| Runtime status record (`runtime_state.py`) | per queue manager: running, last error, times, counters | `mark_scheduled/running/success/failure`, snapshots | written by the engine, read by `/status` and `/info` |
| Metric store (`metrics.py`) | Prometheus families, the series each queue manager owns, exporter gauges | `record_success`, `record_failure`, `set_next_poll` | written by workers under a lock, scraped without it |
| Collector sessions (`mq.py` 614-651, 876-1006) | session table; per session one or two connections and the subscriptions | `collect`, `_get_or_create_session`, `_invalidate_session`, `close` | IBM MQ; `close` called by the main thread |
| Message collection (`mq.py` 653-874, 1616-1757) | newest publication per topic (with the session), fallback records and refresh times | drains of the administration and event queues, system-topic stream, `amqsruac` fallback | IBM MQ queues, `amqsruac` processes |
| PCF inquiries (`mq.py` 1408-1614, 2519-2594) | observed queues and applications | one method per object type | IBM MQ command server |
| Subscription plan and metadata discovery (`mq.py` 1008-1405) | once-per-queue-manager probe flag | topic list from patterns | called while a session is built |
| Message and publication parsers (`mq.py` 1783-2517) | none | bytes to records | pymqi |
| HTTP server (`http_server.py`) | server object, thread | `start`, `stop`, `_serve` | metric store, runtime state (reads) |
| Process life cycle (`main.py`) | stop event, interrupt count | `main`, signal handler `_stop` | everything above |
| Configuration loader (`config.py`) | none | `load_exporter_config`, `parse_duration` | files |
| Request/reply tool (`src/mq_requestreply/`) | none between runs | put one message, drain the queue | IBM MQ |
| Resource usage sample (`amqsruaa.c`, `amqsruac` when built) | a tree of classes, types and elements; one temporary queue; subscriptions; the options | `main`, `sruDiscover`, `sruPromptFor...`, `sruSubscribe`, `sruFormatMessage`, `sruRegister...` | IBM MQ; started by message collection, which reads its output |
| `amqsrua.py`, scripts, Docker lab, dashboards, IBM packages, vendored `prometheus_client` | - | - | outside the exporter's process |

What makes each component correct, and what is hard about it:

- **Engine.** Polls of one queue manager never overlap although the scheduler reads
  the job table without the lock; no queue manager is forgotten; `stop()` returns
  while a poll hangs, and leaves no thread behind when it comes back. Hard:
  unlocked reads, two assignments of one clause seen apart, joins that time out,
  sentinels mixed with late jobs, an exception that leaves a worker.
- **Store.** A scrape sees kept, old and new series and never a gap; a failed poll
  leaves the last samples; one queue manager cannot disturb another; a rejected
  replacement leaves the tables usable. Hard: exceptions half way, scrapes between
  two statements, families shared by all queue managers.
- **Sessions.** No connection leaks whatever fails; no stale session survives a
  failed poll; one retry; `close()` is complete. Hard: `close()` beside polls that
  outlived `stop()`'s joins, faults while a session is half built, connection handles
  that belong to a thread and that two sessions on one thread share.
- **Messages.** A drained message is counted once; what is lost is bounded by what
  failed; the newest value is returned; every class has a source. Hard: destructive
  reads before the poll is known to succeed, other consumers, a retry inside a poll.
- **Resource usage sample.** Its tree never mixes up classes and types, it subscribes
  to what its command line asks for and prints only that, it ends, and its exit status
  tells whether its output can be used. Hard: every subscription delivers to one queue,
  so that a late or repeated answer is taken for the answer to the next question; a
  pointer into a buffer that is overwritten; errors that some levels do not pass on.
- **Life cycle.** A signal at any point ends the process, and `main()` returns only when
  `stop()` of the engine and `close()` of the collector have run, in that order. The
  joins of `stop()` may time out, so that a thread of the engine may outlive both. Hard:
  handlers that run between any two steps of the main thread, an engine started half
  way, locks that are not reentrant, a server thread that is still starting.

PROJECT.json lists the hazards one by one, each at its line with the properties that
guard it or the reason why none does.

## 2. Modules

| Module | Models | Proofs |
| --- | --- | --- |
| `PollCycle` | what the engine promises: abstract specification | - |
| `PollScheduler` | `scheduler.py`, the `mark_` calls of `runtime_state.py`, the target_up gauge | `PollSchedulerProofs` |
| `MetricStore` | `metrics.py` | `MetricStoreProofs` |
| `CollectorSession` | sessions of `mq.py` | `CollectorSessionProofs` |
| `MessageCollection` | drains, stream and fallback of `mq.py` | `MessageCollectionProofs` |
| `ExporterLifecycle` | `main.py`, `http_server.py` | `ExporterLifecycleProofs` |
| `ResourceUsage` | `amqsruaa.c` | `ResourceUsageProofs`, `ResourceUsageTypeProofs`, `ResourceUsageDataProofs` |

Each `MC...` module extends one of them and gives the values of its constants. The
modules meet at three places: `PollScheduler` shows that a queue manager has at most one
poll at a time, on which `CollectorSession` (a queue manager's name stands for its poll,
which any free worker may run) and `MessageCollection` (a poll is one thread) rest;
`MetricStore` shows how `record_success` may raise, which `PollScheduler` takes as the
outcome "rejected"; what `ResourceUsage` shows of exit statuses is why
`MessageCollection` may take every output that `Measured` brings for data;
`ExporterLifecycle` uses that `stop()` returns, which threads it may leave running
(`PollScheduler`, `StopEndsThreads`), and what `close()` then leaves behind
(`CollectorSession`, `CloseIsComplete`). Operators whose comment begins with "mutant"
are plausible wrong versions of the definition that follows; no specification uses them.

### PollScheduler

A queue manager is the index of its job. Variables are the fields of the code: `running`
and `nextRun` of `_JobState`, `queue` for `_work_queue` (jobs, and `None` for the
sentinel), `stop`, and for the surfaces `nextPoll`, `shownRunning`, `shownError`,
`health` (target_up). `spc`, `at`, `seen` are the scheduler thread's place, its job and
its `now`; `wpc`, `wjob`, `outcome` the workers'; `main`, `posted` the stopping
thread's. One action stands for one statement another thread can observe: `Publish`
69-70, `Consider` 71-73, `Claim` 76-80 under the lock, `MarkRunning` 81, `PutJob` 82;
`GetJob`, `GetSentinel`, `GetTimesOut`, `AfterEmpty` 95-106; `Collect`,
`RecordSuccess`/`RecordFailure`/`RecordRaises`, `Report` 84-122; `Release` and
`Reschedule` are the two assignments of the finally clause 124-127 (the lock is held
between them: `LockFree`). `join` with a timeout returns whether the thread has ended or
not. The re-check of `running` under the lock in `_submit` is redundant in this code
(there is one scheduler thread, and only it sets the flag), but it is modelled.
`nextPoll` is `None` until the loop has published a time for the first time.
`NoPollAheadOfStatus` compares the time shown with the clock at the moment a job is
handed over (`HandsOver`); it rests on a clock that is not set back.

### MetricStore

A scope is a queue manager, an object stands for the label values that tell series
apart, a label set for the tuple of label names. `record_success` is split at every
point where a scrape can look or the code can raise: `RemoveVanished` 88-89,
`OpenFamily`/`FamilyRaises` 91-106, `SetSeries`/`SetRaises` 107-110, `CloseFamily`
112-115, `Commit` 117. `good` and `last` are history: the objects of the last stored
poll, and how the last poll ended (a scope with a rejected poll stays "rejected").

### CollectorSession

`sessions` is `_sessions`; a session has one or two `QueueManager` objects (`qmgr`,
`stream`), each with a connection handle; `link` is the state of a handle's connection. A
thread's `pc` moves through lookup, building (`connect`, `stream`, `subscribe`, `install`),
`use`, and releasing (`pop`, `drop_stream`, `drop_qmgr`). Every building step has its
failure; a connection may break at any time (`Break`). `UseBroken` is the error that
`_is_reconnectable_session_error` accepts, `UseFails` every other. `close()` copies the
names, then invalidates them one by one with the same release steps.

What MQ does with handles matters to the clean-up and is modelled from the connect options
(922-946). Over a channel the exporter asks for a handle that all threads may use
(MQCNO_HANDLE_SHARE_BLOCK), and gets a new one each time. Without a channel (bindings) the
handle is the thread's: no other thread can use or disconnect it, and a thread that
connects again gets MQRC_ALREADY_CONNECTED with the handle that it has, which the code
takes for success (941-946, tests/test_mq.py:826). So the two objects of a session, or the
sessions of two queue manager names, may share a handle. `worker` is the thread that runs a
poll, `Owner` the thread a handle belongs to or the name that may be given a shareable one,
`local` the names without a channel. `OnlyCloseDisconnectsInUse` is about handles of both
kinds. `HandlesAreHeld` is about shareable ones: a thread's handle stays behind when another
thread drops the session, until its thread connects again, which it does with this handle.
In a configuration all names without a channel mean one local queue manager; that a thread
is connected to two of them is not modelled.

### MessageCollection

One queue manager's polls. `drained` counts the messages whose records the running poll
holds; `reported`, `lost`, `other` are history: where messages ended. Strict queues
(accounting, statistics, activity) pass an error on to `collect()`; event queues
(`_collect_event_metrics`, 754) swallow it. `GetMessage` removes a message before it is
decoded, as MQGET without a syncpoint does. A subscription stands for the topic and the
class it belongs to; `cache` is `session.system_topic_records`, `taken` the history of the
newest value read in the session. `Fallback` is `_collect_cached_amqsruac_fallback` with
the clock abstracted to the set `fresh` of classes whose interval is not over; `Measured`
is what the `amqsruac` processes may bring. In the other modes (`MeasureUncached`) they
are run for every class in every poll, or not at all, and nothing is cached; that
publications come before `amqsruac` (`AmqsruacIsLastResort`) is said of mode "fallback"
only. `required` is
`required_classes`: those of `QueueClasses` (STATQ) join it when an inquiry has returned a
queue, those of `AppClasses` (STATAPP) when a message of one of `NamingQueues`
(accounting, activity trace) has named an application; as `_observed_queues` and
`_observed_applications` they never leave it. The PCF inquiries come before the first
destructive read, in two steps between which the queues are already remembered; each may
fail the attempt.

### ExporterLifecycle

The main thread's statements with the signal handler between any two of them. `WaitStep`
splits `stop_event.wait` into the parts that hold the event's internal lock and the
sleep that does not (CPython's `threading.Event`). The HTTP thread may bind late or not
at all; `asked` and `ended` are the flags of `socketserver`. A start assigns a thread
before it starts it (http_server.py:29-30, scheduler.py:50-51), and an exception between
the two makes the later `join` raise: `main` is then "aborted".

`SchedulerStop` sets the engine's stop event (scheduler.py:54); `JoinEngine` is its
timed joins (56-62), which end because the threads have (`EngineEnds`) or give up, which
`timedOut` remembers. After that a thread of the engine may be running while the
sessions are closed, and may take another job and start a poll. `SessionsOutliveEngine`
says no more than the code provides: the sessions are closed after the engine was told
to stop, and beside a running thread of it only if a join has given up. What `close()`
and such polls do to each other is the subject of `CollectorSession` (`late`).

### ResourceUsage

`amqsruaa.c` asks three kinds of questions, each a subscription to a metadata topic
whose retained publication is the answer: which classes there are, which types a class
has, which elements a type has. All subscriptions deliver to one temporary queue (`tdq`,
a sequence of topics: `Content` says what is published on each). `ClassChain`,
`typeChain` and `elemChain` are the tree of linked structures; `at` is the loops'
`pClass` and `pType`, `walk` the `idx` and `cfin` of the loop over a message, `local`
the variables of `sruDiscover` that outlive a turn, `want` those of `sruSubscribe`. One
action is one MQ call, or one turn of a loop: parsing takes a step per parameter or
group. A message is the sequence of its PCF parameters, ids stand for the names that
come with them. `local.topic` points into the buffer in the code; after the buffer was
overwritten it is the old topic or one that nobody publishes on (`Stale`).
`sruDiscover` returns the Reason of its last MQ call (1362), so that `DiscoveryEnds(0)`
after an id that is not in the tree leads on to the prompts. Every MQ call may fail
(`Fails`), and `Publish` may publish metadata late or again at any step until the
program ends.

What IBM MQ publishes is described by assumptions on the constants, which TLC evaluates
for the instance and the proofs use for all: `TypesTopic`, `ElementsTopic` and
`DataTopic` are where the types of a class, the elements of a type and its data are
published; `WalkAssumption` and `LayoutAssumption` say how every message is laid out,
`MetadataAssumption` what the answers say (`AboutClasses`, `AboutTypes`,
`AboutElements`), `DataAssumption` what a publication of data says. `AskedPair` and
`AskedObject` read a command line without the program's counters: the class of a type is
the last one named before it, its object the last one named after it and before the next
type, or else the first one named after its class and before the next class. That is
where the stored counts and indices must lead; `SubscribesAsAsked` compares the two.

Reading it this way also shows what the properties do not ask. `main()` returns 0, 20,
-1 or the reason code of the discovery's last call, where the comment at 163-165 knows 0
and 20 only. Its parent sees the low 8 bits (`ExitStatus`): -1 is 255, and the reasons
2048, 2304 and 2560 are 0. MQRC_MULTICAST_ONLY, 2560, is a reason that a call on a topic
may have: a discovery that fails with it is a success to the exporter (mq.py:817), and
the line "MQSUB ended with reason code 2560" has the form of a value (828-832).
`ReasonAssumption` leaves these reasons out, so that `FailuresAreReported` and
`ZeroMeansData` say nothing of them. Leftover metadata is counted as a publication if
somebody publishes it while the program runs (hence `Quiet`). Two classes without a type
are asked about and then refused: the answer is written to `Type[ClassCount-1]` (775)
and `Type[0]` is read. A topic that comes before its group would be lost, though
comments (1044-1045, 1391-1393) warn of relying on an order. The exporter gives the
process 12 seconds, less than one wait of 10 and one of 30 seconds: a slow discovery is
killed, and counts as an error of that class (`Measured`).

## 3. What the runs show

| Run | Instance | Result |
| --- | --- | --- |
| `PollScheduler_safety` | 2 jobs, 2 workers, intervals 0 and 1, clock to 1, all outcomes | polls never overlap, claims are not lost, `/status` and target_up are true until the store rejects a poll, no poll starts ahead of the time shown for it, the engine refines `PollCycle` |
| `PollScheduler_live` | 3 jobs without pause, 2 workers, failing polls, clock at 0 | due jobs are polled although the other worker hangs, polls end, `stop()` returns and every thread ends, but for one hanging in MQ |
| `PollScheduler_spacing` | 2 jobs, 1 worker | **violated**: a poll starts before its interval has passed |
| `PollScheduler_lostworkers` | 2 jobs, 2 workers, rejected polls | **violated**: with all workers dead nothing is polled |
| `MetricStore_replace` | 2 scopes, 2 metrics, 2 label sets, up to 2 records per metric | cache, scrape, isolation and bookkeeping properties |
| `MetricStore_stale` | same | **violated**: a series of a rejected poll is never removed |
| `CollectorSession_sessions` | 2 queue managers (one with a stream), with channels or without, 2 worker threads, 5 shareable handles and 2 of each thread, 1 fault | no leak, no poll disconnected by another, no stale session, one retry, complete close, recovery |
| `MessageCollection_poll` | 1 strict and 1 event queue with 1 message each, 2 topics (one of a STATQ and one of a STATAPP class), budget 2, 1 fault, modes "fallback" and "always" | message accounting, newest values, coverage, recovery |
| `MessageCollection_loss` | same, mode "fallback" | **violated**: a poll succeeds without the messages its first attempt consumed |
| `ExporterLifecycle_shutdown` | up to 4 signals, engine threads that end at once, late or never | `main()` returns only after `stop()` and `close()`, in that order; a set event or a second signal ends the process |
| `ResourceUsage_sample` | 13 command lines, 2 objects, 2 classes with 3 types, 4 elements, metadata complete, without a language, or with an answer missing; 2 late publications, 1 failing call | a sound tree, honest exit statuses, the subscriptions asked for, the data asked for, an end |
| `ExporterLifecycle_deadlock` | 1 signal | **violated**: the handler deadlocks with the main thread |

The five disagreements are in PROJECT.json under "findings", each with the line that
says otherwise. In short:

1. *Spacing* (scheduler.py:71, 126-127): the finally clause clears `running` before
   it sets `next_run`; the scheduler, reading both without the lock in between, sees
   a free job with the old poll time and submits it at once.
2. *Lost workers* (scheduler.py:121): `record_success` is called in the else branch,
   so what it raises is not caught: no `mark_` call is made (the status record stays
   "running" with no error, target_up stays 1) and the worker thread dies. This is
   why `StatusIsTruthful` speaks of engines in which no poll has been rejected so far
   (`NoneRejected`).
3. *Stale series* (metrics.py:109): a rejected replacement may leave children in a
   gauge that no table knows of. Together with 2, a rejected poll leaves a partly
   replaced cache; the properties about a scope's cache are therefore stated of
   scopes none of whose polls was rejected (`Accepted`), while isolation and
   bookkeeping hold of all. Rejections do not need a bug elsewhere: the first queue
   manager to bring a metric fixes its label names, and the collector varies them
   (mq.py:1528-1531, 1841-1843, 2029-2040).
4. *Lost messages* (mq.py:646): the retry after a broken connection starts over with
   empty records, while the messages of the first attempt are gone.
5. *Handler deadlock* (main.py:125): `Event.set()` from a handler that interrupted
   `Event.wait()` in the same thread while it held the event's lock.

### Bounds

Two jobs are needed for competition, two workers for polls side by side and for a
sentinel one worker takes from another's share, one worker for jobs that wait. A clock
of 0..1 with intervals 0 and 1 has jobs that are due again at once, jobs that become
due, and jobs that never do. Two metrics with two label sets give every way a
replacement is rejected: at a family, at a record, before and after another group.

One fault in `CollectorSession` reaches every error path. A poll needs its second
session to fail as well for the retry to be refused: `close()` disconnects it, and
without a channel it may be given a handle whose connection has broken before. The
handles are as many as a session in use and one that is being released need, so that
`Connect` never waits.

One message per queue suffices for it to be read, lost, shared or undecodable, and the
event queue comes after the strict one, so that each is lost in either order; depth 1
and budget 2 let the budget run out and let values change. Mode "disabled" is "always"
with nothing measured.

`PollScheduler_live` has three jobs without pause, one more than workers, and keeps the
clock at 0, where all of them are due again after each poll. A worker that hangs keeps
its job, so that two jobs go on competing for the one worker left: what liveness is
about is who gets the worker and the lock.

`ResourceUsage` takes command lines that name one class, two classes, one class twice,
one object for a class and another for a later type, more classes than fit, no class, no
type, a type of another class, a name that is nothing, an unknown option, a prefix that
is refused, and no limit; class A has a type with two elements, so that a group is not
the last one; class B has data per object. With 2 publications a repeated answer can be
followed by another one, and with an answer missing at first one can come late.

Four signals reach the try block, the except clause and the finally clause and one more.
What these instances leave open the proofs settle for safety.

### Fairness

- `PollScheduler`: weak fairness of each thread's own steps; strong fairness of
  `Release`, which waits for a lock that others take and give back again and again. A
  poll is *not* assumed to return (`Collect` has no fairness) for `StopEndsThreads`;
  `CollectorReturns` (the timeouts of the MQ client) is assumed for `PollFinishes`, and
  for `DueJobIsPolled` only that one worker's polls return. Weak fairness per worker
  suffices since the work queue is first in, first out. The clock and callers of
  `start`/`stop` are never forced.
- `CollectorSession`: each poll's steps are weakly fair, and the scheduler polls
  again while the process serves (from `DueJobIsPolled`).
- `MessageCollection`: the poll's steps are weakly fair; publishers, other consumers
  and time are not.
- `ExporterLifecycle`: both threads are weakly fair; nobody has to send a signal.
- `ResourceUsage`: the program's steps are weakly fair, which includes that somebody
  answers a prompt; nobody has to publish anything.

## 4. What is proved

All theorems hold for every value of the constants that the modules' assumptions
allow: any number of queue managers, workers, metrics, sessions, queues, faults.

- **PollSchedulerProofs.** `TypeCorrect`; `NoOverlappingPolls` and `ClaimsAreNeverLost`
  need each other: that two polls never overlap holds because the flag is set exactly
  while somebody holds the job, and the flag may be cleared by a worker only because no
  second holder exists. `IInv` is their conjunction with the type invariant, the fact
  that a busy worker has a job, and the fact that before `start()` nothing has happened.
  `StatusTellsTheTruth` adds an invariant on the surfaces that holds until the first
  poll is rejected (see 2 above), and the fact that a rejection is never forgotten: it
  leaves a dead worker (`RejectionsLast`). `PollsKeepToTheTimeShown` follows the time of
  the next poll (`TimesInv`): while the loop checks a job, the time shown is not later
  than the job's, which a worker only ever replaces by a later one, and of a job found
  due it is not later than the loop's `now`. `EngineImplementsPollCycle` is the
  refinement, step by step.
- **MetricStoreProofs.** `BooksAreSound` from an invariant on the call in progress;
  `ScopesAreIsolated`, an action property; `CacheIsFaithful` (with `ScrapesSeeNoGap`)
  from `CacheInv`, which says of each metric where the replacement stands: still
  vanished, to come, at hand, or done; `TargetUpIsTruthful` from `UpInv`, which ties the
  gauge to the outcome of the poll that ended last.
- **CollectorSessionProofs.** `IInv` says which thread may refer to which shareable handle
  at which step. `Control`: what a thread has in hand at its step, and that two polls are
  not on one thread. `Table`, `Closing`: what the table holds beside it, before and after
  `close()`. `Owned`: a shareable handle does not get into another name's session.
  `Exclusive`: one that is in the table or being built into a session is connected, and
  nobody releases it; two threads do not release the same one. `Attempts` counts sessions,
  `AllHeld` is `HandlesAreHeld` handle by handle. From it follow `NoConnectionLeaks`,
  `PollsDoNotDisturbEachOther` (for a thread's own handle, because the thread runs no second
  poll and others cannot disconnect it), `FailedSessionsAreDropped`,
  `CloseLeavesNoIdleSession` and `PollsRetryOnce`.
- **MessageCollectionProofs.** `NoMessageTwice` (an attempt in hand implies a
  session, an idle poll holds nothing), `PollsReturnTheNewest` (kept and taken
  values agree through the stream), `ClassesAreCovered`, and two action properties,
  `PublicationsComeFirst` (of mode "fallback") and `LossesDropTheSession`.
- **ExporterLifecycleProofs.** `ShutdownIsOrderly` (with the type invariant), from what
  the main thread's place says: past the wait a signal has come (`Signalled`), past
  `SchedulerStop` the engine was told (`EngineTold`), past its joins it has ended or one
  has given up (`EngineJoined`), and the sessions are closed last (`ClosedLast`).
- **ResourceUsageProofs.** `FailedCallsAreReported` from `ReportInv`: after a call that
  matters has failed, the program has ended or only disconnects, with another code than 0
  in either case, and the loop over the publications runs with code 20, which is 20 to the
  parent too. The codes of the discovery are reasons, and `ReasonAssumption` is what is
  assumed of them: not 0 in the low 8 bits.
  `TreeStaysSound` rests on what is assumed of IBM MQ's messages and topics in general
  (`WalkAssumption`, `LayoutAssumption`, `TopicAssumption`; TLC checks the assumptions of
  the instance), in whatever order messages are published: `TreeInv` says that the tree is
  sound, and `ParseInv` that while a message is parsed the loop is at a parameter, and
  class_id and type_id are unset or those the message began with.
- **ResourceUsageTypeProofs.** `TypeCorrect`, from `TypeInv`: what is stored of the
  command line fits its arrays (`InputInv`, from `CommandAssumption` and
  `BoundsAssumption`), the loops stay within the chain of classes, which grows only while
  no loop goes through it (`ClassInv`), and what is counted stays within its bounds
  (`CountInv`). Publications at any time are included.
- **ResourceUsageDataProofs.** `SubscribesToWhatIsAsked` and `ZeroMeansDataWasPrinted`,
  for every complete command line and every tree of metadata, of runs in which no metadata
  is published. The argument follows the program. `LineInv`: after k options, every class
  and type named so far is in its slot with its object, and the counts of types per class
  divide the slots as the line does (`Stored`); at the end this is what was asked for
  (`LineIsPlan`). `FoundInv`: as no metadata is published meanwhile, the queue holds only the
  answer to the open question (`AskingInv`); what has been parsed of it is in the tree
  (`ParsedInv`); a type has the topic of its elements until their answer has been read,
  then that of its data (`ChainInv`, `Entry`). `SubscribedInv`: after so many turns of
  `sruSubscribe()` the subscriptions are those for so many types of the line, and idx3 is
  where the class begins plus idx2 (`Progress`); what waits on the queue came from them.
  `CountedInv` and `PrintedInv` carry this through the loop to the exit status. The proofs
  use all eight assumptions of the module; where the code looks for the first or last entry of
  a kind, a least or greatest member is taken from the well-foundedness of the naturals,
  so that no induction over data is needed.

Only model-checked: every liveness property (`DueJobIsPolled`, `PollFinishes`,
`StopEndsThreads`, `RecoversFromFaults`, `PollsRecover`,
`StopEventEndsProcess`, `SecondInterruptEndsProcess`, `Terminates`), since liveness under
fairness is out of the proof system's reach. Every invariant and every action property of
the passing runs is the subject of a theorem. The properties of the runs that expect a
violation are false, and have none.

## 5. Not modelled

- Values, units, names and texts of metrics: they are data to the properties. That
  records of one metric may differ in label names is kept.
- The exporter's own counters and durations.
- Of the sample: the layout of the lines it prints (`sruFormatElem`; message collection
  takes the values of a line whose unit it knows and passes over the others), warnings
  about names that are too long, failed `malloc` calls. Of the options `-m`, `-s`, `-d`
  and `-p` only that they are accepted, or `-p` refused (422): which queue manager and
  model queue they name, the debug output, and that other topics than those below the
  prefix do not matter. Every option is followed by its value. An MQGET that ends with a
  warning is counted and formatted like one that ends without (604-629); that the
  warning may say that the message was not converted, so that no value can be read from
  it, is left out. Types beyond `MAX_TYPE_COUNT` are not stored but counted to their
  class all the same; no command of the instance has more than fit, since what is read
  then is undefined, and `Complete` asks for lines that fit.
- 35 of the repository's 36 C files are headers of the IBM client: constants and
  prototypes without behaviour, as are the Python files of the vendored client library.
  The C code is `amqsruaa.c`; the exporter itself is Python.
- Limits that the code has and no property states, since any property would be their
  negation: polls postponed by a clock set back (scheduler.py:127), the budget spent on
  the subscriptions in list order (mq.py:1665), a drain without a bound (mq.py:1740),
  observed objects that are never forgotten (mq.py:1455).
- Two enabled queue managers of one name, which `config.py` does not reject: they
  would share a session (mq.py:896), a status record and a scope. Names are assumed unique.
- The metadata discovery (1008-1286): the direct topic plan is never empty, so the
  fallback that leads to it is not taken.
- Dropped for the process's daemon threads: what they do after `main()` returned.

## 6. Plan

Engine, store, sessions, messages, life cycle and the resource usage sample are done, in
this order of importance. What remains:

1. `RequestReply`: one put and the drain of the request/reply tool beside other
   requesters and consumers of the queue: what a failing or timed-out read loses,
   that two runs divide the messages, that the handles are closed on every path.
2. `MonitorTopics`: the pure algorithms of the subscription plan as functions and
   folds: deduplication and order of the direct patterns, `_parse_monitor_path`
   (2351-2387) against a reference definition over bounded paths, `_coerce_numeric`.
3. `ConfigLoader`: `parse_duration` (15-27), the cap on `max_threads`, defaults, and
   which configurations are refused.
4. HTTP endpoints: `/status` and `/info` snapshots beside the engine's updates, as
   further variables of `PollScheduler`.
5. A composition of the polling cycle with the store, in which the outcome of a poll
   is what `MetricStore` decides, in place of `PollOutcomes`.
6. Proofs: the shutdown invariant with the HTTP server's socket; that `CollectorSession`
   implements an abstract table of sessions.
