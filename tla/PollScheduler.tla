--------------------------- MODULE PollScheduler ---------------------------
(***************************************************************************)
(* The background polling engine: one scheduler thread (_run_loop), a      *)
(* bounded pool of worker threads (_worker_loop), the job table and the    *)
(* work queue they share, the two health surfaces a finished poll updates  *)
(* (the target_up gauge and the /status record), and stop() as the main    *)
(* thread runs it.                                                         *)
(*                                                                         *)
(* A queue manager is the index of its job in the job table, which the     *)
(* loop visits in configuration order.                                      *)
(***************************************************************************)
EXTENDS Integers, Sequences, FiniteSets

CONSTANTS
  NumJobs,        \* enabled queue managers
  Workers,        \* the pool of worker_pool.max_threads threads
  Interval,       \* poll_interval_seconds of each job
  MaxTime,        \* bound of the clock (model checking only)
  PollOutcomes,   \* what a poll may come to, see Collect
  None            \* Python's None: no job, and the worker's stop sentinel

Jobs == 1..NumJobs

\* "stored":   the collector returned records and the store took them
\* "rejected": the collector returned records and record_success raised
\* "failed":   the collector raised
OutcomeNames == {"stored", "rejected", "failed"}

ASSUME PollSchedulerAssumption ==
  /\ NumJobs \in Nat
  /\ IsFiniteSet(Workers)
  /\ Interval \in [Jobs -> Nat]
  /\ MaxTime \in Nat
  /\ PollOutcomes \subseteq OutcomeNames
  /\ None \notin Jobs

VARIABLES
  clock,        \* time.time()
  stop,         \* _stop
  queue,        \* _work_queue: jobs and sentinels
  running,      \* _JobState.running
  nextRun,      \* _JobState.next_run
  nextPoll,     \* the published next poll time (gauge and /status)
  shownRunning, \* QueueManagerRuntime.running
  shownError,   \* QueueManagerRuntime.last_error is set
  health,       \* the target_up gauge
  spc,          \* scheduler thread: program counter
  at,           \* scheduler thread: job the for loop is at
  seen,         \* scheduler thread: its local now
  wpc,          \* worker threads: program counters
  wjob,         \* worker threads: the job in hand
  outcome,      \* worker threads: how the job in hand came out
  main,         \* thread that starts and stops the engine: program counter
  posted        \* main: sentinels posted

jobVars == <<running, nextRun>>
surfaces == <<nextPoll, shownRunning, shownError, health>>
schedVars == <<spc, at, seen>>
workVars == <<wpc, wjob, outcome>>
mainVars == <<main, posted>>
vars == <<clock, stop, queue, jobVars, surfaces, schedVars, workVars, mainVars>>

Init ==
  /\ clock = 0
  /\ stop = FALSE
  /\ queue = <<>>
  /\ running = [j \in Jobs |-> FALSE]
  /\ nextRun = [j \in Jobs |-> 0]
  /\ nextPoll = [j \in Jobs |-> None]
  /\ shownRunning = [j \in Jobs |-> FALSE]
  /\ shownError = [j \in Jobs |-> FALSE]
  /\ health = [j \in Jobs |-> "unset"]
  /\ spc = "unstarted"
  /\ at = 1
  /\ seen = 0
  /\ wpc = [w \in Workers |-> "unstarted"]
  /\ wjob = [w \in Workers |-> None]
  /\ outcome = [w \in Workers |-> "none"]
  /\ main = "new"
  /\ posted = 0

\* Only the worker that is between its two assignments under _lock holds it.
LockFree == \A w \in Workers : wpc[w] # "reschedule"

-----------------------------------------------------------------------------
(* RuntimeState: the updates of one /status record.                        *)

mark_running(j) ==
  /\ shownRunning' = [shownRunning EXCEPT ![j] = TRUE]
  /\ UNCHANGED shownError

mark_success(j) ==
  /\ shownRunning' = [shownRunning EXCEPT ![j] = FALSE]
  /\ shownError' = [shownError EXCEPT ![j] = FALSE]

mark_failure(j) ==
  /\ shownRunning' = [shownRunning EXCEPT ![j] = FALSE]
  /\ shownError' = [shownError EXCEPT ![j] = TRUE]

-----------------------------------------------------------------------------
(* The scheduler thread.                                                   *)

\* Mutant: one job too many.
NextJobPastEnd(j) ==
  IF j <= NumJobs THEN at' = j + 1 /\ spc' = "publish"
                  ELSE at' = 1 /\ spc' = "check"

\* The for statement: on to the next job; after the last one the thread waits
\* in _stop.wait(tick) until it next checks the event.
NextJob(j) ==
  IF j < NumJobs THEN at' = j + 1 /\ spc' = "publish"
                 ELSE at' = 1 /\ spc' = "check"

LoopCheck ==
  /\ spc = "check"
  /\ IF stop
     THEN spc' = "exited" /\ UNCHANGED <<at, seen>>
     ELSE seen' = clock /\ NextJob(0)
  /\ UNCHANGED <<clock, stop, queue, jobVars, surfaces, workVars, mainVars>>

\* set_next_poll and mark_scheduled
Publish ==
  /\ spc = "publish"
  /\ nextPoll' = [nextPoll EXCEPT ![at] = nextRun[at]]
  /\ spc' = "consider"
  /\ UNCHANGED <<clock, stop, queue, jobVars, shownRunning, shownError, health,
                 at, seen, workVars, mainVars>>

\* Mutant: submits every job that is not running.
DueWhenFree(j) == ~running[j]

\* The check reads running and next_run without _lock.
Due(j) == ~running[j] /\ seen >= nextRun[j]

Consider ==
  /\ spc = "consider"
  /\ IF Due(at) THEN spc' = "submit" /\ UNCHANGED at ELSE NextJob(at)
  /\ UNCHANGED <<clock, stop, queue, jobVars, surfaces, seen, workVars, mainVars>>

\* Mutant: queues the job without marking it as running.
ClaimUnmarked ==
  /\ spc = "submit"
  /\ LockFree
  /\ IF running[at]
     THEN NextJob(at) /\ UNCHANGED running
     ELSE /\ running' = [running EXCEPT ![at] = TRUE]
          /\ spc' = "put"
          /\ UNCHANGED at
  /\ UNCHANGED <<clock, stop, queue, nextRun, surfaces, seen, workVars, mainVars>>

\* _submit under _lock: the flag is read again, next_run is not.
Claim ==
  /\ spc = "submit"
  /\ LockFree
  /\ IF running[at]
     THEN NextJob(at) /\ UNCHANGED running
     ELSE /\ running' = [running EXCEPT ![at] = TRUE]
          /\ spc' = "mark"
          /\ UNCHANGED at
  /\ UNCHANGED <<clock, stop, queue, nextRun, surfaces, seen, workVars, mainVars>>

MarkRunning ==
  /\ spc = "mark"
  /\ mark_running(at)
  /\ spc' = "put"
  /\ UNCHANGED <<clock, stop, queue, jobVars, nextPoll, health, at, seen, workVars,
                 mainVars>>

PutJob ==
  /\ spc = "put"
  /\ queue' = Append(queue, at)
  /\ NextJob(at)
  /\ UNCHANGED <<clock, stop, jobVars, surfaces, seen, workVars, mainVars>>

Scheduler ==
  LoopCheck \/ Publish \/ Consider \/ Claim \/ MarkRunning \/ PutJob

-----------------------------------------------------------------------------
(* The worker threads.                                                     *)

\* A thread that has started and has neither returned nor died.
Alive(w) == wpc[w] \notin {"unstarted", "exited", "dead"}

\* Mutant: clears the running flag when the job is taken, not when it is done.
GetJobAndFree(w) ==
  /\ wpc[w] = "get"
  /\ queue # <<>>
  /\ Head(queue) # None
  /\ wjob' = [wjob EXCEPT ![w] = Head(queue)]
  /\ running' = [running EXCEPT ![Head(queue)] = FALSE]
  /\ queue' = Tail(queue)
  /\ wpc' = [wpc EXCEPT ![w] = "collect"]
  /\ UNCHANGED <<clock, stop, nextRun, surfaces, schedVars, outcome, mainVars>>

GetJob(w) ==
  /\ wpc[w] = "get"
  /\ queue # <<>>
  /\ Head(queue) # None
  /\ wjob' = [wjob EXCEPT ![w] = Head(queue)]
  /\ queue' = Tail(queue)
  /\ wpc' = [wpc EXCEPT ![w] = "collect"]
  /\ UNCHANGED <<clock, stop, jobVars, surfaces, schedVars, outcome, mainVars>>

GetSentinel(w) ==
  /\ wpc[w] = "get"
  /\ queue # <<>>
  /\ Head(queue) = None
  /\ queue' = Tail(queue)
  /\ wpc' = [wpc EXCEPT ![w] = "exited"]
  /\ UNCHANGED <<clock, stop, jobVars, surfaces, schedVars, wjob, outcome, mainVars>>

\* get(timeout=0.5) raised Empty; the stop flag is read afterwards.
GetTimesOut(w) ==
  /\ wpc[w] = "get"
  /\ queue = <<>>
  /\ wpc' = [wpc EXCEPT ![w] = "empty"]
  /\ UNCHANGED <<clock, stop, queue, jobVars, surfaces, schedVars, wjob, outcome,
                 mainVars>>

\* Mutant: returns on Empty without asking for the stop flag.
ExitOnEmpty(w) ==
  /\ wpc[w] = "empty"
  /\ wpc' = [wpc EXCEPT ![w] = "exited"]
  /\ UNCHANGED <<clock, stop, queue, jobVars, surfaces, schedVars, wjob, outcome,
                 mainVars>>

AfterEmpty(w) ==
  /\ wpc[w] = "empty"
  /\ wpc' = [wpc EXCEPT ![w] = IF stop THEN "exited" ELSE "get"]
  /\ UNCHANGED <<clock, stop, queue, jobVars, surfaces, schedVars, wjob, outcome,
                 mainVars>>

\* collector.collect comes back, after any time or never.
Collect(w) ==
  /\ wpc[w] = "collect"
  /\ \E o \in PollOutcomes : outcome' = [outcome EXCEPT ![w] = o]
  /\ wpc' = [wpc EXCEPT ![w] = "record"]
  /\ UNCHANGED <<clock, stop, queue, jobVars, surfaces, schedVars, wjob, mainVars>>

RecordFailure(w) ==
  /\ wpc[w] = "record"
  /\ outcome[w] = "failed"
  /\ health' = [health EXCEPT ![wjob[w]] = "down"]
  /\ wpc' = [wpc EXCEPT ![w] = "report"]
  /\ UNCHANGED <<clock, stop, queue, jobVars, nextPoll, shownRunning, shownError,
                 schedVars, wjob, outcome, mainVars>>

RecordSuccess(w) ==
  /\ wpc[w] = "record"
  /\ outcome[w] = "stored"
  /\ health' = [health EXCEPT ![wjob[w]] = "up"]
  /\ wpc' = [wpc EXCEPT ![w] = "report"]
  /\ UNCHANGED <<clock, stop, queue, jobVars, nextPoll, shownRunning, shownError,
                 schedVars, wjob, outcome, mainVars>>

\* record_success sets target_up to 1, then raises from the series
\* replacement: the else branch ends and no mark_ call is made.
RecordRaises(w) ==
  /\ wpc[w] = "record"
  /\ outcome[w] = "rejected"
  /\ health' = [health EXCEPT ![wjob[w]] = "up"]
  /\ wpc' = [wpc EXCEPT ![w] = "release"]
  /\ UNCHANGED <<clock, stop, queue, jobVars, nextPoll, shownRunning, shownError,
                 schedVars, wjob, outcome, mainVars>>

Report(w) ==
  /\ wpc[w] = "report"
  /\ IF outcome[w] = "failed" THEN mark_failure(wjob[w]) ELSE mark_success(wjob[w])
  /\ wpc' = [wpc EXCEPT ![w] = "release"]
  /\ UNCHANGED <<clock, stop, queue, jobVars, nextPoll, health, schedVars, wjob,
                 outcome, mainVars>>

\* Mutant: frees the job after a success only.
ReleaseOnSuccess(w) ==
  /\ wpc[w] = "release"
  /\ LockFree
  /\ running' = [running EXCEPT ![wjob[w]] = outcome[w] # "stored"]
  /\ wpc' = [wpc EXCEPT ![w] = "reschedule"]
  /\ UNCHANGED <<clock, stop, queue, nextRun, surfaces, schedVars, wjob, outcome,
                 mainVars>>

\* The finally clause takes _lock and clears the flag...
Release(w) ==
  /\ wpc[w] = "release"
  /\ LockFree
  /\ running' = [running EXCEPT ![wjob[w]] = FALSE]
  /\ wpc' = [wpc EXCEPT ![w] = "reschedule"]
  /\ UNCHANGED <<clock, stop, queue, nextRun, surfaces, schedVars, wjob, outcome,
                 mainVars>>

\* ... then sets next_run and drops _lock. An exception of record_success
\* goes on up through _worker_loop and ends the thread.
Reschedule(w) ==
  /\ wpc[w] = "reschedule"
  /\ nextRun' = [nextRun EXCEPT ![wjob[w]] = clock + Interval[wjob[w]]]
  /\ wpc' = [wpc EXCEPT ![w] = IF outcome[w] = "rejected" THEN "dead" ELSE "get"]
  /\ wjob' = [wjob EXCEPT ![w] = None]
  /\ outcome' = [outcome EXCEPT ![w] = "none"]
  /\ UNCHANGED <<clock, stop, queue, running, surfaces, schedVars, mainVars>>

\* Everything a worker does by itself, waiting for the collector apart.
WorkerStep(w) ==
  \/ GetJob(w) \/ GetSentinel(w) \/ GetTimesOut(w) \/ AfterEmpty(w)
  \/ RecordFailure(w) \/ RecordSuccess(w) \/ RecordRaises(w)
  \/ Report(w) \/ Release(w) \/ Reschedule(w)

-----------------------------------------------------------------------------
(* start() and stop(), called by the main thread.                          *)

Start ==
  /\ main = "new"
  /\ main' = "serving"
  /\ spc' = "check"
  /\ wpc' = [w \in Workers |-> "get"]
  /\ UNCHANGED <<clock, stop, queue, jobVars, surfaces, at, seen, wjob, outcome,
                 posted>>

\* Mutant: forgets to set the stop event.
StopWithoutEvent ==
  /\ main \in {"new", "serving"}
  /\ main' = IF main = "new" THEN "stopped" ELSE "joinScheduler"
  /\ UNCHANGED <<clock, stop, queue, jobVars, surfaces, schedVars, workVars, posted>>

\* stop() before start() finds no thread to join.
StopCalled ==
  /\ main \in {"new", "serving"}
  /\ stop' = TRUE
  /\ main' = IF main = "new" THEN "stopped" ELSE "joinScheduler"
  /\ UNCHANGED <<clock, queue, jobVars, surfaces, schedVars, workVars, posted>>

\* join(timeout=5) returns when the thread has ended and when it has not.
JoinScheduler ==
  /\ main = "joinScheduler"
  /\ main' = "postSentinels"
  /\ UNCHANGED <<clock, stop, queue, jobVars, surfaces, schedVars, workVars, posted>>

PostSentinel ==
  /\ main = "postSentinels"
  /\ IF posted < Cardinality(Workers)
     THEN queue' = Append(queue, None) /\ posted' = posted + 1 /\ UNCHANGED main
     ELSE main' = "joinWorkers" /\ UNCHANGED <<queue, posted>>
  /\ UNCHANGED <<clock, stop, jobVars, surfaces, schedVars, workVars>>

\* Mutant: joins the workers without a timeout.
JoinWorkersForever ==
  /\ main = "joinWorkers"
  /\ \A w \in Workers : ~Alive(w)
  /\ main' = "stopped"
  /\ UNCHANGED <<clock, stop, queue, jobVars, surfaces, schedVars, workVars, posted>>

\* join(timeout=1.0) per worker returns for an idle worker and a busy one.
JoinWorkers ==
  /\ main = "joinWorkers"
  /\ main' = "stopped"
  /\ UNCHANGED <<clock, stop, queue, jobVars, surfaces, schedVars, workVars, posted>>

StopStep == JoinScheduler \/ PostSentinel \/ JoinWorkers

-----------------------------------------------------------------------------
\* The clock, up to the bound of the model.
Tick ==
  /\ clock < MaxTime
  /\ clock' = clock + 1
  /\ UNCHANGED <<stop, queue, jobVars, surfaces, schedVars, workVars, mainVars>>

Next ==
  \/ Scheduler
  \/ \E w \in Workers : WorkerStep(w) \/ Collect(w)
  \/ Start \/ StopCalled \/ StopStep
  \/ Tick

Spec == Init /\ [][Next]_vars

\* A thread that can run does, and one that waits for _lock gets it if it is free
\* again and again: its holders only make two assignments between two polls.
\* Nothing is assumed of the clock, of anybody calling start() or stop(), or
\* (Collect is not a WorkerStep) of how long MQ takes to answer.
SchedulerRuns == WF_vars(Scheduler)
WorkersRun == \A w \in Workers : WF_vars(WorkerStep(w)) /\ SF_vars(Release(w))
MainRuns == WF_vars(StopStep)

FairSpec == Spec /\ SchedulerRuns /\ WorkersRun /\ MainRuns

\* No poll hangs: every collect call returns or raises.
CollectorReturns == \A w \in Workers : WF_vars(Collect(w))

-----------------------------------------------------------------------------
(* Properties.                                                             *)

\* Every variable stays in its range.
TypeOK ==
  /\ clock \in Nat /\ stop \in BOOLEAN
  /\ queue \in Seq(Jobs \cup {None})
  /\ running \in [Jobs -> BOOLEAN]
  /\ nextRun \in [Jobs -> Nat] /\ nextPoll \in [Jobs -> Nat \cup {None}]
  /\ shownRunning \in [Jobs -> BOOLEAN] /\ shownError \in [Jobs -> BOOLEAN]
  /\ health \in [Jobs -> {"unset", "up", "down"}]
  /\ spc \in {"unstarted", "check", "publish", "consider", "submit", "mark",
              "put", "exited"}
  /\ at \in Nat /\ seen \in Nat
  /\ spc \in {"publish", "consider", "submit", "mark", "put"} => at \in Jobs
  /\ wpc \in [Workers -> {"unstarted", "get", "empty", "collect", "record",
                          "report", "release", "reschedule", "exited", "dead"}]
  /\ wjob \in [Workers -> Jobs \cup {None}]
  /\ outcome \in [Workers -> OutcomeNames \cup {"none"}]
  /\ main \in {"new", "serving", "joinScheduler", "postSentinels",
               "joinWorkers", "stopped"}
  /\ posted \in 0..Cardinality(Workers)

\* The worker carries out the poll of its job.
Polls(w) == wpc[w] \in {"collect", "record", "report", "release"}

\* The scheduler has claimed the job it is at and not yet queued it.
HandsOver == spc \in {"mark", "put"}

Queued(j) == \E i \in DOMAIN queue : queue[i] = j

\* Two polls of one queue manager never overlap, and none is queued while
\* another is queued, handed over or under way: the running flag, checked
\* without the lock and again under it, keeps a job in one place at a time.
OnePollPerJob ==
  /\ \A v, w \in Workers : Polls(v) /\ Polls(w) /\ wjob[v] = wjob[w] => v = w
  /\ \A i, k \in DOMAIN queue : queue[i] = queue[k] /\ queue[i] # None => i = k
  /\ \A w \in Workers : Polls(w) => ~Queued(wjob[w])
  /\ HandsOver => /\ ~Queued(at)
                  /\ \A w \in Workers : Polls(w) => wjob[w] # at

\* No claim is lost: a job whose running flag is set is being handed over,
\* in the queue or with a worker, and a job found there has its flag set,
\* whatever became of the workers that polled it before.
ClaimIsHeld ==
  \A j \in Jobs :
    running[j] <=> \/ HandsOver /\ at = j
                   \/ Queued(j)
                   \/ \E w \in Workers : Polls(w) /\ wjob[w] = j

\* No poll was rejected so far: the first one that is leaves a dead worker, and
\* nothing restarts it.
NoneRejected == \A w \in Workers : wpc[w] # "dead" /\ outcome[w] # "rejected"

\* /status and the metrics agree with the engine, until a poll is rejected: a
\* job shown as running is claimed, one waiting for a worker or for MQ is shown
\* as running, and once its poll is over target_up is 0 exactly when an error is
\* shown.
StatusIsTruthful ==
  NoneRejected => \A j \in Jobs :
    /\ shownRunning[j] => running[j]
    /\ Queued(j) \/ (\E w \in Workers : wpc[w] = "collect" /\ wjob[w] = j)
          => shownRunning[j]
    /\ ~running[j] => (health[j] = "down" <=> shownError[j])

\* No poll starts ahead of the time that /status and the metrics show for it: between the
\* loop's reads of next_run, to publish it and to check it, a worker may set another one,
\* and even the poll that is claimed before its interval has passed keeps to the time shown.
NoPollAheadOfStatus ==
  HandsOver => nextPoll[at] \in Nat /\ nextPoll[at] <= clock

\* A poll is claimed only when the job's polling interval has passed since
\* the previous poll ended.
PollsAreSpaced ==
  [][\A j \in Jobs : ~running[j] /\ running'[j] => clock >= nextRun[j]]_vars

\* Neither claimed nor in the hands of a worker.
Idle(j) == ~running[j] /\ \A w \in Workers : wjob[w] # j

\* A queue manager that is due is polled, however many others compete for the
\* workers, as long as one worker's calls of the collector come back: those that
\* hang in MQ do not starve the rest.
DueJobIsPolled ==
  (\E w \in Workers : WF_vars(Collect(w))) =>
    \A j \in Jobs :
      (main = "serving" /\ Idle(j) /\ nextRun[j] <= clock)
        ~> (stop \/ \E w \in Workers : wpc[w] = "collect" /\ wjob[w] = j)

\* If every call of the collector comes back, a claimed poll comes to its end
\* and frees the job for the next one.
PollFinishes ==
  CollectorReturns => \A j \in Jobs : running[j] ~> (stop \/ ~running[j])

\* stop() returns, even while a poll hangs, and after it the scheduler and every worker
\* end, but for one that hangs in MQ, whatever the order in which sentinels, late jobs
\* and empty reads come.
StopEndsThreads ==
  (main = "joinScheduler") ~>
    [](/\ main = "stopped"
       /\ spc \in {"unstarted", "exited"}
       /\ \A w \in Workers : ~Alive(w) \/ wpc[w] = "collect")

-----------------------------------------------------------------------------
(* The engine implements the poll cycle.                                   *)

PolledBy(w) == IF Polls(w) THEN wjob[w] ELSE None
Waiting == {j \in Jobs : running[j] /\ \A w \in Workers : PolledBy(w) # j}

Cycle == INSTANCE PollCycle WITH
  Slots <- Workers, Empty <- None,
  waiting <- Waiting, slot <- [w \in Workers |-> PolledBy(w)]

\* Every step of the threads is a request, a begin or an end of a poll, or
\* leaves the cycle alone: what _run_loop, the work queue and _complete do
\* together keeps the promise of PollCycle.
ImplementsPollCycle == Cycle!Spec
=============================================================================
