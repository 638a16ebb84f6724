------------------------ MODULE PollSchedulerProofs ------------------------
(***************************************************************************)
(* Proofs about PollScheduler for every number of queue managers, every    *)
(* pool, every choice of intervals and every way polls may come out.       *)
(***************************************************************************)
EXTENDS PollScheduler, FiniteSetTheorems, TLAPS

-----------------------------------------------------------------------------
(* The work queue.                                                         *)

\* Appending puts exactly the new element into the queue (Queue.put).
LEMMA AppendedElements ==
  ASSUME NEW S, NEW q \in Seq(S), NEW x \in S
  PROVE  /\ Append(q, x) \in Seq(S)
         /\ DOMAIN q = 1..Len(q)
         /\ DOMAIN Append(q, x) = 1..(Len(q) + 1)
         /\ \A i \in 1..Len(q) : Append(q, x)[i] = q[i]
         /\ Append(q, x)[Len(q) + 1] = x
OBVIOUS

\* Taking the head leaves the other elements, one place further on (Queue.get).
LEMMA TailElements ==
  ASSUME NEW S, NEW q \in Seq(S), q # <<>>
  PROVE  /\ Tail(q) \in Seq(S)
         /\ Head(q) \in S
         /\ Head(q) = q[1]
         /\ Len(q) \in Nat /\ Len(q) >= 1
         /\ DOMAIN q = 1..Len(q)
         /\ DOMAIN Tail(q) = 1..(Len(q) - 1)
         /\ \A i \in 1..(Len(q) - 1) : Tail(q)[i] = q[i + 1]
OBVIOUS

-----------------------------------------------------------------------------
(* Type correctness.                                                       *)

\* The pool's size is a number.
LEMMA PoolSize == Cardinality(Workers) \in Nat
  BY FS_CardinalityType, PollSchedulerAssumption

\* A thread's job is a job wherever the code dereferences it, and no thread
\* runs before start().
WorkersHoldJobs ==
  \A w \in Workers : Polls(w) \/ wpc[w] = "reschedule" => wjob[w] \in Jobs
NotStarted ==
  main = "new" => spc = "unstarted" /\ \A w \in Workers : wpc[w] = "unstarted"

TypeInv == TypeOK /\ WorkersHoldJobs /\ NotStarted

LEMMA TypeInvInit == Init => TypeInv
<1> SUFFICES ASSUME Init PROVE TypeInv
  OBVIOUS
<1>1. queue \in Seq(Jobs \cup {None})
  BY DEF Init
<1>2. posted \in 0..Cardinality(Workers)
  BY PoolSize DEF Init
<1>3. TypeOK
  BY <1>1, <1>2 DEF Init, TypeOK
<1>4. WorkersHoldJobs /\ NotStarted
  BY DEF Init, WorkersHoldJobs, NotStarted, Polls
<1>5. QED
  BY <1>3, <1>4 DEF TypeInv

\* The loop is at a job of the table whenever it is inside its body.
LEMMA NextJobType ==
  ASSUME NEW j \in Nat, NextJob(j)
  PROVE  /\ at' \in Nat
         /\ spc' \in {"publish", "check"}
         /\ spc' = "publish" => at' \in Jobs
  BY PollSchedulerAssumption DEF NextJob, Jobs

LEMMA TypeInvNext == TypeInv /\ [Next]_vars => TypeInv'
<1> SUFFICES ASSUME TypeInv, [Next]_vars PROVE TypeInv'
  OBVIOUS
<1> USE PollSchedulerAssumption, PoolSize
        DEF TypeInv, TypeOK, WorkersHoldJobs, NotStarted, Polls, OutcomeNames,
            jobVars, surfaces, schedVars, workVars, mainVars
<1>1. CASE LoopCheck
  <2>1. CASE stop
    BY <1>1, <2>1 DEF LoopCheck
  <2>2. CASE ~stop
    BY <1>1, <2>2, NextJobType DEF LoopCheck
  <2>3. QED
    BY <2>1, <2>2
<1>2. CASE Publish
  BY <1>2 DEF Publish
<1>3. CASE Consider
  BY <1>3, NextJobType DEF Consider
<1>4. CASE Claim
  BY <1>4, NextJobType DEF Claim
<1>5. CASE MarkRunning
  BY <1>5 DEF MarkRunning, mark_running
<1>6. CASE PutJob
  <2>1. queue' \in Seq(Jobs \cup {None})
    BY <1>6, AppendedElements DEF PutJob
  <2>2. QED
    BY <1>6, <2>1, NextJobType DEF PutJob
<1>7. ASSUME NEW w \in Workers, GetJob(w) PROVE TypeInv'
  <2>1. queue' \in Seq(Jobs \cup {None}) /\ Head(queue) \in Jobs \cup {None}
    BY <1>7, TailElements DEF GetJob
  <2>2. QED
    BY <1>7, <2>1 DEF GetJob
<1>8. ASSUME NEW w \in Workers, GetSentinel(w) PROVE TypeInv'
  <2>1. queue' \in Seq(Jobs \cup {None}) /\ Head(queue) \in Jobs \cup {None}
    BY <1>8, TailElements DEF GetSentinel
  <2>2. QED
    BY <1>8, <2>1 DEF GetSentinel
<1>9. ASSUME NEW w \in Workers, GetTimesOut(w) PROVE TypeInv'
  BY <1>9 DEF GetTimesOut
<1>10. ASSUME NEW w \in Workers, AfterEmpty(w) PROVE TypeInv'
  BY <1>10 DEF AfterEmpty
<1>11. ASSUME NEW w \in Workers, Collect(w) PROVE TypeInv'
  BY <1>11 DEF Collect
<1>12. ASSUME NEW w \in Workers, RecordFailure(w) PROVE TypeInv'
  BY <1>12 DEF RecordFailure
<1>13. ASSUME NEW w \in Workers, RecordSuccess(w) PROVE TypeInv'
  BY <1>13 DEF RecordSuccess
<1>14. ASSUME NEW w \in Workers, RecordRaises(w) PROVE TypeInv'
  BY <1>14 DEF RecordRaises
<1>15. ASSUME NEW w \in Workers, Report(w) PROVE TypeInv'
  BY <1>15 DEF Report, mark_success, mark_failure
<1>16. ASSUME NEW w \in Workers, Release(w) PROVE TypeInv'
  BY <1>16 DEF Release
<1>17. ASSUME NEW w \in Workers, Reschedule(w) PROVE TypeInv'
  BY <1>17 DEF Reschedule
<1>18. CASE Start
  BY <1>18 DEF Start
<1>19. CASE StopCalled
  BY <1>19 DEF StopCalled
<1>20. CASE JoinScheduler
  BY <1>20 DEF JoinScheduler
<1>21. CASE PostSentinel
  <2>1. queue' \in Seq(Jobs \cup {None})
    <3>1. Append(queue, None) \in Seq(Jobs \cup {None})
      BY AppendedElements
    <3>2. queue' = queue \/ queue' = Append(queue, None)
      BY <1>21 DEF PostSentinel
    <3>3. QED
      BY <3>1, <3>2
  <2>2. posted' \in 0..Cardinality(Workers)
    <3>1. posted \in 0..Cardinality(Workers) /\ Cardinality(Workers) \in Nat
      OBVIOUS
    <3>2. posted' = posted \/ (posted < Cardinality(Workers) /\ posted' = posted + 1)
      BY <1>21 DEF PostSentinel
    <3>3. QED
      BY ONLY <3>1, <3>2
  <2>3. QED
    BY <1>21, <2>1, <2>2 DEF PostSentinel
<1>22. CASE JoinWorkers
  BY <1>22 DEF JoinWorkers
<1>23. CASE Tick
  BY <1>23 DEF Tick
<1>24. CASE UNCHANGED vars
  BY <1>24 DEF vars
<1>25. QED
  BY <1>1, <1>2, <1>3, <1>4, <1>5, <1>6, <1>7, <1>8, <1>9, <1>10, <1>11, <1>12,
     <1>13, <1>14, <1>15, <1>16, <1>17, <1>18, <1>19, <1>20, <1>21, <1>22, <1>23,
     <1>24
     DEF Next, Scheduler, WorkerStep, StopStep

\* Every variable keeps its type: no thread dereferences a missing job, no
\* counter leaves its range.
THEOREM TypeCorrect == Spec => []TypeOK
<1>1. TypeInv => TypeOK
  BY DEF TypeInv
<1>2. QED
  BY <1>1, TypeInvInit, TypeInvNext, PTL DEF Spec

-----------------------------------------------------------------------------
(* A job is in one place at a time.                                        *)

\* The inductive invariant: the types, and the two halves of the claim
\* discipline, neither of which is inductive without the other (a job found
\* unclaimed must be nowhere, and a claimed one in one place only).
IInv == TypeInv /\ OnePollPerJob /\ ClaimIsHeld

\* Steps that move no job, whatever else they do.
JobsStay ==
  /\ UNCHANGED <<queue, running>>
  /\ \A w \in Workers : Polls(w)' <=> Polls(w)
  /\ \A w \in Workers : Polls(w) => wjob'[w] = wjob[w]
  /\ HandsOver' <=> HandsOver
  /\ HandsOver => at' = at

LEMMA JobsStayKeeps ==
  ASSUME OnePollPerJob, ClaimIsHeld, JobsStay
  PROVE  OnePollPerJob' /\ ClaimIsHeld'
<1> USE DEF JobsStay, Queued
<1>1. OnePollPerJob'
  BY DEF OnePollPerJob
<1>2. ClaimIsHeld'
  BY DEF ClaimIsHeld
<1>3. QED
  BY <1>1, <1>2

\* The steps that move a job: the claim, the two ends of the queue and the
\* release (a sentinel passing through the queue shifts it).
MovesJobs ==
  \/ Claim \/ PutJob \/ PostSentinel
  \/ \E w \in Workers : GetJob(w) \/ GetSentinel(w) \/ Release(w)

LEMMA OtherStepsMoveNoJob ==
  ASSUME TypeInv, [Next]_vars
  PROVE  MovesJobs \/ JobsStay
<1> USE DEF JobsStay, Polls, HandsOver, jobVars, surfaces, schedVars, workVars,
            mainVars, TypeInv, TypeOK
<1>1. CASE LoopCheck
  BY <1>1 DEF LoopCheck, NextJob
<1>2. CASE Publish
  BY <1>2 DEF Publish
<1>3. CASE Consider
  BY <1>3 DEF Consider, NextJob
<1>4. CASE MarkRunning
  BY <1>4 DEF MarkRunning, mark_running
<1>5. ASSUME NEW w \in Workers, GetTimesOut(w) PROVE JobsStay
  BY <1>5 DEF GetTimesOut
<1>6. ASSUME NEW w \in Workers, AfterEmpty(w) PROVE JobsStay
  BY <1>6 DEF AfterEmpty
<1>7. ASSUME NEW w \in Workers, Collect(w) PROVE JobsStay
  BY <1>7 DEF Collect
<1>8. ASSUME NEW w \in Workers, RecordFailure(w) PROVE JobsStay
  BY <1>8 DEF RecordFailure
<1>9. ASSUME NEW w \in Workers, RecordSuccess(w) PROVE JobsStay
  BY <1>9 DEF RecordSuccess
<1>10. ASSUME NEW w \in Workers, RecordRaises(w) PROVE JobsStay
  BY <1>10 DEF RecordRaises
<1>11. ASSUME NEW w \in Workers, Report(w) PROVE JobsStay
  BY <1>11 DEF Report, mark_success, mark_failure
<1>12. ASSUME NEW w \in Workers, Reschedule(w) PROVE JobsStay
  BY <1>12 DEF Reschedule
<1>13. CASE Start
  BY <1>13 DEF Start, NotStarted
<1>14. CASE StopCalled
  BY <1>14 DEF StopCalled
<1>15. CASE JoinScheduler
  BY <1>15 DEF JoinScheduler
<1>16. CASE JoinWorkers
  BY <1>16 DEF JoinWorkers
<1>17. CASE Tick
  BY <1>17 DEF Tick
<1>18. CASE UNCHANGED vars
  BY <1>18 DEF vars
<1>19. QED
  BY <1>1, <1>2, <1>3, <1>4, <1>5, <1>6, <1>7, <1>8, <1>9, <1>10, <1>11, <1>12,
     <1>13, <1>14, <1>15, <1>16, <1>17, <1>18
     DEF Next, Scheduler, WorkerStep, StopStep, MovesJobs

-----------------------------------------------------------------------------
(* What each moving step does to the queue and to the claims.              *)

LEMMA ClaimKeeps ==
  ASSUME IInv, Claim
  PROVE  OnePollPerJob' /\ ClaimIsHeld'
<1> USE DEF Queued, Polls, HandsOver
<1>1. /\ spc = "submit" /\ at \in Jobs /\ running \in [Jobs -> BOOLEAN]
      /\ UNCHANGED <<queue, wpc, wjob>>
  BY DEF IInv, TypeInv, TypeOK, Claim, workVars
<1>2. CASE running[at]
  <2>1. running' = running /\ spc' \in {"publish", "check"}
    BY <1>2 DEF Claim, NextJob
  <2>2. OnePollPerJob'
    BY <1>1, <2>1 DEF IInv, OnePollPerJob
  <2>3. ClaimIsHeld'
    BY <1>1, <2>1 DEF IInv, ClaimIsHeld
  <2>4. QED
    BY <2>2, <2>3
<1>3. CASE ~running[at]
  <2>1. running' = [running EXCEPT ![at] = TRUE] /\ spc' = "mark" /\ at' = at
    BY <1>3 DEF Claim
  <2>2. ~Queued(at) /\ \A w \in Workers : Polls(w) => wjob[w] # at
    BY <1>1, <1>3 DEF IInv, ClaimIsHeld
  <2>3. OnePollPerJob'
    BY <1>1, <2>1, <2>2 DEF IInv, OnePollPerJob
  <2>4. ClaimIsHeld'
    BY <1>1, <2>1 DEF IInv, ClaimIsHeld
  <2>5. QED
    BY <2>3, <2>4
<1>4. QED
  BY <1>2, <1>3

\* A put adds its element to the queued ones and repeats no job unless the
\* job was queued before.
LEMMA PutElements ==
  ASSUME NEW x \in Jobs \cup {None}, queue \in Seq(Jobs \cup {None}),
         queue' = Append(queue, x)
  PROVE  /\ \A j : Queued(j)' <=> Queued(j) \/ j = x
         /\ (\A i, k \in DOMAIN queue :
                queue[i] = queue[k] /\ queue[i] # None => i = k)
            /\ (x = None \/ ~Queued(x))
              => \A i, k \in DOMAIN queue' :
                   queue'[i] = queue'[k] /\ queue'[i] # None => i = k
<1>1. /\ DOMAIN queue = 1..Len(queue) /\ Len(queue) \in Nat
      /\ DOMAIN queue' = 1..(Len(queue) + 1)
      /\ \A i \in 1..Len(queue) : queue'[i] = queue[i]
      /\ queue'[Len(queue) + 1] = x
  BY AppendedElements
<1>2. \A i \in DOMAIN queue' : i \in DOMAIN queue \/ i = Len(queue) + 1
  BY <1>1
<1>3. QED
  BY <1>1, <1>2 DEF Queued

\* A get removes the head: a job, queued once only, is gone from the queue,
\* and every other element is still there.
LEMMA GetElements ==
  ASSUME queue \in Seq(Jobs \cup {None}), queue # <<>>, queue' = Tail(queue),
         \A i, k \in DOMAIN queue :
           queue[i] = queue[k] /\ queue[i] # None => i = k
  PROVE  /\ Queued(Head(queue))
         /\ \A j : j = Head(queue) /\ j # None => ~Queued(j)'
         /\ \A j : j # Head(queue) => (Queued(j)' <=> Queued(j))
         /\ \A i, k \in DOMAIN queue' :
              queue'[i] = queue'[k] /\ queue'[i] # None => i = k
<1>1. /\ Head(queue) = queue[1]
      /\ Len(queue) \in Nat /\ Len(queue) >= 1
      /\ DOMAIN queue = 1..Len(queue)
      /\ DOMAIN queue' = 1..(Len(queue) - 1)
      /\ \A i \in 1..(Len(queue) - 1) : queue'[i] = queue[i + 1]
  BY TailElements
<1>2. Queued(Head(queue))
  BY <1>1 DEF Queued
<1>3. \A i \in DOMAIN queue' : i + 1 \in DOMAIN queue /\ i + 1 # 1
  BY <1>1
<1>4. \A i \in DOMAIN queue : i = 1 \/ i - 1 \in DOMAIN queue'
  BY <1>1
<1>5. \A i \in DOMAIN queue : i # 1 => queue'[i - 1] = queue[i]
  BY <1>1, <1>4
<1>6. ASSUME Head(queue) # None, NEW i \in DOMAIN queue', queue'[i] = queue[1]
      PROVE  FALSE
  BY <1>1, <1>3, <1>6
<1>7. \A j : j # Head(queue) => (Queued(j)' <=> Queued(j))
  BY <1>1, <1>3, <1>4, <1>5 DEF Queued
<1>8. \A i, k \in DOMAIN queue' :
        queue'[i] = queue'[k] /\ queue'[i] # None => i = k
  <2>1. SUFFICES ASSUME NEW i \in DOMAIN queue', NEW k \in DOMAIN queue',
                        queue'[i] = queue'[k], queue'[i] # None
                 PROVE  i = k
    OBVIOUS
  <2>2. queue[i + 1] = queue[k + 1] /\ queue[i + 1] # None
    BY <1>1, <2>1
  <2>3. i + 1 = k + 1
    BY <1>3, <2>2
  <2>4. QED
    BY <1>1, <2>3
<1>9. \A j : j = Head(queue) /\ j # None => ~Queued(j)'
  BY <1>1, <1>6 DEF Queued
<1>10. QED
  BY <1>2, <1>7, <1>8, <1>9

LEMMA PutJobKeeps ==
  ASSUME IInv, PutJob
  PROVE  OnePollPerJob' /\ ClaimIsHeld'
<1>1. /\ spc = "put" /\ spc' \in {"publish", "check"} /\ at \in Jobs
      /\ queue \in Seq(Jobs \cup {None}) /\ queue' = Append(queue, at)
      /\ UNCHANGED <<running, wpc, wjob>>
  BY DEF IInv, TypeInv, TypeOK, PutJob, NextJob, jobVars, workVars
<1>2. HandsOver /\ ~HandsOver' /\ \A w \in Workers : Polls(w)' <=> Polls(w)
  BY <1>1 DEF HandsOver, Polls
<1>3. ~Queued(at) /\ \A w \in Workers : Polls(w) => wjob[w] # at
  BY <1>2 DEF IInv, OnePollPerJob
<1>4. \A j : Queued(j)' <=> Queued(j) \/ j = at
  BY <1>1, PutElements
<1>5. \A i, k \in DOMAIN queue' : queue'[i] = queue'[k] /\ queue'[i] # None => i = k
  BY <1>1, <1>3, PutElements DEF IInv, OnePollPerJob
<1>6. OnePollPerJob'
  <2>1. \A w \in Workers : Polls(w)' => ~Queued(wjob[w])'
    BY <1>1, <1>2, <1>3, <1>4 DEF IInv, OnePollPerJob
  <2>2. QED
    BY <1>1, <1>2, <1>5, <2>1 DEF IInv, OnePollPerJob
<1>7. ClaimIsHeld'
  BY <1>1, <1>2, <1>4 DEF IInv, ClaimIsHeld
<1>8. QED
  BY <1>6, <1>7

LEMMA PostSentinelKeeps ==
  ASSUME IInv, PostSentinel
  PROVE  OnePollPerJob' /\ ClaimIsHeld'
<1>1. /\ queue \in Seq(Jobs \cup {None})
      /\ queue' = queue \/ queue' = Append(queue, None)
      /\ UNCHANGED <<running, spc, at, wpc, wjob>>
      /\ at \in Nat /\ HandsOver => at \in Jobs
  BY DEF IInv, TypeInv, TypeOK, PostSentinel, jobVars, schedVars, workVars, HandsOver
<1>2. CASE queue' = queue
  <2>1. JobsStay
    BY <1>1, <1>2 DEF JobsStay, Polls, HandsOver
  <2>2. QED
    BY <2>1, JobsStayKeeps DEF IInv
<1>3. CASE queue' = Append(queue, None)
  <2>1. \A w \in Workers : Polls(w)' <=> Polls(w)
    BY <1>1 DEF Polls
  <2>2. HandsOver' <=> HandsOver
    BY <1>1 DEF HandsOver
  <2>3. \A j \in Jobs : Queued(j)' <=> Queued(j)
    BY <1>1, <1>3, PutElements, PollSchedulerAssumption
  <2>4. \A i, k \in DOMAIN queue' :
          queue'[i] = queue'[k] /\ queue'[i] # None => i = k
    BY <1>1, <1>3, PutElements DEF IInv, OnePollPerJob
  <2>5. \A w \in Workers : Polls(w) => wjob[w] \in Jobs
    BY DEF IInv, TypeInv, WorkersHoldJobs
  <2>6. OnePollPerJob'
    <3>1. \A w \in Workers : Polls(w)' => ~Queued(wjob[w])'
      BY <1>1, <2>1, <2>3, <2>5 DEF IInv, OnePollPerJob
    <3>2. HandsOver' => ~Queued(at)'
      BY <1>1, <2>2, <2>3 DEF IInv, OnePollPerJob, TypeInv, TypeOK, HandsOver
    <3>3. QED
      BY <1>1, <2>1, <2>2, <2>4, <3>1, <3>2 DEF IInv, OnePollPerJob
  <2>7. ClaimIsHeld'
    BY <1>1, <2>1, <2>2, <2>3 DEF IInv, ClaimIsHeld
  <2>8. QED
    BY <2>6, <2>7
<1>4. QED
  BY <1>1, <1>2, <1>3

LEMMA GetJobKeeps ==
  ASSUME IInv, NEW w \in Workers, GetJob(w)
  PROVE  OnePollPerJob' /\ ClaimIsHeld'
<1> DEFINE job == Head(queue)
<1>1. /\ queue \in Seq(Jobs \cup {None}) /\ queue # <<>> /\ queue' = Tail(queue)
      /\ job # None
      /\ wpc[w] = "get" /\ wpc' = [wpc EXCEPT ![w] = "collect"]
      /\ wjob' = [wjob EXCEPT ![w] = job]
      /\ wpc \in [Workers -> {"unstarted", "get", "empty", "collect", "record",
                              "report", "release", "reschedule", "exited", "dead"}]
      /\ wjob \in [Workers -> Jobs \cup {None}]
      /\ UNCHANGED <<running, spc, at>>
  BY DEF IInv, TypeInv, TypeOK, GetJob, jobVars, schedVars
<1>2. /\ Queued(job)
      /\ \A j : j = job => ~Queued(j)'
      /\ \A j : j # job => (Queued(j)' <=> Queued(j))
      /\ \A i, k \in DOMAIN queue' :
           queue'[i] = queue'[k] /\ queue'[i] # None => i = k
  BY <1>1, GetElements DEF IInv, OnePollPerJob
<1>3. /\ ~Polls(w) /\ Polls(w)' /\ wjob'[w] = job
      /\ \A v \in Workers : v # w => (Polls(v)' <=> Polls(v)) /\ wjob'[v] = wjob[v]
  BY <1>1 DEF Polls
<1>4. HandsOver' <=> HandsOver
  BY <1>1 DEF HandsOver
<1>5. \A v \in Workers : Polls(v) => wjob[v] # job
  BY <1>2 DEF IInv, OnePollPerJob
<1>6. HandsOver => at # job
  BY <1>2 DEF IInv, OnePollPerJob
<1>7. OnePollPerJob'
  <2>1. \A u, v \in Workers :
          Polls(u)' /\ Polls(v)' /\ wjob'[u] = wjob'[v] => u = v
    BY <1>3, <1>5 DEF IInv, OnePollPerJob
  <2>2. \A v \in Workers : Polls(v)' => ~Queued(wjob[v])'
    BY <1>2, <1>3, <1>5 DEF IInv, OnePollPerJob
  <2>3. HandsOver' => ~Queued(at)' /\ \A v \in Workers : Polls(v)' => wjob'[v] # at'
    BY <1>1, <1>2, <1>3, <1>4, <1>6 DEF IInv, OnePollPerJob
  <2>4. QED
    BY <1>2, <2>1, <2>2, <2>3 DEF OnePollPerJob
<1>8. ClaimIsHeld'
  <2>1. SUFFICES ASSUME NEW j \in Jobs
                 PROVE  running[j] <=> \/ HandsOver /\ at = j
                                       \/ Queued(j)'
                                       \/ \E v \in Workers : Polls(v)' /\ wjob'[v] = j
    BY <1>1, <1>4 DEF ClaimIsHeld
  <2>2. running[j] <=> \/ HandsOver /\ at = j
                       \/ Queued(j)
                       \/ \E v \in Workers : Polls(v) /\ wjob[v] = j
    BY DEF IInv, ClaimIsHeld
  <2>3. CASE j = job
    BY <1>2, <1>3, <2>2, <2>3
  <2>4. CASE j # job
    BY <1>2, <1>3, <2>2, <2>4
  <2>5. QED
    BY <2>3, <2>4
<1>9. QED
  BY <1>7, <1>8

LEMMA GetSentinelKeeps ==
  ASSUME IInv, NEW w \in Workers, GetSentinel(w)
  PROVE  OnePollPerJob' /\ ClaimIsHeld'
<1>1. /\ queue \in Seq(Jobs \cup {None}) /\ queue # <<>> /\ queue' = Tail(queue)
      /\ Head(queue) = None
      /\ UNCHANGED <<running, spc, at, wjob>>
  BY DEF IInv, TypeInv, TypeOK, GetSentinel, jobVars, schedVars
<1>2. \A v \in Workers : Polls(v)' <=> Polls(v)
  BY DEF IInv, TypeInv, TypeOK, GetSentinel, Polls
<1>3. HandsOver' <=> HandsOver
  BY <1>1 DEF HandsOver
<1>4. /\ \A j \in Jobs : Queued(j)' <=> Queued(j)
      /\ \A i, k \in DOMAIN queue' :
           queue'[i] = queue'[k] /\ queue'[i] # None => i = k
  BY <1>1, GetElements, PollSchedulerAssumption DEF IInv, OnePollPerJob
<1>5. \A v \in Workers : Polls(v) => wjob[v] \in Jobs
  BY DEF IInv, TypeInv, WorkersHoldJobs
<1>6. HandsOver => at \in Jobs
  BY DEF IInv, TypeInv, TypeOK, HandsOver
<1>7. OnePollPerJob'
  <2>1. \A v \in Workers : Polls(v)' => ~Queued(wjob[v])'
    BY <1>1, <1>2, <1>4, <1>5 DEF IInv, OnePollPerJob
  <2>2. HandsOver' => ~Queued(at)'
    BY <1>1, <1>3, <1>4, <1>6 DEF IInv, OnePollPerJob
  <2>3. QED
    BY <1>1, <1>2, <1>3, <1>4, <2>1, <2>2 DEF IInv, OnePollPerJob
<1>8. ClaimIsHeld'
  BY <1>1, <1>2, <1>3, <1>4 DEF IInv, ClaimIsHeld
<1>9. QED
  BY <1>7, <1>8

LEMMA ReleaseKeeps ==
  ASSUME IInv, NEW w \in Workers, Release(w)
  PROVE  OnePollPerJob' /\ ClaimIsHeld'
<1>1. /\ wpc[w] = "release" /\ wpc' = [wpc EXCEPT ![w] = "reschedule"]
      /\ wpc \in [Workers -> {"unstarted", "get", "empty", "collect", "record",
                              "report", "release", "reschedule", "exited", "dead"}]
      /\ running \in [Jobs -> BOOLEAN]
      /\ running' = [running EXCEPT ![wjob[w]] = FALSE]
      /\ wjob[w] \in Jobs
      /\ UNCHANGED <<queue, spc, at, wjob>>
  BY DEF IInv, TypeInv, TypeOK, WorkersHoldJobs, Polls, Release, schedVars
<1>2. /\ Polls(w) /\ ~Polls(w)'
      /\ \A v \in Workers : v # w => (Polls(v)' <=> Polls(v))
  BY <1>1 DEF Polls
<1>3. HandsOver' <=> HandsOver
  BY <1>1 DEF HandsOver
<1>4. \A j : Queued(j)' <=> Queued(j)
  BY <1>1 DEF Queued
<1>5. OnePollPerJob'
  <2>1. \A v \in Workers : Polls(v)' => ~Queued(wjob[v])'
    BY <1>1, <1>2, <1>4 DEF IInv, OnePollPerJob
  <2>2. HandsOver' => ~Queued(at)'
    BY <1>1, <1>3, <1>4 DEF IInv, OnePollPerJob
  <2>3. QED
    BY <1>1, <1>2, <1>3, <2>1, <2>2 DEF IInv, OnePollPerJob
<1>6. ClaimIsHeld'
  <2>1. SUFFICES ASSUME NEW j \in Jobs
                 PROVE  running'[j] <=> \/ HandsOver /\ at = j
                                        \/ Queued(j)
                                        \/ \E v \in Workers : Polls(v)' /\ wjob[v] = j
    BY <1>1, <1>3, <1>4 DEF ClaimIsHeld
  <2>2. running[j] <=> \/ HandsOver /\ at = j
                       \/ Queued(j)
                       \/ \E v \in Workers : Polls(v) /\ wjob[v] = j
    BY DEF IInv, ClaimIsHeld
  <2>3. CASE j = wjob[w]
    BY <1>1, <1>2, <2>3 DEF IInv, OnePollPerJob
  <2>4. CASE j # wjob[w]
    BY <1>1, <1>2, <2>2, <2>4
  <2>5. QED
    BY <2>3, <2>4
<1>7. QED
  BY <1>5, <1>6

-----------------------------------------------------------------------------
LEMMA IInvInit == Init => IInv
<1> SUFFICES ASSUME Init PROVE IInv
  OBVIOUS
<1>1. DOMAIN queue = {}
  BY DEF Init
<1>2. OnePollPerJob /\ ClaimIsHeld
  BY <1>1 DEF Init, OnePollPerJob, ClaimIsHeld, Polls, HandsOver, Queued
<1>3. QED
  BY <1>2, TypeInvInit DEF IInv

LEMMA IInvNext == IInv /\ [Next]_vars => IInv'
<1> SUFFICES ASSUME IInv, [Next]_vars PROVE IInv'
  OBVIOUS
<1>1. TypeInv'
  BY TypeInvNext DEF IInv
<1>2. CASE JobsStay
  BY <1>1, <1>2, JobsStayKeeps DEF IInv
<1>3. CASE MovesJobs
  BY <1>1, <1>3, ClaimKeeps, PutJobKeeps, PostSentinelKeeps, GetJobKeeps,
     GetSentinelKeeps, ReleaseKeeps
     DEF MovesJobs, IInv
<1>4. QED
  BY <1>2, <1>3, OtherStepsMoveNoJob DEF IInv

LEMMA InvariantHolds == Spec => []IInv
  BY IInvInit, IInvNext, PTL DEF Spec

\* Two polls of one queue manager never overlap and a job is never queued
\* twice, for every pool size and every interleaving of the scheduler, the
\* workers and stop().
THEOREM NoOverlappingPolls == Spec => []OnePollPerJob
<1>1. IInv => OnePollPerJob
  BY DEF IInv
<1>2. QED
  BY <1>1, InvariantHolds, PTL

\* The running flag is never left set on a job that nobody holds: a failed
\* poll, or one whose worker dies of it, frees its job.
THEOREM ClaimsAreNeverLost == Spec => []ClaimIsHeld
<1>1. IInv => ClaimIsHeld
  BY DEF IInv
<1>2. QED
  BY <1>1, InvariantHolds, PTL

-----------------------------------------------------------------------------
(* The time shown for the next poll.                                       *)

\* Times only grow: between its publication and the check the time of a job may be
\* replaced by a later one, and the check compares it with an earlier reading of the clock.
TimesInv ==
  /\ seen <= clock
  /\ \A j \in Jobs : nextRun[j] <= clock + Interval[j]
  /\ spc = "consider" => nextPoll[at] \in Nat /\ nextPoll[at] <= nextRun[at]
  /\ spc \in {"submit", "mark", "put"} => nextPoll[at] \in Nat /\ nextPoll[at] <= seen

\* What the steps beside the scheduler's loop do to the times.
LEMMA TimesOfOthers ==
  ASSUME TypeInv, [Next]_vars, ~Scheduler, \A w \in Workers : ~Reschedule(w)
  PROVE  /\ UNCHANGED <<at, seen, nextPoll, nextRun>> /\ clock' \in Nat /\ clock' >= clock
         /\ spc' = spc \/ spc' = "check"
<1>0. clock \in Nat
  BY DEF TypeInv, TypeOK
<1> USE <1>0 DEF jobVars, surfaces, schedVars, workVars, mainVars
<1>1. ASSUME NEW w \in Workers, WorkerStep(w) \/ Collect(w)
      PROVE  UNCHANGED <<at, seen, nextPoll, nextRun, clock, spc>>
  <2>1. CASE GetJob(w) \/ GetSentinel(w) \/ GetTimesOut(w) \/ AfterEmpty(w) \/ Collect(w)
    BY <2>1 DEF GetJob, GetSentinel, GetTimesOut, AfterEmpty, Collect
  <2>2. CASE RecordFailure(w) \/ RecordSuccess(w) \/ RecordRaises(w) \/ Report(w) \/ Release(w)
    BY <2>2 DEF RecordFailure, RecordSuccess, RecordRaises, Report, Release
  <2>3. QED
    BY <1>1, <2>1, <2>2 DEF WorkerStep
<1>2. CASE Start \/ StopCalled \/ StopStep
  BY <1>2 DEF Start, StopCalled, StopStep, JoinScheduler, PostSentinel, JoinWorkers
<1>3. CASE Tick
  BY <1>3 DEF Tick
<1>4. CASE UNCHANGED vars
  BY <1>4 DEF vars
<1>5. QED
  BY <1>1, <1>2, <1>3, <1>4 DEF Next

LEMMA TimesInvNext == TypeInv /\ TimesInv /\ [Next]_vars => TimesInv'
<1> SUFFICES ASSUME TypeInv, TimesInv, [Next]_vars PROVE TimesInv'
  OBVIOUS
<1>0. /\ clock \in Nat /\ seen \in Nat /\ nextRun \in [Jobs -> Nat]
      /\ nextPoll \in [Jobs -> Nat \cup {None}]
      /\ spc \in {"publish", "consider", "submit", "mark", "put"} => at \in Jobs
      /\ Interval \in [Jobs -> Nat]
  BY PollSchedulerAssumption DEF TypeInv, TypeOK
<1> USE DEF TimesInv, jobVars, surfaces, schedVars, workVars, mainVars
<1>1. CASE LoopCheck
  BY <1>0, <1>1 DEF LoopCheck, NextJob
<1>2. CASE Publish
  BY <1>0, <1>2 DEF Publish
<1>3. CASE Consider
  BY <1>0, <1>3 DEF Consider, NextJob, Due
<1>4. CASE Claim
  BY <1>0, <1>4 DEF Claim, NextJob
<1>5. CASE MarkRunning
  BY <1>0, <1>5 DEF MarkRunning
<1>6. CASE PutJob
  BY <1>0, <1>6 DEF PutJob, NextJob
<1>7. ASSUME NEW w \in Workers, Reschedule(w) PROVE TimesInv'
  <2>1. /\ UNCHANGED <<clock, spc, at, seen, nextPoll>> /\ wjob[w] \in Jobs
        /\ nextRun' = [nextRun EXCEPT ![wjob[w]] = clock + Interval[wjob[w]]]
    BY <1>7 DEF Reschedule, TypeInv, WorkersHoldJobs
  <2>2. \A j \in Jobs : nextRun'[j] >= nextRun[j] /\ nextRun'[j] <= clock + Interval[j]
    BY <1>0, <2>1
  <2>3. spc = "consider" => nextPoll[at] \in Nat /\ nextPoll[at] <= nextRun'[at]
    <3>1. nextRun' \in [Jobs -> Nat]
      BY <1>0, <2>1
    <3>2. QED
      BY <1>0, <2>2, <3>1
  <2>4. QED
    BY <2>1, <2>2, <2>3
<1>8. CASE ~Scheduler /\ \A w \in Workers : ~Reschedule(w)
  <2>1. /\ UNCHANGED <<at, seen, nextPoll, nextRun>> /\ clock' \in Nat /\ clock' >= clock
        /\ spc' = spc \/ spc' = "check"
    BY <1>8, TimesOfOthers
  <2>2. QED
    BY <1>0, <2>1
<1>9. QED
  BY <1>1, <1>2, <1>3, <1>4, <1>5, <1>6, <1>7, <1>8 DEF Scheduler

\* No poll starts ahead of the time that /status and the metrics show for it, for every
\* choice of intervals and every interleaving with the workers.
THEOREM PollsKeepToTheTimeShown == Spec => []NoPollAheadOfStatus
<1>1. Init => TimesInv
  BY PollSchedulerAssumption DEF Init, TimesInv
<1>2. Spec => []TypeInv
  BY TypeInvInit, TypeInvNext, PTL DEF Spec
<1>3. TypeInv /\ TimesInv => NoPollAheadOfStatus
  BY DEF TypeInv, TypeOK, TimesInv, NoPollAheadOfStatus, HandsOver
<1>4. QED
  BY <1>1, <1>2, <1>3, TimesInvNext, PTL DEF Spec

-----------------------------------------------------------------------------
(* What /status and the metrics show.                                      *)

\* Between its record and its report a poll has updated the gauge and not yet
\* the status record; everywhere else the two agree.
StatusInv ==
  /\ \A j \in Jobs : shownRunning[j] => running[j]
  /\ \A w \in Workers : wpc[w] = "release" => ~shownRunning[wjob[w]]
  /\ spc = "put" => shownRunning[at]
  /\ \A j \in Jobs : Queued(j) => shownRunning[j]
  /\ \A w \in Workers :
       wpc[w] \in {"collect", "record", "report"} => shownRunning[wjob[w]]
  /\ \A w \in Workers :
       wpc[w] = "report" => (health[wjob[w]] = "down" <=> outcome[w] = "failed")
  /\ \A j \in Jobs :
       \/ health[j] = "down" <=> shownError[j]
       \/ \E w \in Workers : wpc[w] = "report" /\ wjob[w] = j

\* Posting a sentinel queues no job and unqueues none.
LEMMA SentinelIsNoJob ==
  ASSUME TypeOK, PostSentinel
  PROVE  \A j \in Jobs : Queued(j)' <=> Queued(j)
<1>1. queue' = queue \/ queue' = Append(queue, None)
  BY DEF PostSentinel
<1>2. CASE queue' = queue
  BY <1>2 DEF Queued
<1>3. CASE queue' = Append(queue, None)
  BY <1>3, PutElements, PollSchedulerAssumption DEF TypeOK
<1>4. QED
  BY <1>1, <1>2, <1>3

LEMMA StatusInvInit == Init => StatusInv
<1> SUFFICES ASSUME Init PROVE StatusInv
  OBVIOUS
<1>1. DOMAIN queue = {}
  BY DEF Init
<1>2. QED
  BY <1>1 DEF Init, StatusInv, Queued

LEMMA StatusInvNext ==
  ASSUME NoneRejected, NoneRejected', IInv, StatusInv, [Next]_vars
  PROVE  StatusInv'
<1>1. TypeOK /\ WorkersHoldJobs /\ NotStarted /\ OnePollPerJob /\ ClaimIsHeld
  BY DEF IInv, TypeInv
<1> USE DEF StatusInv, Queued, Polls, HandsOver, jobVars, surfaces, schedVars,
            workVars, mainVars
<1>2. CASE LoopCheck
  BY <1>1, <1>2 DEF LoopCheck, NextJob, TypeOK
<1>3. CASE Publish
  BY <1>1, <1>3 DEF Publish, TypeOK
<1>4. CASE Consider
  BY <1>1, <1>4 DEF Consider, NextJob, TypeOK
<1>5. CASE Claim
  <2>1. spc' # "put" /\ UNCHANGED <<queue, shownRunning, shownError, health, wpc, wjob, outcome>>
    BY <1>5 DEF Claim, NextJob
  <2>2. \A j \in Jobs : running[j] => running'[j]
    <3>1. running' = running \/ running' = [running EXCEPT ![at] = TRUE]
      BY <1>5 DEF Claim
    <3>2. running \in [Jobs -> BOOLEAN]
      BY <1>1 DEF TypeOK
    <3>3. QED
      BY ONLY <3>1, <3>2
  <2>3. QED
    BY <2>1, <2>2
<1>6. CASE MarkRunning
  BY <1>1, <1>6 DEF MarkRunning, mark_running, TypeOK, OnePollPerJob, ClaimIsHeld, WorkersHoldJobs
<1>7. CASE PutJob
  BY <1>1, <1>7 DEF PutJob, NextJob, TypeOK
<1>8. ASSUME NEW w \in Workers, GetJob(w) PROVE StatusInv'
  BY <1>1, <1>8 DEF GetJob, TypeOK
<1>9. ASSUME NEW w \in Workers, GetSentinel(w) PROVE StatusInv'
  BY <1>1, <1>9 DEF GetSentinel, TypeOK
<1>10. ASSUME NEW w \in Workers, GetTimesOut(w) PROVE StatusInv'
  BY <1>1, <1>10 DEF GetTimesOut, TypeOK
<1>11. ASSUME NEW w \in Workers, AfterEmpty(w) PROVE StatusInv'
  BY <1>1, <1>11 DEF AfterEmpty, TypeOK
<1>12. ASSUME NEW w \in Workers, Collect(w) PROVE StatusInv'
  BY <1>1, <1>12 DEF Collect, TypeOK
<1>13. ASSUME NEW w \in Workers, RecordFailure(w) PROVE StatusInv'
  BY <1>1, <1>13 DEF RecordFailure, TypeOK, WorkersHoldJobs, OnePollPerJob
<1>14. ASSUME NEW w \in Workers, RecordSuccess(w) PROVE StatusInv'
  BY <1>1, <1>14 DEF RecordSuccess, TypeOK, WorkersHoldJobs, OnePollPerJob
<1>15. ASSUME NEW w \in Workers, RecordRaises(w) PROVE StatusInv'
  BY <1>15 DEF RecordRaises, NoneRejected
<1>16. ASSUME NEW w \in Workers, Report(w) PROVE StatusInv'
  <2> DEFINE job == wjob[w]
  <2>1. /\ wpc[w] = "report" /\ wpc' = [wpc EXCEPT ![w] = "release"]
        /\ job \in Jobs
        /\ shownRunning' = [shownRunning EXCEPT ![job] = FALSE]
        /\ shownError' = [shownError EXCEPT ![job] = (outcome[w] = "failed")]
        /\ UNCHANGED <<queue, running, health, spc, at, wjob, outcome>>
    BY <1>1, <1>16 DEF Report, mark_success, mark_failure, TypeOK, WorkersHoldJobs
  <2>2. /\ ~Queued(job)
        /\ spc = "put" => at # job
        /\ \A v \in Workers : Polls(v) /\ wjob[v] = job => v = w
    BY <1>1, <2>1 DEF OnePollPerJob
  <2>3. \A v \in Workers : v # w => wpc'[v] = wpc[v]
    BY <1>1, <2>1 DEF TypeOK
  <2>4. wpc'[w] = "release"
    BY <1>1, <2>1 DEF TypeOK
  <2>5. /\ ~shownRunning'[job]
        /\ \A j \in Jobs : j # job => shownRunning'[j] = shownRunning[j]
    BY <1>1, <2>1 DEF TypeOK
  <2>6. /\ shownError'[job] <=> health[job] = "down"
        /\ \A j \in Jobs : j # job => shownError'[j] = shownError[j]
    <3>1. shownError'[job] = (outcome[w] = "failed")
      BY <1>1, <2>1 DEF TypeOK
    <3>2. health[job] = "down" <=> outcome[w] = "failed"
      BY <2>1
    <3>3. \A j \in Jobs : j # job => shownError'[j] = shownError[j]
      BY <1>1, <2>1 DEF TypeOK
    <3>4. QED
      BY <3>1, <3>2, <3>3
  <2>8. \A j \in Jobs : shownRunning'[j] => running'[j]
    BY <2>1, <2>5
  <2>9. \A v \in Workers : wpc'[v] = "release" => ~shownRunning'[wjob'[v]]
    BY <1>1, <2>1, <2>3, <2>4, <2>5 DEF WorkersHoldJobs
  <2>10. spc' = "put" => shownRunning'[at']
    BY <1>1, <2>1, <2>2, <2>5 DEF TypeOK
  <2>11. \A j \in Jobs : Queued(j)' => shownRunning'[j]
    BY <2>1, <2>2, <2>5
  <2>12. \A v \in Workers :
           wpc'[v] \in {"collect", "record", "report"} => shownRunning'[wjob'[v]]
    BY <1>1, <2>1, <2>2, <2>3, <2>4, <2>5 DEF WorkersHoldJobs
  <2>13. \A v \in Workers : wpc'[v] = "report"
           => (health'[wjob'[v]] = "down" <=> outcome'[v] = "failed")
    BY <2>1, <2>3, <2>4
  <2>14. \A j \in Jobs :
           \/ health'[j] = "down" <=> shownError'[j]
           \/ \E v \in Workers : wpc'[v] = "report" /\ wjob'[v] = j
    BY <2>1, <2>3, <2>6
  <2>15. QED
    BY <2>8, <2>9, <2>10, <2>11, <2>12, <2>13, <2>14
<1>17. ASSUME NEW w \in Workers, Release(w) PROVE StatusInv'
  BY <1>1, <1>17 DEF Release, TypeOK, WorkersHoldJobs, OnePollPerJob
<1>18. ASSUME NEW w \in Workers, Reschedule(w) PROVE StatusInv'
  BY <1>1, <1>18 DEF Reschedule, TypeOK, WorkersHoldJobs
<1>19. CASE Start
  BY <1>1, <1>19 DEF Start, TypeOK, NotStarted
<1>20. CASE StopCalled
  BY <1>1, <1>20 DEF StopCalled, TypeOK
<1>21. CASE JoinScheduler
  BY <1>1, <1>21 DEF JoinScheduler, TypeOK
<1>22. CASE PostSentinel
  <2>2. \A j \in Jobs : Queued(j)' <=> Queued(j)
    BY <1>1, <1>22, SentinelIsNoJob
  <2>3. UNCHANGED <<running, shownRunning, shownError, health, spc, at, wpc, wjob, outcome>>
    BY <1>22 DEF PostSentinel
  <2>4. \A j \in Jobs : Queued(j)' => shownRunning'[j]
    BY <2>2, <2>3
  <2>5. QED
    BY <2>3, <2>4
<1>23. CASE JoinWorkers
  BY <1>1, <1>23 DEF JoinWorkers, TypeOK
<1>24. CASE Tick
  BY <1>1, <1>24 DEF Tick, TypeOK
<1>25. CASE UNCHANGED vars
  BY <1>1, <1>25 DEF vars, TypeOK
<1>26. QED
  BY <1>2, <1>3, <1>4, <1>5, <1>6, <1>7, <1>8, <1>9, <1>10, <1>11, <1>12, <1>13,
     <1>14, <1>15, <1>16, <1>17, <1>18, <1>19, <1>20, <1>21, <1>22, <1>23, <1>24,
     <1>25
     DEF Next, Scheduler, WorkerStep, StopStep

\* An outcome stays with its worker from the call's return to the finally clause.
OutcomesInHand ==
  \A w \in Workers :
    wpc[w] \notin {"record", "report", "release", "reschedule"} => outcome[w] = "none"

LEMMA OutcomesInHandHolds == Spec => []OutcomesInHand
<1>1. Init => OutcomesInHand
  BY DEF Init, OutcomesInHand
<1>2. TypeInv /\ OutcomesInHand /\ [Next]_vars => OutcomesInHand'
  <2> SUFFICES ASSUME TypeOK, NotStarted, OutcomesInHand, [Next]_vars
               PROVE  OutcomesInHand'
    BY DEF TypeInv
  <2> USE DEF OutcomesInHand, workVars
  <2>1. CASE Scheduler
    BY <2>1 DEF Scheduler, LoopCheck, Publish, Consider, Claim, MarkRunning, PutJob
  <2>2. ASSUME NEW w \in Workers, GetJob(w) \/ GetSentinel(w) \/ GetTimesOut(w) \/ AfterEmpty(w)
        PROVE  OutcomesInHand'
    BY <2>2 DEF GetJob, GetSentinel, GetTimesOut, AfterEmpty, TypeOK
  <2>3. ASSUME NEW w \in Workers, RecordFailure(w) \/ RecordSuccess(w) \/ RecordRaises(w)
                                  \/ Report(w) \/ Release(w)
        PROVE  OutcomesInHand'
    <3>1. /\ wpc[w] \in {"record", "report", "release"} /\ UNCHANGED outcome
          /\ \/ wpc' = [wpc EXCEPT ![w] = "report"]
             \/ wpc' = [wpc EXCEPT ![w] = "release"]
             \/ wpc' = [wpc EXCEPT ![w] = "reschedule"]
      BY <2>3 DEF RecordFailure, RecordSuccess, RecordRaises, Report, Release
    <3>2. DOMAIN wpc = Workers
      BY DEF TypeOK
    <3> QED
      BY <3>1, <3>2
  <2>4. ASSUME NEW w \in Workers, Collect(w) \/ Reschedule(w) PROVE OutcomesInHand'
    BY <2>4 DEF Collect, Reschedule, TypeOK
  <2>5. CASE Start \/ StopCalled \/ StopStep \/ Tick \/ UNCHANGED vars
    <3>1. CASE Start
      BY <3>1 DEF Start, NotStarted
    <3>2. CASE StopCalled \/ StopStep \/ Tick \/ UNCHANGED vars
      BY <3>2 DEF StopCalled, StopStep, JoinScheduler, PostSentinel, JoinWorkers, Tick,
                  vars
    <3>3. QED
      BY <2>5, <3>1, <3>2
  <2>6. QED
    BY <2>1, <2>2, <2>3, <2>4, <2>5 DEF Next, WorkerStep
<1>3. IInv => TypeInv
  BY DEF IInv
<1>4. QED
  BY <1>1, <1>2, <1>3, InvariantHolds, PTL DEF Spec

\* A rejection is not forgotten: the outcome stays until the worker dies of it.
LEMMA RejectionsLast ==
  ASSUME TypeOK, NotStarted, OutcomesInHand, NoneRejected', [Next]_vars
  PROVE  NoneRejected
<1> USE DEF NoneRejected, workVars
<1>1. CASE Scheduler
  <2>1. UNCHANGED <<wpc, outcome>>
    BY <1>1 DEF Scheduler, LoopCheck, Publish, Consider, Claim, MarkRunning, PutJob
  <2>2. QED
    BY <2>1
<1>2. ASSUME NEW w \in Workers, WorkerStep(w) PROVE NoneRejected
  <2>1. CASE GetJob(w) \/ GetSentinel(w) \/ GetTimesOut(w) \/ AfterEmpty(w)
    BY <2>1 DEF GetJob, GetSentinel, GetTimesOut, AfterEmpty, TypeOK
  <2>2. CASE RecordFailure(w) \/ RecordSuccess(w) \/ RecordRaises(w) \/ Report(w) \/ Release(w)
    BY <2>2 DEF RecordFailure, RecordSuccess, RecordRaises, Report, Release, TypeOK
  <2>3. CASE Reschedule(w)
    BY <2>3 DEF Reschedule, TypeOK
  <2>4. QED
    BY <1>2, <2>1, <2>2, <2>3 DEF WorkerStep
<1>3. ASSUME NEW w \in Workers, Collect(w) PROVE NoneRejected
  BY <1>3 DEF Collect, TypeOK, OutcomesInHand
<1>4. CASE Start
  BY <1>4 DEF Start, NotStarted
<1>5. CASE StopCalled \/ StopStep \/ Tick \/ UNCHANGED vars
  BY <1>5 DEF StopCalled, StopStep, JoinScheduler, PostSentinel, JoinWorkers, Tick, vars
<1>6. QED
  BY <1>1, <1>2, <1>3, <1>4, <1>5 DEF Next

\* Until a poll is rejected, /status and the metrics tell the truth at every
\* moment. (The run with rejected records shows what follows a rejection.)
THEOREM StatusTellsTheTruth == Spec => []StatusIsTruthful
<1>1. Init => (NoneRejected => StatusInv)
  BY StatusInvInit
<1>2. IInv /\ OutcomesInHand /\ (NoneRejected => StatusInv) /\ [Next]_vars
        => (NoneRejected => StatusInv)'
  BY StatusInvNext, RejectionsLast DEF IInv, TypeInv
<1>3. IInv /\ (NoneRejected => StatusInv) => StatusIsTruthful
  BY DEF IInv, StatusInv, StatusIsTruthful, ClaimIsHeld, Polls
<1>4. QED
  BY <1>1, <1>2, <1>3, InvariantHolds, OutcomesInHandHolds, PTL DEF Spec

-----------------------------------------------------------------------------
(* The engine implements PollCycle.                                        *)

LEMMA CycleInit == Init => Cycle!Init
  BY DEF Init, Cycle!Init, Waiting, PolledBy, Polls

\* A step that moves no job, and one that moves it within the scheduler and
\* the queue, leaves the cycle as it is.
LEMMA CycleStutters ==
  ASSUME UNCHANGED running,
         \A w \in Workers : Polls(w)' <=> Polls(w),
         \A w \in Workers : Polls(w) => wjob'[w] = wjob[w]
  PROVE  UNCHANGED Cycle!cycleVars
<1>1. \A w \in Workers : PolledBy(w)' = PolledBy(w)
  BY DEF PolledBy
<1>2. UNCHANGED Waiting
  BY <1>1 DEF Waiting
<1>3. QED
  BY <1>1, <1>2 DEF Cycle!cycleVars

LEMMA CycleNext == IInv /\ [Next]_vars => [Cycle!Next]_Cycle!cycleVars
<1> SUFFICES ASSUME IInv, [Next]_vars PROVE [Cycle!Next]_Cycle!cycleVars
  OBVIOUS
<1>1. TypeOK /\ WorkersHoldJobs /\ OnePollPerJob /\ ClaimIsHeld
  BY DEF IInv, TypeInv
<1>2. CASE JobsStay
  BY <1>2, CycleStutters DEF JobsStay
<1>3. CASE PutJob
  BY <1>3, CycleStutters DEF PutJob, jobVars, workVars, Polls
<1>4. CASE PostSentinel
  BY <1>4, CycleStutters DEF PostSentinel, jobVars, workVars, Polls
<1>5. ASSUME NEW w \in Workers, GetSentinel(w)
      PROVE  [Cycle!Next]_Cycle!cycleVars
  BY <1>1, <1>5, CycleStutters DEF GetSentinel, jobVars, Polls, TypeOK
<1>6. CASE Claim
  <2>1. CASE running[at]
    BY <1>6, <2>1, CycleStutters DEF Claim, workVars, Polls
  <2>2. CASE ~running[at]
    <3>1. /\ at \in Jobs /\ running' = [running EXCEPT ![at] = TRUE]
          /\ UNCHANGED <<wpc, wjob>>
      BY <1>1, <1>6, <2>2 DEF Claim, workVars, TypeOK
    <3>2. \A w \in Workers : PolledBy(w)' = PolledBy(w) /\ PolledBy(w) # at
      BY <1>1, <2>2, <3>1, PollSchedulerAssumption DEF PolledBy, Polls, ClaimIsHeld
    <3>3. at \notin Waiting /\ Waiting' = Waiting \cup {at}
      BY <1>1, <2>2, <3>1, <3>2 DEF Waiting, TypeOK
    <3>4. Cycle!Request(at)
      BY <3>2, <3>3 DEF Cycle!Request
    <3>5. QED
      BY <3>1, <3>4 DEF Cycle!Next
  <2>3. QED
    BY <2>1, <2>2
<1>7. ASSUME NEW w \in Workers, GetJob(w)
      PROVE  [Cycle!Next]_Cycle!cycleVars
  <2> DEFINE job == Head(queue)
  <2>1. /\ job \in Jobs /\ wpc[w] = "get"
        /\ wpc' = [wpc EXCEPT ![w] = "collect"] /\ wjob' = [wjob EXCEPT ![w] = job]
        /\ UNCHANGED running
    BY <1>1, <1>7, TailElements DEF GetJob, jobVars, TypeOK
  <2>2. Queued(job)
    BY <1>1, <1>7, GetElements DEF GetJob, TypeOK, OnePollPerJob
  <2>3. /\ PolledBy(w) = None /\ PolledBy(w)' = job
        /\ \A v \in Workers : v # w => PolledBy(v)' = PolledBy(v)
    BY <1>1, <2>1 DEF PolledBy, Polls, TypeOK
  <2>4. \A v \in Workers : PolledBy(v) # job
    BY <1>1, <2>1, <2>2, PollSchedulerAssumption DEF PolledBy, OnePollPerJob
  <2>5. job \in Waiting /\ Waiting' = Waiting \ {job}
    BY <1>1, <2>1, <2>2, <2>3, <2>4, PollSchedulerAssumption
       DEF Waiting, ClaimIsHeld
  <2>6. [v \in Workers |-> PolledBy(v)]'
          = [[v \in Workers |-> PolledBy(v)] EXCEPT ![w] = job]
    BY <2>3
  <2>7. Cycle!Begin(w, job)
    BY <2>3, <2>5, <2>6 DEF Cycle!Begin
  <2>8. QED
    BY <2>1, <2>7 DEF Cycle!Next
<1>8. ASSUME NEW w \in Workers, Release(w)
      PROVE  [Cycle!Next]_Cycle!cycleVars
  <2> DEFINE job == wjob[w]
  <2>1. /\ job \in Jobs /\ wpc[w] = "release"
        /\ wpc' = [wpc EXCEPT ![w] = "reschedule"] /\ UNCHANGED wjob
        /\ running' = [running EXCEPT ![job] = FALSE]
    BY <1>1, <1>8 DEF Release, WorkersHoldJobs, Polls
  <2>2. /\ PolledBy(w) = job /\ PolledBy(w)' = None
        /\ \A v \in Workers : v # w => PolledBy(v)' = PolledBy(v)
    BY <1>1, <2>1 DEF PolledBy, Polls, TypeOK
  <2>3. Waiting' = Waiting
    <3>1. \A j \in Jobs : j # job => running'[j] = running[j]
      BY <1>1, <2>1 DEF TypeOK
    <3>2. job \notin Waiting /\ job \notin Waiting'
      BY <1>1, <2>1, <2>2 DEF Waiting, TypeOK
    <3>3. \A j \in Jobs : j # job => (j \in Waiting' <=> j \in Waiting)
      BY <2>1, <2>2, <3>1, PollSchedulerAssumption DEF Waiting
    <3>4. QED
      BY <3>2, <3>3 DEF Waiting
  <2>4. [v \in Workers |-> PolledBy(v)]'
          = [[v \in Workers |-> PolledBy(v)] EXCEPT ![w] = None]
    BY <2>2
  <2>5. Cycle!End(w)
    BY <2>1, <2>2, <2>3, <2>4, PollSchedulerAssumption DEF Cycle!End
  <2>6. QED
    BY <2>5 DEF Cycle!Next
<1>9. QED
  BY <1>2, <1>3, <1>4, <1>5, <1>6, <1>7, <1>8, OtherStepsMoveNoJob
     DEF MovesJobs, IInv

\* The threads, the lock, the queue and stop() together implement the poll
\* cycle: every step of the engine is a step of PollCycle or changes nothing
\* of it.
THEOREM EngineImplementsPollCycle == Spec => ImplementsPollCycle
  BY CycleInit, CycleNext, InvariantHolds, PTL
     DEF Spec, ImplementsPollCycle, Cycle!Spec
=============================================================================
