------------------------- MODULE ExporterLifecycle -------------------------
(***************************************************************************)
(* The life of the exporter process: main() with its signal handler, the   *)
(* thread of the HTTP server, and the shutdown in main()'s finally clause. *)
(*                                                                         *)
(* Python runs a signal handler in the main thread, between any two of its *)
(* steps. threading.Event guards its flag with a lock that is not          *)
(* reentrant; wait() holds it except while it sleeps, set() takes it. The  *)
(* server is the library's socketserver: shutdown() asks the serving loop  *)
(* to end and waits until it has. Of the polling engine the model keeps    *)
(* how far its start has come and that its threads end at some time after  *)
(* they were told to, if they do: its steps are the subject of             *)
(* PollScheduler, those of collector.close() of CollectorSession.          *)
(***************************************************************************)
EXTENDS Naturals

CONSTANTS
  MaxInterrupts  \* bound: signals sent to the process

ASSUME LifecycleAssumption == MaxInterrupts \in Nat

VARIABLES
  main,        \* main thread: program counter
  interrupts,  \* interrupt_count
  flag,        \* stop_event is set
  stuck,       \* the handler, in the main thread, waits for stop_event's lock
  raised,      \* an exception that left the except clause is pending
  http,        \* HTTP thread: how far it is
  listening,   \* the server's socket accepts connections
  asked,       \* the server's __shutdown_request
  ended,       \* the server's __is_shut_down
  scheduler,   \* the engine's threads
  stopping,    \* the engine's _stop is set
  timedOut,    \* history: stop() has given up on a thread of the engine
  collector    \* the collector's sessions

serverVars == <<http, listening, asked, ended>>
engineVars == <<scheduler, stopping, timedOut>>
vars == <<main, interrupts, flag, stuck, raised, serverVars, engineVars, collector>>

Init ==
  /\ main = "httpStart"
  /\ interrupts = 0
  /\ flag = FALSE /\ stuck = FALSE /\ raised = FALSE
  /\ http = "unstarted" /\ listening = FALSE /\ asked = FALSE /\ ended = FALSE
  /\ scheduler = "off" /\ stopping = FALSE /\ timedOut = FALSE
  /\ collector = "open"

HoldsLock == {"locked", "relocked"}
Waiting == {"check", "asleep"} \cup HoldsLock
InTry == {"httpStart", "httpRun", "startWorkers", "schedulerStart", "schedulerRun"}
           \cup Waiting
InFinally == {"schedulerStop", "engineJoin", "httpStop", "shutdown", "shutdownWait",
              "serverClose", "join", "close"}
Exited == main \in {"returned", "aborted"}

\* The main thread's own steps wait while the handler sits in one of them.
At(label) == main = label /\ ~stuck

-----------------------------------------------------------------------------
(* main()                                                                  *)

\* A thread is assigned to its field first and started then; what is interrupted in
\* between is a thread that cannot be joined.
HttpStart ==
  /\ \/ /\ At("httpStart") /\ http' = "assigned" /\ main' = "httpRun"
     \/ /\ At("httpRun") /\ http' = "binding" /\ main' = "startWorkers"
  /\ UNCHANGED <<interrupts, flag, stuck, raised, listening, asked, ended, engineVars,
                 collector>>

\* The workers first; nothing is queued for them before the scheduler thread runs.
SchedulerStart ==
  /\ \/ At("startWorkers") /\ scheduler' = "workers" /\ main' = "schedulerStart"
     \/ At("schedulerStart") /\ scheduler' = "assigned" /\ main' = "schedulerRun"
     \/ At("schedulerRun") /\ scheduler' = "running" /\ main' = "check"
  /\ UNCHANGED <<interrupts, flag, stuck, raised, serverVars, stopping, timedOut, collector>>

\* stop_event.wait(timeout=0.5) and the loop around it.
WaitStep ==
  /\ \/ At("check") /\ main' = "locked"
     \/ At("locked") /\ main' = IF flag THEN "schedulerStop" ELSE "asleep"
     \/ At("asleep") /\ main' = "relocked"
     \/ At("relocked") /\ main' = IF flag THEN "schedulerStop" ELSE "check"
  /\ UNCHANGED <<interrupts, flag, stuck, raised, serverVars, engineVars, collector>>

Except ==
  /\ At("except")
  /\ flag' = TRUE
  /\ main' = "schedulerStop"
  /\ UNCHANGED <<interrupts, stuck, raised, serverVars, engineVars, collector>>

SchedulerStop ==
  /\ At("schedulerStop")
  /\ stopping' = TRUE
  /\ main' = "engineJoin"
  /\ UNCHANGED <<interrupts, flag, stuck, raised, serverVars, scheduler, timedOut, collector>>

\* Each join returns when its thread has ended or its time is over. Joining a thread that
\* was never started is an error, which leaves the finally clause.
JoinEngine ==
  /\ At("engineJoin")
  /\ main' = IF scheduler = "assigned" THEN "aborted" ELSE "httpStop"
  /\ timedOut' = (scheduler = "running")
  /\ UNCHANGED <<interrupts, flag, stuck, raised, serverVars, scheduler, stopping, collector>>

\* stop() looks at _server once; the serving thread may set it later.
HttpStop ==
  /\ At("httpStop")
  /\ main' = IF http \in {"unstarted", "assigned", "binding", "dead"} THEN "join" ELSE "shutdown"
  /\ UNCHANGED <<interrupts, flag, stuck, raised, serverVars, engineVars, collector>>

Shutdown ==
  /\ At("shutdown")
  /\ asked' = TRUE
  /\ main' = "shutdownWait"
  /\ UNCHANGED <<interrupts, flag, stuck, raised, http, listening, ended, engineVars,
                 collector>>

ShutdownDone ==
  /\ At("shutdownWait") /\ ended
  /\ main' = "serverClose"
  /\ UNCHANGED <<interrupts, flag, stuck, raised, serverVars, engineVars, collector>>

ServerClose ==
  /\ At("serverClose")
  /\ listening' = FALSE
  /\ main' = "join"
  /\ UNCHANGED <<interrupts, flag, stuck, raised, http, asked, ended, engineVars,
                 collector>>

JoinForever ==                                       \* mutant: join without timeout
  /\ At("join")
  /\ http \in {"unstarted", "dead", "returned"}
  /\ main' = "close"
  /\ UNCHANGED <<interrupts, flag, stuck, raised, serverVars, engineVars, collector>>

\* The thread has ended or the five seconds are over; or it was never started.
JoinHttp ==
  /\ At("join")
  /\ main' = IF http = "assigned" THEN "aborted" ELSE "close"
  /\ UNCHANGED <<interrupts, flag, stuck, raised, serverVars, engineVars, collector>>

CloseCollector ==
  /\ At("close")
  /\ collector' = "closed"
  /\ main' = IF raised THEN "aborted" ELSE "returned"
  /\ UNCHANGED <<interrupts, flag, stuck, raised, serverVars, engineVars>>

-----------------------------------------------------------------------------
(* _stop(), the handler of SIGINT and SIGTERM.                             *)

HoldsWhileAsleep ==          \* mutant: the event's lock is kept while wait() sleeps
  /\ ~Exited /\ interrupts = 0 /\ interrupts < MaxInterrupts
  /\ interrupts' = 1
  /\ IF main \in HoldsLock \cup {"asleep"} THEN stuck' = TRUE /\ UNCHANGED flag
                                          ELSE flag' = TRUE /\ UNCHANGED stuck
  /\ UNCHANGED <<main, raised, serverVars, engineVars, collector>>

\* The first interrupt sets stop_event: with the main thread in wait() and its
\* lock taken, set() waits for a lock its own thread holds.
FirstInterrupt ==
  /\ ~Exited /\ interrupts = 0 /\ interrupts < MaxInterrupts
  /\ interrupts' = 1
  /\ IF main \in HoldsLock THEN stuck' = TRUE /\ UNCHANGED flag
                           ELSE flag' = TRUE /\ UNCHANGED stuck
  /\ UNCHANGED <<main, raised, serverVars, engineVars, collector>>

ClosesAnyway ==     \* mutant: close() in a finally clause of its own, stop() unfinished
  /\ ~Exited /\ interrupts > 0 /\ interrupts < MaxInterrupts
  /\ interrupts' = interrupts + 1
  /\ stuck' = FALSE
  /\ \/ main \in InTry /\ main' = "except" /\ UNCHANGED raised
     \/ main = "except" /\ main' = "schedulerStop" /\ raised' = TRUE
     \/ main \in InFinally /\ main' = "close" /\ raised' = TRUE
  /\ UNCHANGED <<flag, serverVars, engineVars, collector>>

OnlyCounts ==                            \* mutant: logged, not raised
  /\ ~Exited /\ interrupts > 0 /\ interrupts < MaxInterrupts
  /\ interrupts' = interrupts + 1
  /\ UNCHANGED <<main, flag, stuck, raised, serverVars, engineVars, collector>>

ExitAtOnce ==                             \* mutant: os._exit in place of the exception
  /\ ~Exited /\ interrupts > 0 /\ interrupts < MaxInterrupts
  /\ interrupts' = interrupts + 1
  /\ stuck' = FALSE
  /\ main' = "returned"
  /\ UNCHANGED <<flag, raised, serverVars, engineVars, collector>>

\* Every later one raises KeyboardInterrupt wherever the main thread is, a lock
\* it waits for included; the with statements on the way release their locks.
LaterInterrupt ==
  /\ ~Exited /\ interrupts > 0 /\ interrupts < MaxInterrupts
  /\ interrupts' = interrupts + 1
  /\ stuck' = FALSE
  /\ \/ main \in InTry /\ main' = "except" /\ UNCHANGED raised
     \/ main = "except" /\ main' = "schedulerStop" /\ raised' = TRUE
     \/ main \in InFinally /\ main' = "aborted" /\ UNCHANGED raised
  /\ UNCHANGED <<flag, serverVars, engineVars, collector>>

-----------------------------------------------------------------------------
(* The other threads.                                                      *)

Bind ==
  /\ http = "binding"
  /\ http' = "bound" /\ listening' = TRUE
  /\ UNCHANGED <<asked, ended>>

\* The address is in use: the exception ends the thread and nothing else.
BindFails ==
  /\ http = "binding"
  /\ http' = "dead"
  /\ UNCHANGED <<listening, asked, ended>>

ServeForever ==
  /\ http = "bound"
  /\ http' = "serving" /\ ended' = FALSE
  /\ UNCHANGED <<listening, asked>>

ServeReturns ==
  /\ http = "serving" /\ asked
  /\ http' = "returned" /\ asked' = FALSE /\ ended' = TRUE
  /\ UNCHANGED listening

\* A daemon thread: it ends with the process.
HttpStep ==
  /\ ~Exited
  /\ Bind \/ BindFails \/ ServeForever \/ ServeReturns
  /\ UNCHANGED <<main, interrupts, flag, stuck, raised, engineVars, collector>>

\* The engine's threads end some time after they were told to, when no poll hangs.
EngineEnds ==
  /\ ~Exited
  /\ stopping /\ scheduler \in {"workers", "running"}
  /\ scheduler' = "ended"
  /\ UNCHANGED <<main, interrupts, flag, stuck, raised, serverVars, stopping, timedOut,
                 collector>>

-----------------------------------------------------------------------------
MainStep ==
  \/ HttpStart \/ SchedulerStart \/ WaitStep \/ Except \/ SchedulerStop \/ JoinEngine
  \/ HttpStop \/ Shutdown \/ ShutdownDone \/ ServerClose \/ JoinHttp \/ CloseCollector

Next == MainStep \/ FirstInterrupt \/ LaterInterrupt \/ HttpStep \/ EngineEnds

Spec == Init /\ [][Next]_vars

\* Both threads run; nobody has to send a signal, and no thread of the engine has to end.
LiveSpec == Spec /\ WF_vars(MainStep) /\ WF_vars(HttpStep)

-----------------------------------------------------------------------------
(* Properties.                                                             *)

\* Every variable keeps its type, and the handler waits for the event's lock only where
\* wait() has it.
TypeOK ==
  /\ main \in InTry \cup {"except"} \cup InFinally \cup {"returned", "aborted"}
  /\ interrupts \in 0..MaxInterrupts
  /\ flag \in BOOLEAN /\ stuck \in BOOLEAN /\ (stuck => main \in HoldsLock)
  /\ raised \in BOOLEAN
  /\ http \in {"unstarted", "assigned", "binding", "dead", "bound", "serving", "returned"}
  /\ listening \in BOOLEAN /\ asked \in BOOLEAN /\ ended \in BOOLEAN
  /\ scheduler \in {"off", "workers", "assigned", "running", "ended"}
  /\ stopping \in BOOLEAN /\ timedOut \in BOOLEAN
  /\ collector \in {"open", "closed"}

\* main() returns only when it was interrupted, and then stop() and close() have run to
\* their ends and the server listens no more, unless it was still starting when it was to be
\* closed, wherever the interrupts hit; the exit code is 130.
ReturnIsClean ==
  main = "returned" =>
    /\ interrupts > 0
    /\ stopping /\ collector = "closed"

\* The sessions are closed only when the engine was told to stop and its threads have
\* ended or outlived the joins of stop(), also when interrupts hit the start or the joins
\* themselves. Those that outlive the joins may still poll, and start further polls, with
\* the sessions closed: what becomes of them CollectorSession says.
SessionsOutliveEngine ==
  collector = "closed" => stopping /\ (scheduler = "running" => timedOut)

\* Once stop_event is set, the process ends without a further signal.
StopEventEndsProcess == flag ~> Exited

\* Whatever the first interrupt led to, a second one ends the process.
SecondInterruptEndsProcess == interrupts > 1 ~> Exited

\* The first interrupt starts the shutdown: the process ends without a second.
FirstInterruptSuffices == interrupts > 0 ~> Exited
=============================================================================
