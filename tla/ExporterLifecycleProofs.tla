---------------------- MODULE ExporterLifecycleProofs ----------------------
(***************************************************************************)
(* Proofs about ExporterLifecycle, for any number of signals.              *)
(***************************************************************************)
EXTENDS ExporterLifecycle, TLAPS

Ended == {"returned", "aborted"}

\* Where stop() of the engine has set its event, and where its joins are over.
Told == InFinally \ {"schedulerStop"}
Joined == Told \ {"engineJoin"}

\* What the main thread's place says of the signals, the engine and the sessions.
Signalled == flag \/ main \in {"except", "returned"} \cup InFinally => interrupts > 0
EngineTold == main \in Told \cup {"returned"} => stopping
EngineJoined == main \in Joined \cup {"returned"} => (scheduler = "running" => timedOut)
ClosedLast == /\ main = "returned" => collector = "closed"
              /\ collector = "closed" => main \in Ended /\ SessionsOutliveEngine

IInv == TypeOK /\ Signalled /\ EngineTold /\ EngineJoined /\ ClosedLast

LEMMA InvInit == Init => IInv
<1> SUFFICES ASSUME Init PROVE IInv
  OBVIOUS
<1>1. interrupts \in 0..MaxInterrupts
  BY LifecycleAssumption DEF Init
<1>2. TypeOK
  BY <1>1 DEF Init, TypeOK, InTry
<1>3. Signalled /\ EngineTold /\ EngineJoined /\ ClosedLast
  BY DEF Init, Signalled, EngineTold, EngineJoined, ClosedLast, Told, Joined, InFinally
<1>4. QED
  BY <1>2, <1>3 DEF IInv

\* Every step of the main thread and the threads beside it keeps the types.
LEMMA TypeStep == TypeOK /\ [Next]_vars => TypeOK'
<1> SUFFICES ASSUME TypeOK, [Next]_vars PROVE TypeOK'
  OBVIOUS
<1> USE DEF TypeOK, At
<1>1. CASE HttpStart
  BY <1>1 DEF HttpStart, engineVars, InTry
<1>2. CASE SchedulerStart
  BY <1>2 DEF SchedulerStart, serverVars, InTry, Waiting
<1>3. CASE WaitStep
  BY <1>3 DEF WaitStep, serverVars, engineVars, InTry, InFinally, Waiting, HoldsLock
<1>4. CASE Except
  BY <1>4 DEF Except, serverVars, engineVars, InFinally
<1>5. CASE SchedulerStop
  BY <1>5 DEF SchedulerStop, serverVars, InFinally
<1>6. CASE JoinEngine
  BY <1>6 DEF JoinEngine, serverVars, InFinally
<1>7. CASE HttpStop
  BY <1>7 DEF HttpStop, serverVars, engineVars, InFinally
<1>8. CASE Shutdown
  BY <1>8 DEF Shutdown, engineVars, InFinally
<1>9. CASE ShutdownDone
  BY <1>9 DEF ShutdownDone, serverVars, engineVars, InFinally
<1>10. CASE ServerClose
  <2>1. stuck' \in BOOLEAN /\ ~stuck' /\ listening' \in BOOLEAN /\ main' \in InFinally
    BY <1>10 DEF ServerClose, InFinally
  <2>2. UNCHANGED <<interrupts, flag, raised, http, asked, ended, scheduler, stopping,
                    timedOut, collector>>
    BY <1>10 DEF ServerClose, engineVars
  <2>3. QED
    BY <2>1, <2>2
<1>11. CASE JoinHttp
  BY <1>11 DEF JoinHttp, serverVars, engineVars, InFinally
<1>12. CASE CloseCollector
  BY <1>12 DEF CloseCollector, serverVars, engineVars
<1>13. CASE FirstInterrupt
  <2>1. interrupts' \in 0..MaxInterrupts
    BY <1>13, LifecycleAssumption DEF FirstInterrupt
  <2>2. stuck' \in BOOLEAN /\ flag' \in BOOLEAN /\ (stuck' => main' \in HoldsLock)
    BY <1>13 DEF FirstInterrupt
  <2>3. UNCHANGED <<main, raised, serverVars, engineVars, collector>>
    BY <1>13 DEF FirstInterrupt
  <2>4. QED
    BY <2>1, <2>2, <2>3 DEF serverVars, engineVars
<1>14. CASE LaterInterrupt
  <2>1. interrupts' \in 0..MaxInterrupts
    BY <1>14, LifecycleAssumption DEF LaterInterrupt
  <2>2. stuck' \in BOOLEAN /\ ~stuck' /\ raised' \in BOOLEAN
    BY <1>14 DEF LaterInterrupt
  <2>3. main' \in InTry \cup {"except"} \cup InFinally \cup {"returned", "aborted"}
    BY <1>14 DEF LaterInterrupt, InFinally
  <2>4. UNCHANGED <<flag, http, listening, asked, ended, scheduler, stopping, timedOut,
                    collector>>
    BY <1>14 DEF LaterInterrupt, serverVars, engineVars
  <2>5. QED
    BY <2>1, <2>2, <2>3, <2>4
<1>15. CASE HttpStep
  <2>1. /\ http' \in {"unstarted", "assigned", "binding", "dead", "bound", "serving",
                      "returned"}
        /\ listening' \in BOOLEAN /\ asked' \in BOOLEAN /\ ended' \in BOOLEAN
    BY <1>15 DEF HttpStep, Bind, BindFails, ServeForever, ServeReturns
  <2>2. UNCHANGED <<main, interrupts, flag, stuck, raised, engineVars, collector>>
    BY <1>15 DEF HttpStep
  <2>3. QED
    BY <2>1, <2>2 DEF engineVars
<1>16. CASE EngineEnds
  BY <1>16 DEF EngineEnds, serverVars
<1>17. CASE UNCHANGED vars
  BY <1>17 DEF vars, serverVars, engineVars
<1>18. QED
  BY <1>1, <1>2, <1>3, <1>4, <1>5, <1>6, <1>7, <1>8, <1>9, <1>10, <1>11, <1>12, <1>13,
     <1>14, <1>15, <1>16, <1>17 DEF Next, MainStep

LEMMA InvStep == IInv /\ [Next]_vars => IInv'
<1> SUFFICES ASSUME IInv, [Next]_vars PROVE IInv'
  OBVIOUS
<1>0. TypeOK' /\ interrupts \in Nat
  BY TypeStep, LifecycleAssumption DEF IInv, TypeOK
<1> SUFFICES (Signalled /\ EngineTold /\ EngineJoined /\ ClosedLast)'
  BY <1>0 DEF IInv
<1> USE <1>0
    DEF IInv, Signalled, EngineTold, EngineJoined, ClosedLast, SessionsOutliveEngine,
        InFinally, Told, Joined, Ended, At
<1>1. CASE HttpStart
  BY <1>1 DEF HttpStart, engineVars
<1>2. CASE SchedulerStart
  BY <1>2 DEF SchedulerStart
<1>3. CASE WaitStep
  BY <1>3 DEF WaitStep, engineVars
<1>4. CASE Except
  BY <1>4 DEF Except, engineVars
<1>5. CASE SchedulerStop
  BY <1>5 DEF SchedulerStop
<1>6. CASE JoinEngine
  BY <1>6 DEF JoinEngine
<1>7. CASE HttpStop
  BY <1>7 DEF HttpStop, engineVars
<1>8. CASE Shutdown
  BY <1>8 DEF Shutdown, engineVars
<1>9. CASE ShutdownDone
  BY <1>9 DEF ShutdownDone, engineVars
<1>10. CASE ServerClose
  BY <1>10 DEF ServerClose, engineVars
<1>11. CASE JoinHttp
  BY <1>11 DEF JoinHttp, engineVars
<1>12. CASE CloseCollector
  BY <1>12 DEF CloseCollector, engineVars
<1>13. CASE FirstInterrupt
  <2>1. interrupts' > 0 /\ UNCHANGED <<main, scheduler, stopping, timedOut, collector>>
    BY <1>13 DEF FirstInterrupt, engineVars
  <2>2. QED
    BY <2>1
<1>14. CASE LaterInterrupt
  <2>1. interrupts' > 0
    BY <1>14 DEF LaterInterrupt
  <2>2. UNCHANGED <<scheduler, stopping, timedOut, collector>>
    BY <1>14 DEF LaterInterrupt, engineVars
  <2>3. main \notin Ended /\ main' \in {"except", "schedulerStop", "aborted"}
    BY <1>14 DEF LaterInterrupt, Exited
  <2>4. QED
    BY <2>1, <2>2, <2>3
<1>15. CASE HttpStep
  BY <1>15 DEF HttpStep, engineVars
<1>16. CASE EngineEnds
  BY <1>16 DEF EngineEnds
<1>17. CASE UNCHANGED vars
  BY <1>17 DEF vars, engineVars
<1>18. QED
  BY <1>1, <1>2, <1>3, <1>4, <1>5, <1>6, <1>7, <1>8, <1>9, <1>10, <1>11, <1>12, <1>13,
     <1>14, <1>15, <1>16, <1>17 DEF Next, MainStep

\* Wherever the signals hit, main() returns only when interrupted and with stop() and close()
\* behind it, and sessions are closed only when the engine was told to stop and its threads
\* have ended or outlived the timed joins of stop().
THEOREM ShutdownIsOrderly == Spec => [](TypeOK /\ ReturnIsClean /\ SessionsOutliveEngine)
<1>1. IInv => TypeOK /\ ReturnIsClean /\ SessionsOutliveEngine
  BY DEF IInv, ReturnIsClean, SessionsOutliveEngine, Signalled, EngineTold, EngineJoined,
         ClosedLast
<1>2. QED
  BY <1>1, InvInit, InvStep, PTL DEF Spec
=============================================================================
