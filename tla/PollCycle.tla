----------------------------- MODULE PollCycle -----------------------------
(***************************************************************************)
(* What the polling engine promises, without threads, locks or a queue:    *)
(* a queue manager is idle, waiting, or polled in one slot of a bounded    *)
(* pool; it never waits or is polled twice over, a poll starts only for    *)
(* one that waits, and none that waits is forgotten.                       *)
(***************************************************************************)
CONSTANTS
  Jobs,   \* queue managers
  Slots,  \* the pool: at most one poll per slot at a time
  Empty   \* content of a slot with no poll

VARIABLES waiting, slot
cycleVars == <<waiting, slot>>

Init ==
  /\ waiting = {}
  /\ slot = [s \in Slots |-> Empty]

Request(j) ==
  /\ j \notin waiting
  /\ \A s \in Slots : slot[s] # j
  /\ waiting' = waiting \cup {j}
  /\ UNCHANGED slot

Begin(s, j) ==
  /\ j \in waiting
  /\ slot[s] = Empty
  /\ slot' = [slot EXCEPT ![s] = j]
  /\ waiting' = waiting \ {j}

End(s) ==
  /\ slot[s] # Empty
  /\ slot' = [slot EXCEPT ![s] = Empty]
  /\ UNCHANGED waiting

Next ==
  \/ \E j \in Jobs : Request(j)
  \/ \E s \in Slots, j \in Jobs : Begin(s, j)
  \/ \E s \in Slots : End(s)

Spec == Init /\ [][Next]_cycleVars
=============================================================================
