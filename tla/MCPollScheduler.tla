-------------------------- MODULE MCPollScheduler --------------------------
(* For TLC: two queue managers, one polled without pause and one with an    *)
(* interval; or three, one more than there are workers, polled without      *)
(* pause.                                                                   *)
EXTENDS PollScheduler, TLC

MCInterval == <<0, 1>>
MCNoPause == <<0, 0, 0>>
MCSymmetry == Permutations(Workers)
=============================================================================
