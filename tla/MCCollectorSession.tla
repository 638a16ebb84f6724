------------------------- MODULE MCCollectorSession -------------------------
(* Instances of CollectorSession: one queue manager with a system-topic stream,  *)
(* one without, both with a channel or both without; handles enough for a session *)
(* in use beside one that is being released.                                     *)
EXTENDS CollectorSession

MCOwner == <<"qm1", "qm1", "qm1", "qm2", "qm2", "w1", "w1", "w2", "w2">>
MCLocals == {{}, QMs}
=============================================================================
