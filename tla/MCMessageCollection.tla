------------------------- MODULE MCMessageCollection -------------------------
(* A small instance of MessageCollection: an accounting queue, an event queue and *)
(* two subscriptions, one of which publishes changing values.                     *)
EXTENDS MessageCollection

MCValues == <<{"v1", "v2"}, {"v1"}>>
=============================================================================
