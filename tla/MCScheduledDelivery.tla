------------------------ MODULE MCScheduledDelivery ------------------------
(***************************************************************************)
(* Delivery on small instances.  MCScheduledDelivery.cfg: an interval that *)
(* triggers a graph and a deferred turn that waits for an event.           *)
(* MCScheduledDeferred.cfg: a one-shot prompt instead of the interval.     *)
(***************************************************************************)
EXTENDS ScheduledDelivery
=============================================================================
