---------------------------- MODULE MCReleaseFlusher ----------------------------
(* ReleaseFlusher for TLC; the instances are in ReleaseFlusher_delivery.cfg. *)
EXTENDS ReleaseFlusher
=============================================================================
