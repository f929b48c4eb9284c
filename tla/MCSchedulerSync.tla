---------------------------- MODULE MCSchedulerSync ----------------------------
(* Small instances of SchedulerSync for TLC.                               *)
EXTENDS SchedulerSync

AnyRecord == 0..2
=============================================================================
