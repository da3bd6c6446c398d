------------------------ MODULE MCRRSchedulerProofs ------------------------
(* The inductive invariant, for TLC. *)
EXTENDS RRSchedulerMutex

RoleOf(t) == IF t = IdleThreadTid THEN "idle" ELSE "app"
=============================================================================
