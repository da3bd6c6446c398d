--------------------------- MODULE MCRRScheduler ---------------------------
EXTENDS RRScheduler

\* The idle thread has a role of its own, all others share theirs.
RoleOf(t) == IF t = IdleThreadTid THEN "idle" ELSE "app"
=============================================================================
