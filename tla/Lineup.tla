------------------------------- MODULE Lineup -------------------------------
(***************************************************************************)
(* Soft barriers: tern_lineup_start and tern_lineup_end.  Threads line up  *)
(* until count of them are active or the wait of one of them times out;    *)
(* then the lineup is leaving until the last active thread has ended.      *)
(***************************************************************************)
EXTENDS TurnOps

CONSTANTS
  Count,      \* count and timeout of the lineup, from tern_lineup_init
  Timeout

LineupAssumption == Count \in Nat \ {0} /\ Timeout \in Nat

VARIABLES
  sched,
  pc,         \* app, in: between start and end, wait: in lineupStart
  exists,     \* whether the lineup is in the map refcnt_bars
  nactive,
  phase       \* arriving or leaving

vars == <<sched, pc, exists, nactive, phase>>

Bar == "bar"

Init ==
  /\ sched \in {Scheduler(<<Idle>> \o p) : p \in SetToSeqs(Threads)}
  /\ pc = [t \in Threads |-> "app"]
  /\ exists = FALSE /\ nactive = 0 /\ phase = "arriving"

Goto(t, l) == pc' = [pc EXCEPT ![t] = l]
Starts(t, l) == HasTurn(sched, t) /\ pc[t] = l

lineupInit(t) ==
  /\ Starts(t, "app") /\ ~exists
  /\ exists' = TRUE /\ nactive' = 0 /\ phase' = "arriving"
  /\ sched' = End(sched, t, FALSE)
  /\ UNCHANGED pc

\* The application destroys a lineup that nobody is in.
lineupDestroy(t) ==
  /\ Starts(t, "app") /\ exists /\ \A u \in Threads : pc[u] = "app"
  /\ exists' = FALSE /\ nactive' = 0 /\ phase' = "arriving"
  /\ sched' = End(sched, t, FALSE)
  /\ UNCHANGED pc

\* The last to arrive releases everyone; one that finds the lineup leaving goes on.
lineupStart(t) ==
  /\ Starts(t, "app") /\ exists
  /\ nactive' = nactive + 1
  /\ \/ /\ nactive + 1 = Count /\ phase = "arriving"
        /\ phase' = "leaving"
        /\ sched' = End(signal(sched, Bar, TRUE), t, FALSE)
        /\ Goto(t, "in")
     \/ /\ phase = "leaving"
        /\ sched' = End(sched, t, FALSE)
        /\ Goto(t, "in")
        /\ UNCHANGED phase
     \/ /\ nactive + 1 # Count /\ phase = "arriving"
        /\ sched' = wait(Arm(sched, t, Timeout), t, Bar)
        /\ Goto(t, "wait")
        /\ UNCHANGED phase
  /\ UNCHANGED exists

\* Faulty variant: after a timeout the other waiters are left to time out too.
lineupStartResumeAlone(t) ==
  /\ Starts(t, "wait")
  /\ phase' = IF nactive < Count THEN "leaving" ELSE phase
  /\ sched' = End(sched, t, FALSE)
  /\ Goto(t, "in")
  /\ UNCHANGED <<exists, nactive>>

\* After the wait: released, or timed out with the lineup still arriving.
lineupStartResume(t) ==
  LET timeout == nactive < Count /\ phase = "arriving"
  IN  /\ Starts(t, "wait")
      /\ phase' = IF timeout THEN "leaving" ELSE phase
      /\ sched' = End(IF timeout THEN signal(sched, Bar, TRUE) ELSE sched, t, FALSE)
      /\ Goto(t, "in")
      /\ UNCHANGED <<exists, nactive>>

lineupEnd(t) ==
  /\ Starts(t, "in")
  /\ nactive' = nactive - 1
  /\ phase' = IF nactive' = 0 /\ phase = "leaving" THEN "arriving" ELSE phase
  /\ sched' = End(sched, t, FALSE)
  /\ Goto(t, "app")
  /\ UNCHANGED exists

other(t) ==
  /\ HasTurn(sched, t) /\ pc[t] # "wait"
  /\ sched' = End(sched, t, FALSE)
  /\ UNCHANGED <<pc, exists, nactive, phase>>

idle == /\ HasTurn(sched, Idle)
        /\ sched' = IdleTurn(sched)
        /\ UNCHANGED <<pc, exists, nactive, phase>>

Next ==
  \/ idle
  \/ \E t \in Threads :
       \/ lineupInit(t) \/ lineupDestroy(t) \/ lineupStart(t)
       \/ lineupStartResume(t) \/ lineupEnd(t) \/ other(t)

Spec == Init /\ [][Next]_vars

-----------------------------------------------------------------------------
\* Nobody sleeps through the release: when the last arrival and the timeout of a
\* waiter race, whichever comes first wakes all the waiters, and whoever arrives
\* later goes straight on.
WaitersAreArriving == Waiters(sched, Bar) # <<>> => phase = "arriving"

\* The lineup counts each thread between its start and its end once, and is leaving
\* only while some are: it opens again exactly when the last has ended.
LeavingWhileActive ==
  /\ nactive = Cardinality({t \in Threads : pc[t] # "app"})
  /\ phase = "leaving" => nactive > 0

\* Once count threads are lined up nobody is held: a full lineup is never arriving.
FullIsReleased == nactive >= Count => phase = "leaving"
=============================================================================
