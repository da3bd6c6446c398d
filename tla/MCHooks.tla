------------------------------ MODULE MCHooks ------------------------------
(***************************************************************************)
(* Hooked calls for TLC. In part calls one thread makes every call, with   *)
(* every outcome, while the idle thread exists; in part threads two        *)
(* threads make one call of each pattern, and the first calls are not      *)
(* recorded (non_det_for_single_thread).                                   *)
(***************************************************************************)
EXTENDS HookedCalls

VARIABLES part, space, errno, pc, stack, where, inNonDet, no_child_threads_created,
          idle_created, want

state == <<space, errno, pc, stack, where, inNonDet, no_child_threads_created,
           idle_created, want>>

vars == <<part, state>>

\* The calls whose libc function reports its failure in errno and whose
\* failure RecorderRT supports.
Failing == Blocked \cup DescriptorCalls \cup DirectCalls \cup {"sem_trywait", "sem_timedwait"}

\* Every hooked call but the ones that create threads or processes.
AllCalls ==
  (StandardHooks \cup TaskHooks)
    \ {"pthread_create", "fork", "execv", "non_det_barrier_end", "non_det_start", "non_det_end"}

\* One call of each pattern, and those that start and end threads.
ThreadCalls ==
  {"pthread_create", "fork", "pthread_mutex_lock", "sem_trywait", "accept",
   "read", "clock_gettime", "mark_task_start", "non_det_start", "non_det_end"}

\* Those a region may hold: the others take a turn whatever inNonDet says.
ThreadRegionCalls == ThreadCalls \ (NoRegionBranch \cup {"non_det_start"})

AllOf == INSTANCE Hooks WITH
  Launch <- 2, SingleNonDet <- FALSE, Calls <- AllCalls, RegionCalls <- {},
  FdKinds <- {"socket", "fifo"}, CanFail <- Failing

Threaded == INSTANCE Hooks WITH
  Launch <- 2, SingleNonDet <- TRUE, Calls <- ThreadCalls,
  RegionCalls <- ThreadRegionCalls, FdKinds <- {"socket", "file"},
  CanFail <- {"accept"}

-----------------------------------------------------------------------------
Init ==
  \/ part = "calls" /\ AllOf!Init
  \/ part = "threads" /\ Threaded!Init

HookStep ==
  /\ \/ part = "calls" /\ AllOf!Next
     \/ part = "threads" /\ Threaded!Next
  /\ UNCHANGED part

Next == HookStep

Spec == Init /\ [][Next]_vars

-----------------------------------------------------------------------------

\* Space: enterSys runs in App space and exitSys in Sys space, in the hooks,
\* around the creation of the idle thread, at the start of a thread and at the
\* end of the program.
SpacesNest == part = "threads" => Threaded!SpacesNest

=============================================================================
