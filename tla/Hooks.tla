------------------------------- MODULE Hooks -------------------------------
(***************************************************************************)
(* A hooked call on its way through minSMT: the interposed function        *)
(* (func_template.cpp) tests the thread's space, the tern_* hook           *)
(* (hooks.cpp) saves errno and crosses into Sys space, RecorderRT          *)
(* (record-runtime.cpp) takes a turn, leaves the run queue or does neither *)
(* and calls the libc function, which is the interposed function again.    *)
(* Two threads share no_child_threads_created and idle_created; the order  *)
(* in which turns are handed out is left to RRScheduler.                   *)
(***************************************************************************)
EXTENDS HookedCalls, Naturals, Sequences

CONSTANTS
  Launch,         \* options::launch_idle_thread
  SingleNonDet,   \* options::non_det_for_single_thread
  Calls,          \* the calls the program makes
  RegionCalls,    \* those it makes inside non-deterministic regions
  FdKinds,        \* what its descriptors are: socket, file, terminal, closed
  CanFail         \* the calls whose libc function fails in this run

VARIABLES
  space,                     \* Space::current_space of each thread
  errno,
  pc,
  stack,                     \* the calls a thread is in, innermost last
  where,                     \* in the run queue, off it, or holding the turn
  inNonDet,
  no_child_threads_created, idle_created,
  want                       \* the errno the program must see

vars == <<space, errno, pc, stack, where, inNonDet, no_child_threads_created,
          idle_created, want>>
globals == <<no_child_threads_created, idle_created>>

Threads == {"main", "child"}
Failures == {"EAGAIN", "EIO"}
MaxDepth == 3                \* nested calls followed

Frame(op, fd) == [op |-> op, fd |-> fd, error |-> "none", how |-> "none"]
top(t) == stack[t][Len(stack[t])]
setTop(t, f) == [stack EXCEPT ![t][Len(stack[t])] = f]
\* Space::enterSys and Space::exitSys, whose assertions SpacesNest states.
cross(s) == IF s = "Sys" THEN "App" ELSE "Sys"
goto(t, l) == pc' = [pc EXCEPT ![t] = l]

\* The program starts in __tern_prog_begin, which creates the idle thread
\* unless options put that off; it ends in App space.
Init ==
  /\ space = [t \in Threads |-> IF t = "main" THEN "App" ELSE "Sys"]
  /\ errno = [t \in Threads |-> "none"]
  /\ want = errno
  /\ pc = [t \in Threads |-> IF t = "main" THEN "app" ELSE "unborn"]
  /\ stack = [t \in Threads |-> <<>>]
  /\ where = [t \in Threads |-> "runq"]
  /\ inNonDet = [t \in Threads |-> FALSE]
  /\ idle_created = (Launch = 1 \/ (Launch # 0 /\ ~SingleNonDet))
  /\ no_child_threads_created = ~idle_created

\* The template's test; code_gen gives pthread_create and pthread_barrier_init
\* the template without it, and annotations do not have it.
recorded(op) ==
  \/ op \in {"pthread_create", "pthread_barrier_init"} \cup Annotations
  \/ ~(SingleNonDet /\ no_child_threads_created)

\* The interposed function: in App space it calls the hook, or the libc
\* function in Sys space; called in Sys space it is the libc function.
interpose(t, f) ==
  /\ Len(stack[t]) < MaxDepth
  /\ stack' = [stack EXCEPT ![t] = Append(@, f)]
  /\ goto(t, IF space[t] = "Sys" THEN "kernel"
             ELSE IF recorded(f.op) THEN "hook" ELSE "orig")

\* The program makes a call, with the errno it has or a cleared one.
Call(t, op, fd, e) ==
  /\ pc[t] = "app"
  /\ op = "non_det_end" => inNonDet[t]
  /\ inNonDet[t] => op \in RegionCalls
  /\ interpose(t, Frame(op, fd))
  /\ errno' = [errno EXCEPT ![t] = e]
  /\ want' = [want EXCEPT ![t] = e]
  /\ UNCHANGED <<space, where, inNonDet, globals>>

\* The unrecorded path: enterSys, the libc function, exitSys.
Orig(t) ==
  /\ pc[t] = "orig"
  /\ space' = [space EXCEPT ![t] = cross(@)]
  /\ goto(t, "kernel")
  /\ stack' = setTop(t, [top(t) EXCEPT !.how = "orig"])
  /\ UNCHANGED <<errno, where, inNonDet, globals, want>>

\* The first half of a hook: int error = errno; Space::enterSys().
hook(t) ==
  /\ pc[t] = "hook"
  /\ stack' = setTop(t, [top(t) EXCEPT !.error = errno[t]])
  /\ space' = [space EXCEPT ![t] = IF top(t).op \in StandardHooks THEN cross(@) ELSE @]
  /\ goto(t, "call")
  /\ UNCHANGED <<errno, where, inNonDet, globals, want>>

\* regularFile: neither a socket nor a fifo.  The fstat of a closed descriptor
\* fails and leaves st as it was, so that the test may go either way.
regularFile(fd) ==
  CASE fd \in {"socket", "fifo"} -> {FALSE}
    [] fd = "closed" -> BOOLEAN
    [] OTHER -> {TRUE}

\* The pattern RecorderRT uses for the call.
pattern(t, op, fd) ==
  IF op \in Unscheduled \/ (op = "non_det_end" /\ inNonDet[t]) THEN {"plain"}
  ELSE IF op \in DirectCalls THEN {"pass"}
  ELSE IF op \in DescriptorCalls
    THEN {IF r THEN "plain" ELSE IF inNonDet[t] THEN "pass" ELSE "block" :
            r \in regularFile(fd)}
  ELSE IF op \in Blocked THEN {IF inNonDet[t] THEN "pass" ELSE "block"}
  ELSE IF inNonDet[t] /\ op \notin NoRegionBranch
    THEN {IF op \in RuntimePasses THEN "pass" ELSE "plain"}
  ELSE {"turn"}

\* A call needs the idle thread first: the first pthread_create.
createsIdle(op) == op = "pthread_create" /\ Launch = 2 /\ ~idle_created

\* Runtime::the->op up to the libc call.  With pattern "turn" the thread takes
\* the turn, with "block" it leaves the run queue; the timers, the log and the
\* statistics may leave anything in errno.
begin(t) ==
  /\ pc[t] = "call"
  /\ LET f == top(t) IN
     IF createsIdle(f.op)
     THEN /\ goto(t, "idle")
          /\ UNCHANGED <<space, errno, stack, where, inNonDet, globals, want>>
     ELSE \E how \in pattern(t, f.op, f.fd) :
            /\ stack' = setTop(t, [f EXCEPT !.how = how])
            /\ where' = [where EXCEPT ![t] =
                           CASE how = "turn" -> "turn" [] how = "block" -> "off"
                             [] OTHER -> @]
            /\ errno' = [errno EXCEPT ![t] =
                           IF how \in {"turn", "block"} THEN "junk" ELSE @]
            /\ no_child_threads_created' =
                 (no_child_threads_created
                  /\ ~(f.op = "pthread_create" /\ (idle_created \/ Launch = 0)))
            /\ goto(t, "libc")
            /\ UNCHANGED <<space, inNonDet, idle_created, want>>

\* RecorderRT calls the libc function, with errno set from error when the
\* pattern does so.  In Sys space this is the function itself; a runtime left
\* in App space would interpose its own call.
libc(t) ==
  /\ pc[t] = "libc"
  /\ LET f == top(t)
         in == f.how \in {"pass", "block"} \/ (f.how = "turn" /\ f.op \in ScheduledKeep)
     IN /\ errno' = [errno EXCEPT ![t] = IF in THEN f.error ELSE @]
        /\ IF f.op \in Unscheduled \ TaskHooks
           THEN /\ goto(t, "end") /\ UNCHANGED stack
           ELSE IF space[t] = "Sys"
           THEN /\ goto(t, "kernel") /\ UNCHANGED stack
           ELSE interpose(t, Frame(IF f.op \in TaskHooks THEN "clock_gettime"
                                   ELSE f.op, f.fd))
  /\ UNCHANGED <<space, where, inNonDet, globals, want>>

\* The libc function returns: it succeeds and leaves errno alone, or fails.
kernel(t, e) ==
  /\ pc[t] = "kernel"
  /\ LET f == top(t)
         out == f.how \in {"pass", "block"} \/ (f.how = "turn" /\ f.op \in ScheduledKeep)
                \/ (f.how = "turn" /\ f.op = "sem_timedwait")
     IN /\ e # "none" => f.op \in CanFail
        /\ f.op = "execv" => e # "none"
        /\ errno' = [errno EXCEPT ![t] = IF e = "none" THEN @ ELSE e]
        /\ want' = [want EXCEPT ![t] =
             IF e = "none" \/ Len(stack[t]) > 1 THEN @ ELSE e]
        /\ stack' = setTop(t, [f EXCEPT !.error =
                      IF ~out \/ (f.op = "sem_timedwait" /\ e = "none") THEN @
                      ELSE errno'[t]])
        /\ goto(t, IF f.op = "fork" /\ f.how = "turn" THEN "forked" ELSE "end")
  /\ UNCHANGED <<space, where, inNonDet, globals>>

\* Fork returns twice.  In the child process only the forking thread exists.
forked(t) ==
  /\ pc[t] = "forked"
  /\ \/ goto(t, "end")
     \/ pc' = [u \in Threads |-> IF u = t THEN "childEnd" ELSE "gone"]
  /\ UNCHANGED <<space, errno, stack, where, inNonDet, globals, want>>

\* The rest of Runtime::the->op: putTurn, or wakeup after a blocked call, with
\* errno saved over it.  A failed execv returns with the turn.  nonDetStart
\* leaves the run queue, nonDetEnd returns to it.  A forked child creates its
\* idle thread.
end(t) ==
  /\ pc[t] \in {"end", "childEnd"}
  /\ LET f == top(t) IN
     /\ where' = [where EXCEPT ![t] =
          CASE f.op = "non_det_start" /\ f.how = "turn" -> "off"
            [] f.op = "execv" /\ f.how = "turn" -> "turn"
            [] f.how \in {"turn", "block"} \/ (f.op = "non_det_end" /\ f.how = "plain") -> "runq"
            [] OTHER -> @]
     /\ inNonDet' = [inNonDet EXCEPT ![t] =
          IF f.how = "orig" THEN @ ELSE (@ \/ f.op = "non_det_start") /\ f.op # "non_det_end"]
     /\ goto(t, IF pc[t] = "childEnd" /\ Launch # 0 THEN "idle"
                ELSE IF f.how \in {"orig", "none"} THEN "return" ELSE "leave")
  /\ UNCHANGED <<space, errno, stack, globals, want>>

\* __tern_sys_create_idle_thread, and its copy in fork: back to App space,
\* initialise idle_mutex, create the thread through the hook, to Sys space.
idleExitSys(t) ==
  /\ pc[t] = "idle"
  /\ space' = [space EXCEPT ![t] = cross(@)]
  /\ idle_created' = TRUE
  /\ goto(t, "idleMutex")
  /\ UNCHANGED <<errno, stack, where, inNonDet, no_child_threads_created, want>>

idleMutex(t) ==
  /\ pc[t] = "idleMutex"
  /\ interpose(t, Frame("pthread_mutex_init", "idle"))
  /\ UNCHANGED <<space, errno, where, inNonDet, globals, want>>

idleCreate(t) ==
  /\ pc[t] = "idleCreate"
  /\ stack' = [stack EXCEPT ![t] = Append(@, Frame("pthread_create", "idle"))]
  /\ goto(t, "hook")
  /\ UNCHANGED <<space, errno, where, inNonDet, globals, want>>

\* Faulty variant: the thread stays in App space.
idleStays(t) ==
  /\ pc[t] = "idleEnterSys"
  /\ goto(t, IF top(t).op = "fork" THEN "leave" ELSE "call")
  /\ UNCHANGED <<space, errno, stack, where, inNonDet, globals, want>>
idleEnterSys(t) ==
  /\ pc[t] = "idleEnterSys"
  /\ space' = [space EXCEPT ![t] = cross(@)]
  /\ goto(t, IF top(t).op = "fork" THEN "leave" ELSE "call")
  /\ UNCHANGED <<errno, stack, where, inNonDet, globals, want>>

\* The second half of a hook: Space::exitSys(); errno = error.
leave(t) ==
  /\ pc[t] = "leave"
  /\ LET op == top(t).op IN
     /\ space' = [space EXCEPT ![t] = IF op \in StandardHooks THEN cross(@) ELSE @]
     /\ errno' = [errno EXCEPT ![t] = IF op \in NoWaitHooks THEN @ ELSE top(t).error]
  /\ goto(t, "return")
  /\ UNCHANGED <<stack, where, inNonDet, globals, want>>

\* Return to the caller: the program, or a call that made this one.  The thread
\* a pthread_create created starts.
return(t) ==
  /\ pc[t] = "return"
  /\ LET f == top(t)
         n == Len(stack[t]) - 1
         out == IF n = 0 THEN "app"
                ELSE IF f.fd # "idle" THEN "end"
                ELSE IF f.op = "pthread_create" THEN "idleEnterSys" ELSE "idleCreate"
         born == f.op = "pthread_create" /\ f.fd # "idle" /\ pc["child"] = "unborn"
     IN /\ stack' = [stack EXCEPT ![t] = SubSeq(@, 1, n)]
        /\ space' = [space EXCEPT ![t] = IF f.how = "orig" THEN cross(@) ELSE @]
        /\ pc' = [u \in Threads |-> IF u = t THEN out
                                    ELSE IF born THEN "begin" ELSE pc[u]]
  /\ UNCHANGED <<errno, where, inNonDet, globals, want>>

\* tern_thread_begin: a thread starts in Sys space and enters App.
threadBegin(t) ==
  /\ pc[t] = "begin"
  /\ space' = [space EXCEPT ![t] = cross(@)]
  /\ goto(t, "app")
  /\ UNCHANGED <<errno, stack, where, inNonDet, globals, want>>

\* pthread_exit, interposed like the rest.  tern_pthread_exit makes the main
\* thread call exit(); any other thread ends in Sys space.  Unrecorded, the
\* last thread's pthread_exit makes libc call exit() in Sys space.
pthreadExit(t) ==
  /\ pc[t] = "app" /\ ~inNonDet[t] /\ where[t] = "runq"
  /\ "pthread_exit" \in Calls \/ t = "child"
  /\ LET rec == recorded("pthread_exit") \/ t = "child" IN
     /\ space' = [space EXCEPT ![t] = IF rec /\ t = "main" THEN @ ELSE cross(@)]
     /\ goto(t, IF t = "main" THEN "exit" ELSE "gone")
  /\ UNCHANGED <<errno, stack, where, inNonDet, globals, want>>

\* main returns: exit() runs __tern_prog_end, in App space.
exit(t) ==
  /\ pc[t] = "app" /\ t = "main"
  /\ goto(t, "exit")
  /\ UNCHANGED <<space, errno, stack, where, inNonDet, globals, want>>

progEnd(t) ==
  /\ pc[t] = "exit"
  /\ space' = [space EXCEPT ![t] = cross(@)]
  /\ pc' = [u \in Threads |-> "gone"]
  /\ UNCHANGED <<errno, stack, where, inNonDet, globals, want>>

Next ==
  \E t \in Threads :
    \/ \E op \in Calls \ {"pthread_exit"} :
         \E fd \in (IF op \in DescriptorCalls THEN FdKinds ELSE {"none"}) :
           \E e \in {errno[t], "none"} : Call(t, op, fd, e)
    \/ Orig(t) \/ hook(t) \/ begin(t) \/ libc(t)
    \/ \E e \in Failures \cup {"none"} : kernel(t, e)
    \/ forked(t) \/ end(t) \/ leave(t) \/ return(t)
    \/ idleExitSys(t) \/ idleMutex(t) \/ idleCreate(t) \/ idleEnterSys(t)
    \/ threadBegin(t) \/ pthreadExit(t) \/ exit(t) \/ progEnd(t)

Spec == Init /\ [][Next]_vars

-----------------------------------------------------------------------------
alive(t) == pc[t] \notin {"unborn", "gone"}

\* The libc functions that wait for something outside the process, or in a
\* region for another thread.
Waits(f) ==
  /\ f.how # "turn"
  /\ \/ f.op \in BlockedSockets \cup BlockedWaits \cup {"select", "epoll_wait", "poll", "sigwait"}
     \/ f.op \in DescriptorCalls /\ f.fd \in {"socket", "fifo", "terminal"}
     \/ f.op \in {"pthread_mutex_lock", "pthread_cond_wait", "sem_wait",
                  "pthread_barrier_wait", "pthread_rwlock_wrlock"}


\* A thread asks for the turn, or for leave from the run queue, only while it
\* is in the run queue and does not hold the turn: neither from a region, nor
\* from a call the runtime itself makes.
TurnAskedFromQueue ==
  \A t \in Threads :
    pc[t] = "call" =>
      \A how \in pattern(t, top(t).op, top(t).fd) :
        how \in {"turn", "block"} => where[t] = "runq"

\* A thread that waits in the kernel while another thread exists is off the
\* run queue, so that the turn does not wait with it.
KernelWaitsOffQueue ==
  \A t \in Threads :
    pc[t] = "kernel" /\ Waits(top(t)) /\ (\E u \in Threads \ {t} : alive(u))
      => where[t] = "off"

\* The assertions on spaces: enterSys runs in App space and exitSys in Sys
\* space, in the hooks, around the creation of the idle thread, at the start
\* of a thread and at the end of the program.
SpacesNest ==
  \A t \in Threads :
    /\ pc[t] \in {"orig", "idleEnterSys", "exit"} => space[t] = "App"
    /\ pc[t] \in {"idle", "begin"} => space[t] = "Sys"
    /\ pc[t] = "hook" /\ top(t).op \in StandardHooks => space[t] = "App"
    /\ pc[t] = "leave" /\ top(t).op \in StandardHooks => space[t] = "Sys"
    /\ pc[t] = "app" => space[t] = "App"

\* A thread makes unrecorded calls only while it is the only thread.
UnrecordedAlone ==
  \A t \in Threads :
    pc[t] = "orig" \/ (pc[t] = "kernel" /\ top(t).how = "orig")
      => \A u \in Threads \ {t} : ~alive(u)
=============================================================================
